---------------------------- MODULE MCResolution ----------------------------
(* The two algorithms that resolution rests on, in one run.                  *)
(* The scan: every requirement over components 0..2 (2 is the largest int),  *)
(* against every list of up to two versions.  The traversal: every graph of  *)
(* the directories, beside one empty scan, as neither looks at the state of  *)
(* the other.                                                                *)
EXTENDS VersionPick, DepGraph

MCLists == UNION {[1..n -> Version] : n \in 0..2}
MCReqs == Requirement
MCReq == CHOOSE r \in MCReqs : TRUE

ResolutionVars == <<vars, pickVars>>

ResolutionInit == PickInit /\ Init

Scan == phase = "idle" /\ PickNext /\ UNCHANGED vars
Walk(Step) == available = <<>> /\ req = MCReq /\ Step /\ UNCHANGED pickVars

ResolutionNext == Scan \/ Walk(Next)

ResolutionSpec ==
    /\ ResolutionInit
    /\ [][ResolutionNext]_ResolutionVars
    /\ WF_ResolutionVars(Walk(Visit))
=============================================================================

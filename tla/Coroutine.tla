------------------------------- MODULE Coroutine -------------------------------
(* TASK and GENERATOR at run time (runtime/coroutine.hpp): the frames of the *)
(* coroutines a program has called, the variables that own them, and which   *)
(* of them is running.  The program is the main one, which may do anything   *)
(* Sema accepts, and the bodies of Async procedures, each of which calls and *)
(* uses only what it names.                                                  *)
EXTENDS Naturals

CONSTANTS
    Procs,      \* the Async procedures
    Shape,      \* [Procs -> {"task", "generator"}]
    Vars,       \* TASK and GENERATOR variables
    Holds,      \* [Vars -> the procedures whose results are assigned to it]
    Calls,      \* [Procs -> the procedures its body calls]
    Touches,    \* [Procs -> the variables it uses, or what it calls, or
                \*           what it resumes, and so on]
    Frames,     \* room for coroutine frames
    MaxYields,  \* a generator yields that often at most
    Main, Null, Next, Drop, Await

ASSUME ShapeAssumption == Procs # {} /\ Shape \in [Procs -> {"task", "generator"}]

ASSUME TouchesAssumption ==
    /\ Touches \in [Procs -> SUBSET Vars]
    /\ Calls \in [Procs -> SUBSET Procs]
    /\ Holds \in [Vars -> SUBSET Procs]
    /\ \A p \in Procs : \A q \in Calls[p] : Touches[q] \subseteq Touches[p]
    /\ \A p \in Procs : \A v \in Touches[p] : \A q \in Holds[v] :
          Touches[q] \subseteq Touches[p]

\* No body gets at a variable its own coroutine may be in: what the
\* programmer has to see to, as nothing checks it.
ASSUME ApartAssumption ==
    \A v \in Vars : \A p \in Holds[v] : v \notin Touches[p]

ASSUME NamesAssumption ==
    /\ Main \notin Frames /\ Null \notin Frames
    /\ {Next, Drop, Await} \cap Vars = {}
    /\ Next # Drop /\ Next # Await /\ Drop # Await

ASSUME YieldsAssumption == MaxYields \in Nat

VARIABLES
    frame,      \* [Frames -> a coroutine frame, or NoFrame]
    holder,     \* [Vars -> the frame of its handle, or Null]
    top,        \* who is running
    state       \* going, unwinding, ended, or how the program broke: it
                \* used an empty handle, a running frame, or waits for ever

vars == <<frame, holder, top, state>>

(* A frame: at, free, running, suspended or final; proc, whose body it is;   *)
(* while it runs, caller, who called or resumed it, depth, how many frames   *)
(* run with it, and into, what becomes of its object when it gives control   *)
(* back - Next for MoveNext, which leaves it where it is; thrown, whether    *)
(* promise.exception is set; yields, the values yielded; told, how often     *)
(* MoveNext has said there is one.                                           *)
Resting(p, where) ==
    [at |-> where, proc |-> p, caller |-> Main, depth |-> 0, into |-> Next,
     thrown |-> FALSE, yields |-> 0, told |-> 0]

NoFrame == Resting(CHOOSE p \in Procs : TRUE, "free")

Init ==
    /\ frame = [f \in Frames |-> NoFrame]
    /\ holder = [v \in Vars |-> Null]
    /\ top = Main
    /\ state = "going"
-----------------------------------------------------------------------------
Uses(v) == top # Main => v \in Touches[frame[top].proc]

May(p) == top # Main => p \in Calls[frame[top].proc]

Above == IF top = Main THEN 1 ELSE frame[top].depth + 1

\* Mutant: operator= keeps the frame it had.
KeepOld(fs, v) == fs

\* The frame a variable's handle has goes when another is moved in, and when
\* the variable's scope ends.
Destroy(fs, v) ==
    IF holder[v] = Null THEN fs ELSE [fs EXCEPT ![holder[v]] = NoFrame]

Occupied(v) == holder[v] # Null /\ frame[holder[v]].at = "running"

\* operator=(Task&&), operator=(Generator&&): the object of f, which is r by
\* now, moves into v.
Assign(v, f, r) ==
    /\ frame' = Destroy([frame EXCEPT ![f] = r], v)
    /\ holder' = [holder EXCEPT ![v] = f]
    /\ state' = IF Occupied(v) THEN "running" ELSE "going"

\* Mutant: nothing runs before it is asked for.
StartsLazily(p) == FALSE

\* Mutant: everything runs at once.
StartsEagerly(p) == TRUE

\* initial_suspend: suspend_never for a task, suspend_always for a generator.
Starts(p) == Shape[p] = "task"

\* f runs from here on, until it gives control back.
Resume(f, r, use) ==
    /\ frame' = [frame EXCEPT ![f] =
                   [r EXCEPT !.at = "running", !.caller = top,
                             !.depth = Above, !.into = use]]
    /\ top' = f
    /\ UNCHANGED <<holder, state>>

\* p is called in a new frame; its object goes into a variable, is dropped
\* at the end of the statement, or is awaited.
Call(p, f, use) ==
    /\ state = "going" /\ May(p) /\ frame[f].at = "free"
    /\ \/ use \in Vars /\ p \in Holds[use] /\ Uses(use)
       \/ use = Drop /\ Shape[p] = "task"
       \/ use = Await /\ Shape[p] = "task" /\ top # Main
    /\ IF Starts(p)
       THEN Resume(f, Resting(p, "running"), use)
       ELSE /\ use \in Vars
            /\ Assign(use, f, Resting(p, "suspended"))
            /\ UNCHANGED top

\* v.MoveNext(): false at once when v is empty or its generator has ended.
MoveNext(v) ==
    /\ state = "going" /\ Uses(v) /\ holder[v] # Null
    /\ Shape[frame[holder[v]].proc] = "generator"
    /\ frame[holder[v]].at # "final"
    /\ IF Occupied(v)
       THEN state' = "running" /\ UNCHANGED <<frame, holder, top>>
       ELSE Resume(holder[v], frame[holder[v]], Next)

\* Control goes back to the caller of f, which is r by now, and its object
\* to where it was called for.
Back(f, r) ==
    /\ top' = frame[f].caller
    /\ \/ /\ frame[f].into \in Vars
          /\ Assign(frame[f].into, f, r)
       \/ /\ frame[f].into \in {Next, Await}
          /\ frame' = [frame EXCEPT ![f] =
                          IF frame[f].into = Next THEN r ELSE NoFrame]
          /\ state' = IF r.thrown THEN "unwinding" ELSE "going"
          /\ UNCHANGED holder
       \/ /\ frame[f].into = Drop
          /\ frame' = [frame EXCEPT ![f] = NoFrame]
          /\ state' = "going"
          /\ UNCHANGED holder

Rest(where) ==
    [frame[top] EXCEPT !.at = where, !.caller = Main, !.depth = 0, !.into = Next]

\* YIELD in the body that is running; MoveNext returns true.
Yield ==
    /\ state = "going" /\ top # Main
    /\ Shape[frame[top].proc] = "generator"
    /\ frame[top].yields < MaxYields
    /\ Back(top, [Rest("suspended") EXCEPT
                    !.yields = @ + 1,
                    !.told = IF frame[top].into = Next THEN @ + 1 ELSE @])

\* The body returns; MoveNext returns false.
Return ==
    /\ state = "going" /\ top # Main
    /\ Back(top, Rest("final"))

\* Something in the body throws, or below it: unhandled_exception keeps the
\* exception for MoveNext, AWAIT or Result to throw again.
Throw ==
    /\ state \in {"going", "unwinding"} /\ top # Main
    /\ Back(top, [Rest("final") EXCEPT !.thrown = TRUE])

\* Nothing catches it in main.
Terminate ==
    /\ state = "unwinding" /\ top = Main
    /\ state' = "ended"
    /\ UNCHANGED <<frame, holder, top>>

\* AWAIT of a variable: it throws again what the task threw, and would never
\* come back from a task that has not finished.
AwaitVar(v) ==
    /\ state = "going" /\ top # Main /\ Uses(v)
    /\ holder[v] # Null => Shape[frame[holder[v]].proc] = "task"
    /\ state' = IF holder[v] = Null THEN "empty"
                ELSE IF frame[holder[v]].at # "final" THEN "waiting"
                ELSE IF frame[holder[v]].thrown THEN "unwinding" ELSE "going"
    /\ UNCHANGED <<frame, holder, top>>

\* v.Result() and v.Current() read the promise.
Read(v) ==
    /\ state = "going" /\ Uses(v)
    /\ state' = IF holder[v] = Null THEN "empty"
                ELSE IF /\ Shape[frame[holder[v]].proc] = "task"
                        /\ frame[holder[v]].thrown
                THEN "unwinding" ELSE "going"
    /\ UNCHANGED <<frame, holder, top>>

\* The scope v is declared in ends.
Leave(v) ==
    /\ state = "going" /\ Uses(v) /\ holder[v] # Null
    /\ frame' = Destroy(frame, v)
    /\ holder' = [holder EXCEPT ![v] = Null]
    /\ state' = IF Occupied(v) THEN "running" ELSE "going"
    /\ UNCHANGED top

Step ==
    \/ \E p \in Procs, f \in Frames, use \in Vars \cup {Drop, Await} :
          Call(p, f, use)
    \/ \E v \in Vars : MoveNext(v) \/ AwaitVar(v) \/ Read(v) \/ Leave(v)
    \/ Yield \/ Return \/ Throw \/ Terminate

Spec == Init /\ [][Step]_vars
-----------------------------------------------------------------------------
FrameRec ==
    [at : {"free", "running", "suspended", "final"}, proc : Procs,
     caller : Frames \cup {Main}, depth : Nat, into : Vars \cup {Next, Drop, Await},
     thrown : BOOLEAN, yields : Nat, told : Nat]

TypeOK ==
    /\ frame \in [Frames -> FrameRec]
    /\ holder \in [Vars -> Frames \cup {Null}]
    /\ top \in Frames \cup {Main}
    /\ state \in {"going", "unwinding", "ended", "empty", "running", "waiting"}

Held(f) == {v \in Vars : holder[v] = f}

\* A frame is destroyed once and never leaked: it is in one variable, or on
\* its way to where its call's result is used, and then it is running.
OwnedOnce ==
    \A f \in Frames :
        /\ frame[f].at = "free" => Held(f) = {}
        /\ frame[f].at \in {"suspended", "final"}
              => \E v \in Vars : Held(f) = {v}
        /\ frame[f].at = "running" =>
              IF frame[f].into = Next THEN \E v \in Vars : Held(f) = {v}
                                      ELSE Held(f) = {}

\* MoveNext "returns true iff a new value is now available via Current()":
\* every value a generator yields is reported to a MoveNext.
EveryYieldTold ==
    \A f \in Frames : frame[f].told = frame[f].yields

\* The only way these objects break a program is the use of an empty one.  A
\* frame is never resumed or destroyed while it runs, and no AWAIT waits:
\* "there is never anything left to wait for by the time anyone awaits".
OnlyEmptyBreaks == state \notin {"running", "waiting"}
=============================================================================

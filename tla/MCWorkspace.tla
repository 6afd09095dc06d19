------------------------------ MODULE MCWorkspace ------------------------------
(* A program, root, and the library mid, which needs the library base.       *)
(*   sources   the manifest stays, the sources change                        *)
(*   killed    the same, and ebpm is killed                                  *)
(*   manifest  the manifest is edited, by ebpm and by hand                   *)
(*   test      the package is tested, and the test edited                    *)
(*   new       an empty directory                                            *)
EXTENDS Workspace

MCLibs == <<"base", "mid">>
MCNeeds == [p \in {"base", "mid"} |-> IF p = "mid" THEN {"base"} ELSE {}]
MCNames == {"mid", "base"}

AllProjects == {"sources", "killed", "manifest", "test", "new"}
Each(s, k, m, t, n) ==
    [j \in AllProjects |->
        CASE j = "sources" -> s [] j = "killed" -> k [] j = "manifest" -> m
          [] j = "test" -> t [] j = "new" -> n]

WithMid == manifestText \o <<Section("dependencies"), Entry("mid")>>
WithTarget == manifestText \o <<Section("dependencies"), Entry("base"),
                                Section("target"), Entry("mid")>>
Spanning == <<Section("dependencies"), Line("entry", "mid", FALSE),
              Line("rest", "mid", TRUE)>> \o manifestText
Decorated == manifestText \o <<Line("section", "dependencies", FALSE),
                               Entry("mid")>>
Broken == WithMid \o <<Entry("mid")>>

MCManifest0 == Each(WithMid, WithMid, manifestText, manifestText, <<>>)
MCHandEdits == Each({}, {}, {WithMid, WithTarget, Spanning, Decorated,
                             Broken}, {},
                    {WithMid})
MCEditable == Each({"base", Root}, {"base", "mid"}, {}, {"test"}, {})
MCEdits == Each(2, 1, 0, 1, 0)
MCCommands == Each({"run"}, {"build", "run", "kill"},
                   {"run", "add", "remove", "kill"}, {"test", "run"},
                   {"init", "build", "kill"})
=============================================================================

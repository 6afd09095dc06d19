----------------------------- MODULE ManifestFile -----------------------------
(* ebasic.toml as `ebpm add` and `ebpm remove` see it, line by line, and as  *)
(* loadManifest sees it, section by section.                                 *)
(*   section  the header [key]; plain when the line is just that             *)
(*   entry    key = ...; plain when it ends on its line                      *)
(*   rest     the rest of an entry that is not plain                         *)
(*   blank                                                                   *)
EXTENDS Naturals, SequencesExt

Line(k, key, plain) == [k |-> k, key |-> key, plain |-> plain]

Section(key) == Line("section", key, TRUE)
Entry(key) == Line("entry", key, TRUE)
Blank == Line("blank", "", TRUE)

Headers(m, key) == {i \in DOMAIN m : m[i].k = "section" /\ m[i].key = key}

\* The lines of the section whose header is line h.
LinesUnder(m, h) ==
    {i \in DOMAIN m : i > h /\ \A j \in (h + 1)..i : m[j].k # "section"}

EntriesUnder(m, h) == {i \in LinesUnder(m, h) : m[i].k = "entry"}

\* What TOML rejects: a section or an entry said twice, an entry cut off.
WellFormed(m) ==
    /\ \A i \in DOMAIN m : m[i].k = "section" =>
          /\ Headers(m, m[i].key) = {i}
          /\ \A a, b \in EntriesUnder(m, i) : m[a].key = m[b].key => a = b
    /\ \A i \in DOMAIN m :
          (m[i].k = "entry" /\ ~m[i].plain) <=>
             (i < Len(m) /\ m[i + 1].k = "rest")

\* loadManifest also wants the package named and a target.
Loads(m) ==
    /\ WellFormed(m)
    /\ \E h \in Headers(m, "package") :
          \E i \in EntriesUnder(m, h) : m[i].key = "name"
    /\ Headers(m, "bin") # {}

KeysOf(m, section) ==
    UNION {{m[i].key : i \in EntriesUnder(m, h)} : h \in Headers(m, section)}

dependencyNameExists(m, name) ==
    name \in KeysOf(m, "dependencies") \cup KeysOf(m, "target")

effectiveDependencies(m) == KeysOf(m, "dependencies") \cup KeysOf(m, "target")

\* The header the text edits look for: one with nothing else on its line.
DependenciesLine(m) == {h \in Headers(m, "dependencies") : m[h].plain}

insertDependencyLine(m, name) ==
    IF DependenciesLine(m) = {}
    THEN m \o <<Blank, Section("dependencies"), Entry(name)>>
    ELSE InsertAt(m, Min(DependenciesLine(m)) + 1, Entry(name))

\* Mutant: the search does not stop at the next header.
NamedBelow(m, name) ==
    IF DependenciesLine(m) = {} THEN {}
    ELSE {i \in DOMAIN m : /\ i > Min(DependenciesLine(m))
                           /\ m[i].k = "entry" /\ m[i].key = name}

\* The lines `remove` takes for the entry: the first one of that key before
\* the next header.
NamedLines(m, name) ==
    IF DependenciesLine(m) = {} THEN {}
    ELSE {i \in EntriesUnder(m, Min(DependenciesLine(m))) : m[i].key = name}

\* An entry that spans lines is left alone.
Removable(m, name) ==
    /\ NamedLines(m, name) # {}
    /\ m[Min(NamedLines(m, name))].plain

removeDependencyLine(m, name) == RemoveAt(m, Min(NamedLines(m, name)))

\* The scaffolded manifest.
manifestText == <<Section("package"), Entry("name"), Blank, Section("bin")>>
=============================================================================

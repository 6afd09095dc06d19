---------------------------- MODULE Workspace_proofs ----------------------------
(* Proofs about Workspace, for any libraries, manifests, edits and commands:  *)
(* a command that is not killed leaves the target directories whole, a        *)
(* program's objects were compiled against the archives it is linked with,    *)
(* `ebpm run` starts what is current, and `ebpm add` and `ebpm remove` change *)
(* the one entry they are given.                                              *)
EXTENDS Workspace, TLAPS, WellFoundedInduction

Libraries == ToSet(Libs)
BuildSteps == {"front", "gen", "compile", "archive", "iface", "libs", "link",
               "tidy"}
RunSteps == {"check", "resolve", "launch"} \cup BuildSteps
Steps == RunSteps \cup {"idle", "lookup", "write", "stub"}

Sources == [v : Nat, time : Nat, verdict : Verdicts]
Reads == [v : Nat, at : Nat, verdict : Verdicts,
          against : SUBSET (Libraries \X Nat)]

Given == Names \cup {""}
Outputs == [archive : Reads, iface : Nat, libs : Nat]
Job == [cmd : {"none", "build", "test", "run", "add", "remove", "init"},
        step : Steps, todo : SUBSET Units, order : SUBSET Libraries,
        read : Reads, failed : BOOLEAN, name : Given,
        seen : Manifests, text : Manifests, asked : {<<>>} \cup [Units -> Sources]]

\* Every variable has its type; the program was made from some of the units.
TypeOK ==
    /\ project \in Projects
    /\ manifest \in Manifests
    /\ src \in [Units -> Sources]
    /\ lib \in [Libraries -> Outputs]
    /\ left \subseteq Units \X {"gen.cpp", "o"}
    /\ DOMAIN bin.of \subseteq Units
    /\ bin.of \in [DOMAIN bin.of -> [v : Nat, at : Nat]]
    /\ bin.against \subseteq Libraries \X Nat /\ bin.time \in Nat
    /\ now \in Nat
    /\ job \in Job
    /\ killed \in BOOLEAN

\* A build works on a unit of its list, which shrinks from the libraries to
\* the root to the root's test.
Planned ==
    /\ job.step \in {"check", "launch"} => job.cmd = "run"
    /\ job.step \in BuildSteps =>
          /\ job.todo # {} /\ job.todo \subseteq job.order \cup {Root, Test}
          /\ Root \in job.todo \/ job.todo = {Test}
          /\ Test \in job.todo => job.cmd = "test"
          /\ \A p \in job.order : Needs[p] \subseteq job.order
          /\ job.step \in {"compile", "archive", "iface", "libs"}
                => Unit \in Libraries
          /\ job.step = "link" => Unit \notin Libraries

\* Interface and flags are the archive's, except of the library whose archive
\* was just replaced.
Whole(p) == lib[p].iface = lib[p].archive.v /\ lib[p].libs = lib[p].archive.v

Replacing ==
    /\ job.step \in {"iface", "libs"} => lib[Unit].archive = job.read
    /\ job.step = "libs" => lib[Unit].iface = job.read.v

Tidied ==
    ~killed =>
        /\ left \subseteq (IF job.step \in BuildSteps \ {"front", "gen"}
                           THEN {Unit} \X {"gen.cpp", "o"} ELSE {})
        /\ \A p \in Libraries :
              Whole(p) \/ (job.step \in {"iface", "libs"} /\ p = Unit)

\* What a build that has come to the root and not yet past it knows: the
\* libraries it has behind it agree with each other.
Against(ps) == {<<d, lib[d].archive.v>> : d \in ps}
Built(p) ==
    /\ lib[p].iface = lib[p].archive.v
    /\ lib[p].archive.against = Against(Needs[p])

Consistent ==
    job.step \in BuildSteps /\ Root \in job.todo =>
        /\ \A p \in job.order \ job.todo :
              Built(p) /\ Needs[p] \cap job.todo = {}
        /\ job.step \notin {"front", "tidy"}
              => job.read.against = Against(Closure(Unit))
        /\ job.step = "tidy" /\ ~job.failed /\ Unit \in Libraries
              => Built(Unit)

\* A source newer than what was made from it was edited after it was read.
Since(source, made) ==
    made.at <= now /\ (source.v > made.v => source.time >= made.at)

Dated ==
    /\ \A u \in Units : src[u].time <= now
    /\ \A p \in Libraries : Since(src[p], lib[p].archive)
    /\ \A p \in DOMAIN bin.of : Since(src[p], bin.of[p])
    /\ job.step \in BuildSteps \ {"front"} => Since(src[Unit], job.read)

\* `ebpm run` and the sources as they were when the command was given.
Current ==
    job.cmd = "run" /\ job.step \in RunSteps =>
        /\ job.asked \in [Units -> Sources]
        /\ \A u \in Units : /\ job.asked[u].v <= src[u].v
                            /\ job.asked[u].time <= src[u].time
        /\ job.step = "check" =>
              \A p \in DOMAIN bin.of : Since(job.asked[p], bin.of[p])
        /\ job.step \in BuildSteps =>
              \A p \in job.order \ job.todo :
                    lib[p].archive.v >= job.asked[p].v
        /\ job.step \in BuildSteps \ {"front"} /\ ~job.failed =>
              job.read.v >= job.asked[Unit].v
        /\ job.step = "tidy" /\ ~job.failed =>
              /\ Unit \in Libraries => lib[Unit].archive.v >= job.asked[Unit].v
              /\ Unit = Root =>
                    \A p \in DOMAIN bin.of : bin.of[p].v >= job.asked[p].v

\* The text `add` and `remove` are about to write is an edit of what they saw.
Editing ==
    /\ job.step = "lookup" =>
          /\ job.cmd = "add" /\ Loads(job.seen)
          /\ ~dependencyNameExists(job.seen, job.name)
    /\ job.step = "write" =>
          \/ job.cmd = "add" /\ job.seen = <<>>
          \/ /\ job.cmd = "add" /\ ~dependencyNameExists(job.seen, job.name)
             /\ job.text = insertDependencyLine(job.seen, job.name)
          \/ /\ job.cmd = "remove" /\ Removable(job.seen, job.name)
             /\ job.text = removeDependencyLine(job.seen, job.name)

Inv == /\ TypeOK /\ Planned /\ Replacing /\ Tidied /\ Consistent
       /\ LinksWhatItDeclares /\ Dated /\ Current /\ RunIsCurrent /\ Editing
-----------------------------------------------------------------------------
(* Units and their order                                                     *)

LEMMA LeastNumber ==
    ASSUME NEW S, S \subseteq Nat, S # {}
    PROVE  \E x \in S : \A y \in S : x <= y
<1>1. \E x \in S : \A y \in S : ~(<<y, x>> \in OpToRel(<, Nat))
  BY NatLessThanWellFounded, WFMin, Zenon
<1>2. \A x, y \in Nat : y < x => <<y, x>> \in OpToRel(<, Nat)
  BY Zenon DEF OpToRel
<1>3. \E x \in S : \A y \in S : ~(y < x)
  BY <1>1, <1>2, Zenon
<1> QED
  BY <1>3, SMT

LEMMA MinIsLeast ==
    ASSUME NEW S, S \subseteq Nat, S # {}
    PROVE  Min(S) \in S /\ \A y \in S : Min(S) <= y
BY LeastNumber DEF Min

LEMMA Constants ==
    /\ Libs \in Seq(Libraries) /\ Libraries = {Libs[i] : i \in 1..Len(Libs)}
    /\ Root \notin Libraries /\ Test \notin Libraries /\ Root # Test
    /\ Units = Libraries \cup {Root, Test}
    /\ \A p \in Libraries : /\ Needs[p] \subseteq Libraries
                            /\ \A d \in Needs[p] : Needs[d] \subseteq Needs[p]
    /\ \A i, j \in 1..Len(Libs) : /\ Libs[i] = Libs[j] => i = j
                                  /\ Libs[j] \in Needs[Libs[i]] => j < i
<1>1. /\ Libs \in Seq(ToSet(Libs)) /\ ToSet(Libs) \cap {Root, Test} = {}
      /\ Needs \in [ToSet(Libs) -> SUBSET ToSet(Libs)]
      /\ \A p \in ToSet(Libs) : \A d \in Needs[p] : Needs[d] \subseteq Needs[p]
      /\ \A i, j \in DOMAIN Libs : /\ Libs[i] = Libs[j] => i = j
                                   /\ Libs[j] \in Needs[Libs[i]] => j < i
  BY WorkspaceAssumption, Zenon
<1>2. /\ DOMAIN Libs = 1..Len(Libs) /\ ToSet(Libs) = {Libs[i] : i \in 1..Len(Libs)}
  BY <1>1 DEF ToSet
<1>3. Root # Test
  BY DEF Root, Test
<1> QED
  BY <1>1, <1>2, <1>3 DEF Libraries, Units

LEMMA FirstIsFirst ==
    ASSUME NEW us, us \subseteq Units, us # {}
    PROVE  /\ First(us) \in us
           /\ First(us) \in Libraries => Needs[First(us)] \cap us = {}
           /\ First(us) = Root => us \cap Libraries = {}
           /\ First(us) = Test => us = {Test}
<1> DEFINE all == Libs \o <<Root, Test>>
           n == Len(Libs)
           S == {i \in DOMAIN all : all[i] \in us}
<1>1. /\ n \in Nat /\ DOMAIN all = 1..(n + 2)
      /\ \A i \in 1..n : all[i] = Libs[i]
      /\ all[n + 1] = Root /\ all[n + 2] = Test
  <2>1. Libs \in Seq(Units) /\ <<Root, Test>> \in Seq(Units)
    BY Constants
  <2> QED
    BY <2>1
<1> HIDE DEF all, n
<1>2. S \subseteq Nat
  BY <1>1
<1>3. \A u \in us : \/ \E i \in 1..n : u = all[i] /\ i \in S
                    \/ u = Root /\ n + 1 \in S
                    \/ u = Test /\ n + 2 \in S
  <2>1. ASSUME NEW u \in us, u \in Libraries
        PROVE  \E i \in 1..n : u = all[i] /\ i \in S
    <3>1. PICK i \in 1..n : u = Libs[i]
      BY <2>1, Constants DEF n
    <3> QED
      BY <3>1, <1>1
  <2>2. ASSUME NEW u \in us, u = Root
        PROVE  n + 1 \in S
    BY <2>2, <1>1
  <2>3. ASSUME NEW u \in us, u = Test
        PROVE  n + 2 \in S
    BY <2>3, <1>1
  <2>4. \A u \in us : u \in Libraries \/ u = Root \/ u = Test
    BY Constants
  <2> HIDE DEF S
  <2> QED
    BY <2>1, <2>2, <2>3, <2>4
<1>4. S # {}
  BY <1>3
<1> DEFINE k == Min(S)
<1> HIDE DEF S
<1>5. k \in S /\ \A i \in S : k <= i
  BY <1>2, <1>4, MinIsLeast
<1> HIDE DEF k
<1>6. First(us) = all[k] /\ all[k] \in us /\ k \in 1..(n + 2)
  BY <1>5, <1>1 DEF First, all, k, S
<1>7. all[k] \in Libraries => k <= n /\ all[k] = Libs[k]
  <2>1. CASE k <= n
    BY <2>1, <1>1, <1>6
  <2>2. CASE k = n + 1
    BY <2>2, <1>1, Constants
  <2>3. CASE k = n + 2
    BY <2>3, <1>1, Constants
  <2> QED
    BY <2>1, <2>2, <2>3, <1>1, <1>6
<1>8. \A i \in 1..n : Libs[i] \in Libraries
  BY Constants DEF n
<1>9. (all[k] = Root => k = n + 1) /\ (all[k] = Test => k = n + 2)
  <2>1. CASE k <= n
    <3>1. all[k] \in Libraries
      BY <2>1, <1>1, <1>6, <1>8
    <3>2. all[k] # Root /\ all[k] # Test
      BY <3>1, Constants
    <3> QED
      BY <3>2
  <2>2. CASE k = n + 1
    BY <2>2, <1>1, Constants
  <2>3. CASE k = n + 2
    BY <2>3, <1>1, Constants
  <2> QED
    BY <2>1, <2>2, <2>3, <1>1, <1>6
<1>10. ASSUME First(us) \in Libraries, NEW d \in Needs[First(us)], d \in us
       PROVE  FALSE
  <2>1. k \in 1..n /\ First(us) = Libs[k]
    BY <1>10, <1>1, <1>6, <1>7
  <2>2. d \in Libraries
    BY <1>10, Constants
  <2>3. PICK j \in 1..n : d = all[j] /\ j \in S
    BY <2>2, <1>3, <1>10, Constants
  <2>4. Libs[j] \in Needs[Libs[k]]
    BY <2>1, <2>3, <1>1, <1>10
  <2>5. j < k
    BY <2>1, <2>3, <2>4, Constants DEF n
  <2> QED
    BY <2>3, <2>5, <1>5, <2>1, <1>1
<1>11. ASSUME First(us) = Root, NEW d \in us, d \in Libraries
       PROVE  FALSE
  <2>1. PICK j \in 1..n : d = all[j] /\ j \in S
    BY <1>3, <1>11, Constants
  <2> QED
    BY <2>1, <1>11, <1>1, <1>5, <1>6, <1>9
<1>12. ASSUME First(us) = Test, NEW d \in us, d # Test
       PROVE  FALSE
  <2>1. k = n + 2
    BY <1>12, <1>6, <1>9
  <2> QED
    BY <2>1, <1>12, <1>1, <1>3, <1>5
<1> QED
  BY <1>6, <1>10, <1>11, <1>12

\* What a manifest names is looked up with all it needs.
LEMMA OrderIsClosed ==
    ASSUME NEW m
    PROVE  /\ Order(m) \subseteq Libraries
           /\ \A p \in Order(m) : Needs[p] \subseteq Order(m)
BY WorkspaceAssumption DEF Order, Libraries
-----------------------------------------------------------------------------
(* Types                                                                     *)

Lines == [k : {"section", "entry", "rest", "blank"}, key : Keys, plain : BOOLEAN]

LEMMA NewLines ==
    /\ Blank \in Lines /\ Section("dependencies") \in Lines
    /\ \A n \in Given : Entry(n) \in Lines
    /\ manifestText \in Manifests
    /\ <<>> \in Manifests
<1>1. /\ Blank \in Lines /\ Section("dependencies") \in Lines
      /\ Section("package") \in Lines /\ Entry("name") \in Lines
      /\ Section("bin") \in Lines
      /\ \A n \in Given : Entry(n) \in Lines
  BY DEF Blank, Section, Entry, Line, Lines, Keys, Given
<1>2. Manifests = Seq(Lines)
  BY DEF Manifests, Lines
<1>3. manifestText \in Seq(Lines) /\ <<>> \in Seq(Lines)
  BY <1>1 DEF manifestText
<1> QED
  BY <1>1, <1>2, <1>3

LEMMA DependenciesHeader ==
    ASSUME NEW m \in Manifests, DependenciesLine(m) # {}
    PROVE  /\ Min(DependenciesLine(m)) \in DependenciesLine(m)
           /\ Min(DependenciesLine(m)) \in 1..Len(m)
<1>1. DependenciesLine(m) \subseteq 1..Len(m)
  BY DEF DependenciesLine, Headers, Manifests
<1>2. Min(DependenciesLine(m)) \in DependenciesLine(m)
  BY <1>1, MinIsLeast
<1> QED
  BY <1>1, <1>2

LEMMA NamedLine ==
    ASSUME NEW m \in Manifests, NEW n, NamedLines(m, n) # {}
    PROVE  /\ DependenciesLine(m) # {}
           /\ Min(NamedLines(m, n)) \in NamedLines(m, n)
           /\ Min(NamedLines(m, n)) \in 1..Len(m)
<1>1. NamedLines(m, n) \subseteq 1..Len(m)
  BY DEF NamedLines, EntriesUnder, LinesUnder, Manifests
<1>2. Min(NamedLines(m, n)) \in NamedLines(m, n)
  BY <1>1, MinIsLeast
<1> QED
  BY <1>1, <1>2 DEF NamedLines

\* The edits, line by line.
LEMMA Concatenated ==
    ASSUME NEW S, NEW a \in Seq(S), NEW b \in Seq(S)
    PROVE  /\ a \o b \in Seq(S) /\ Len(a \o b) = Len(a) + Len(b)
           /\ \A i \in 1..Len(a) : (a \o b)[i] = a[i]
           /\ \A i \in (Len(a) + 1)..(Len(a) + Len(b)) :
                 (a \o b)[i] = b[i - Len(a)]
OBVIOUS

LEMMA InsertedAt ==
    ASSUME NEW S, NEW m \in Seq(S), NEW p \in 1..(Len(m) + 1), NEW e \in S
    PROVE  LET t == InsertAt(m, p, e)
           IN  /\ t \in Seq(S) /\ Len(t) = Len(m) + 1
               /\ \A i \in 1..(p - 1) : t[i] = m[i]
               /\ t[p] = e
               /\ \A i \in (p + 1)..(Len(m) + 1) : t[i] = m[i - 1]
<1> DEFINE t == InsertAt(m, p, e)
           a == SubSeq(m, 1, p - 1)
           b == SubSeq(m, p, Len(m))
<1>1. t = (a \o <<e>>) \o b
  BY DEF InsertAt
<1>2. a \in Seq(S) /\ Len(a) = p - 1 /\ \A i \in 1..(p - 1) : a[i] = m[i]
  <2>1. CASE p = 1
    BY <2>1
  <2>2. CASE p > 1
    BY <2>2
  <2> QED
    BY <2>1, <2>2
<1>3. /\ b \in Seq(S) /\ Len(b) = Len(m) + 1 - p
      /\ \A i \in 1..(Len(m) + 1 - p) : b[i] = m[p - 1 + i]
  <2>1. CASE p = Len(m) + 1
    BY <2>1
  <2>2. CASE p <= Len(m)
    BY <2>2
  <2> QED
    BY <2>1, <2>2
<1> HIDE DEF a, b, t
<1> DEFINE c == a \o <<e>>
<1>4. /\ c \in Seq(S) /\ Len(c) = p /\ c[p] = e
      /\ \A i \in 1..(p - 1) : c[i] = m[i]
  <2>1. <<e>> \in Seq(S) /\ Len(<<e>>) = 1 /\ <<e>>[1] = e
    OBVIOUS
  <2>2. /\ c \in Seq(S) /\ Len(c) = Len(a) + 1
        /\ \A i \in 1..Len(a) : c[i] = a[i]
        /\ c[Len(a) + 1] = e
    BY <1>2
  <2> QED BY <1>2, <2>2
<1> HIDE DEF c
<1>5. /\ t \in Seq(S) /\ Len(t) = Len(c) + Len(b)
      /\ \A i \in 1..Len(c) : t[i] = c[i]
      /\ \A i \in (Len(c) + 1)..(Len(c) + Len(b)) : t[i] = b[i - Len(c)]
  <2>1. t = c \o b
    BY <1>1 DEF c
  <2>2. b \in Seq(S) /\ c \in Seq(S)
    BY <1>3, <1>4
  <2>3. /\ c \o b \in Seq(S) /\ Len(c \o b) = Len(c) + Len(b)
        /\ \A i \in 1..Len(c) : (c \o b)[i] = c[i]
        /\ \A i \in (Len(c) + 1)..(Len(c) + Len(b)) :
              (c \o b)[i] = b[i - Len(c)]
    BY <2>2, Concatenated
  <2> QED
    BY <2>1, <2>3, Zenon
<1>6. Len(t) = Len(m) + 1
  BY <1>3, <1>4, <1>5
<1>7. \A i \in 1..(p - 1) : t[i] = m[i]
  BY <1>4, <1>5
<1>8. t[p] = e
  BY <1>4, <1>5
<1>9. \A i \in (p + 1)..(Len(m) + 1) : t[i] = m[i - 1]
  <2> TAKE i \in (p + 1)..(Len(m) + 1)
  <2>1. i - p \in 1..(Len(m) + 1 - p) /\ p - 1 + (i - p) = i - 1
    OBVIOUS
  <2>2. b[i - p] = m[p - 1 + (i - p)]
    BY <1>3, <2>1
  <2>3. t[i] = b[i - p]
    BY <1>3, <1>4, <1>5
  <2> QED
    BY <2>1, <2>2, <2>3
<1> QED
  BY <1>5, <1>6, <1>7, <1>8, <1>9 DEF t

LEMMA RemovedAt ==
    ASSUME NEW S, NEW m \in Seq(S), NEW r \in 1..Len(m)
    PROVE  LET t == RemoveAt(m, r)
           IN  /\ t \in Seq(S) /\ Len(t) = Len(m) - 1
               /\ \A i \in 1..(r - 1) : t[i] = m[i]
               /\ \A i \in r..(Len(m) - 1) : t[i] = m[i + 1]
<1> DEFINE t == RemoveAt(m, r)
           a == SubSeq(m, 1, r - 1)
           b == SubSeq(m, r + 1, Len(m))
<1>1. t = a \o b
  BY DEF RemoveAt, t
<1>2. a \in Seq(S) /\ Len(a) = r - 1 /\ \A i \in 1..(r - 1) : a[i] = m[i]
  <2>1. CASE r = 1
    BY <2>1
  <2>2. CASE r > 1
    BY <2>2
  <2> QED
    BY <2>1, <2>2
<1>3. /\ b \in Seq(S) /\ Len(b) = Len(m) - r
      /\ \A i \in 1..(Len(m) - r) : b[i] = m[r + i]
  <2>1. CASE r = Len(m)
    BY <2>1
  <2>2. CASE r < Len(m)
    BY <2>2
  <2> QED
    BY <2>1, <2>2
<1> HIDE DEF a, b, t
<1>4. /\ t \in Seq(S) /\ Len(t) = Len(m) - 1
      /\ \A i \in 1..(r - 1) : t[i] = a[i]
      /\ \A i \in r..(Len(m) - 1) : t[i] = b[i - (r - 1)]
  <2>1. /\ t \in Seq(S) /\ Len(t) = Len(a) + Len(b)
        /\ \A i \in 1..Len(a) : t[i] = a[i]
        /\ \A i \in (Len(a) + 1)..(Len(a) + Len(b)) : t[i] = b[i - Len(a)]
    BY <1>1, <1>2, <1>3, Concatenated, ZenonT(40)
  <2>2. /\ Len(a) = r - 1 /\ Len(a) + Len(b) = Len(m) - 1 /\ Len(a) + 1 = r
    BY <1>2, <1>3
  <2> QED
    BY <2>1, <2>2, Zenon
<1>5. \A i \in 1..(r - 1) : t[i] = m[i]
  BY <1>2, <1>4
<1>6. \A i \in r..(Len(m) - 1) : t[i] = m[i + 1]
  <2> TAKE i \in r..(Len(m) - 1)
  <2>1. i - (r - 1) \in 1..(Len(m) - r) /\ r + (i - (r - 1)) = i + 1
    OBVIOUS
  <2>2. b[i - (r - 1)] = m[r + (i - (r - 1))]
    BY <1>3, <2>1
  <2> QED
    BY <1>4, <2>1, <2>2
<1> QED
  BY <1>4, <1>5, <1>6 DEF t

LEMMA Inserted ==
    ASSUME NEW m \in Manifests, NEW n \in Given, DependenciesLine(m) # {}
    PROVE  LET h == Min(DependenciesLine(m))
               t == insertDependencyLine(m, n)
           IN  /\ t \in Manifests /\ Len(t) = Len(m) + 1
               /\ h \in 1..Len(m)
               /\ \A i \in 1..h : t[i] = m[i]
               /\ t[h + 1] = Entry(n)
               /\ \A i \in (h + 2)..(Len(m) + 1) : t[i] = m[i - 1]
<1> DEFINE h == Min(DependenciesLine(m))
           t == insertDependencyLine(m, n)
           e == Entry(n)
           p == h + 1
<1>1. h \in 1..Len(m)
  BY DependenciesHeader
<1>2. m \in Seq(Lines) /\ e \in Lines
  BY NewLines DEF Manifests, Lines
<1>3. t = InsertAt(m, p, e)
  BY DEF insertDependencyLine
<1>4. Manifests = Seq(Lines)
  BY DEF Manifests, Lines
<1> HIDE DEF h, t, e
<1>5. p \in 1..(Len(m) + 1)
  BY <1>1
<1>6. p - 1 = h /\ p + 1 = h + 2
  BY <1>1
<1> HIDE DEF p
<1>7. /\ t \in Seq(Lines) /\ Len(t) = Len(m) + 1
      /\ \A i \in 1..(p - 1) : t[i] = m[i]
      /\ t[p] = e
      /\ \A i \in (p + 1)..(Len(m) + 1) : t[i] = m[i - 1]
  <2> DEFINE u == InsertAt(m, p, e)
  <2>1. /\ u \in Seq(Lines) /\ Len(u) = Len(m) + 1
        /\ \A i \in 1..(p - 1) : u[i] = m[i]
        /\ u[p] = e
        /\ \A i \in (p + 1)..(Len(m) + 1) : u[i] = m[i - 1]
    BY <1>2, <1>5, InsertedAt
  <2> QED
    BY <2>1, <1>3, Zenon
<1>8. t \in Manifests
  BY <1>7, <1>4
<1> QED
  BY <1>1, <1>6, <1>7, <1>8 DEF h, t, e, p

LEMMA Appended ==
    ASSUME NEW m \in Manifests, NEW n \in Given, DependenciesLine(m) = {},
           NEW t, t = insertDependencyLine(m, n)
    PROVE  /\ t \in Manifests /\ Len(t) = Len(m) + 3
           /\ \A i \in 1..Len(m) : t[i] = m[i]
           /\ t[Len(m) + 1] = Blank
           /\ t[Len(m) + 2] = Section("dependencies")
           /\ t[Len(m) + 3] = Entry(n)
<1> DEFINE e == Entry(n)
           b == Blank
           s == Section("dependencies")
<1>1. m \in Seq(Lines) /\ Manifests = Seq(Lines)
  BY DEF Manifests, Lines
<1>2. e \in Lines /\ b \in Lines /\ s \in Lines
  BY NewLines
<1>3. t = m \o <<b, s, e>>
  BY DEF insertDependencyLine
<1> HIDE DEF e, b, s
<1>4. /\ t \in Seq(Lines) /\ Len(t) = Len(m) + 3
      /\ \A i \in 1..Len(m) : t[i] = m[i]
      /\ t[Len(m) + 1] = b /\ t[Len(m) + 2] = s /\ t[Len(m) + 3] = e
  BY <1>1, <1>2, <1>3
<1> QED
  BY <1>1, <1>4 DEF e, b, s

LEMMA Removed ==
    ASSUME NEW m \in Manifests, NEW n, NamedLines(m, n) # {},
           NEW r, r = Min(NamedLines(m, n)),
           NEW t, t = removeDependencyLine(m, n)
    PROVE  /\ t \in Manifests /\ Len(t) = Len(m) - 1
           /\ r \in 1..Len(m)
           /\ \A i \in 1..(r - 1) : t[i] = m[i]
           /\ \A i \in r..(Len(m) - 1) : t[i] = m[i + 1]
<1>1. r \in 1..Len(m)
  BY NamedLine
<1>2. m \in Seq(Lines) /\ Manifests = Seq(Lines)
  BY DEF Manifests, Lines
<1>3. t = RemoveAt(m, r)
  BY DEF removeDependencyLine
<1>4. /\ t \in Seq(Lines) /\ Len(t) = Len(m) - 1
      /\ \A i \in 1..(r - 1) : t[i] = m[i]
      /\ \A i \in r..(Len(m) - 1) : t[i] = m[i + 1]
  BY <1>1, <1>2, <1>3, RemovedAt, Zenon
<1> QED
  BY <1>1, <1>2, <1>4
-----------------------------------------------------------------------------
(* Every step keeps the types                                                *)

LEMMA StepNames ==
    /\ BuildSteps \subseteq Steps /\ RunSteps \subseteq Steps
    /\ \A st \in {"front", "gen", "compile", "archive", "iface", "libs", "link",
                  "tidy"} : st \in BuildSteps /\ st \in Steps
    /\ \A st \in {"idle", "lookup", "write", "stub", "check", "resolve",
                  "launch"} : st \notin BuildSteps /\ st \in Steps
BY DEF BuildSteps, RunSteps, Steps

LEMMA IdleJob == Idle \in Job /\ NoRead \in Reads /\ NoLib \in Outputs
<1>1. NoRead \in Reads
  BY DEF NoRead, Reads, Verdicts
<1>2. NoLib \in Outputs
  BY <1>1 DEF NoLib, Outputs
<1> QED
  BY <1>1, <1>2, StepNames, NewLines DEF Idle, Job, Given

LEMMA TypeInit == Init => TypeOK
<1> SUFFICES ASSUME Init PROVE TypeOK
  OBVIOUS
<1> USE DEF Init
<1>1. project \in Projects /\ manifest \in Manifests
  BY WorkspaceAssumption
<1>2. src \in [Units -> Sources]
  BY DEF Sources, Verdicts
<1>3. lib \in [Libraries -> Outputs]
  BY IdleJob DEF Libraries
<1>4. /\ DOMAIN bin.of \subseteq Units /\ bin.of \in [DOMAIN bin.of -> [v : Nat, at : Nat]]
      /\ bin.against \subseteq Libraries \X Nat /\ bin.time \in Nat
  BY DEF NoBin
<1>5. job \in Job
  BY IdleJob
<1> QED
  BY <1>1, <1>2, <1>3, <1>4, <1>5 DEF TypeOK, Job

LEMMA UnitIsNext ==
    ASSUME TypeOK, Planned, job.step \in BuildSteps
    PROVE  /\ Unit \in job.todo /\ Unit \in Units
           /\ Unit \in Libraries => Needs[Unit] \cap job.todo = {}
           /\ Unit = Root => job.todo \cap Libraries = {}
           /\ Unit = Test => job.todo = {Test}
           /\ Unit \in Libraries => Unit \in job.order /\ Root \in job.todo
<1>1. job.todo \subseteq Units /\ job.todo # {}
  BY DEF TypeOK, Planned, Job
<1>2. /\ job.todo \subseteq job.order \cup {Root, Test}
      /\ Root \in job.todo \/ job.todo = {Test}
  BY DEF Planned
<1>3. Root \notin Libraries /\ Test \notin Libraries
  BY Constants
<1> QED
  BY <1>1, <1>2, <1>3, FirstIsFirst DEF Unit

LEMMA SameFiles ==
    ASSUME TypeOK, UNCHANGED <<project, files, now, killed>>, job' \in Job
    PROVE  TypeOK'
BY DEF TypeOK, files

LEMMA NewStep ==
    ASSUME job \in Job, NEW st \in Steps
    PROVE  [job EXCEPT !.step = st] \in Job
BY DEF Job

LEMMA Failing ==
    ASSUME job \in Job, FailStep
    PROVE  job' \in Job
BY StepNames DEF Job, FailStep

LEMMA TypeStep ==
    ASSUME TypeOK, Planned, Next
    PROVE  TypeOK'
<1>0. /\ project \in Projects /\ manifest \in Manifests
      /\ src \in [Units -> Sources] /\ lib \in [Libraries -> Outputs]
      /\ left \subseteq Units \X {"gen.cpp", "o"}
      /\ now \in Nat /\ job \in Job
  BY DEF TypeOK
<1>1. ASSUME NEW c \in {"build", "test"}, Begin(c, "resolve")
      PROVE  TypeOK'
  <2>1. job' \in Job
    BY <1>1, IdleJob, StepNames DEF Begin, Job
  <2> QED
    BY <2>1, <1>1, SameFiles DEF Begin
<1>2. CASE cmdRun
  <2>1. job' \in Job
    BY <1>0, <1>2, IdleJob, OrderIsClosed, StepNames DEF cmdRun, Job
  <2> QED
    BY <2>1, <1>2, SameFiles DEF cmdRun
<1>3. CASE CheckStale
  <2>1. job' \in Job
    BY <1>3, <1>0, NewStep, StepNames DEF CheckStale
  <2> QED
    BY <2>1, <1>3, SameFiles DEF CheckStale
<1>4. CASE Launch \/ LookupFails
  BY <1>4, IdleJob, SameFiles DEF Launch, LookupFails, Finish
<1>5. ASSUME NEW n \in Names, cmdAdd(n)
      PROVE  TypeOK'
  <2>1. job' \in Job
    BY <1>0, <1>5, IdleJob, StepNames DEF cmdAdd, Job, Given
  <2> QED
    BY <2>1, <1>5, SameFiles DEF cmdAdd
<1>6. ASSUME NEW n \in Names, cmdRemove(n)
      PROVE  TypeOK'
  <2>1. removeDependencyLine(manifest, n) \in Manifests
    BY <1>0, <1>6, Removed DEF cmdRemove, Removable
  <2>2. job' \in Job
    BY <1>0, <2>1, <1>6, IdleJob, StepNames DEF cmdRemove, Job, Given
  <2> QED
    BY <2>2, <1>6, SameFiles DEF cmdRemove
<1>7. CASE LookedUp
  <2>1. insertDependencyLine(manifest, job.name) \in Manifests
    <3>1. job.name \in Given
      BY <1>0 DEF Job
    <3>2. CASE DependenciesLine(manifest) = {}
      BY <3>1, <3>2, <1>0, Appended
    <3>3. CASE DependenciesLine(manifest) # {}
      BY <3>1, <3>3, <1>0, Inserted
    <3> QED
      BY <3>2, <3>3
  <2>2. job' \in Job
    BY <1>7, <1>0, <2>1, NewLines, StepNames DEF LookedUp, Job
  <2> QED
    BY <2>2, <1>7, SameFiles DEF LookedUp
<1>8. CASE writeLines
  <2>1. manifest' \in Manifests /\ job' \in Job
    BY <1>8, <1>0, IdleJob DEF writeLines, Finish, Job
  <2> QED
    BY <2>1, <1>8 DEF writeLines, TypeOK
<1>9. CASE cmdInit
  <2>1. manifest' \in Manifests /\ job' \in Job
    BY <1>9, IdleJob, NewLines, StepNames DEF cmdInit, Job
  <2> QED
    BY <2>1, <1>9 DEF cmdInit, TypeOK
<1>10. CASE Stub
  <2>1. job' \in Job
    BY <1>10, IdleJob DEF Stub, Finish
  <2>2. Root \in Units
    BY Constants
  <2>3. [v |-> src[Root].v + 1, time |-> now, verdict |-> "ok"] \in Sources
    BY <1>0, <2>2 DEF Sources, Verdicts
  <2>4. src' \in [Units -> Sources]
    BY <1>0, <1>10, <2>3 DEF Stub
  <2> QED
    BY <2>1, <2>4, <1>10 DEF Stub, TypeOK
<1>11. CASE Resolve
  <2>1. Order(manifest) \subseteq Libraries
    BY OrderIsClosed
  <2>2. /\ Order(manifest) \cup {Root} \cup {} \subseteq Units
        /\ Order(manifest) \cup {Root} \cup {Test} \subseteq Units
    BY <2>1, Constants
  <2>3. job' \in Job
    <3>1. CASE Loads(manifest)
      <4> DEFINE units == Order(manifest) \cup {Root} \cup
                            (IF job.cmd = "test" THEN {Test} ELSE {})
      <4>1. units \subseteq Units
        BY <2>2
      <4>2. job' = [job EXCEPT !.step = "front", !.order = Order(manifest),
                               !.todo = units]
        BY <1>11, <3>1, Zenon DEF Resolve
      <4> HIDE DEF units
      <4> QED BY <1>0, <2>1, <4>1, <4>2, StepNames DEF Job
    <3>2. CASE ~Loads(manifest)
      BY <1>11, <3>2, IdleJob DEF Resolve, Finish
    <3> QED BY <3>1, <3>2
  <2> QED
    BY <2>3, <1>11, SameFiles DEF Resolve
<1>12. CASE FrontEnds
  <2>1. Closure(Unit) \subseteq Libraries
    BY Constants, <1>0 DEF Closure, Libraries, Job
  <2>2. \A d \in Libraries : lib[d].iface \in Nat
    BY <1>0 DEF Outputs
  <2>3. {<<d, lib[d].iface>> : d \in Closure(Unit)} \subseteq Libraries \X Nat
    BY <2>1, <2>2
  <2>4. Unit \in Units
    BY <1>12, UnitIsNext, StepNames DEF FrontEnds
  <2> DEFINE new == [v |-> src[Unit].v, at |-> now, verdict |-> src[Unit].verdict,
                     against |-> {<<d, lib[d].iface>> : d \in Closure(Unit)}]
  <2>5. new \in Reads
    BY <1>0, <2>3, <2>4 DEF Reads, Sources
  <2>6. job' = Idle \/ job' = [job EXCEPT !.step = "gen", !.read = new]
    BY <1>12 DEF FrontEnds, Finish
  <2> HIDE DEF new
  <2>7. job' \in Job
    BY <2>5, <2>6, <1>0, IdleJob, StepNames DEF Job
  <2> QED
    BY <2>7, <1>12, SameFiles DEF FrontEnds
<1>13. CASE WriteGen
  <2>1. Unit \in Units
    BY <1>13, UnitIsNext, StepNames DEF WriteGen
  <2>2. left' \subseteq Units \X {"gen.cpp", "o"}
    BY <1>0, <1>13, <2>1 DEF WriteGen
  <2>3. job' \in Job
    BY <1>13, <1>0, NewStep, StepNames DEF WriteGen, Go
  <2> QED
    BY <2>2, <2>3, <1>13 DEF WriteGen, TypeOK
<1>14. CASE compileToObject
  <2>1. Unit \in Units
    BY <1>14, UnitIsNext, StepNames DEF compileToObject
  <2>2. left' \subseteq Units \X {"gen.cpp", "o"}
    BY <1>0, <1>14, <2>1 DEF compileToObject
  <2>3. job' \in Job
    BY <1>14, <1>0, NewStep, Failing, StepNames DEF compileToObject, Go
  <2> QED
    BY <2>2, <2>3, <1>14 DEF compileToObject, TypeOK
<1>15. CASE Archive \/ WriteInterface \/ WriteLibs
  <2>1. job.read \in Reads /\ job.read.v \in Nat
    BY <1>0 DEF Job, Reads
  <2>2. /\ [lib EXCEPT ![Unit].archive = job.read] \in [Libraries -> Outputs]
        /\ [lib EXCEPT ![Unit].iface = job.read.v] \in [Libraries -> Outputs]
        /\ [lib EXCEPT ![Unit].libs = job.read.v] \in [Libraries -> Outputs]
    BY <1>0, <2>1 DEF Outputs
  <2>3. lib' \in [Libraries -> Outputs]
    BY <1>0, <1>15, <2>2 DEF Archive, WriteInterface, WriteLibs
  <2>4. job' \in Job
    BY <1>15, <1>0, NewStep, Failing, StepNames
       DEF Archive, WriteInterface, WriteLibs, Go
  <2> QED
    BY <2>3, <2>4, <1>15 DEF Archive, WriteInterface, WriteLibs, TypeOK
<1>16. CASE CompileAndLink
  <2>1. job' \in Job
    BY <1>16, <1>0, NewStep, Failing, StepNames DEF CompileAndLink, Go
  <2>2. job.order \subseteq Libraries /\ job.read \in Reads
    BY <1>0 DEF Job
  <2>3. \A p \in Libraries : lib[p].archive \in Reads
    BY <1>0 DEF Outputs
  <2>4. DOMAIN Linked.of = job.order \cup {Root}
    BY DEF Linked
  <2>5. Linked.of \in [job.order \cup {Root} -> [v : Nat, at : Nat]]
    BY <2>2, <2>3 DEF Linked, Reads
  <2>6. Linked.against \subseteq Libraries \X Nat /\ Linked.time \in Nat
    BY <1>0, <2>2, <2>3 DEF Linked, Reads
  <2>7. bin' \in {bin, NoBin, Linked}
    BY <1>16 DEF CompileAndLink
  <2>8. /\ DOMAIN bin'.of \subseteq Units
        /\ bin'.of \in [DOMAIN bin'.of -> [v : Nat, at : Nat]]
        /\ bin'.against \subseteq Libraries \X Nat /\ bin'.time \in Nat
    <3>1. CASE bin' = NoBin
      BY <3>1 DEF NoBin
    <3>2. CASE bin' = bin
      BY <3>2 DEF TypeOK
    <3>3. CASE bin' = Linked
      <4>1. job.order \cup {Root} \subseteq Units
        BY <2>2, Constants
      <4> QED
        BY <3>3, <2>4, <2>5, <2>6, <4>1
    <3> QED
      BY <2>7, <3>1, <3>2, <3>3
  <2> QED
    BY <2>1, <2>8, <1>0, <1>16 DEF CompileAndLink, TypeOK
<1>17. CASE Tidy
  <2>1. Order(manifest) \subseteq Libraries /\ Rest \subseteq Units
    BY <1>0, OrderIsClosed DEF Rest, Job
  <2>2. job' \in Job
    <3>1. CASE job' = Idle
      BY <3>1, IdleJob
    <3>2. CASE job' = [job EXCEPT !.step = "launch", !.todo = {}, !.read = NoRead]
      BY <3>2, <1>0, IdleJob, StepNames DEF Job
    <3>3. ASSUME NEW o \in {job.order, Order(manifest)},
                 job' = [job EXCEPT !.step = "front", !.todo = Rest,
                                    !.read = NoRead, !.order = o]
          PROVE  job' \in Job
      <4>1. o \subseteq Libraries
        BY <2>1, <1>0 DEF Job
      <4> QED
        BY <3>3, <4>1, <2>1, <1>0, IdleJob, StepNames DEF Job
    <3> QED
      BY <3>1, <3>2, <3>3, <1>17 DEF Tidy, NextUnit, Finish
  <2> QED
    BY <2>2, <1>0, <1>17 DEF Tidy, TypeOK
<1>18. CASE Tick
  <2>1. now' \in Nat
    BY <1>0, <1>18 DEF Tick
  <2> QED
    BY <2>1, <1>18 DEF Tick, TypeOK, files
<1>19. CASE Kill
  <2>1. job.text \in Seq(Lines) /\ Manifests = Seq(Lines)
    BY <1>0 DEF Manifests, Lines, Job
  <2>2. \A k \in 0..Len(job.text) : SubSeq(job.text, 1, k) \in Manifests
    BY <2>1
  <2>3. manifest' \in Manifests
    BY <1>0, <1>19, <2>2 DEF Kill
  <2> QED
    BY <2>3, <1>0, <1>19, IdleJob DEF Kill, Finish, TypeOK
<1>20. ASSUME NEW u \in Units, NEW verdict \in Verdicts, EditSource(u, verdict)
       PROVE  TypeOK'
  <2>1. [v |-> src[u].v + 1, time |-> now, verdict |-> verdict] \in Sources
    BY <1>0 DEF Sources
  <2>2. src' \in [Units -> Sources]
    BY <1>0, <1>20, <2>1 DEF EditSource
  <2> QED
    BY <2>2, <1>20 DEF EditSource, TypeOK
<1>21. ASSUME NEW m \in HandEdits[project], EditManifest(m)
       PROVE  TypeOK'
  <2>1. manifest' \in Manifests
    BY <1>0, <1>21, WorkspaceAssumption DEF EditManifest
  <2> QED
    BY <2>1, <1>21 DEF EditManifest, TypeOK
<1>22. CASE cmdBuild \/ cmdTest
  BY <1>22, <1>1 DEF cmdBuild, cmdTest
<1> QED
  BY <1>2, <1>3, <1>4, <1>5, <1>6, <1>7, <1>8, <1>9, <1>10, <1>11, <1>12, <1>13,
     <1>14, <1>15, <1>16, <1>17, <1>18, <1>19, <1>20, <1>21, <1>22 DEF Next

-----------------------------------------------------------------------------
(* What a step is to the build                                               *)

\* A command begins, ends or works on something else than a build.
Commanding ==
    /\ job.step \notin BuildSteps /\ job'.step \notin BuildSteps
    /\ job'.step \in {"check", "launch"} => job'.cmd = "run"
    /\ UNCHANGED <<lib, left, bin, killed>>

Elsewhere == UNCHANGED <<lib, left, bin, job, killed>>

Building ==
    \/ Resolve \/ FrontEnds \/ WriteGen \/ compileToObject \/ Archive
    \/ WriteInterface \/ WriteLibs \/ CompileAndLink \/ Tidy

LEMMA StepKinds ==
    ASSUME TypeOK, Planned, Next
    PROVE  Commanding \/ Elsewhere \/ Kill \/ Building
<1>0. job \in Job
  BY DEF TypeOK
<1>1. Idle.step = "idle" /\ Idle.cmd = "none"
  BY DEF Idle
<1>2. ASSUME NEW c, Begin(c, "resolve")
      PROVE  Commanding
  BY <1>0, <1>2, StepNames DEF Begin, Commanding, files, Idle
<1>3. CASE cmdRun
  BY <1>0, <1>3, StepNames DEF cmdRun, Commanding, files, Idle
<1>4. CASE CheckStale
  BY <1>0, <1>4, StepNames DEF CheckStale, Commanding, files, Job, Planned
<1>5. CASE Launch \/ LookupFails
  BY <1>5, <1>1, StepNames DEF Launch, LookupFails, Commanding, files, Finish
<1>6. ASSUME NEW n, cmdAdd(n) \/ cmdRemove(n)
      PROVE  Commanding
  BY <1>6, StepNames DEF cmdAdd, cmdRemove, Commanding, files, Idle
<1>7. CASE LookedUp
  BY <1>0, <1>7, StepNames DEF LookedUp, Commanding, files, Job
<1>8. CASE writeLines \/ Stub
  BY <1>8, <1>1, StepNames DEF writeLines, Stub, Commanding, Finish
<1>9. CASE cmdInit
  BY <1>9, StepNames DEF cmdInit, Commanding, Idle
<1>10. CASE Tick
  BY <1>10 DEF Tick, Elsewhere, files
<1>11. ASSUME NEW u, NEW verdict, EditSource(u, verdict)
       PROVE  Elsewhere
  BY <1>11 DEF EditSource, Elsewhere
<1>12. ASSUME NEW m, EditManifest(m)
       PROVE  Elsewhere
  BY <1>12 DEF EditManifest, Elsewhere
<1>13. CASE cmdBuild \/ cmdTest
  BY <1>13, <1>2 DEF cmdBuild, cmdTest
<1> QED
  BY <1>3, <1>4, <1>5, <1>6, <1>7, <1>8, <1>9, <1>10, <1>11, <1>12, <1>13
     DEF Next, Building

\* The job after a step of the build on the current unit.
LEMMA SameUnit ==
    ASSUME job'.todo = job.todo
    PROVE  Unit' = Unit
BY DEF Unit

LEMMA StepChange ==
    ASSUME TypeOK, NEW st, job' = [job EXCEPT !.step = st] \/ FailStep
    PROVE  /\ job'.cmd = job.cmd /\ job'.todo = job.todo /\ job'.order = job.order
           /\ job'.read = job.read /\ job'.asked = job.asked
           /\ Unit' = Unit /\ Closure(Unit)' = Closure(Unit)
           /\ FailStep => job'.step = "tidy" /\ job'.failed = TRUE
           /\ ~FailStep => job'.step = st /\ job'.failed = job.failed
<1>1. job \in Job
  BY DEF TypeOK
<1>2. /\ job'.cmd = job.cmd /\ job'.todo = job.todo /\ job'.order = job.order
      /\ job'.read = job.read /\ job'.asked = job.asked
      /\ FailStep => job'.step = "tidy" /\ job'.failed = TRUE
      /\ ~FailStep => job'.step = st /\ job'.failed = job.failed
  BY <1>1 DEF Job, FailStep
<1> QED
  BY <1>2, SameUnit DEF Closure

\* How the build goes on when a unit is done.
LEMMA NextUnitIs ==
    ASSUME TypeOK, Planned, job.step = "tidy", NextUnit
    PROVE  \/ job' = Idle
           \/ /\ ~job.failed /\ Rest = {} /\ job.cmd = "run"
              /\ job' = [job EXCEPT !.step = "launch", !.todo = {}, !.read = NoRead]
           \/ /\ ~job.failed /\ Rest # {} /\ Rest # {Test}
              /\ job' = [job EXCEPT !.step = "front", !.todo = Rest, !.read = NoRead]
           \/ /\ ~job.failed /\ Rest = {Test}
              /\ job' = [job EXCEPT !.step = "front", !.todo = Rest, !.read = NoRead,
                                    !.order = Order(manifest)]
<1>1. job \in Job
  BY DEF TypeOK
<1>2. [job EXCEPT !.step = "front", !.todo = Rest, !.read = NoRead, !.order = job.order]
        = [job EXCEPT !.step = "front", !.todo = Rest, !.read = NoRead]
  BY <1>1 DEF Job
<1> QED
  BY <1>2, <1>1 DEF NextUnit, Finish, Job
-----------------------------------------------------------------------------
(* The plan of a build                                                       *)

LEMMA IdleIsPlanned ==
    ASSUME job' = Idle
    PROVE  /\ job'.step = "idle" /\ job'.step \notin BuildSteps
           /\ job'.step \notin RunSteps /\ job'.cmd = "none"
BY StepNames DEF Idle, RunSteps

LEMMA PlannedStep ==
    ASSUME TypeOK, Planned, Next
    PROVE  Planned'
<1>0. job \in Job
  BY DEF TypeOK
<1>1. CASE Commanding
  BY <1>1 DEF Commanding, Planned
<1>2. CASE Elsewhere
  BY <1>2, SameUnit DEF Elsewhere, Planned
<1>3. CASE job' = Idle
  BY <1>3, IdleIsPlanned DEF Planned
<1>4. CASE Kill
  BY <1>4, <1>3 DEF Kill, Finish
<1>5. CASE Resolve
  <2>1. CASE ~Loads(manifest)
    BY <1>5, <2>1, <1>3 DEF Resolve, Finish
  <2>2. CASE Loads(manifest)
    <3> DEFINE todo == Order(manifest) \cup {Root} \cup
                         (IF job.cmd = "test" THEN {Test} ELSE {})
    <3>1. /\ job'.step = "front" /\ job'.order = Order(manifest)
          /\ job'.todo = todo /\ job'.cmd = job.cmd
      BY <1>5, <2>2, <1>0 DEF Resolve, Job
    <3>2. /\ Root \in todo /\ todo \subseteq Order(manifest) \cup {Root, Test}
          /\ Test \in todo => job.cmd = "test"
      BY Constants, OrderIsClosed
    <3> QED
      BY <3>1, <3>2, OrderIsClosed, StepNames DEF Planned
  <2> QED
    BY <2>1, <2>2
<1>6. CASE FrontEnds
  <2>1. job' = Idle \/ (/\ job'.step = "gen" /\ job'.todo = job.todo
                        /\ job'.order = job.order /\ job'.cmd = job.cmd)
    BY <1>6, <1>0 DEF FrontEnds, Finish, Job
  <2> QED
    BY <2>1, <1>3, <1>6, SameUnit, StepNames DEF FrontEnds, Planned
<1>7. CASE WriteGen
  <2>1. \E st \in {"compile", "link"} :
           /\ job' = [job EXCEPT !.step = st]
           /\ st = "compile" <=> Unit \in Libraries
    BY <1>7 DEF WriteGen, Go, Libraries
  <2> QED
    BY <2>1, <1>7, <1>0, SameUnit, StepNames DEF WriteGen, Planned, Job
<1>8. CASE compileToObject \/ Archive \/ WriteInterface \/ WriteLibs \/ CompileAndLink
  <2>1. \E st \in {"archive", "iface", "libs", "tidy"} :
           /\ job' = [job EXCEPT !.step = st] \/ FailStep
           /\ st # "tidy" => Unit \in Libraries
    BY <1>8, StepNames DEF compileToObject, Archive, WriteInterface, WriteLibs,
       CompileAndLink, Go, Planned
  <2>2. job.step \in BuildSteps
    BY <1>8, StepNames DEF compileToObject, Archive, WriteInterface, WriteLibs,
       CompileAndLink
  <2>3. PICK st \in {"archive", "iface", "libs", "tidy"} :
           /\ job' = [job EXCEPT !.step = st] \/ FailStep
           /\ st # "tidy" => Unit \in Libraries
    BY <2>1
  <2>4. /\ job'.cmd = job.cmd /\ job'.todo = job.todo /\ job'.order = job.order
        /\ Unit' = Unit
        /\ FailStep => job'.step = "tidy"
        /\ ~FailStep => job'.step = st
    BY <2>3, StepChange
  <2> QED
    BY <2>2, <2>3, <2>4, StepNames DEF Planned
<1>9. CASE Tidy
  <2>1. job.step = "tidy" /\ job.step \in BuildSteps
    BY <1>9, StepNames DEF Tidy
  <2>2. CASE job' = [job EXCEPT !.step = "launch", !.todo = {}, !.read = NoRead]
             /\ job.cmd = "run"
    BY <2>2, <1>0, StepNames DEF Planned, Job
  <2>3. /\ Unit \in job.todo
        /\ Unit \in Libraries => Unit \in job.order /\ Root \in job.todo
        /\ Unit = Root => job.todo \cap Libraries = {}
        /\ Unit = Test => job.todo = {Test}
    BY <2>1, UnitIsNext
  <2>4. Rest \subseteq job.todo /\ Unit \notin Rest
    BY DEF Rest
  <2>5. /\ job.todo \subseteq job.order \cup {Root, Test}
        /\ Root \in job.todo \/ job.todo = {Test}
        /\ Test \in job.todo => job.cmd = "test"
        /\ \A p \in job.order : Needs[p] \subseteq job.order
        /\ job.order \subseteq Libraries
    BY <2>1, <1>0 DEF Planned, Job
  <2>6. Rest # {} => Root \in Rest \/ Rest = {Test}
    <3>1. Unit \in Libraries \cup {Root, Test}
      BY <2>3, <2>5
    <3> QED
      BY <3>1, <2>3, <2>4, <2>5, Constants DEF Rest
  <2>7. CASE Rest # {} /\ job' = [job EXCEPT !.step = "front", !.todo = Rest,
                                             !.read = NoRead]
    <3>1. /\ job'.step = "front" /\ job'.todo = Rest /\ job'.order = job.order
          /\ job'.cmd = job.cmd
      BY <2>7, <1>0 DEF Job
    <3> QED
      BY <3>1, <2>4, <2>5, <2>6, <2>7, StepNames DEF Planned
  <2>8. CASE Rest = {Test} /\ job' = [job EXCEPT !.step = "front", !.todo = Rest,
                                         !.read = NoRead, !.order = Order(manifest)]
    <3>1. /\ job'.step = "front" /\ job'.todo = {Test} /\ job'.cmd = job.cmd
          /\ job'.order = Order(manifest)
      BY <2>8, <1>0 DEF Job
    <3>2. job.cmd = "test"
      BY <2>4, <2>5, <2>8
    <3> QED
      BY <3>1, <3>2, OrderIsClosed, StepNames DEF Planned
  <2> QED
    BY <2>1, <2>2, <2>7, <2>8, <1>3, <1>9, NextUnitIs DEF Tidy
<1> QED
  BY <1>1, <1>2, <1>4, <1>5, <1>6, <1>7, <1>8, <1>9, StepKinds DEF Building
-----------------------------------------------------------------------------
(* The target directories                                                    *)

\* What a step of the build leaves of the job, lib and left.
LEMMA BuildStepIs ==
    ASSUME TypeOK, Planned, Building
    PROVE  \/ /\ Resolve \/ FrontEnds
              /\ job.step \in {"resolve", "front"}
              /\ job'.step \in BuildSteps => job'.step \in {"front", "gen"}
              /\ UNCHANGED <<lib, left, bin, killed>>
           \/ /\ WriteGen /\ job.step = "gen"
              /\ UNCHANGED <<lib, bin, killed>> /\ Unit' = Unit
              /\ job'.step \in {"compile", "link"}
           \/ /\ compileToObject /\ job.step = "compile"
              /\ UNCHANGED <<lib, bin, killed>> /\ Unit' = Unit
              /\ job'.step \in {"archive", "tidy"}
           \/ /\ Archive /\ job.step = "archive"
              /\ UNCHANGED <<left, bin, killed>> /\ Unit' = Unit
              /\ \/ job'.step = "iface" /\ lib' = [lib EXCEPT ![Unit].archive = job.read]
                 \/ job'.step = "tidy" /\ job'.failed /\ lib' = lib
           \/ /\ WriteInterface /\ job.step = "iface"
              /\ UNCHANGED <<left, bin, killed>> /\ Unit' = Unit
              /\ job'.step = "libs" /\ lib' = [lib EXCEPT ![Unit].iface = job.read.v]
           \/ /\ WriteLibs /\ job.step = "libs"
              /\ UNCHANGED <<left, bin, killed>> /\ Unit' = Unit
              /\ job'.step = "tidy" /\ lib' = [lib EXCEPT ![Unit].libs = job.read.v]
           \/ /\ CompileAndLink /\ job.step = "link"
              /\ UNCHANGED <<lib, left, killed>> /\ Unit' = Unit
              /\ job'.step = "tidy"
           \/ /\ Tidy /\ job.step = "tidy"
              /\ UNCHANGED <<lib, bin, killed>>
              /\ left' = left \ {<<Unit, "gen.cpp">>, <<Unit, "o">>}
              /\ job'.step \in BuildSteps => job'.step = "front"
<1>0. job \in Job
  BY DEF TypeOK
<1>1. CASE Resolve
  BY <1>1, <1>0, IdleIsPlanned DEF Resolve, Finish, files, Job
<1>2. CASE FrontEnds
  BY <1>2, <1>0, IdleIsPlanned DEF FrontEnds, Finish, files, Job
<1>3. CASE WriteGen
  BY <1>3, <1>0, StepChange DEF WriteGen, Go, Job
<1>4. CASE compileToObject
  BY <1>4, <1>0, StepChange DEF compileToObject, Go, Job, FailStep
<1>5. CASE Archive
  BY <1>5, <1>0, StepChange DEF Archive, Go, Job, FailStep
<1>6. CASE WriteInterface
  BY <1>6, <1>0, StepChange DEF WriteInterface, Go, Job
<1>7. CASE WriteLibs
  BY <1>7, <1>0, StepChange DEF WriteLibs, Go, Job
<1>8. CASE CompileAndLink
  BY <1>8, <1>0, StepChange DEF CompileAndLink, Go, Job, FailStep
<1>9. CASE Tidy
  <2>1. job.step = "tidy" /\ NextUnit
    BY <1>9 DEF Tidy
  <2>2. job' = Idle \/ job'.step \in {"launch", "front"}
    BY <2>1, <1>0, NextUnitIs DEF Job
  <2> QED
    BY <2>2, <1>9, IdleIsPlanned, StepNames DEF Tidy
<1> QED
  BY <1>1, <1>2, <1>3, <1>4, <1>5, <1>6, <1>7, <1>8, <1>9 DEF Building

LEMMA ReplacingStep ==
    ASSUME TypeOK, Planned, Replacing, Next
    PROVE  Replacing'
<1>0. job \in Job /\ lib \in [Libraries -> Outputs]
  BY DEF TypeOK
<1>1. CASE Commanding
  BY <1>1, StepNames DEF Commanding, Replacing
<1>2. CASE Elsewhere
  BY <1>2, SameUnit DEF Elsewhere, Replacing
<1>3. CASE Kill
  BY <1>3, IdleIsPlanned DEF Kill, Finish, Replacing
<1>4. CASE Archive
  <2>1. Unit \in Libraries
    BY <1>4, StepNames DEF Archive, Planned
  <2>2. Unit' = Unit /\ job'.read = job.read
    BY <1>4, StepChange DEF Archive, Go
  <2>3. \/ job'.step = "iface" /\ lib' = [lib EXCEPT ![Unit].archive = job.read]
        \/ job'.step = "tidy"
    BY <1>0, <1>4 DEF Archive, Go, FailStep, Job
  <2>4. CASE job'.step = "iface" /\ lib' = [lib EXCEPT ![Unit].archive = job.read]
    <3>1. lib'[Unit].archive = job.read
      BY <1>0, <2>1, <2>4 DEF Outputs
    <3> QED
      BY <2>2, <2>4, <3>1 DEF Replacing
  <2> QED
    BY <2>3, <2>4 DEF Replacing
<1>5. CASE WriteInterface
  <2>1. Unit \in Libraries /\ job.step = "iface"
    BY <1>5, StepNames DEF WriteInterface, Planned
  <2>2. Unit' = Unit /\ job'.read = job.read
    BY <1>5, StepChange DEF WriteInterface, Go
  <2>3. lib'[Unit].archive = lib[Unit].archive /\ lib'[Unit].iface = job.read.v
    BY <1>0, <1>5, <2>1 DEF WriteInterface, Outputs
  <2> QED
    BY <2>1, <2>2, <2>3 DEF Replacing
<1>6. CASE Building /\ ~Archive /\ ~WriteInterface
  BY <1>6, BuildStepIs, StepNames DEF Replacing
<1> QED
  BY <1>1, <1>2, <1>3, <1>4, <1>5, <1>6, StepKinds

LEMMA TidiedStep ==
    ASSUME TypeOK, Planned, Replacing, Tidied, Next
    PROVE  Tidied'
<1>0. /\ job \in Job /\ lib \in [Libraries -> Outputs]
      /\ left \subseteq Units \X {"gen.cpp", "o"}
  BY DEF TypeOK
<1>1. CASE Commanding
  BY <1>1, StepNames DEF Commanding, Tidied, Whole
<1>2. CASE Elsewhere
  BY <1>2, SameUnit DEF Elsewhere, Tidied, Whole
<1>3. CASE Kill
  BY <1>3 DEF Kill, Tidied
<1>4. CASE Building
  <2> SUFFICES ASSUME ~killed'
               PROVE  Tidied'
    BY DEF Tidied
  <2>1. killed' = killed /\ ~killed
    BY <1>4, BuildStepIs
  <2>2. job.step # "resolve" => job.step \in BuildSteps
    BY <1>4, StepNames DEF Building, Resolve, FrontEnds, WriteGen, compileToObject,
       Archive, WriteInterface, WriteLibs, CompileAndLink, Tidy
  <2>3. left' \subseteq (IF job'.step \in BuildSteps \ {"front", "gen"}
                         THEN {Unit'} \X {"gen.cpp", "o"} ELSE {})
    <3>1. CASE job.step \in {"resolve", "front", "gen"}
      <4>1. left = {}
        BY <2>1, <3>1, StepNames DEF Tidied
      <4> QED
        BY <3>1, <4>1, <1>4, BuildStepIs, StepNames
           DEF WriteGen, compileToObject, Archive, WriteInterface, WriteLibs,
               CompileAndLink, Tidy
    <3>2. CASE job.step \notin {"resolve", "front", "gen"}
      <4>1. left \subseteq {Unit} \X {"gen.cpp", "o"} /\ job.step \in BuildSteps
        BY <2>1, <2>2, <3>2 DEF Tidied
      <4>2. CASE compileToObject
        <5>1. left' \subseteq left \cup {<<Unit, "o">>}
          BY <4>2 DEF compileToObject
        <5> QED
          BY <4>1, <4>2, <5>1, <1>4, <3>2, BuildStepIs, StepNames
             DEF compileToObject, Resolve, FrontEnds, WriteGen, Archive,
                 WriteInterface, WriteLibs, CompileAndLink, Tidy
      <4>3. CASE Archive \/ WriteInterface \/ WriteLibs \/ CompileAndLink
        <5>1. left' = left /\ Unit' = Unit
          BY <4>3, <1>4, <3>2, BuildStepIs
             DEF compileToObject, Resolve, FrontEnds, WriteGen, Archive,
                 WriteInterface, WriteLibs, CompileAndLink, Tidy
        <5>2. job'.step \in {"iface", "libs", "tidy"}
          BY <4>3, <1>4, <3>2, BuildStepIs
             DEF compileToObject, Resolve, FrontEnds, WriteGen, Archive,
                 WriteInterface, WriteLibs, CompileAndLink, Tidy
        <5> QED
          BY <4>1, <5>1, <5>2, StepNames
      <4>4. CASE Tidy
        <5>1. left' = {}
          BY <4>1, <4>4 DEF Tidy
        <5> QED
          BY <5>1
      <4> QED
        BY <1>4, <3>2, <4>2, <4>3, <4>4 DEF Building, Resolve, FrontEnds, WriteGen
    <3> QED
      BY <3>1, <3>2
  <2>4. ASSUME NEW p \in Libraries
        PROVE  Whole(p)' \/ (job'.step \in {"iface", "libs"} /\ p = Unit')
    <3>1. Whole(p) \/ (job.step \in {"iface", "libs"} /\ p = Unit)
      BY <2>1, <2>4 DEF Tidied
    <3>2. CASE lib' = lib /\ job.step \notin {"iface", "libs"}
      <4>1. Whole(p)' <=> Whole(p)
        BY <3>2 DEF Whole
      <4> QED
        BY <3>1, <3>2, <4>1
    <3>3. CASE Archive /\ job'.step = "iface" /\ Unit' = Unit
               /\ lib' = [lib EXCEPT ![Unit].archive = job.read]
      <4>1. p # Unit => lib'[p] = lib[p] /\ Whole(p)
        BY <3>1, <3>3, <1>0, <2>4 DEF Archive
      <4> QED
        BY <3>3, <4>1 DEF Whole
    <3>4. CASE WriteInterface /\ job'.step = "libs" /\ Unit' = Unit
               /\ lib' = [lib EXCEPT ![Unit].iface = job.read.v]
      <4>1. p # Unit => lib'[p] = lib[p] /\ Whole(p)
        BY <3>1, <3>4, <1>0, <2>4 DEF WriteInterface
      <4> QED
        BY <3>4, <4>1 DEF Whole
    <3>5. CASE WriteLibs /\ lib' = [lib EXCEPT ![Unit].libs = job.read.v]
      <4>1. p # Unit => lib'[p] = lib[p] /\ Whole(p)
        BY <3>1, <3>5, <1>0, <2>4 DEF WriteLibs
      <4>2. job.step = "libs" /\ lib[Unit].archive = job.read
            /\ lib[Unit].iface = job.read.v
        BY <3>5 DEF WriteLibs, Replacing
      <4>3. p = Unit => /\ lib'[p].archive = lib[p].archive
                        /\ lib'[p].iface = lib[p].iface
                        /\ lib'[p].libs = job.read.v
        BY <3>5, <1>0, <2>4 DEF Outputs
      <4> QED
        BY <4>1, <4>2, <4>3 DEF Whole
    <3> QED
      BY <1>4, <3>2, <3>3, <3>4, <3>5, BuildStepIs
  <2> QED
    BY <2>3, <2>4 DEF Tidied
<1> QED
  BY <1>1, <1>2, <1>3, <1>4, StepKinds
-----------------------------------------------------------------------------
(* What is linked                                                            *)

\* A replaced library disturbs none of those that do not need it.
LEMMA OthersStay ==
    ASSUME TypeOK, NEW p \in Libraries, Built(p), NEW u,
           u # p, u \notin Needs[p],
           \A d \in Libraries : d # u => lib'[d] = lib[d]
    PROVE  Built(p)'
<1>1. Needs[p] \subseteq Libraries
  BY Constants
<1>2. lib'[p] = lib[p] /\ \A d \in Needs[p] : lib'[d].archive.v = lib[d].archive.v
  BY <1>1
<1>3. {<<d, lib'[d].archive.v>> : d \in Needs[p]}
        = {<<d, lib[d].archive.v>> : d \in Needs[p]}
  BY <1>2
<1> QED
  BY <1>2, <1>3 DEF Built, Against

LEMMA BehindUs ==
    ASSUME TypeOK, Planned, Consistent, job.step \in BuildSteps, Root \in job.todo
    PROVE  /\ Closure(Unit) \subseteq job.order \ job.todo
           /\ Unit \notin Closure(Unit)
           /\ Unit = Root \/ Unit \in Libraries
           /\ Unit \in Libraries => Closure(Unit) = Needs[Unit]
           /\ Unit = Root => Closure(Unit) = job.order
<1>1. /\ Unit \in job.todo /\ Unit \in Units
      /\ Unit \in Libraries => Needs[Unit] \cap job.todo = {} /\ Unit \in job.order
      /\ Unit = Root => job.todo \cap Libraries = {}
      /\ Unit = Test => job.todo = {Test}
  BY UnitIsNext
<1>2. job.order \subseteq Libraries /\ \A p \in job.order : Needs[p] \subseteq job.order
  BY DEF TypeOK, Job, Planned
<1>3. Unit = Root \/ Unit \in Libraries
  BY <1>1, Constants
<1>4. /\ Unit \in Libraries => Closure(Unit) = Needs[Unit]
      /\ Unit = Root => Closure(Unit) = job.order
  BY Constants DEF Closure, Libraries
<1> QED
  BY <1>1, <1>2, <1>3, <1>4

LEMMA ConsistentStep ==
    ASSUME TypeOK, Planned, Replacing, Consistent, Next
    PROVE  Consistent'
<1>0. job \in Job /\ lib \in [Libraries -> Outputs]
  BY DEF TypeOK
<1>1. CASE job'.step \notin BuildSteps
  BY <1>1 DEF Consistent
<1>2. CASE Elsewhere
  BY <1>2, SameUnit DEF Elsewhere, Consistent, Built, Against, Closure
<1>3. CASE Building /\ job'.step \in BuildSteps
  <2> SUFFICES ASSUME Root \in job'.todo
               PROVE  Consistent'
    BY DEF Consistent
  <2>1. CASE Resolve
    <3>1. /\ job'.step = "front" /\ job'.order = Order(manifest)
          /\ Order(manifest) \subseteq job'.todo
      <4>1. job' # Idle
        BY <1>3, IdleIsPlanned
      <4>2. \E t \in SUBSET Units :
               /\ Order(manifest) \subseteq t
               /\ job' = [job EXCEPT !.step = "front", !.order = Order(manifest),
                                     !.todo = t]
        <5>1. Order(manifest) \cup {Root} \cup
                (IF job.cmd = "test" THEN {Test} ELSE {}) \in SUBSET Units
          BY OrderIsClosed, Constants
        <5> QED
          BY <2>1, <4>1, <5>1 DEF Resolve, Finish
      <4> QED
        BY <4>2, <1>0 DEF Job
    <3> QED
      BY <3>1 DEF Consistent
  <2>2. CASE FrontEnds
    <3>1. job.step = "front" /\ lib' = lib
      BY <2>2 DEF FrontEnds, files
    <3>2. /\ job'.step = "gen" /\ job'.todo = job.todo /\ job'.order = job.order
          /\ job'.read.against = {<<d, lib[d].iface>> : d \in Closure(Unit)}
      <4>1. job' # Idle
        BY <1>3, IdleIsPlanned
      <4> DEFINE new == [v |-> src[Unit].v, at |-> now,
                         verdict |-> src[Unit].verdict,
                         against |-> {<<d, lib[d].iface>> : d \in Closure(Unit)}]
      <4>2. job' = [job EXCEPT !.step = "gen", !.read = new]
        BY <2>2, <4>1 DEF FrontEnds, Finish
      <4>3. new.against = {<<d, lib[d].iface>> : d \in Closure(Unit)}
        OBVIOUS
      <4> HIDE DEF new
      <4>4. /\ job'.step = "gen" /\ job'.todo = job.todo
            /\ job'.order = job.order /\ job'.read = new
        BY <4>2, <1>0 DEF Job
      <4> QED
        BY <4>3, <4>4
    <3>3. Unit' = Unit /\ Closure(Unit)' = Closure(Unit)
      BY <3>2, SameUnit DEF Closure
    <3>4. Closure(Unit) \subseteq job.order \ job.todo
      BY <3>1, <3>2, BehindUs, StepNames
    <3>5. \A d \in Closure(Unit) : lib[d].iface = lib[d].archive.v
      BY <3>1, <3>2, <3>4, StepNames DEF Consistent, Built
    <3>6. job'.read.against = Against(Closure(Unit))
      BY <3>2, <3>5 DEF Against
    <3>7. Against(Closure(Unit))' = Against(Closure(Unit))
      BY <3>1, <3>3 DEF Against
    <3>8. \A p \in job.order \ job.todo : Built(p)' /\ Needs[p] \cap job.todo = {}
      BY <3>1, <3>2, StepNames DEF Consistent, Built, Against
    <3> QED
      BY <3>2, <3>6, <3>7, <3>8 DEF Consistent
  <2>3. CASE WriteGen \/ compileToObject \/ CompileAndLink \/ (Archive /\ lib' = lib)
    <3>1. /\ job.step \in {"gen", "compile", "link", "archive"} /\ lib' = lib
          /\ job.step = "link" => Unit \notin Libraries
      BY <2>3, StepNames DEF WriteGen, compileToObject, CompileAndLink, Archive, Planned
    <3>2. \E st \in {"compile", "link", "archive", "iface", "tidy"} :
             /\ job' = [job EXCEPT !.step = st] \/ FailStep
             /\ st = "tidy" => job.step = "link"
      BY <2>3 DEF WriteGen, compileToObject, CompileAndLink, Archive, Go
    <3>3. PICK st \in {"compile", "link", "archive", "iface", "tidy"} :
             /\ job' = [job EXCEPT !.step = st] \/ FailStep
             /\ st = "tidy" => job.step = "link"
      BY <3>2
    <3>4. /\ job'.todo = job.todo /\ job'.order = job.order /\ job'.read = job.read
          /\ Unit' = Unit /\ Closure(Unit)' = Closure(Unit)
          /\ FailStep => job'.step = "tidy" /\ job'.failed = TRUE
          /\ ~FailStep => job'.step = st /\ job'.failed = job.failed
      BY <3>3, StepChange
    <3>5. /\ \A p \in job.order \ job.todo : Built(p) /\ Needs[p] \cap job.todo = {}
          /\ job.read.against = Against(Closure(Unit))
      BY <3>1, <3>4, StepNames DEF Consistent
    <3>6. /\ \A p \in job.order \ job.todo : Built(p)'
          /\ Against(Closure(Unit))' = Against(Closure(Unit))
      BY <3>1, <3>4, <3>5 DEF Built, Against
    <3> QED
      BY <3>1, <3>3, <3>4, <3>5, <3>6 DEF Consistent
  <2>4. CASE Archive /\ lib' # lib
    <3>1. job.step = "archive" /\ Unit \in Libraries
      BY <2>4, StepNames DEF Archive, Planned
    <3>2. /\ lib' = [lib EXCEPT ![Unit].archive = job.read]
          /\ job' = [job EXCEPT !.step = "iface"]
      BY <2>4 DEF Archive, Go
    <3>3. /\ job'.todo = job.todo /\ job'.order = job.order /\ job'.read = job.read
          /\ Unit' = Unit /\ Closure(Unit)' = Closure(Unit) /\ job'.step = "iface"
      BY <3>2, <1>0, StepChange DEF Job
    <3>4. \A d \in Libraries : d # Unit => lib'[d] = lib[d]
      BY <3>2, <1>0
    <3>5. /\ Closure(Unit) \subseteq Libraries /\ Unit \notin Closure(Unit)
          /\ Unit \in job.todo /\ job.order \subseteq Libraries
      BY <3>1, <3>3, <1>0, BehindUs, UnitIsNext, StepNames DEF Job
    <3>6. /\ \A p \in job.order \ job.todo : Built(p) /\ Needs[p] \cap job.todo = {}
          /\ job.read.against = Against(Closure(Unit))
      BY <3>1, <3>3, StepNames DEF Consistent
    <3>7. \A p \in job.order \ job.todo : Built(p)'
      BY <3>4, <3>5, <3>6, OthersStay
    <3>8. \A d \in Closure(Unit) : lib'[d].archive.v = lib[d].archive.v
      BY <3>4, <3>5
    <3>9. Against(Closure(Unit))' = Against(Closure(Unit))
      BY <3>3, <3>8 DEF Against
    <3> QED
      BY <3>3, <3>6, <3>7, <3>9 DEF Consistent
  <2>5. CASE WriteInterface
    <3>1. job.step = "iface" /\ Unit \in Libraries
      BY <2>5, StepNames DEF WriteInterface, Planned
    <3>2. /\ lib' = [lib EXCEPT ![Unit].iface = job.read.v]
          /\ job' = [job EXCEPT !.step = "libs"]
      BY <2>5 DEF WriteInterface, Go
    <3>3. /\ job'.todo = job.todo /\ job'.order = job.order /\ job'.read = job.read
          /\ Unit' = Unit /\ Closure(Unit)' = Closure(Unit) /\ job'.step = "libs"
      BY <3>2, <1>0, StepChange DEF Job
    <3>4. \A d \in Libraries : d # Unit => lib'[d] = lib[d]
      BY <3>2, <1>0
    <3>5. /\ Closure(Unit) \subseteq Libraries /\ Unit \notin Closure(Unit)
          /\ Unit \in job.todo /\ job.order \subseteq Libraries
      BY <3>1, <3>3, <1>0, BehindUs, UnitIsNext, StepNames DEF Job
    <3>6. /\ \A p \in job.order \ job.todo : Built(p) /\ Needs[p] \cap job.todo = {}
          /\ job.read.against = Against(Closure(Unit))
      BY <3>1, <3>3, StepNames DEF Consistent
    <3>7. \A p \in job.order \ job.todo : Built(p)'
      BY <3>4, <3>5, <3>6, OthersStay
    <3>8. \A d \in Closure(Unit) : lib'[d].archive.v = lib[d].archive.v
      BY <3>4, <3>5
    <3>9. Against(Closure(Unit))' = Against(Closure(Unit))
      BY <3>3, <3>8 DEF Against
    <3> QED
      BY <3>3, <3>6, <3>7, <3>9 DEF Consistent
  <2>6. CASE WriteLibs
    <3>1. job.step = "libs" /\ Unit \in Libraries
      BY <2>6, StepNames DEF WriteLibs, Planned
    <3>2. /\ lib' = [lib EXCEPT ![Unit].libs = job.read.v]
          /\ job' = [job EXCEPT !.step = "tidy"]
      BY <2>6 DEF WriteLibs, Go
    <3>3. /\ job'.todo = job.todo /\ job'.order = job.order /\ Unit' = Unit
          /\ job'.step = "tidy"
      BY <3>2, <1>0, SameUnit DEF Job
    <3>4. \A d \in Libraries : /\ d # Unit => lib'[d] = lib[d]
                               /\ lib'[d].archive = lib[d].archive
                               /\ lib'[d].iface = lib[d].iface
      BY <3>2, <1>0 DEF Outputs
    <3>5. /\ Closure(Unit) = Needs[Unit] /\ Unit \in job.todo
          /\ job.order \subseteq Libraries
      BY <3>1, <3>3, <1>0, BehindUs, UnitIsNext, StepNames DEF Job
    <3>6. /\ \A p \in job.order \ job.todo : Built(p) /\ Needs[p] \cap job.todo = {}
          /\ job.read.against = Against(Needs[Unit])
      BY <3>1, <3>3, <3>5, StepNames DEF Consistent
    <3>7. \A p \in job.order \ job.todo : Built(p)'
      BY <3>4, <3>5, <3>6, OthersStay
    <3>8. lib[Unit].archive = job.read /\ lib[Unit].iface = job.read.v
      BY <3>1 DEF Replacing
    <3>9. Built(Unit)
      BY <3>6, <3>8 DEF Built
    <3>10. Needs[Unit] \subseteq Libraries
      BY <3>1, Constants
    <3>11. {<<d, lib'[d].archive.v>> : d \in Needs[Unit]}
             = {<<d, lib[d].archive.v>> : d \in Needs[Unit]}
      BY <3>4, <3>10
    <3>12. Built(Unit)'
      BY <3>1, <3>3, <3>4, <3>9, <3>11 DEF Built, Against
    <3> QED
      BY <3>3, <3>6, <3>7, <3>12 DEF Consistent
  <2>7. CASE Tidy
    <3>1. job.step = "tidy" /\ lib' = lib /\ NextUnit
      BY <2>7 DEF Tidy
    <3>2. ~job.failed /\ job'.step = "front" /\ job'.todo = Rest /\ Rest # {Test}
             /\ job'.order = job.order
      <4>1. Root # Test /\ job'.step \in BuildSteps /\ Root \in job'.todo
        BY <1>3, Constants
      <4>2. \/ /\ ~job.failed /\ job'.step = "launch"
            \/ job' = Idle
            \/ /\ ~job.failed /\ Rest # {} /\ Rest # {Test}
               /\ job' = [job EXCEPT !.step = "front", !.todo = Rest, !.read = NoRead]
            \/ /\ Rest = {Test} /\ job'.todo = Rest
        BY <3>1, <1>0, NextUnitIs DEF Job
      <4> QED BY <1>0, <4>1, <4>2, IdleIsPlanned, StepNames DEF Job
    <3>3. Rest = job.todo \ {Unit} /\ Root \in job.todo /\ Unit # Root
      BY <3>2 DEF Rest
    <3>4. Unit \in Libraries /\ Needs[Unit] \cap job.todo = {}
      BY <3>1, <3>3, BehindUs, UnitIsNext, StepNames
    <3>5. /\ \A p \in job.order \ job.todo : Built(p) /\ Needs[p] \cap job.todo = {}
          /\ Built(Unit)
      BY <3>1, <3>2, <3>3, <3>4, StepNames DEF Consistent
    <3>6. \A p \in job.order \ Rest : Built(p) /\ Needs[p] \cap Rest = {}
      BY <3>3, <3>4, <3>5
    <3>7. \A p \in job.order \ Rest : Built(p)'
      BY <3>1, <3>6 DEF Built, Against
    <3> QED
      BY <3>2, <3>6, <3>7 DEF Consistent
  <2> QED
    BY <1>3, <2>1, <2>2, <2>3, <2>4, <2>5, <2>6, <2>7 DEF Building
<1> QED
  BY <1>1, <1>2, <1>3, StepKinds, IdleIsPlanned DEF Commanding, Kill, Finish

LEMMA LinksStep ==
    ASSUME TypeOK, Planned, Consistent, LinksWhatItDeclares, Next
    PROVE  LinksWhatItDeclares'
<1>1. CASE bin' = bin
  BY <1>1 DEF LinksWhatItDeclares
<1>2. CASE bin' = NoBin
  BY <1>2 DEF LinksWhatItDeclares, NoBin
<1>3. CASE CompileAndLink /\ Unit = Root /\ bin' = Linked
  <2>1. job.step = "link" /\ job.step \in BuildSteps
    BY <1>3, StepNames DEF CompileAndLink
  <2>2. Root \in job.todo /\ job.order \subseteq Libraries
    BY <1>3, <2>1, UnitIsNext DEF TypeOK, Job
  <2>3. Closure(Unit) = job.order /\ job.order \subseteq job.order \ job.todo
    BY <1>3, <2>1, <2>2, BehindUs
  <2>4. job.read.against = Against(job.order)
    BY <2>1, <2>2, <2>3 DEF Consistent
  <2>5. \A p \in job.order :
           lib[p].archive.against = Against(Needs[p]) /\ Needs[p] \subseteq job.order
    BY <2>1, <2>2, <2>3 DEF Consistent, Built, Planned
  <2>6. \A dep \in Linked.against :
           \E d \in job.order : dep = <<d, lib[d].archive.v>>
    <3>1. Linked.against = job.read.against
                             \cup UNION {lib[p].archive.against : p \in job.order}
      BY DEF Linked
    <3>2. \A ps \in SUBSET job.order : \A dep \in Against(ps) :
             \E d \in job.order : dep = <<d, lib[d].archive.v>>
      BY DEF Against
    <3> QED
      BY <3>1, <3>2, <2>4, <2>5
  <2>7. \A d \in job.order : Linked.of[d].v = lib[d].archive.v
    <3>1. \A d \in job.order : d # Root
      BY <2>2, Constants
    <3> QED
      BY <3>1 DEF Linked
  <2>8. \A dep \in Linked.against : Linked.of[dep[1]].v = dep[2]
    BY <2>6, <2>7
  <2> QED
    BY <1>3, <2>8 DEF LinksWhatItDeclares
<1>4. CASE CompileAndLink
  BY <1>1, <1>2, <1>3, <1>4 DEF CompileAndLink
<1>5. CASE Building /\ ~CompileAndLink
  BY <1>1, <1>5, BuildStepIs
<1>6. CASE Kill
  BY <1>1, <1>6 DEF Kill
<1> QED
  BY <1>1, <1>4, <1>5, <1>6, StepKinds DEF Commanding, Elsewhere
-----------------------------------------------------------------------------
(* What is current                                                           *)

\* Sources only ever get newer versions, and those are dated.
LEMMA SourcesGrow ==
    ASSUME TypeOK, Dated, Next
    PROVE  /\ now <= now'
           /\ \A u \in Units : /\ src[u].v <= src'[u].v /\ src[u].time <= src'[u].time
                               /\ src'[u].time <= now'
                               /\ src'[u].v > src[u].v => src'[u].time >= now
<1>0. /\ now \in Nat /\ src \in [Units -> Sources] /\ \A u \in Units : src[u].time <= now
  BY DEF TypeOK, Dated
<1>1. \A u \in Units : src[u].v \in Nat /\ src[u].time \in Nat
  BY <1>0 DEF Sources
<1>2. CASE src' = src /\ now' = now
  BY <1>0, <1>1, <1>2
<1>3. CASE Tick
  BY <1>0, <1>1, <1>3 DEF Tick, files
<1>4. ASSUME NEW u \in Units, NEW verdict,
             src' = [src EXCEPT ![u] = [v |-> src[u].v + 1, time |-> now,
                                        verdict |-> verdict]],
             now' = now
      PROVE  /\ now <= now'
             /\ \A x \in Units : /\ src[x].v <= src'[x].v /\ src[x].time <= src'[x].time
                                 /\ src'[x].time <= now'
                                 /\ src'[x].v > src[x].v => src'[x].time >= now
  <2>1. \A x \in Units : x # u => src'[x] = src[x]
    BY <1>0, <1>4
  <2>2. src'[u].v = src[u].v + 1 /\ src'[u].time = now
    BY <1>0, <1>4
  <2> QED
    BY <1>0, <1>1, <1>4, <2>1, <2>2
<1>5. CASE Stub
  BY <1>2, <1>4, <1>5, Constants DEF Stub
<1>6. ASSUME NEW u \in Units, NEW verdict \in Verdicts, EditSource(u, verdict)
      PROVE  /\ now <= now'
             /\ \A x \in Units : /\ src[x].v <= src'[x].v /\ src[x].time <= src'[x].time
                                 /\ src'[x].time <= now'
                                 /\ src'[x].v > src[x].v => src'[x].time >= now
  BY <1>4, <1>6 DEF EditSource
<1>7. CASE Building \/ Kill
  BY <1>2, <1>7 DEF Building, Kill, Resolve, FrontEnds, WriteGen, compileToObject,
     Archive, WriteInterface, WriteLibs, CompileAndLink, Tidy, files
<1>8. CASE \/ cmdBuild \/ cmdTest \/ cmdRun \/ CheckStale \/ Launch
           \/ \E n \in Names : cmdAdd(n) \/ cmdRemove(n)
           \/ LookupFails \/ LookedUp \/ writeLines \/ cmdInit
           \/ \E m \in HandEdits[project] : EditManifest(m)
  BY <1>2, <1>8 DEF cmdBuild, cmdTest, cmdRun, CheckStale, Launch, cmdAdd, cmdRemove,
     LookupFails, LookedUp, writeLines, cmdInit, EditManifest, Begin, files
<1> QED
  BY <1>3, <1>5, <1>6, <1>7, <1>8 DEF Next, Building

LEMMA SinceStays ==
    ASSUME TypeOK, Planned, Dated, Next, NEW u \in Units, NEW made,
           made.v \in Nat, made.at \in Nat, Since(src[u], made)
    PROVE  made.at <= now' /\ (src'[u].v > made.v => src'[u].time >= made.at)
<1>1. /\ src[u].v \in Nat /\ src[u].time \in Nat /\ now \in Nat
      /\ src'[u].v \in Nat /\ src'[u].time \in Nat /\ now' \in Nat
  <2>1. TypeOK'
    BY TypeStep
  <2> QED
    BY <2>1 DEF TypeOK, Sources
<1> QED
  BY <1>1, SourcesGrow DEF Since

\* Of the three that are dated, only a build's steps replace any.
LEMMA WhatIsMade ==
    ASSUME TypeOK, Planned, Next
    PROVE  /\ \/ lib' = lib
              \/ Archive /\ lib' = [lib EXCEPT ![Unit].archive = job.read]
              \/ lib' = [lib EXCEPT ![Unit].iface = job.read.v]
              \/ lib' = [lib EXCEPT ![Unit].libs = job.read.v]
           /\ \/ bin' = bin \/ bin' = NoBin
              \/ CompileAndLink /\ Unit = Root /\ bin' = Linked
           /\ job'.step \in BuildSteps \ {"front"} =>
                 \/ FrontEnds
                 \/ /\ job.step \in BuildSteps \ {"front"}
                    /\ job'.read = job.read /\ Unit' = Unit
<1>0. job \in Job
  BY DEF TypeOK
<1>1. CASE Commanding
  BY <1>1 DEF Commanding
<1>2. CASE Elsewhere
  BY <1>2, SameUnit DEF Elsewhere
<1>3. CASE Kill
  BY <1>3, IdleIsPlanned DEF Kill, Finish
<1>4. CASE Resolve \/ Tidy \/ FrontEnds
  <2>1. lib' = lib /\ bin' = bin
    BY <1>4 DEF Resolve, Tidy, FrontEnds, files
  <2>2. Resolve \/ Tidy => job'.step \notin BuildSteps \ {"front"}
    <3>1. ASSUME Resolve
          PROVE  job'.step \in {"idle", "front"}
      BY <3>1, <1>0, IdleIsPlanned DEF Resolve, Finish, Job
    <3>2. ASSUME Tidy
          PROVE  job'.step \in {"idle", "front", "launch"}
      BY <3>2, <1>0, IdleIsPlanned DEF Tidy, NextUnit, Finish, Job
    <3> QED
      BY <3>1, <3>2, StepNames
  <2> QED
    BY <1>4, <2>1, <2>2
<1>5. CASE WriteGen \/ compileToObject \/ Archive \/ WriteInterface \/ WriteLibs
           \/ CompileAndLink
  <2>1. \E st \in Steps : job' = [job EXCEPT !.step = st] \/ FailStep
    BY <1>5, StepNames DEF WriteGen, compileToObject, Archive, WriteInterface,
       WriteLibs, CompileAndLink, Go
  <2>2. job'.read = job.read /\ Unit' = Unit
    BY <2>1, StepChange
  <2>3. job.step \in BuildSteps \ {"front"}
    BY <1>5, StepNames DEF WriteGen, compileToObject, Archive, WriteInterface,
       WriteLibs, CompileAndLink
  <2>4. /\ \/ lib' = lib
           \/ Archive /\ lib' = [lib EXCEPT ![Unit].archive = job.read]
           \/ lib' = [lib EXCEPT ![Unit].iface = job.read.v]
           \/ lib' = [lib EXCEPT ![Unit].libs = job.read.v]
        /\ \/ bin' = bin \/ bin' = NoBin
           \/ CompileAndLink /\ Unit = Root /\ bin' = Linked
    BY <1>5 DEF WriteGen, compileToObject, Archive, WriteInterface, WriteLibs,
       CompileAndLink
  <2> QED
    BY <2>2, <2>3, <2>4
<1> QED
  BY <1>1, <1>2, <1>3, <1>4, <1>5, StepKinds DEF Building

LEMMA DatedStep ==
    ASSUME TypeOK, Planned, Dated, Next
    PROVE  Dated'
<1>0. /\ job \in Job /\ lib \in [Libraries -> Outputs] /\ now \in Nat
      /\ src \in [Units -> Sources]
      /\ DOMAIN bin.of \subseteq Units
      /\ bin.of \in [DOMAIN bin.of -> [v : Nat, at : Nat]]
  BY DEF TypeOK
<1>1. \A u \in Units : src'[u].time <= now'
  BY SourcesGrow
<1>2. /\ \A p \in Libraries : lib[p].archive.v \in Nat /\ lib[p].archive.at \in Nat
      /\ job.read.v \in Nat /\ job.read.at \in Nat
      /\ \A p \in DOMAIN bin.of : bin.of[p].v \in Nat /\ bin.of[p].at \in Nat
  BY <1>0 DEF Outputs, Reads, Job
<1>3. Libraries \subseteq Units
  BY Constants
<1>4. ASSUME NEW p \in Libraries
      PROVE  Since(src[p], lib[p].archive)'
  <2>1. Since(src[p], lib[p].archive)
    BY DEF Dated
  <2>2. CASE lib'[p].archive = lib[p].archive
    BY <1>2, <1>3, <2>1, <2>2, SinceStays DEF Since
  <2>3. CASE /\ Archive /\ Unit = p
             /\ lib' = [lib EXCEPT ![Unit].archive = job.read]
    <3>1. lib'[p].archive = job.read
      BY <1>0, <2>3 DEF Outputs
    <3>2. src' = src /\ now' = now /\ job.step = "archive"
      BY <2>3 DEF Archive
    <3>3. Since(src[p], job.read)
      BY <2>3, <3>2, StepNames DEF Dated
    <3> QED
      BY <3>1, <3>2, <3>3 DEF Since
  <2> QED
    BY <1>0, <2>2, <2>3, WhatIsMade DEF Outputs
<1>5. ASSUME NEW p \in DOMAIN bin'.of
      PROVE  Since(src[p], bin.of[p])'
  <2>1. CASE bin' = bin
    <3>1. Since(src[p], bin.of[p]) /\ p \in Units
      BY <1>0, <2>1 DEF Dated
    <3> QED
      BY <1>2, <2>1, <3>1, SinceStays DEF Since
  <2>2. CASE bin' = NoBin
    BY <2>2 DEF NoBin
  <2>3. CASE CompileAndLink /\ Unit = Root /\ bin' = Linked
    <3>1. src' = src /\ now' = now /\ job.step = "link"
      BY <2>3 DEF CompileAndLink
    <3>2. Since(src[Root], job.read)
      BY <2>3, <3>1, StepNames DEF Dated
    <3>3. job.order \subseteq Libraries /\ Root \notin job.order
      BY <1>0, Constants DEF Job
    <3>4. p \in job.order \cup {Root}
      BY <2>3 DEF Linked
    <3>5. CASE p = Root
      <4>1. bin'.of[p].v = job.read.v /\ bin'.of[p].at = job.read.at
        BY <2>3, <3>5 DEF Linked
      <4> QED
        BY <3>1, <3>2, <3>5, <4>1 DEF Since
    <3>6. CASE p \in job.order
      <4>1. /\ bin'.of[p].v = lib[p].archive.v
            /\ bin'.of[p].at = lib[p].archive.at
        BY <2>3, <3>3, <3>6 DEF Linked
      <4>2. Since(src[p], lib[p].archive)
        BY <3>3, <3>6 DEF Dated
      <4> QED
        BY <3>1, <4>1, <4>2 DEF Since
    <3> QED
      BY <3>4, <3>5, <3>6
  <2> QED
    BY <2>1, <2>2, <2>3, WhatIsMade
<1>6. ASSUME job'.step \in BuildSteps \ {"front"}
      PROVE  Since(src[Unit], job.read)'
  <2>1. CASE FrontEnds
    <3>1. job.step = "front" /\ src' = src /\ now' = now
      BY <2>1 DEF FrontEnds, files
    <3>2. job' # Idle
      BY <1>6, IdleIsPlanned
    <3> DEFINE new == [v |-> src[Unit].v, at |-> now,
                       verdict |-> src[Unit].verdict,
                       against |-> {<<d, lib[d].iface>> : d \in Closure(Unit)}]
    <3>3. job' = [job EXCEPT !.step = "gen", !.read = new]
      BY <2>1, <3>2 DEF FrontEnds, Finish
    <3>4. new.v = src[Unit].v /\ new.at = now
      OBVIOUS
    <3> HIDE DEF new
    <3>5. job'.read = new /\ job'.todo = job.todo
      BY <3>3, <1>0 DEF Job
    <3>6. Unit' = Unit /\ Unit \in Units
      BY <3>1, <3>5, SameUnit, UnitIsNext, StepNames
    <3>7. src[Unit].v \in Nat
      BY <1>0, <3>6 DEF Sources
    <3> QED
      BY <1>0, <3>1, <3>4, <3>5, <3>6, <3>7 DEF Since
  <2>2. CASE /\ job.step \in BuildSteps \ {"front"}
             /\ job'.read = job.read /\ Unit' = Unit
    <3>1. Since(src[Unit], job.read) /\ Unit \in Units
      BY <2>2, UnitIsNext DEF Dated
    <3> QED
      BY <1>2, <2>2, <3>1, SinceStays DEF Since
  <2> QED
    BY <1>6, <2>1, <2>2, WhatIsMade
<1> QED
  BY <1>1, <1>4, <1>5, <1>6 DEF Dated

\* How `ebpm run` comes to where it is.
LEMMA Running ==
    ASSUME TypeOK, Planned, Next, job'.cmd = "run", job'.step \in RunSteps
    PROVE  \/ cmdRun
           \/ /\ CheckStale \/ Elsewhere \/ Building
              /\ job.cmd = "run" /\ job.step \in RunSteps /\ job'.asked = job.asked
<1>0. job \in Job /\ job' # Idle
  BY IdleIsPlanned DEF TypeOK
<1>1. ASSUME NEW c \in {"build", "test"}, Begin(c, "resolve")
      PROVE  FALSE
  BY <1>1 DEF Begin, Idle
<1>2. CASE cmdInit
  BY <1>2 DEF cmdInit, Idle
<1>3. ASSUME NEW n, cmdAdd(n) \/ cmdRemove(n)
      PROVE  FALSE
  BY <1>3 DEF cmdAdd, cmdRemove, Idle
<1>4. CASE LookedUp
  BY <1>0, <1>4 DEF LookedUp, Job, RunSteps, BuildSteps
<1>5. CASE Launch \/ LookupFails \/ writeLines \/ Stub \/ Kill
  BY <1>0, <1>5 DEF Launch, LookupFails, writeLines, Stub, Kill, Finish
<1>6. CASE CheckStale
  BY <1>0, <1>6 DEF CheckStale, Job, RunSteps
<1>7. CASE Tick \/ (\E u \in Units, verdict \in Verdicts : EditSource(u, verdict))
             \/ (\E m \in HandEdits[project] : EditManifest(m))
  <2>1. Elsewhere /\ job' = job
    BY <1>7 DEF Tick, EditSource, EditManifest, Elsewhere, files
  <2> QED
    BY <2>1
<1>8. CASE Resolve \/ FrontEnds
  <2>1. job.step \in RunSteps
    BY <1>8, StepNames DEF Resolve, FrontEnds, RunSteps
  <2>2. job'.cmd = job.cmd /\ job'.asked = job.asked
    BY <1>0, <1>8 DEF Resolve, FrontEnds, Finish, Job
  <2> QED
    BY <1>8, <2>1, <2>2 DEF Building
<1>9. CASE WriteGen \/ compileToObject \/ Archive \/ WriteInterface \/ WriteLibs
           \/ CompileAndLink
  <2>1. \E st \in Steps : job' = [job EXCEPT !.step = st] \/ FailStep
    BY <1>9, StepNames DEF WriteGen, compileToObject, Archive, WriteInterface,
       WriteLibs, CompileAndLink, Go
  <2>2. job'.cmd = job.cmd /\ job'.asked = job.asked
    BY <2>1, StepChange
  <2>3. job.step \in RunSteps
    BY <1>9, StepNames DEF WriteGen, compileToObject, Archive, WriteInterface,
       WriteLibs, CompileAndLink, RunSteps
  <2> QED
    BY <1>9, <2>2, <2>3 DEF Building
<1>10. CASE Tidy
  <2>1. job.step \in RunSteps /\ NextUnit /\ job.step = "tidy"
    BY <1>10, StepNames DEF Tidy, RunSteps
  <2>2. job'.cmd = job.cmd /\ job'.asked = job.asked
    BY <1>0, <2>1, NextUnitIs DEF Job
  <2> QED
    BY <1>10, <2>1, <2>2 DEF Building
<1>11. CASE cmdBuild \/ cmdTest
  BY <1>1, <1>11 DEF cmdBuild, cmdTest
<1> QED
  BY <1>2, <1>3, <1>4, <1>5, <1>6, <1>7, <1>8, <1>9, <1>10, <1>11 DEF Next

\* The parts of Current, for what the sources were when `run` was given.
LEMMA CurrentStep ==
    ASSUME TypeOK, Planned, Replacing, Consistent, Dated, Current, Next
    PROVE  Current'
<1>0. /\ job \in Job /\ lib \in [Libraries -> Outputs] /\ now \in Nat
      /\ src \in [Units -> Sources]
      /\ DOMAIN bin.of \subseteq Units
      /\ bin.of \in [DOMAIN bin.of -> [v : Nat, at : Nat]]
      /\ \A u \in Units : /\ src[u].v \in Nat /\ src[u].time \in Nat
                          /\ src'[u].v \in Nat /\ src'[u].time \in Nat
      /\ \A p \in Libraries : lib[p].archive.v \in Nat
      /\ job.read.v \in Nat
      /\ now' \in Nat
  <2>1. TypeOK'
    BY TypeStep
  <2> QED
    BY <2>1 DEF TypeOK, Sources, Outputs, Reads, Job
<1> SUFFICES ASSUME job'.cmd = "run", job'.step \in RunSteps
             PROVE  Current'
  BY DEF Current
<1>1. CASE cmdRun
  <2>1. /\ job' = [Idle EXCEPT !.cmd = "run", !.step = "check",
                               !.asked = src, !.order = Order(manifest)]
        /\ src' = src /\ bin' = bin /\ now' = now
    BY <1>1 DEF cmdRun, files
  <2>2. job'.step = "check" /\ job'.asked = src
    BY <2>1 DEF Idle
  <2>3. \A p \in DOMAIN bin.of : Since(src[p], bin.of[p])
    BY DEF Dated
  <2> QED
    BY <1>0, <2>1, <2>2, <2>3, StepNames DEF Current, Since
<1>2. CASE /\ CheckStale \/ Elsewhere \/ Building
           /\ job.cmd = "run" /\ job.step \in RunSteps /\ job'.asked = job.asked
  <2> DEFINE asked == job.asked
  <2>0. /\ asked \in [Units -> Sources]
        /\ \A u \in Units : /\ asked[u].v <= src[u].v
                            /\ asked[u].time <= src[u].time
                            /\ asked[u].v \in Nat /\ asked[u].time \in Nat
    BY <1>2 DEF Current, Sources
  <2>1. \A u \in Units : asked[u].v <= src'[u].v /\ asked[u].time <= src'[u].time
    BY <1>0, <2>0, SourcesGrow
  <2>2. CASE CheckStale
    <3>1. job'.step \in {"resolve", "launch"}
      BY <1>0, <2>2 DEF CheckStale, Job
    <3> QED
      BY <1>2, <2>0, <2>1, <3>1, StepNames DEF Current
  <2>3. CASE Elsewhere
    <3>1. job' = job /\ lib' = lib /\ bin' = bin /\ Unit' = Unit
      BY <2>3, SameUnit DEF Elsewhere
    <3>2. ASSUME job.step = "check", NEW p \in DOMAIN bin.of
          PROVE  Since(asked[p], bin.of[p])'
      <4>1. Since(asked[p], bin.of[p])
        BY <1>2, <3>2 DEF Current
      <4>2. bin.of[p].at \in Nat /\ now <= now'
        BY <1>0, SourcesGrow
      <4> QED
        BY <1>0, <3>1, <4>1, <4>2 DEF Since
    <3> QED
      BY <1>2, <2>0, <2>1, <3>1, <3>2 DEF Current
  <2>4. CASE Resolve
    <3>1. job' # Idle
      BY IdleIsPlanned
    <3> DEFINE todo == Order(manifest) \cup {Root} \cup
                         (IF job.cmd = "test" THEN {Test} ELSE {})
    <3>2. job'.step = "front" /\ job'.order = Order(manifest) /\ job'.todo = todo
      BY <1>0, <2>4, <3>1 DEF Resolve, Finish, Job
    <3>3. job'.order \ job'.todo = {}
      BY <3>2
    <3> QED
      BY <1>2, <2>0, <2>1, <3>2, <3>3 DEF Current
  <2> DEFINE Kept ==
        /\ job'.step \in BuildSteps =>
              \A p \in job'.order \ job'.todo : lib'[p].archive.v >= asked[p].v
        /\ job'.step \in BuildSteps \ {"front"} /\ ~job'.failed =>
              job'.read.v >= asked[Unit'].v
        /\ job'.step = "tidy" /\ ~job'.failed =>
              /\ Unit' \in Libraries => lib'[Unit'].archive.v >= asked[Unit'].v
              /\ Unit' = Root =>
                    \A p \in DOMAIN bin'.of : bin'.of[p].v >= asked[p].v
  <2>5. ASSUME Kept, job'.step # "check"
        PROVE  Current'
    BY <1>2, <2>0, <2>1, <2>5 DEF Current
  <2>6. ASSUME job.step \in BuildSteps
        PROVE  /\ \A p \in job.order \ job.todo : lib[p].archive.v >= asked[p].v
               /\ job.step # "front" /\ ~job.failed =>
                     job.read.v >= asked[Unit].v
               /\ job.step = "tidy" /\ ~job.failed =>
                     /\ Unit \in Libraries => lib[Unit].archive.v >= asked[Unit].v
                     /\ Unit = Root =>
                           \A p \in DOMAIN bin.of : bin.of[p].v >= asked[p].v
               /\ Unit \in job.todo /\ Unit \in Units
               /\ Test \notin job.todo /\ Root \in job.todo
               /\ job.order \subseteq Libraries
    <3>1. Test \notin job.todo /\ Root \in job.todo
      BY <1>2, <2>6 DEF Planned
    <3> QED
      BY <1>0, <1>2, <2>6, <3>1, UnitIsNext DEF Current, Job
  <2>7. CASE FrontEnds
    <3>1. job.step = "front" /\ src' = src /\ lib' = lib /\ job' # Idle
      BY <2>7, IdleIsPlanned DEF FrontEnds, files
    <3> DEFINE new == [v |-> src[Unit].v, at |-> now,
                       verdict |-> src[Unit].verdict,
                       against |-> {<<d, lib[d].iface>> : d \in Closure(Unit)}]
    <3>2. job' = [job EXCEPT !.step = "gen", !.read = new] /\ new.v = src[Unit].v
      BY <2>7, <3>1 DEF FrontEnds, Finish
    <3> HIDE DEF new
    <3>3. /\ job'.read = new /\ job'.todo = job.todo /\ job'.order = job.order
          /\ job'.step = "gen"
      BY <3>2, <1>0 DEF Job
    <3>4. Unit' = Unit /\ job.step \in BuildSteps
      BY <3>1, <3>3, SameUnit, StepNames
    <3>5. new.v >= asked[Unit].v
      BY <1>0, <2>0, <2>6, <3>2, <3>4
    <3>6. Kept
      BY <2>6, <3>1, <3>3, <3>4, <3>5
    <3> QED
      BY <2>5, <3>3, <3>6
  <2>8. CASE WriteGen \/ compileToObject \/ Archive \/ WriteInterface \/ WriteLibs
             \/ CompileAndLink
    <3>1. job.step \in BuildSteps \ {"front", "tidy"}
      BY <2>8, StepNames DEF WriteGen, compileToObject, Archive, WriteInterface,
         WriteLibs, CompileAndLink
    <3>2. \E st \in BuildSteps :
             /\ job' = [job EXCEPT !.step = st] \/ FailStep
             /\ st = "tidy" => WriteLibs \/ CompileAndLink
      BY <2>8, StepNames DEF WriteGen, compileToObject, Archive, WriteInterface,
         WriteLibs, CompileAndLink, Go
    <3>3. PICK st \in BuildSteps :
             /\ job' = [job EXCEPT !.step = st] \/ FailStep
             /\ st = "tidy" => WriteLibs \/ CompileAndLink
      BY <3>2
    <3>4. /\ job'.todo = job.todo /\ job'.order = job.order /\ job'.read = job.read
          /\ Unit' = Unit
          /\ FailStep => job'.step = "tidy" /\ job'.failed = TRUE
          /\ ~FailStep => job'.step = st /\ job'.failed = job.failed
      BY <3>3, StepChange
    <3>5. \A p \in Libraries : lib'[p].archive.v = lib[p].archive.v
                                 \/ (p = Unit /\ Archive)
      <4>1. \/ lib' = lib
            \/ Archive /\ lib' = [lib EXCEPT ![Unit].archive = job.read]
            \/ lib' = [lib EXCEPT ![Unit].iface = job.read.v]
            \/ lib' = [lib EXCEPT ![Unit].libs = job.read.v]
        BY WhatIsMade
      <4> QED
        BY <4>1, <1>0 DEF Outputs
    <3>6. \A p \in job.order \ job.todo : lib'[p].archive.v >= asked[p].v
      BY <2>6, <3>1, <3>5
    <3>7. ~job'.failed => ~job.failed /\ job.read.v >= asked[Unit].v
      BY <2>6, <3>1, <3>4
    <3>8. ASSUME job'.step = "tidy", ~job'.failed, Unit \in Libraries
          PROVE  lib'[Unit].archive.v >= asked[Unit].v
      <4>1. WriteLibs
        <5>1. CASE CompileAndLink
          BY <3>8, <5>1, StepNames DEF CompileAndLink, Planned
        <5> QED
          BY <3>3, <3>4, <3>8, <5>1
      <4>2. job.step = "libs"
        BY <4>1 DEF WriteLibs
      <4>3. lib[Unit].archive = job.read /\ ~Archive
        BY <4>2 DEF Replacing, Archive
      <4> QED
        BY <3>5, <3>7, <3>8, <4>3
    <3>9. ASSUME job'.step = "tidy", ~job'.failed, Unit = Root,
                 NEW p \in DOMAIN bin'.of
          PROVE  bin'.of[p].v >= asked[p].v
      <4>1. CompileAndLink /\ ~FailStep
        <5>1. CASE WriteLibs
          BY <3>9, <5>1, StepNames, Constants DEF WriteLibs, Planned
        <5> QED
          BY <3>3, <3>4, <3>9, <5>1
      <4>2. bin' = Linked
        BY <3>9, <4>1 DEF CompileAndLink
      <4>3. job.order \subseteq job.order \ job.todo /\ Root \notin job.order
        BY <2>6, <3>1, <3>9, BehindUs, Constants
      <4>4. p \in job.order \cup {Root}
        BY <3>9, <4>2 DEF Linked
      <4>5. CASE p = Root
        <5>1. bin'.of[p].v = job.read.v
          BY <4>2, <4>5 DEF Linked
        <5> QED
          BY <3>7, <3>9, <4>5, <5>1
      <4>6. CASE p \in job.order
        <5>1. bin'.of[p].v = lib[p].archive.v
          BY <4>2, <4>3, <4>6 DEF Linked
        <5> QED
          BY <2>6, <3>1, <4>3, <4>6, <5>1
      <4> QED
        BY <4>4, <4>5, <4>6
    <3>10. Kept
      BY <3>4, <3>6, <3>7, <3>8, <3>9
    <3> QED
      BY <2>5, <3>3, <3>4, <3>10, StepNames
  <2>9. CASE Tidy
    <3>1. job.step = "tidy" /\ NextUnit /\ lib' = lib /\ job' # Idle
      BY <2>9, IdleIsPlanned DEF Tidy
    <3>2. Rest # {Test}
      BY <2>6, <3>1, StepNames DEF Rest
    <3>3. \/ job'.step = "launch"
          \/ ~job.failed /\ job'.step = "front" /\ job'.todo = Rest
             /\ job'.order = job.order /\ Rest # {}
      BY <1>0, <3>1, <3>2, NextUnitIs DEF Job
    <3>4. CASE job'.step = "launch"
      BY <2>5, <3>4, StepNames
    <3>5. CASE ~job.failed /\ job'.step = "front" /\ job'.todo = Rest
               /\ job'.order = job.order
      <4>1. \A p \in job.order \ Rest : p \in job.order \ job.todo \/ p = Unit
        BY DEF Rest
      <4>2. \A p \in job.order \ Rest : lib[p].archive.v >= asked[p].v
        BY <2>6, <3>1, <3>5, <4>1, StepNames
      <4>3. Kept
        BY <3>1, <3>5, <4>2
      <4> QED
        BY <2>5, <3>5, <4>3
    <3> QED
      BY <3>3, <3>4, <3>5
  <2> QED
    BY <1>2, <2>2, <2>3, <2>4, <2>7, <2>8, <2>9 DEF Building
<1> QED
  BY <1>1, <1>2, Running

LEMMA RunStep ==
    ASSUME TypeOK, Planned, Dated, Current, RunIsCurrent, Next
    PROVE  RunIsCurrent'
<1>0. /\ job \in Job /\ src \in [Units -> Sources] /\ DOMAIN bin.of \subseteq Units
      /\ bin.of \in [DOMAIN bin.of -> [v : Nat, at : Nat]] /\ bin.time \in Nat
      /\ \A u \in Units : src[u].v \in Nat /\ src[u].time \in Nat
  BY DEF TypeOK, Sources
<1> SUFFICES ASSUME job'.step = "launch", NEW p \in DOMAIN bin'.of,
                    p \in job'.order \cup {Root}
             PROVE  \/ bin'.of[p].v >= job'.asked[p].v
                    \/ job'.asked[p].time \in bin'.of[p].at..bin'.time
  BY DEF RunIsCurrent
<1>1. CASE Elsewhere
  BY <1>1 DEF Elsewhere, RunIsCurrent
<1>2. CASE CheckStale
  <2>1. /\ job.step = "check" /\ bin' = bin /\ job.cmd = "run"
        /\ job'.order = job.order /\ job'.asked = job.asked
        /\ ~isStale(job.order \cup {Root})
    BY <1>0, <1>2 DEF CheckStale, files, Job, Planned
  <2>2. /\ job.asked \in [Units -> Sources] /\ p \in Units
        /\ job.asked[p].time <= src[p].time
        /\ Since(job.asked[p], bin.of[p])
    BY <1>0, <2>1 DEF Current, RunSteps
  <2>3. src[p].time <= bin.time
    BY <1>0, <2>1, <2>2 DEF isStale
  <2>4. /\ job.asked[p].v \in Nat /\ job.asked[p].time \in Nat
        /\ bin.of[p].v \in Nat /\ bin.of[p].at \in Nat
    BY <1>0, <2>1, <2>2 DEF Sources
  <2> QED
    BY <1>0, <2>1, <2>2, <2>3, <2>4 DEF Since
<1>3. CASE Tidy
  <2>1. job.step = "tidy" /\ NextUnit /\ bin' = bin /\ job' # Idle
    BY <1>3, IdleIsPlanned DEF Tidy
  <2>2. /\ ~job.failed /\ Rest = {} /\ job.cmd = "run" /\ job'.asked = job.asked
    BY <1>0, <2>1, NextUnitIs DEF Job
  <2>3. Unit = Root
    BY <2>1, <2>2, StepNames, Constants DEF Planned, Rest
  <2>4. bin.of[p].v >= job.asked[p].v
    BY <2>1, <2>2, <2>3, StepNames DEF Current, RunSteps
  <2> QED
    BY <2>1, <2>2, <2>4
<1>4. CASE Building /\ ~Tidy
  BY <1>4, <1>0, BuildStepIs, StepNames, IdleIsPlanned
     DEF Resolve, FrontEnds, Finish, Job
<1>5. job'.cmd = "run" /\ job'.step \in RunSteps
  <2>1. Planned'
    BY PlannedStep
  <2> QED
    BY <2>1 DEF Planned, RunSteps
<1>6. CASE cmdRun
  BY <1>6 DEF cmdRun, Idle
<1> QED
  BY <1>1, <1>2, <1>3, <1>4, <1>5, <1>6, Running
-----------------------------------------------------------------------------
(* What is edited                                                            *)

LEMMA EditingStep ==
    ASSUME TypeOK, Planned, Editing, Next
    PROVE  Editing'
<1>0. job \in Job
  BY DEF TypeOK
<1>1. CASE job'.step \notin {"lookup", "write"}
  BY <1>1 DEF Editing
<1>2. CASE job' = job
  BY <1>2 DEF Editing, dependencyNameExists, Removable, insertDependencyLine,
     removeDependencyLine
<1>3. ASSUME NEW n \in Names, cmdAdd(n)
      PROVE  Editing'
  <2>1. /\ job'.step = "lookup" /\ job'.cmd = "add" /\ job'.seen = manifest
        /\ job'.name = n
    BY <1>3 DEF cmdAdd, Idle
  <2> QED
    BY <1>3, <2>1 DEF Editing, cmdAdd
<1>4. ASSUME NEW n \in Names, cmdRemove(n)
      PROVE  Editing'
  <2>1. /\ job'.step = "write" /\ job'.cmd = "remove" /\ job'.seen = manifest
        /\ job'.name = n /\ job'.text = removeDependencyLine(manifest, n)
    BY <1>4 DEF cmdRemove, Idle
  <2> QED
    BY <1>4, <2>1 DEF Editing, cmdRemove
<1>5. CASE LookedUp
  <2>1. /\ job.step = "lookup" /\ job'.step = "write" /\ job'.cmd = job.cmd
        /\ job'.seen = (IF job.seen = manifest THEN job.seen ELSE <<>>)
        /\ job'.name = job.name
        /\ job'.text = insertDependencyLine(manifest, job.name)
    BY <1>0, <1>5 DEF LookedUp, Job
  <2>2. job.cmd = "add" /\ ~dependencyNameExists(job.seen, job.name)
    BY <2>1 DEF Editing
  <2> QED
    BY <2>1, <2>2 DEF Editing
<1>6. CASE Launch \/ LookupFails \/ writeLines \/ Stub \/ Kill
  BY <1>1, <1>6, IdleIsPlanned DEF Launch, LookupFails, writeLines, Stub, Kill, Finish
<1>7. CASE cmdBuild \/ cmdTest \/ cmdRun \/ cmdInit \/ CheckStale
  BY <1>0, <1>1, <1>7 DEF cmdBuild, cmdTest, cmdRun, cmdInit, CheckStale, Begin, Idle, Job
<1>8. CASE Tick \/ (\E u \in Units, verdict \in Verdicts : EditSource(u, verdict))
             \/ (\E m \in HandEdits[project] : EditManifest(m))
  BY <1>2, <1>8 DEF Tick, EditSource, EditManifest, files
<1>9. CASE Building
  <2>1. job'.step \in BuildSteps \/ job' = Idle \/ job'.step = "launch"
    <3>1. CASE Tidy
      BY <1>0, <3>1, NextUnitIs, StepNames DEF Tidy, Job
    <3>2. CASE Resolve \/ FrontEnds
      BY <1>0, <3>2, StepNames DEF Resolve, FrontEnds, Finish, Job
    <3>3. CASE ~Tidy /\ ~Resolve /\ ~FrontEnds
      BY <1>9, <3>3, BuildStepIs, StepNames
    <3> QED
      BY <3>1, <3>2, <3>3
  <2> QED
    BY <1>1, <2>1, IdleIsPlanned DEF BuildSteps
<1> QED
  BY <1>2, <1>3, <1>4, <1>5, <1>6, <1>7, <1>8, <1>9 DEF Next, Building

LEMMA InvInit == Init => Inv
<1> SUFFICES ASSUME Init PROVE Inv
  OBVIOUS
<1>1. /\ job = Idle /\ job.step = "idle" /\ job.cmd = "none"
      /\ job.step \notin BuildSteps /\ bin = NoBin /\ now = 0 /\ left = {}
      /\ lib = [p \in Libraries |-> NoLib]
  BY StepNames DEF Init, Idle, Libraries
<1>2. TypeOK
  BY TypeInit
<1>3. \A p \in Libraries : Whole(p) /\ lib[p].archive = NoRead
  BY <1>1 DEF Whole, NoLib, NoRead
<1>4. \A u \in Units : src[u].v \in Nat /\ src[u].time = 0
  BY DEF Init
<1>5. Dated
  <2>1. \A p \in Libraries : Since(src[p], lib[p].archive)
    <3> TAKE p \in Libraries
    <3>1. lib[p].archive.at = 0 /\ now = 0
      BY <1>1, <1>3 DEF NoRead
    <3>2. src[p].time = 0
      BY <1>4, Constants
    <3> QED BY <3>1, <3>2 DEF Since
  <2> QED
    BY <1>1, <1>4, <2>1 DEF Dated, NoBin
<1>6. Planned /\ Replacing /\ Consistent /\ Current /\ RunIsCurrent /\ Editing
  BY <1>1 DEF Planned, Replacing, Consistent, Current, RunIsCurrent, Editing
<1>7. Tidied
  BY <1>1, <1>3 DEF Tidied
<1>8. LinksWhatItDeclares
  BY <1>1 DEF LinksWhatItDeclares, NoBin
<1> QED
  BY <1>2, <1>5, <1>6, <1>7, <1>8 DEF Inv

LEMMA InvStep == Inv /\ [Next]_vars => Inv'
<1> SUFFICES ASSUME Inv, [Next]_vars PROVE Inv'
  OBVIOUS
<1>1. /\ TypeOK /\ Planned /\ Replacing /\ Tidied /\ Consistent
      /\ LinksWhatItDeclares /\ Dated /\ Current /\ RunIsCurrent /\ Editing
  BY DEF Inv
<1>2. CASE Next
  BY <1>1, <1>2, TypeStep, PlannedStep, ReplacingStep, TidiedStep, ConsistentStep,
     LinksStep, DatedStep, CurrentStep, RunStep, EditingStep DEF Inv
<1>3. CASE UNCHANGED vars
  <2>1. /\ TypeOK' /\ Planned' /\ Replacing' /\ Tidied'
    BY <1>1, <1>3, SameUnit DEF vars, TypeOK, Planned, Replacing, Tidied, Whole
  <2>2. Consistent' /\ LinksWhatItDeclares'
    BY <1>1, <1>3, SameUnit DEF vars, Consistent, Built, Against, Closure,
       LinksWhatItDeclares
  <2>3. Dated' /\ Current' /\ RunIsCurrent'
    BY <1>1, <1>3, SameUnit DEF vars, Dated, Since, Current, RunIsCurrent
  <2>4. Editing'
    BY <1>1, <1>3 DEF vars, Editing, dependencyNameExists, Removable,
       insertDependencyLine, removeDependencyLine
  <2> QED
    BY <2>1, <2>2, <2>3, <2>4 DEF Inv
<1> QED
  BY <1>2, <1>3

\* The invariant holds for any libraries, manifests, edits and commands.
THEOREM Invariance == Spec => []Inv
<1>1. Init => Inv
  BY InvInit
<1>2. Inv /\ [Next]_vars => Inv'
  BY InvStep
<1> QED
  BY <1>1, <1>2, PTL DEF Spec

\* ebpm and ebc leave the target directories whole, also when a build fails
\* half way (main.cpp of the compiler, buildPackageWithDeps).
THEOREM TargetIsWholeSafe == Spec => []TargetIsWhole
<1>1. Inv => TargetIsWhole
  <2> SUFFICES ASSUME Inv, job.step = "idle", ~killed
               PROVE  /\ left = {}
                      /\ \A p \in Libraries : Whole(p)
    BY DEF TargetIsWhole, Whole, Libraries
  <2>1. Tidied
    BY DEF Inv
  <2> QED
    BY <2>1, StepNames DEF Tidied
<1> QED
  BY <1>1, Invariance, PTL

\* Every object of the program was compiled against the interfaces of the
\* archives it is linked with, in the order buildPackageWithDeps builds them.
THEOREM LinksWhatItDeclaresSafe == Spec => []LinksWhatItDeclares
<1>1. Inv => LinksWhatItDeclares
  BY DEF Inv
<1> QED
  BY <1>1, Invariance, PTL

\* `ebpm run` starts nothing that was built from sources older than those it
\* found (isStale and cmdRun of main.cpp).
THEOREM RunIsCurrentSafe == Spec => []RunIsCurrent
<1>1. Inv => RunIsCurrent
  BY DEF Inv
<1> QED
  BY <1>1, Invariance, PTL
-----------------------------------------------------------------------------
(* A manifest and the same with one more line, p, that heads no section      *)

At(i, p) == IF i < p THEN i ELSE i + 1

Grown(m, t, p) ==
    /\ m \in Manifests /\ t \in Manifests
    /\ Len(t) = Len(m) + 1 /\ p \in 1..Len(t)
    /\ \A i \in 1..Len(m) : t[At(i, p)] = m[i]
    /\ t[p].k # "section"

LEMMA LineNumbers ==
    ASSUME NEW m, NEW t, NEW p, Grown(m, t, p)
    PROVE  /\ Len(m) \in Nat /\ DOMAIN m = 1..Len(m) /\ DOMAIN t = 1..(Len(m) + 1)
           /\ \A j \in 1..(Len(m) + 1) : j = p \/ \E i \in 1..Len(m) : j = At(i, p)
           /\ \A i \in 1..Len(m) :
                 /\ At(i, p) \in 1..(Len(m) + 1) /\ At(i, p) # p /\ t[At(i, p)] = m[i]
                 /\ \A j \in 1..Len(m) : i < j <=> At(i, p) < At(j, p)
<1>1. /\ m \in Seq(Lines) /\ t \in Seq(Lines) /\ Len(t) = Len(m) + 1
      /\ p \in 1..(Len(m) + 1)
  BY DEF Grown, Manifests, Lines
<1>2. /\ Len(m) \in Nat /\ DOMAIN m = 1..Len(m) /\ DOMAIN t = 1..(Len(m) + 1)
  BY <1>1
<1>3. ASSUME NEW j \in 1..(Len(m) + 1), j # p
      PROVE  \E i \in 1..Len(m) : j = At(i, p)
  <2>1. CASE j < p
    BY <1>1, <1>2, <1>3, <2>1 DEF At
  <2>2. CASE j > p
    <3>1. j - 1 \in 1..Len(m) /\ ~(j - 1 < p) /\ j = j - 1 + 1
      BY <1>1, <1>2, <1>3, <2>2
    <3> QED
      BY <3>1 DEF At
  <2> QED
    BY <1>1, <1>3, <2>1, <2>2
<1>4. \A i, j \in 1..Len(m) : /\ At(i, p) \in 1..(Len(m) + 1) /\ At(i, p) # p
                              /\ i < j <=> At(i, p) < At(j, p)
  BY <1>1, <1>2 DEF At
<1> QED
  BY <1>2, <1>3, <1>4 DEF Grown

LEMMA GrownSections ==
    ASSUME NEW m, NEW t, NEW p, Grown(m, t, p)
    PROVE  /\ \A key : /\ p \notin Headers(t, key)
                       /\ \A i \in 1..Len(m) :
                             At(i, p) \in Headers(t, key) <=> i \in Headers(m, key)
           /\ \A h, i \in 1..Len(m) :
                 /\ At(i, p) \in LinesUnder(t, At(h, p)) <=> i \in LinesUnder(m, h)
                 /\ At(i, p) \in EntriesUnder(t, At(h, p)) <=> i \in EntriesUnder(m, h)
<1> DEFINE n == Len(m)
<1>1. /\ n \in Nat /\ DOMAIN m = 1..n /\ DOMAIN t = 1..(n + 1)
      /\ \A j \in 1..(n + 1) : j = p \/ \E i \in 1..n : j = At(i, p)
      /\ \A i \in 1..n :
            /\ At(i, p) \in 1..(n + 1) /\ At(i, p) # p /\ t[At(i, p)] = m[i]
            /\ \A j \in 1..n : i < j <=> At(i, p) < At(j, p)
  BY LineNumbers
<1>2. t[p].k # "section" /\ p \in Nat
  BY <1>1 DEF Grown
<1> HIDE DEF n
<1>3. \A key : /\ p \notin Headers(t, key)
               /\ \A i \in 1..n : At(i, p) \in Headers(t, key) <=> i \in Headers(m, key)
  BY <1>1, <1>2 DEF Headers
<1>4. ASSUME NEW h \in 1..n, NEW i \in 1..n
      PROVE  At(i, p) \in LinesUnder(t, At(h, p)) <=> i \in LinesUnder(m, h)
  <2>1. At(i, p) \in 1..(n + 1) /\ At(h, p) \in 1..(n + 1)
    BY <1>1
  <2>2. ASSUME At(i, p) \in LinesUnder(t, At(h, p))
        PROVE  i \in LinesUnder(m, h)
    <3>1. h < i
      BY <1>1, <2>2 DEF LinesUnder
    <3>2. ASSUME NEW j \in (h + 1)..i
          PROVE  m[j].k # "section"
      <4>1. j \in 1..n /\ h < j /\ (j < i \/ j = i)
        BY <1>1
      <4>2. At(h, p) < At(j, p) /\ (At(j, p) < At(i, p) \/ At(j, p) = At(i, p))
        BY <1>1, <4>1
      <4>3. At(j, p) \in (At(h, p) + 1)..At(i, p) /\ t[At(j, p)] = m[j]
        BY <1>1, <2>1, <4>1, <4>2
      <4> QED
        BY <2>2, <4>3 DEF LinesUnder
    <3> QED
      BY <1>1, <3>1, <3>2 DEF LinesUnder
  <2>3. ASSUME i \in LinesUnder(m, h)
        PROVE  At(i, p) \in LinesUnder(t, At(h, p))
    <3>1. At(h, p) < At(i, p)
      BY <1>1, <2>3 DEF LinesUnder
    <3>2. ASSUME NEW j \in (At(h, p) + 1)..At(i, p), j # p
          PROVE  t[j].k # "section"
      <4>1. j \in 1..(n + 1) /\ At(h, p) < j /\ (j < At(i, p) \/ j = At(i, p))
        BY <1>1, <2>1
      <4>2. PICK x \in 1..n : j = At(x, p)
        BY <1>1, <3>2, <4>1
      <4>3. h < x /\ ~(i < x)
        BY <1>1, <2>1, <4>1, <4>2
      <4>4. x \in (h + 1)..i
        BY <1>1, <4>2, <4>3
      <4> QED
        BY <1>1, <2>3, <4>2, <4>4 DEF LinesUnder
    <3> QED
      BY <1>1, <1>2, <2>1, <3>1, <3>2 DEF LinesUnder
  <2> QED
    BY <2>2, <2>3
<1>5. \A h, i \in 1..n :
         At(i, p) \in EntriesUnder(t, At(h, p)) <=> i \in EntriesUnder(m, h)
  BY <1>1, <1>4 DEF EntriesUnder
<1> QED
  BY <1>3, <1>4, <1>5 DEF n

\* An entry belongs to one section.
LEMMA OneSection ==
    ASSUME NEW m \in Manifests, NEW i,
           NEW a \in DOMAIN m, m[a].k = "section", i \in LinesUnder(m, a),
           NEW b \in DOMAIN m, m[b].k = "section", i \in LinesUnder(m, b)
    PROVE  a = b
<1>1. DOMAIN m = 1..Len(m) /\ Len(m) \in Nat
  BY DEF Manifests
<1>2. ASSUME NEW x \in DOMAIN m, NEW y \in DOMAIN m, m[y].k = "section", x < y,
             i \in LinesUnder(m, x), i \in LinesUnder(m, y)
      PROVE  FALSE
  <2>1. y \in (x + 1)..i
    BY <1>1, <1>2 DEF LinesUnder
  <2> QED
    BY <1>2, <2>1 DEF LinesUnder
<1> QED
  BY <1>1, <1>2

LEMMA KeysAre ==
    ASSUME NEW m, NEW section, NEW key
    PROVE  key \in KeysOf(m, section) <=>
              \E h \in Headers(m, section) :
                 \E i \in EntriesUnder(m, h) : m[i].key = key
BY DEF KeysOf

LEMMA SectionLines ==
    ASSUME NEW m \in Manifests
    PROVE  /\ DOMAIN m = 1..Len(m) /\ Len(m) \in Nat
           /\ \A key : \A h \in Headers(m, key) :
                 h \in 1..Len(m) /\ m[h].k = "section" /\ m[h].key = key
           /\ \A h : /\ EntriesUnder(m, h) \subseteq LinesUnder(m, h)
                     /\ LinesUnder(m, h) \subseteq 1..Len(m)
                     /\ \A i \in EntriesUnder(m, h) : m[i].k = "entry"
BY DEF Manifests, Headers, EntriesUnder, LinesUnder

\* What the line adds to the keys of a section, if it is an entry of it.
LEMMA GrownKeys ==
    ASSUME NEW m, NEW t, NEW p, Grown(m, t, p), NEW section, NEW key
    PROVE  key \in KeysOf(t, section) <=>
              \/ key \in KeysOf(m, section)
              \/ /\ \E h \in Headers(t, section) : p \in EntriesUnder(t, h)
                 /\ t[p].key = key
<1> DEFINE n == Len(m)
<1>1. /\ m \in Manifests /\ t \in Manifests
  BY DEF Grown
<1>2. /\ DOMAIN t = 1..(n + 1)
      /\ \A j \in 1..(n + 1) : j = p \/ \E i \in 1..n : j = At(i, p)
      /\ \A i \in 1..n : At(i, p) \in 1..(n + 1) /\ t[At(i, p)] = m[i]
  BY LineNumbers
<1>3. /\ p \notin Headers(t, section)
      /\ \A i \in 1..n : At(i, p) \in Headers(t, section) <=> i \in Headers(m, section)
      /\ \A h, i \in 1..n :
            At(i, p) \in EntriesUnder(t, At(h, p)) <=> i \in EntriesUnder(m, h)
  BY GrownSections
<1>4. /\ \A h \in Headers(m, section) : h \in 1..n
      /\ \A h : EntriesUnder(m, h) \subseteq 1..n
  BY <1>1, SectionLines
<1>5. /\ \A h \in Headers(t, section) : h \in 1..(n + 1)
      /\ \A h : EntriesUnder(t, h) \subseteq 1..(n + 1)
  BY <1>2 DEF Headers, EntriesUnder, LinesUnder
<1> HIDE DEF n
<1>6. ASSUME NEW h \in Headers(m, section), NEW i \in EntriesUnder(m, h), m[i].key = key
      PROVE  key \in KeysOf(t, section)
  <2>1. h \in 1..n /\ i \in 1..n
    BY <1>4
  <2>2. /\ At(h, p) \in Headers(t, section) /\ At(i, p) \in EntriesUnder(t, At(h, p))
        /\ t[At(i, p)].key = key
    BY <1>2, <1>3, <1>6, <2>1
  <2> QED
    BY <2>2, KeysAre
<1>7. ASSUME NEW h \in Headers(t, section), NEW i \in EntriesUnder(t, h),
             t[i].key = key, i # p
      PROVE  key \in KeysOf(m, section)
  <2>1. h \in 1..(n + 1) /\ i \in 1..(n + 1) /\ h # p
    BY <1>3, <1>5
  <2>2. PICK x \in 1..n : h = At(x, p)
    BY <1>2, <2>1
  <2>3. PICK y \in 1..n : i = At(y, p)
    BY <1>2, <1>7, <2>1
  <2>4. x \in Headers(m, section) /\ y \in EntriesUnder(m, x) /\ m[y].key = key
    BY <1>2, <1>3, <1>7, <2>2, <2>3
  <2> QED
    BY <2>4, KeysAre
<1> QED
  BY <1>6, <1>7, KeysAre

LEMMA GrownEntries ==
    ASSUME NEW m, NEW t, NEW p, Grown(m, t, p)
    PROVE  /\ (\E h \in Headers(m, "package") :
                 \E i \in EntriesUnder(m, h) : m[i].key = "name")
                 <=> "name" \in KeysOf(m, "package")
           /\ Headers(t, "bin") # {} <=> Headers(m, "bin") # {}
<1>1. Headers(t, "bin") # {} <=> Headers(m, "bin") # {}
  <2>1. /\ \A j \in 1..(Len(m) + 1) : j = p \/ \E i \in 1..Len(m) : j = At(i, p)
        /\ DOMAIN t = 1..(Len(m) + 1) /\ DOMAIN m = 1..Len(m)
    BY LineNumbers
  <2>2. /\ \A key : /\ p \notin Headers(t, key)
                    /\ \A i \in 1..Len(m) :
                          At(i, p) \in Headers(t, key) <=> i \in Headers(m, key)
    BY GrownSections
  <2>3. \A h \in Headers(m, "bin") : h \in 1..Len(m)
    BY <2>1 DEF Headers
  <2>4. \A h \in Headers(t, "bin") : h \in 1..(Len(m) + 1)
    BY <2>1 DEF Headers
  <2> QED
    BY <2>1, <2>2, <2>3, <2>4
<1> QED
  BY <1>1, KeysAre

\* A line taken out leaves a well-formed manifest well-formed.
LEMMA ShrunkWellFormed ==
    ASSUME NEW m, NEW t, NEW p, Grown(m, t, p),
           WellFormed(t), t[p].k # "rest", t[p].k # "entry" \/ t[p].plain
    PROVE  WellFormed(m)
<1> DEFINE n == Len(m)
<1>1. /\ m \in Manifests /\ t \in Manifests /\ p \in 1..(n + 1) /\ Len(t) = n + 1
      /\ n \in Nat
  BY DEF Grown, Manifests
<1>2. /\ DOMAIN m = 1..n /\ DOMAIN t = 1..(n + 1)
      /\ \A j \in 1..(n + 1) : j = p \/ \E i \in 1..n : j = At(i, p)
      /\ \A i \in 1..n :
            /\ At(i, p) \in 1..(n + 1) /\ At(i, p) # p /\ t[At(i, p)] = m[i]
            /\ \A j \in 1..n : i < j <=> At(i, p) < At(j, p)
  BY LineNumbers
<1>3. /\ \A key : /\ p \notin Headers(t, key)
                  /\ \A i \in 1..n :
                        At(i, p) \in Headers(t, key) <=> i \in Headers(m, key)
      /\ \A h, i \in 1..n :
            At(i, p) \in EntriesUnder(t, At(h, p)) <=> i \in EntriesUnder(m, h)
  BY GrownSections
<1>4. \A key : Headers(m, key) \subseteq 1..n
  BY <1>2 DEF Headers
<1>5. \A h : EntriesUnder(m, h) \subseteq 1..n
  BY <1>1, SectionLines
<1> HIDE DEF n
<1>6. ASSUME NEW i \in 1..n, NEW j \in 1..n, At(i, p) = At(j, p)
      PROVE  i = j
  BY <1>1, <1>6 DEF At
<1>7. ASSUME NEW i \in 1..n, m[i].k = "section"
      PROVE  /\ Headers(m, m[i].key) = {i}
             /\ \A a, b \in EntriesUnder(m, i) : m[a].key = m[b].key => a = b
  <2>1. /\ Headers(t, m[i].key) = {At(i, p)}
        /\ \A a, b \in EntriesUnder(t, At(i, p)) : t[a].key = t[b].key => a = b
    BY <1>2, <1>7 DEF WellFormed
  <2>2. \A h \in 1..n : h \in Headers(m, m[i].key) <=> h = i
    BY <1>3, <1>6, <2>1
  <2>3. ASSUME NEW a \in EntriesUnder(m, i), NEW b \in EntriesUnder(m, i),
               m[a].key = m[b].key
        PROVE  a = b
    <3>1. a \in 1..n /\ b \in 1..n
      BY <1>5
    <3>2. /\ At(a, p) \in EntriesUnder(t, At(i, p)) /\ At(b, p) \in EntriesUnder(t, At(i, p))
          /\ t[At(a, p)].key = t[At(b, p)].key
      BY <1>2, <1>3, <2>3, <3>1
    <3>3. At(a, p) = At(b, p)
      BY <2>1, <3>2
    <3> QED
      BY <1>6, <3>1, <3>3
  <2> QED
    BY <1>4, <2>2, <2>3
<1>8. ASSUME NEW i \in 1..n
      PROVE  (m[i].k = "entry" /\ ~m[i].plain) <=> (i < n /\ m[i + 1].k = "rest")
  <2>1. \A j \in 1..(n + 1) :
           (t[j].k = "entry" /\ ~t[j].plain) <=> (j < n + 1 /\ t[j + 1].k = "rest")
    <3>1. \A j \in DOMAIN t :
             (t[j].k = "entry" /\ ~t[j].plain) <=> (j < Len(t) /\ t[j + 1].k = "rest")
      BY DEF WellFormed
    <3>2. DOMAIN t = 1..(n + 1) /\ Len(t) = n + 1
      BY <1>1, <1>2
    <3> QED
      BY <3>1, <3>2, Zenon
  <2>2. p < n + 1 => t[p + 1].k # "rest"
    BY <1>1, <2>1
  <2>3. \A j \in 1..n : t[IF j < p THEN j ELSE j + 1] = m[j]
    BY <1>2 DEF At
  <2>4. CASE i < p - 1
    BY <1>1, <2>1, <2>3, <2>4
  <2>5. CASE i = p - 1
    <3>1. t[i] = m[i] /\ ~(m[i].k = "entry" /\ ~m[i].plain)
      BY <1>1, <2>1, <2>3, <2>5
    <3>2. i < n => m[i + 1].k # "rest"
      BY <1>1, <2>2, <2>3, <2>5
    <3> QED
      BY <3>1, <3>2
  <2>6. CASE i >= p
    <3>1. t[i + 1] = m[i] /\ (i < n => t[i + 2] = m[i + 1])
      BY <1>1, <2>3, <2>6
    <3> QED
      BY <1>1, <2>1, <3>1
  <2> QED
    BY <1>1, <2>4, <2>5, <2>6
<1> QED
  BY <1>2, <1>7, <1>8 DEF WellFormed, n

\* A line put in leaves it well-formed, where it splits no entry and repeats
\* none.
LEMMA GrownWellFormed ==
    ASSUME NEW m, NEW t, NEW p, Grown(m, t, p),
           WellFormed(m), t[p].k # "rest", t[p].k # "entry" \/ t[p].plain,
           p < Len(t) => t[p + 1].k # "rest",
           \A h \in 1..Len(m) : \A i \in EntriesUnder(m, h) :
              m[h].k = "section" /\ p \in EntriesUnder(t, At(h, p))
                 => m[i].key # t[p].key
    PROVE  WellFormed(t)
<1> DEFINE n == Len(m)
<1>1. /\ m \in Manifests /\ t \in Manifests /\ p \in 1..(n + 1) /\ Len(t) = n + 1
      /\ n \in Nat /\ t[p].k # "section"
  BY DEF Grown, Manifests
<1>2. /\ DOMAIN m = 1..n /\ DOMAIN t = 1..(n + 1)
      /\ \A j \in 1..(n + 1) : j = p \/ \E i \in 1..n : j = At(i, p)
      /\ \A i \in 1..n :
            /\ At(i, p) \in 1..(n + 1) /\ At(i, p) # p /\ t[At(i, p)] = m[i]
            /\ \A j \in 1..n : i < j <=> At(i, p) < At(j, p)
  BY LineNumbers
<1>3. /\ \A key : /\ p \notin Headers(t, key)
                  /\ \A i \in 1..n :
                        At(i, p) \in Headers(t, key) <=> i \in Headers(m, key)
      /\ \A h, i \in 1..n :
            At(i, p) \in EntriesUnder(t, At(h, p)) <=> i \in EntriesUnder(m, h)
  BY GrownSections
<1>4. \A key : Headers(t, key) \subseteq 1..(n + 1)
  BY <1>2 DEF Headers
<1>5. \A h : EntriesUnder(t, h) \subseteq 1..(n + 1)
  BY <1>1, SectionLines
<1> HIDE DEF n
<1>6. ASSUME NEW i \in 1..n, m[i].k = "section"
      PROVE  /\ Headers(t, m[i].key) = {At(i, p)}
             /\ \A a, b \in EntriesUnder(t, At(i, p)) : t[a].key = t[b].key => a = b
  <2>1. /\ Headers(m, m[i].key) = {i}
        /\ \A a, b \in EntriesUnder(m, i) : m[a].key = m[b].key => a = b
    BY <1>2, <1>6 DEF WellFormed
  <2>2. \A h \in 1..(n + 1) : h \in Headers(t, m[i].key) <=> h = At(i, p)
    BY <1>2, <1>3, <2>1
  <2>3. ASSUME NEW a \in EntriesUnder(t, At(i, p)), a # p
        PROVE  \E x \in EntriesUnder(m, i) : a = At(x, p) /\ m[x] = t[a]
    BY <1>2, <1>3, <1>5, <2>3
  <2>4. ASSUME NEW a \in EntriesUnder(t, At(i, p)), a # p, t[a].key = t[p].key,
               p \in EntriesUnder(t, At(i, p))
        PROVE  FALSE
    BY <1>6, <2>3, <2>4 DEF n
  <2>5. ASSUME NEW a \in EntriesUnder(t, At(i, p)), NEW b \in EntriesUnder(t, At(i, p)),
               t[a].key = t[b].key, a # p, b # p
        PROVE  a = b
    BY <2>1, <2>3, <2>5
  <2>6. Headers(t, m[i].key) = {At(i, p)}
    BY <1>2, <1>4, <2>2
  <2>7. \A a, b \in EntriesUnder(t, At(i, p)) : t[a].key = t[b].key => a = b
    BY <2>4, <2>5
  <2> QED
    BY <2>6, <2>7
<1>7. ASSUME NEW j \in 1..(n + 1)
      PROVE  (t[j].k = "entry" /\ ~t[j].plain) <=> (j < n + 1 /\ t[j + 1].k = "rest")
  <2>1. \A i \in 1..n :
           (m[i].k = "entry" /\ ~m[i].plain) <=> (i < n /\ m[i + 1].k = "rest")
    BY <1>1, <1>2 DEF WellFormed, n
  <2>2. \A i \in 1..n : t[IF i < p THEN i ELSE i + 1] = m[i]
    BY <1>2 DEF At
  <2>3. CASE j < p - 1
    BY <1>1, <2>1, <2>2, <2>3
  <2>4. CASE j = p - 1
    <3>1. t[j] = m[j] /\ j \in 1..n /\ t[j + 1].k # "rest"
      BY <1>1, <2>2, <2>4
    <3>2. j < n => m[j + 1].k # "rest"
      BY <1>1, <2>2, <2>4
    <3> QED
      BY <2>1, <3>1, <3>2
  <2>5. CASE j = p
    BY <1>1, <2>5
  <2>6. CASE j > p
    <3>1. /\ j - 1 \in 1..n /\ t[j] = m[j - 1]
          /\ (j - 1 < n => t[j + 1] = m[j - 1 + 1])
      <4>1. j - 1 \in 1..n /\ ~(j - 1 < p) /\ (j - 1) + 1 = j
        BY <1>1, <2>6
      <4>2. j - 1 < n => j \in 1..n /\ ~(j < p)
        BY <1>1, <2>6
      <4> QED
        BY <2>2, <4>1, <4>2
    <3> QED
      BY <1>1, <2>1, <3>1
  <2> QED
    BY <1>1, <2>3, <2>4, <2>5, <2>6
<1>8. ASSUME NEW j \in DOMAIN t, t[j].k = "section"
      PROVE  /\ Headers(t, t[j].key) = {j}
             /\ \A a, b \in EntriesUnder(t, j) : t[a].key = t[b].key => a = b
  <2>1. j # p /\ j \in 1..(n + 1)
    BY <1>1, <1>2, <1>8
  <2>2. PICK i \in 1..n : j = At(i, p)
    BY <1>2, <2>1
  <2>3. t[j] = m[i]
    BY <1>2, <2>2
  <2> QED
    BY <1>6, <1>8, <2>2, <2>3, Zenon
<1>9. \A j \in DOMAIN t :
         (t[j].k = "entry" /\ ~t[j].plain) <=> (j < Len(t) /\ t[j + 1].k = "rest")
  BY <1>1, <1>2, <1>7
<1> QED
  BY <1>8, <1>9, Zenon DEF WellFormed

\* A new first entry of [dependencies].
LEMMA EntryAdded ==
    ASSUME NEW m, NEW t, NEW h, NEW p, Grown(m, t, p), NEW name,
           Loads(m), Headers(m, "dependencies") = {h}, p = h + 1,
           t[p] = Entry(name), name \notin KeysOf(m, "dependencies")
    PROVE  /\ Loads(t) /\ KeysOf(t, "target") = KeysOf(m, "target")
           /\ KeysOf(t, "dependencies") = KeysOf(m, "dependencies") \cup {name}
<1>1. /\ m \in Manifests /\ t \in Manifests /\ Len(t) = Len(m) + 1
      /\ Len(m) \in Nat /\ h \in 1..Len(m) /\ m[h].k = "section"
      /\ m[h].key = "dependencies"
  BY SectionLines DEF Grown
<1>2. t[p].k = "entry" /\ t[p].plain = TRUE /\ t[p].key = name
  BY DEF Entry, Line
<1>3. /\ DOMAIN t = 1..(Len(m) + 1) /\ DOMAIN m = 1..Len(m)
      /\ \A j \in 1..(Len(m) + 1) : j = p \/ \E i \in 1..Len(m) : j = At(i, p)
      /\ \A i \in 1..Len(m) : t[At(i, p)] = m[i] /\ At(i, p) \in 1..(Len(m) + 1)
  BY LineNumbers
<1>4. At(h, p) = h /\ t[h] = m[h] /\ h \in DOMAIN t
  <2>1. At(h, p) = h
    BY <1>1 DEF At
  <2> QED
    BY <1>1, <1>3, <2>1
<1>5. p \in EntriesUnder(t, h)
  <2>1. \A j \in (h + 1)..p : j = p
    BY <1>1
  <2>2. p \in DOMAIN t /\ p > h
    BY <1>1, <1>3
  <2> QED
    BY <1>2, <2>1, <2>2 DEF EntriesUnder, LinesUnder
<1>6. ASSUME NEW x \in DOMAIN t, t[x].k = "section", p \in EntriesUnder(t, x)
      PROVE  x = h
  BY <1>1, <1>4, <1>5, <1>6, OneSection, SectionLines
<1>7. WellFormed(m) /\ "name" \in KeysOf(m, "package") /\ Headers(m, "bin") # {}
  BY KeysAre DEF Loads
<1>8. WellFormed(t)
  <2>1. p < Len(t) => t[p + 1].k # "rest"
    <3>1. ASSUME p < Len(t)
          PROVE  t[p + 1] = m[p] /\ p \in 1..Len(m)
      <4>1. p \in 1..Len(m) /\ At(p, p) = p + 1
        BY <1>1, <3>1 DEF At
      <4> QED
        BY <1>3, <4>1
    <3>2. h < Len(m) => m[h + 1].k # "rest"
      BY <1>1, <1>3, <1>7 DEF WellFormed
    <3> QED
      BY <1>1, <3>1, <3>2
  <2>2. ASSUME NEW x \in 1..Len(m), NEW i \in EntriesUnder(m, x), m[x].k = "section",
               p \in EntriesUnder(t, At(x, p))
        PROVE  m[i].key # t[p].key
    <3>1. At(x, p) = h
      BY <1>3, <1>6, <2>2
    <3>2. x = h
      BY <1>1, <3>1 DEF At
    <3> QED
      BY <1>2, <2>2, <3>2, KeysAre
  <2> QED
    BY <1>2, <1>7, <2>1, <2>2, GrownWellFormed
<1>9. ASSUME NEW section, NEW key
      PROVE  key \in KeysOf(t, section) <=>
                \/ key \in KeysOf(m, section)
                \/ section = "dependencies" /\ key = name
  <2>1. key \in KeysOf(t, section) <=>
              \/ key \in KeysOf(m, section)
              \/ /\ \E x \in Headers(t, section) : p \in EntriesUnder(t, x)
                 /\ t[p].key = key
    BY GrownKeys
  <2>2. (\E x \in Headers(t, section) : p \in EntriesUnder(t, x))
           <=> section = "dependencies"
    <3>1. \A x \in Headers(t, section) :
             x \in DOMAIN t /\ t[x].k = "section" /\ t[x].key = section
      BY DEF Headers
    <3>2. section = "dependencies" => h \in Headers(t, section)
      BY <1>1, <1>4 DEF Headers
    <3> QED
      BY <1>1, <1>4, <1>5, <1>6, <3>1, <3>2
  <2> QED
    BY <1>2, <2>1, <2>2
<1>10. Loads(t)
  <2>1. "name" \in KeysOf(t, "package") /\ Headers(t, "bin") # {}
    BY <1>7, <1>9, GrownEntries
  <2> QED
    BY <1>8, <2>1, KeysAre DEF Loads
<1>11. KeysOf(t, "target") = KeysOf(m, "target")
  <2>1. \A key : key \in KeysOf(t, "target") <=> key \in KeysOf(m, "target")
    BY <1>9
  <2> QED BY <2>1
<1>12. KeysOf(t, "dependencies") = KeysOf(m, "dependencies") \cup {name}
  <2>1. \A key : key \in KeysOf(t, "dependencies") <=>
                      key \in KeysOf(m, "dependencies") \/ key = name
    BY <1>9
  <2> QED BY <2>1
<1> QED
  BY <1>10, <1>11, <1>12

\* The one entry of its name taken out of [dependencies].
LEMMA EntryTaken ==
    ASSUME NEW m, NEW t, NEW h, NEW r, Grown(t, m, r), NEW name,
           Loads(m), Headers(m, "dependencies") = {h},
           r \in EntriesUnder(m, h), m[r].key = name, m[r].plain
    PROVE  /\ Loads(t) /\ KeysOf(t, "target") = KeysOf(m, "target")
           /\ KeysOf(t, "dependencies") = KeysOf(m, "dependencies") \ {name}
<1>1. /\ m \in Manifests /\ t \in Manifests
      /\ h \in DOMAIN m /\ m[h].k = "section" /\ m[h].key = "dependencies"
      /\ m[r].k = "entry" /\ r \in LinesUnder(m, h)
  <2>1. m \in Manifests /\ t \in Manifests
    BY DEF Grown
  <2> QED
    BY <2>1 DEF Headers, EntriesUnder
<1>2. WellFormed(m) /\ "name" \in KeysOf(m, "package") /\ Headers(m, "bin") # {}
  BY KeysAre DEF Loads
<1>3. WellFormed(t)
  BY <1>1, <1>2, ShrunkWellFormed
<1>4. \A x, y \in EntriesUnder(m, h) : m[x].key = m[y].key => x = y
  BY <1>1, <1>2 DEF WellFormed
<1>5. ASSUME NEW x \in DOMAIN m, m[x].k = "section", r \in EntriesUnder(m, x)
      PROVE  x = h
  BY <1>1, <1>5, OneSection DEF EntriesUnder
<1>6. ASSUME NEW section, NEW key
      PROVE  key \in KeysOf(m, section) <=>
                \/ key \in KeysOf(t, section)
                \/ section = "dependencies" /\ key = name
  <2>1. key \in KeysOf(m, section) <=>
              \/ key \in KeysOf(t, section)
              \/ /\ \E x \in Headers(m, section) : r \in EntriesUnder(m, x)
                 /\ m[r].key = key
    BY GrownKeys
  <2>2. \A x \in Headers(m, section) :
           x \in DOMAIN m /\ m[x].k = "section" /\ m[x].key = section
    BY DEF Headers
  <2> QED
    BY <1>1, <1>5, <2>1, <2>2
<1>7. name \notin KeysOf(t, "dependencies")
  <2> SUFFICES ASSUME name \in KeysOf(t, "dependencies")
               PROVE  FALSE
    OBVIOUS
  <2>1. PICK x \in Headers(t, "dependencies") :
           \E i \in EntriesUnder(t, x) : t[i].key = name
    BY KeysAre
  <2>2. PICK i \in EntriesUnder(t, x) : t[i].key = name
    BY <2>1
  <2>3. x \in 1..Len(t) /\ i \in 1..Len(t)
    BY <1>1, SectionLines
  <2>4. At(x, r) \in Headers(m, "dependencies") /\ At(i, r) \in EntriesUnder(m, At(x, r))
    BY <2>3, GrownSections
  <2>5. m[At(i, r)] = t[i] /\ At(i, r) # r
    BY <2>3, LineNumbers
  <2> QED
    BY <1>4, <2>2, <2>4, <2>5
<1>8. Loads(t)
  <2>1. "name" \in KeysOf(t, "package") /\ Headers(t, "bin") # {}
    BY <1>2, <1>6, GrownEntries
  <2> QED
    BY <1>3, <2>1, KeysAre DEF Loads
<1>9. KeysOf(t, "target") = KeysOf(m, "target")
  <2>1. \A key : key \in KeysOf(m, "target") <=> key \in KeysOf(t, "target")
    BY <1>6
  <2> QED
    BY <2>1
<1>10. KeysOf(t, "dependencies") = KeysOf(m, "dependencies") \ {name}
  BY <1>6, <1>7
<1> QED
  BY <1>8, <1>9, <1>10

\* A blank line at the end.
LEMMA BlankAdded ==
    ASSUME NEW m, NEW t, Grown(m, t, Len(t)), Loads(m), t[Len(t)] = Blank
    PROVE  /\ Loads(t) /\ \A section : KeysOf(t, section) = KeysOf(m, section)
           /\ \A key : Headers(m, key) = {} => Headers(t, key) = {}
<1> DEFINE p == Len(t)
<1>1. /\ m \in Manifests /\ t \in Manifests /\ Len(m) \in Nat /\ p = Len(m) + 1
      /\ t[p].k = "blank"
  <2>1. m \in Manifests /\ t \in Manifests /\ Len(t) = Len(m) + 1
    BY DEF Grown
  <2>2. Blank.k = "blank"
    BY DEF Blank, Line
  <2>3. t[p].k = "blank"
    BY <2>2, Zenon
  <2> QED
    BY <2>1, <2>3, SectionLines
<1>2. Grown(m, t, p)
  OBVIOUS
<1> HIDE DEF p
<1>3. \A h : p \notin EntriesUnder(t, h)
  BY <1>1 DEF EntriesUnder
<1>4. WellFormed(m) /\ "name" \in KeysOf(m, "package") /\ Headers(m, "bin") # {}
  BY KeysAre DEF Loads
<1>5. WellFormed(t)
  <2>1. ~(p < Len(t))
    BY <1>1 DEF p
  <2> QED
    BY <1>1, <1>2, <1>3, <1>4, <2>1, GrownWellFormed
<1>6. \A section, key : key \in KeysOf(t, section) <=> key \in KeysOf(m, section)
  BY <1>2, <1>3, GrownKeys
<1>7. Loads(t)
  <2>1. "name" \in KeysOf(t, "package") /\ Headers(t, "bin") # {}
    BY <1>2, <1>4, <1>6, GrownEntries
  <2> QED
    BY <1>5, <2>1, KeysAre DEF Loads
<1>8. ASSUME NEW key, Headers(m, key) = {}, NEW h \in Headers(t, key)
      PROVE  FALSE
  <2>1. h \in 1..(Len(m) + 1)
    BY <1>1, <1>8, SectionLines DEF p
  <2>2. p \notin Headers(t, key)
    BY <1>2, GrownSections
  <2>3. PICK i \in 1..Len(m) : h = At(i, p)
    BY <1>2, <1>8, <2>1, <2>2, LineNumbers
  <2>4. i \in Headers(m, key)
    BY <1>2, <1>8, <2>3, GrownSections
  <2> QED
    BY <1>8, <2>4
<1>9. \A section : KeysOf(t, section) = KeysOf(m, section)
  <2> TAKE section
  <2>1. \A key : key \in KeysOf(t, section) <=> key \in KeysOf(m, section)
    BY <1>6
  <2> QED
    BY <2>1
<1> QED
  BY <1>7, <1>8, <1>9

\* The header of a section that was not there, at the end.
LEMMA HeaderAdded ==
    ASSUME NEW m \in Manifests, NEW t \in Manifests, NEW section,
           Len(t) = Len(m) + 1, \A i \in 1..Len(m) : t[i] = m[i],
           t[Len(t)] = Section(section), Headers(m, section) = {}, Loads(m)
    PROVE  /\ Loads(t) /\ \A key : KeysOf(t, key) = KeysOf(m, key)
           /\ Headers(t, section) = {Len(t)}
<1> DEFINE n == Len(m)
           p == Len(t)
<1>1. /\ n \in Nat /\ DOMAIN m = 1..n /\ DOMAIN t = 1..(n + 1) /\ p = n + 1
      /\ t[p].k = "section" /\ t[p].key = section
      /\ \A i \in 1..n : t[i] = m[i] /\ i # p
  BY SectionLines DEF Section, Line
<1> HIDE DEF n, p
<1>2. \A j \in DOMAIN t : j \in 1..n \/ j = p
  BY <1>1
<1>3. /\ Headers(t, section) = {p}
      /\ \A key : key # section => Headers(t, key) = Headers(m, key)
  <2>1. \A j, key : j \in Headers(t, key) <=>
                      j \in Headers(m, key) \/ (key = section /\ j = p)
    BY <1>1, <1>2 DEF Headers
  <2>2. Headers(t, section) = {p}
    BY <2>1
  <2>3. ASSUME NEW key, key # section
        PROVE  Headers(t, key) = Headers(m, key)
    <3>1. \A j : j \in Headers(t, key) <=> j \in Headers(m, key)
      BY <2>1, <2>3
    <3> QED
      BY <3>1
  <2> QED
    BY <2>2, <2>3
<1>4. ASSUME NEW h \in 1..n
      PROVE  EntriesUnder(t, h) = EntriesUnder(m, h)
  <2>1. ASSUME NEW i
        PROVE  i \in LinesUnder(t, h) <=> i \in LinesUnder(m, h)
    <3>1. CASE i = p
      <4>1. p \in (h + 1)..p /\ p \notin 1..n
        BY <1>1
      <4> QED
        BY <1>1, <3>1, <4>1 DEF LinesUnder
    <3>2. CASE i \in 1..n
      <4>1. \A j \in (h + 1)..i : j \in 1..n
        BY <1>1, <3>2
      <4>2. i \in DOMAIN t /\ i \in DOMAIN m /\ \A j \in (h + 1)..i : t[j] = m[j]
        BY <1>1, <3>2, <4>1
      <4> QED
        BY <4>2 DEF LinesUnder
    <3> QED
      BY <1>1, <1>2, <3>1, <3>2 DEF LinesUnder
  <2>2. \A i : i \in EntriesUnder(t, h) => i \in EntriesUnder(m, h)
    BY <1>1, <2>1 DEF EntriesUnder, LinesUnder
  <2>3. \A i : i \in EntriesUnder(m, h) => i \in EntriesUnder(t, h)
    BY <1>1, <2>1 DEF EntriesUnder, LinesUnder
  <2> QED
    BY <2>2, <2>3
<1>5. EntriesUnder(t, p) = {}
  BY <1>1 DEF EntriesUnder, LinesUnder
<1>6. \A h : EntriesUnder(m, h) \subseteq 1..n
  BY <1>1 DEF EntriesUnder, LinesUnder
<1>7. \A key : Headers(m, key) \subseteq 1..n
  BY <1>1 DEF Headers
<1>8. \A key : KeysOf(t, key) = KeysOf(m, key)
  <2>1. ASSUME NEW key, NEW x
        PROVE  x \in KeysOf(t, key) <=> x \in KeysOf(m, key)
    <3>1. \A h \in 1..n : (\E i \in EntriesUnder(t, h) : t[i].key = x)
                             <=> (\E i \in EntriesUnder(m, h) : m[i].key = x)
      BY <1>1, <1>4, <1>6
    <3>2. CASE key = section
      <4>1. x \notin KeysOf(m, key)
        BY <3>2, KeysAre
      <4>2. x \notin KeysOf(t, key)
        BY <1>3, <1>5, <3>2, KeysAre
      <4> QED
        BY <4>1, <4>2
    <3>3. CASE key # section
      <4>1. Headers(t, key) = Headers(m, key) /\ Headers(m, key) \subseteq 1..n
        BY <1>3, <1>7, <3>3
      <4> QED
        BY <3>1, <4>1, KeysAre
    <3> QED
      BY <3>2, <3>3
  <2> TAKE key
  <2>2. \A x : x \in KeysOf(t, key) <=> x \in KeysOf(m, key)
    BY <2>1
  <2> QED
    BY <2>2
<1>9. WellFormed(m) /\ "name" \in KeysOf(m, "package") /\ Headers(m, "bin") # {}
  BY KeysAre DEF Loads
<1>10. ASSUME NEW j \in DOMAIN t, t[j].k = "section"
       PROVE  /\ Headers(t, t[j].key) = {j}
              /\ \A a, b \in EntriesUnder(t, j) : t[a].key = t[b].key => a = b
  <2>1. CASE j = p
    BY <1>1, <1>3, <1>5, <2>1
  <2>2. CASE j \in 1..n
    <3>1. /\ Headers(m, m[j].key) = {j} /\ t[j] = m[j]
          /\ \A a, b \in EntriesUnder(m, j) : m[a].key = m[b].key => a = b
      BY <1>1, <1>9, <1>10, <2>2 DEF WellFormed
    <3>2. Headers(t, t[j].key) = {j}
      BY <1>3, <3>1
    <3>3. ASSUME NEW a \in EntriesUnder(t, j), NEW b \in EntriesUnder(t, j),
                 t[a].key = t[b].key
          PROVE  a = b
      <4>1. a \in EntriesUnder(m, j) /\ b \in EntriesUnder(m, j)
        BY <1>4, <2>2
      <4>2. t[a] = m[a] /\ t[b] = m[b]
        BY <1>1, <1>6, <4>1
      <4> QED
        BY <3>1, <3>3, <4>1, <4>2
    <3> QED
      BY <3>2, <3>3
  <2> QED
    BY <1>2, <2>1, <2>2
<1>11. ASSUME NEW j \in 1..(n + 1)
       PROVE  (t[j].k = "entry" /\ ~t[j].plain) <=> (j < n + 1 /\ t[j + 1].k = "rest")
  <2>1. \A i \in 1..n :
           (m[i].k = "entry" /\ ~m[i].plain) <=> (i < n /\ m[i + 1].k = "rest")
    <3>1. \A i \in DOMAIN m :
             (m[i].k = "entry" /\ ~m[i].plain) <=> (i < Len(m) /\ m[i + 1].k = "rest")
      BY <1>9 DEF WellFormed
    <3> QED
      BY <1>1, <3>1, Zenon DEF n
  <2>2. CASE j < n
    BY <1>1, <2>1, <2>2
  <2>3. CASE j = n
    BY <1>1, <2>1, <2>3
  <2>4. CASE j = n + 1
    BY <1>1, <2>4
  <2> QED
    BY <1>1, <2>2, <2>3, <2>4
<1>12. WellFormed(t)
  <2>1. DOMAIN t = 1..(n + 1) /\ Len(t) = n + 1
    BY <1>1 DEF p
  <2>2. \A j \in DOMAIN t :
           (t[j].k = "entry" /\ ~t[j].plain) <=> (j < Len(t) /\ t[j + 1].k = "rest")
    BY <1>11, <2>1, Zenon
  <2> QED
    BY <1>10, <2>2, Zenon DEF WellFormed
<1>13. Headers(t, "bin") # {}
  BY <1>3, <1>9
<1>14. Loads(t)
  <2>1. "name" \in KeysOf(t, "package")
    BY <1>8, <1>9
  <2> QED
    BY <1>12, <1>13, <2>1, KeysAre DEF Loads
<1> QED
  BY <1>3, <1>8, <1>14 DEF p

\* insertDependencyLine and removeDependencyLine do what ExactEdits says of
\* them, where the manifest has no header the edits overlook.
LEMMA Insertion ==
    ASSUME NEW m \in Manifests, NEW name \in Given, Loads(m),
           Headers(m, "dependencies") = DependenciesLine(m),
           ~dependencyNameExists(m, name)
    PROVE  LET t == insertDependencyLine(m, name)
           IN  /\ Loads(t) /\ KeysOf(t, "target") = KeysOf(m, "target")
               /\ KeysOf(t, "dependencies") = KeysOf(m, "dependencies") \cup {name}
<1> DEFINE t == insertDependencyLine(m, name)
<1>1. name \notin KeysOf(m, "dependencies")
  BY DEF dependencyNameExists
<1>2. m \in Seq(Lines) /\ Manifests = Seq(Lines) /\ Len(m) \in Nat
  BY DEF Manifests, Lines
<1>3. CASE DependenciesLine(m) # {}
  <2> DEFINE h == Min(DependenciesLine(m))
             p == h + 1
  <2>1. h \in DependenciesLine(m) /\ h \in 1..Len(m)
    BY <1>3, DependenciesHeader
  <2>2. Headers(m, "dependencies") = {h}
    <3>1. h \in DOMAIN m /\ m[h].k = "section" /\ m[h].key = "dependencies"
      BY <2>1 DEF DependenciesLine, Headers
    <3>2. Headers(m, m[h].key) = {h}
      BY <3>1 DEF Loads, WellFormed
    <3> QED
      BY <3>1, <3>2
  <2>3. /\ t \in Manifests /\ Len(t) = Len(m) + 1
        /\ \A i \in 1..h : t[i] = m[i]
        /\ t[p] = Entry(name)
        /\ \A i \in (h + 2)..(Len(m) + 1) : t[i] = m[i - 1]
    BY <1>3, Inserted
  <2> HIDE DEF h, t
  <2>4. \A i \in 1..Len(m) : t[At(i, p)] = m[i]
    <3> TAKE i \in 1..Len(m)
    <3>1. CASE i <= h
      BY <1>2, <2>1, <2>3, <3>1 DEF At
    <3>2. CASE i > h
      <4>1. i + 1 \in (h + 2)..(Len(m) + 1) /\ i + 1 - 1 = i /\ At(i, p) = i + 1
        BY <1>2, <2>1, <3>2 DEF At
      <4>2. t[i + 1] = m[i + 1 - 1]
        BY <2>3, <4>1
      <4> QED
        BY <4>1, <4>2
    <3> QED
      BY <1>2, <2>1, <3>1, <3>2
  <2>5. t[p].k # "section"
    BY <2>3 DEF Entry, Line
  <2>6. Grown(m, t, p)
    BY <1>2, <2>1, <2>3, <2>4, <2>5 DEF Grown
  <2>7. p = h + 1
    OBVIOUS
  <2> HIDE DEF p
  <2>8. /\ Loads(t) /\ KeysOf(t, "target") = KeysOf(m, "target")
        /\ KeysOf(t, "dependencies") = KeysOf(m, "dependencies") \cup {name}
    BY <1>1, <2>2, <2>3, <2>6, <2>7, EntryAdded
  <2> QED
    BY <2>8 DEF t
<1>4. CASE DependenciesLine(m) = {}
  <2> DEFINE n == Len(m)
             b == m \o <<Blank>>
             d == b \o <<Section("dependencies")>>
  <2>1. /\ t \in Manifests /\ Len(t) = n + 3
        /\ \A i \in 1..n : t[i] = m[i]
        /\ t[n + 1] = Blank
        /\ t[n + 2] = Section("dependencies")
        /\ t[n + 3] = Entry(name)
    BY <1>4, Appended
  <2>2. /\ Blank \in Lines /\ Section("dependencies") \in Lines
        /\ Blank.k # "section" /\ Entry(name).k # "section"
    BY NewLines DEF Blank, Entry, Line
  <2>3. /\ b \in Seq(Lines) /\ Len(b) = n + 1 /\ b[n + 1] = Blank
        /\ \A i \in 1..n : b[i] = m[i]
    BY <1>2, <2>2
  <2> HIDE DEF b
  <2>4. /\ d \in Seq(Lines) /\ Len(d) = n + 2 /\ d[n + 2] = Section("dependencies")
        /\ \A i \in 1..(n + 1) : d[i] = b[i]
    BY <1>2, <2>2, <2>3
  <2> HIDE DEF d, t
  <2>5. Grown(m, b, Len(b))
    BY <1>2, <2>2, <2>3 DEF Grown, At
  <2>6. /\ Loads(b) /\ \A section : KeysOf(b, section) = KeysOf(m, section)
        /\ Headers(b, "dependencies") = {}
    BY <1>4, <2>3, <2>5, BlankAdded
  <2>7. /\ Loads(d) /\ \A section : KeysOf(d, section) = KeysOf(b, section)
        /\ Headers(d, "dependencies") = {n + 2}
    <3>1. Len(d) = Len(b) + 1 /\ \A i \in 1..Len(b) : d[i] = b[i]
      BY <1>2, <2>3, <2>4
    <3>2. d[Len(d)] = Section("dependencies")
      BY <2>4
    <3>3. d \in Manifests /\ b \in Manifests
      BY <1>2, <2>3, <2>4
    <3> QED
      BY <2>4, <2>6, <3>1, <3>2, <3>3, HeaderAdded
  <2> DEFINE p == n + 3
  <2>8. Grown(d, t, p)
    <3>1. \A i \in 1..(n + 2) : t[i] = d[i]
      <4> TAKE i \in 1..(n + 2)
      <4>1. CASE i \in 1..n
        BY <1>2, <2>1, <2>3, <2>4, <4>1
      <4>2. CASE i = n + 1
        BY <1>2, <2>1, <2>3, <2>4, <4>2
      <4>3. CASE i = n + 2
        BY <1>2, <2>1, <2>4, <4>3
      <4> QED
        BY <1>2, <4>1, <4>2, <4>3
    <3>2. /\ Len(t) = Len(d) + 1 /\ p \in 1..Len(t)
          /\ \A i \in 1..Len(d) : t[At(i, p)] = d[i]
      BY <1>2, <2>1, <2>4, <3>1 DEF At
    <3> QED
      BY <1>2, <2>1, <2>2, <2>4, <3>2 DEF Grown
  <2> DEFINE h == n + 2
  <2>9. /\ name \notin KeysOf(d, "dependencies") /\ t[p] = Entry(name) /\ p = h + 1
        /\ Loads(d) /\ Headers(d, "dependencies") = {h}
    BY <1>1, <1>2, <2>1, <2>6, <2>7
  <2> HIDE DEF p, h
  <2>10. /\ Loads(t) /\ KeysOf(t, "target") = KeysOf(d, "target")
         /\ KeysOf(t, "dependencies") = KeysOf(d, "dependencies") \cup {name}
    BY <2>8, <2>9, EntryAdded
  <2> QED
    BY <2>6, <2>7, <2>10 DEF t
<1> QED
  BY <1>3, <1>4

LEMMA Removal ==
    ASSUME NEW m \in Manifests, NEW name, Loads(m),
           Headers(m, "dependencies") = DependenciesLine(m), Removable(m, name)
    PROVE  LET t == removeDependencyLine(m, name)
           IN  /\ Loads(t) /\ KeysOf(t, "target") = KeysOf(m, "target")
               /\ KeysOf(t, "dependencies") = KeysOf(m, "dependencies") \ {name}
<1> DEFINE t == removeDependencyLine(m, name)
           r == Min(NamedLines(m, name))
           h == Min(DependenciesLine(m))
<1>1. NamedLines(m, name) # {} /\ m[r].plain
  BY DEF Removable
<1>2. r \in NamedLines(m, name) /\ r \in 1..Len(m) /\ DependenciesLine(m) # {}
  BY <1>1, NamedLine
<1>3. h \in DependenciesLine(m)
  BY <1>2, DependenciesHeader
<1>4. r \in EntriesUnder(m, h) /\ m[r].key = name
  BY <1>2 DEF NamedLines
<1>5. Headers(m, "dependencies") = {h}
  <2>1. h \in DOMAIN m /\ m[h].k = "section" /\ m[h].key = "dependencies"
    BY <1>3 DEF DependenciesLine, Headers
  <2>2. Headers(m, m[h].key) = {h}
    BY <2>1 DEF Loads, WellFormed
  <2> QED
    BY <2>1, <2>2
<1>6. /\ t \in Manifests /\ Len(t) = Len(m) - 1
      /\ \A i \in 1..(r - 1) : t[i] = m[i]
      /\ \A i \in r..(Len(m) - 1) : t[i] = m[i + 1]
  BY <1>1, Removed
<1> HIDE DEF h, r, t
<1>7. Len(m) \in Nat /\ m[r].k = "entry"
  BY <1>4, SectionLines
<1>8. \A i \in 1..Len(t) : m[At(i, r)] = t[i]
  <2> TAKE i \in 1..Len(t)
  <2>1. CASE i < r
    BY <1>2, <1>6, <1>7, <2>1 DEF At
  <2>2. CASE i >= r
    BY <1>2, <1>6, <1>7, <2>2 DEF At
  <2> QED
    BY <1>2, <1>6, <1>7, <2>1, <2>2
<1>9. Grown(t, m, r)
  BY <1>2, <1>6, <1>7, <1>8 DEF Grown
<1>10. /\ Loads(t) /\ KeysOf(t, "target") = KeysOf(m, "target")
       /\ KeysOf(t, "dependencies") = KeysOf(m, "dependencies") \ {name}
  BY <1>1, <1>4, <1>5, <1>9, EntryTaken
<1> QED
  BY <1>10 DEF t

\* `ebpm add` and `ebpm remove` change the one entry they are given and leave
\* a manifest that loads (insertDependencyLine and removeDependencyLine,
\* main.cpp), for any manifest that loaded.
THEOREM ExactEditsSafe == Spec => []ExactEdits
<1>1. Inv => ExactEdits
  <2> SUFFICES ASSUME Inv, job.step = "write", Loads(job.seen),
                      Headers(job.seen, "dependencies") = DependenciesLine(job.seen)
               PROVE  /\ Loads(job.text)
                      /\ KeysOf(job.text, "target") = KeysOf(job.seen, "target")
                      /\ KeysOf(job.text, "dependencies") =
                            IF job.cmd = "add"
                            THEN KeysOf(job.seen, "dependencies") \cup {job.name}
                            ELSE KeysOf(job.seen, "dependencies") \ {job.name}
    BY DEF ExactEdits
  <2>1. job.seen \in Manifests /\ job.name \in Given
    BY DEF Inv, TypeOK, Job
  <2>2. job.seen # <<>>
    BY DEF Loads, Headers
  <2>3. CASE /\ job.cmd = "add" /\ ~dependencyNameExists(job.seen, job.name)
             /\ job.text = insertDependencyLine(job.seen, job.name)
    BY <2>1, <2>3, Insertion
  <2>4. CASE /\ job.cmd = "remove" /\ Removable(job.seen, job.name)
             /\ job.text = removeDependencyLine(job.seen, job.name)
    BY <2>1, <2>4, Removal
  <2> QED
    BY <2>2, <2>3, <2>4 DEF Inv, Editing
<1> QED
  BY <1>1, Invariance, PTL
=============================================================================

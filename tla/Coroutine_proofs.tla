---------------------------- MODULE Coroutine_proofs ----------------------------
(* Coroutine objects are safe in every program in which no body gets at a    *)
(* variable its own coroutine may be in: the inductive invariant, and the    *)
(* theorems.                                                                 *)
EXTENDS Coroutine, TLAPS

Running(f) == frame[f].at = "running"

\* The frames that run are a chain from top down to main, each called or
\* resumed by the one below it, and whoever runs can get at no more than
\* those that wait for it.
Chain ==
    /\ top # Main => Running(top)
    /\ \A f \in Frames : Running(f) =>
          /\ top # Main
          /\ 1 <= frame[f].depth /\ frame[f].depth <= frame[top].depth
          /\ frame[f].depth = 1 <=> frame[f].caller = Main
          /\ frame[f].caller # Main =>
                /\ Running(frame[f].caller)
                /\ frame[f].depth = frame[frame[f].caller].depth + 1
    /\ \A f, g \in Frames : Running(f) /\ Running(g) =>
          /\ frame[f].depth = frame[g].depth => f = g
          /\ frame[f].depth <= frame[g].depth =>
                Touches[frame[g].proc] \subseteq Touches[frame[f].proc]

\* Where the object of a running frame goes is its caller's to use.  Only a
\* generator is resumed.
Aimed ==
    \A f \in Frames : Running(f) =>
        /\ frame[f].into \in Vars =>
              /\ frame[f].proc \in Holds[frame[f].into]
              /\ frame[f].caller # Main =>
                    frame[f].into \in Touches[frame[frame[f].caller].proc]
        /\ frame[f].into = Next <=> Shape[frame[f].proc] = "generator"

\* OwnedOnce, from the side of the variables; what is in a variable has been
\* assigned to it.
Owned ==
    /\ \A v \in Vars : holder[v] # Null =>
          /\ frame[holder[v]].at # "free"
          /\ frame[holder[v]].proc \in Holds[v]
          /\ Running(holder[v]) => frame[holder[v]].into = Next
    /\ \A v, w \in Vars : holder[v] # Null /\ holder[v] = holder[w] => v = w
    /\ \A f \in Frames :
          /\ \/ frame[f].at \in {"suspended", "final"}
             \/ Running(f) /\ frame[f].into = Next
          => \E v \in Vars : holder[v] = f
    /\ \A f \in Frames :
          frame[f].at = "suspended" => Shape[frame[f].proc] = "generator"

Inv == TypeOK /\ Chain /\ Aimed /\ Owned /\ EveryYieldTold /\ OnlyEmptyBreaks
-----------------------------------------------------------------------------
USE ShapeAssumption, TouchesAssumption, NamesAssumption

LEMMA RestingType ==
    ASSUME NEW p \in Procs, NEW w \in {"free", "running", "suspended", "final"}
    PROVE  Resting(p, w) \in FrameRec
BY DEF Resting, FrameRec

LEMMA NoFrameType == NoFrame \in FrameRec /\ NoFrame.at = "free"
                     /\ NoFrame.told = NoFrame.yields
<1>1. (CHOOSE p \in Procs : TRUE) \in Procs
  OBVIOUS
<1>2. NoFrame \in FrameRec
  BY <1>1, RestingType DEF NoFrame
<1> QED
  BY <1>2 DEF NoFrame, Resting

\* At first nothing runs and nothing is held.
LEMMA InitInv == Init => Inv
<1> SUFFICES ASSUME Init PROVE Inv
  OBVIOUS
<1>1. TypeOK
  BY NoFrameType DEF Init, TypeOK
<1>2. \A f \in Frames : frame[f] = NoFrame
  BY DEF Init
<1>3. Chain /\ Aimed
  BY <1>2, NoFrameType DEF Init, Chain, Aimed, Running
<1>4. Owned
  BY <1>2, NoFrameType DEF Init, Owned, Running
<1>5. EveryYieldTold /\ OnlyEmptyBreaks
  BY <1>2, NoFrameType DEF Init, EveryYieldTold, OnlyEmptyBreaks
<1> QED
  BY <1>1, <1>3, <1>4, <1>5 DEF Inv

\* Whoever runs and can get at v finds nothing running in it.
LEMMA NotOccupied ==
    ASSUME Inv, NEW v \in Vars, Uses(v)
    PROVE  ~Occupied(v)
<1> SUFFICES ASSUME Occupied(v) PROVE FALSE
  OBVIOUS
<1> DEFINE g == holder[v]
<1>1. g \in Frames /\ Running(g) /\ frame[g].proc \in Holds[v]
  BY DEF Inv, TypeOK, Owned, Occupied, Running
<1>2. top \in Frames /\ Running(top) /\ frame[g].depth <= frame[top].depth
  BY <1>1 DEF Inv, TypeOK, Chain
<1>3. Touches[frame[top].proc] \subseteq Touches[frame[g].proc]
  BY <1>1, <1>2 DEF Inv, Chain
<1>4. v \in Touches[frame[g].proc]
  BY <1>2, <1>3 DEF Uses
<1> QED
  BY <1>1, <1>4, ApartAssumption

\* Nor does the caller of whoever runs, in the variable the call is for.
LEMMA NotOccupiedBelow ==
    ASSUME Inv, top # Main, frame[top].into \in Vars
    PROVE  ~Occupied(frame[top].into)
<1> DEFINE v == frame[top].into
<1> DEFINE g == holder[v]
<1> DEFINE c == frame[top].caller
<1> SUFFICES ASSUME Occupied(v) PROVE FALSE
  OBVIOUS
<1>1. g \in Frames /\ Running(g) /\ frame[g].proc \in Holds[v]
         /\ frame[g].into = Next
  BY DEF Inv, TypeOK, Owned, Occupied, Running
<1>2. top \in Frames /\ Running(top) /\ frame[g].depth <= frame[top].depth
  BY <1>1 DEF Inv, TypeOK, Chain
<1>3. g # top
  BY <1>1
<1>4. frame[g].depth < frame[top].depth /\ 1 <= frame[g].depth
  <2>1. frame[g].depth \in Nat /\ frame[top].depth \in Nat
    BY <1>1, <1>2 DEF Inv, TypeOK, FrameRec
  <2>2. frame[g].depth # frame[top].depth
    BY <1>1, <1>2, <1>3 DEF Inv, Chain
  <2>3. 1 <= frame[g].depth
    BY <1>1 DEF Inv, Chain
  <2> QED
    BY <1>2, <2>1, <2>2, <2>3
<1>5. c # Main /\ c \in Frames /\ Running(c)
         /\ frame[top].depth = frame[c].depth + 1
  <2>1. frame[g].depth \in Nat /\ frame[top].depth \in Nat
    BY <1>1, <1>2 DEF Inv, TypeOK, FrameRec
  <2>2. c # Main
    BY <1>2, <1>4, <2>1 DEF Inv, Chain
  <2>3. c \in Frames \cup {Main}
    BY <1>2 DEF Inv, TypeOK, FrameRec
  <2> QED
    BY <1>2, <2>2, <2>3 DEF Inv, Chain
<1>6. frame[g].depth <= frame[c].depth
  <2>1. frame[g].depth \in Nat /\ frame[c].depth \in Nat
    BY <1>1, <1>5 DEF Inv, TypeOK, FrameRec
  <2> QED
    BY <1>4, <1>5, <2>1
<1>7. Touches[frame[c].proc] \subseteq Touches[frame[g].proc]
  BY <1>1, <1>5, <1>6 DEF Inv, Chain
<1>8. v \in Touches[frame[c].proc]
  BY <1>2, <1>5 DEF Inv, Aimed
<1> QED
  BY <1>1, <1>7, <1>8, ApartAssumption
\* Control passes to a new frame, or to a suspended one.
LEMMA ResumeStep ==
    ASSUME Inv, state = "going",
           NEW f \in Frames, NEW r \in FrameRec,
           NEW use \in Vars \cup {Next, Drop, Await},
           Resume(f, r, use),
           r.told = r.yields,
           top # Main => Touches[r.proc] \subseteq Touches[frame[top].proc],
           use \in Vars => r.proc \in Holds[use] /\ Uses(use),
           use = Next <=> Shape[r.proc] = "generator",
           \/ frame[f].at = "free" /\ use # Next
           \/ frame[f].at = "suspended" /\ r = frame[f] /\ use = Next
    PROVE  Inv'
<1> DEFINE n == [r EXCEPT !.at = "running", !.caller = top, !.depth = Above,
                          !.into = use]
<1>1. top \in Frames \cup {Main} /\ frame \in [Frames -> FrameRec]
        /\ holder \in [Vars -> Frames \cup {Null}]
  BY DEF Inv, TypeOK
<1>2. Above \in Nat /\ Above >= 1
  BY <1>1 DEF Above, FrameRec
<1>3. n \in FrameRec
  BY <1>1, <1>2 DEF FrameRec
<1>4. /\ n.at = "running" /\ n.caller = top /\ n.depth = Above /\ n.into = use
      /\ n.proc = r.proc /\ n.told = n.yields /\ n.told = r.told
  BY DEF FrameRec
<1>5. /\ frame' = [frame EXCEPT ![f] = n] /\ top' = f /\ holder' = holder
      /\ state' = state
  BY DEF Resume
<1> HIDE DEF n
<1>6. /\ frame'[f] = n
      /\ \A g \in Frames : g # f => frame'[g] = frame[g]
  BY <1>1, <1>5
<1>7. TypeOK'
  BY <1>1, <1>3, <1>5 DEF TypeOK, Inv
<1>8. ~Running(f) /\ f # top
  BY DEF Running, Inv, Chain
<1>9. \A g \in Frames : Running(g) <=> (frame'[g].at = "running" /\ g # f)
  BY <1>6, <1>8 DEF Running
<1>10. frame'[f].at = "running"
  BY <1>4, <1>6 DEF Running
<1>11. \A g \in Frames : Running(g) =>
          top # Main /\ frame[g].depth < Above /\ frame[g].depth \in Nat
          /\ 1 <= frame[g].depth
  BY <1>1 DEF Inv, Chain, Above, FrameRec
<1>12. Chain'
  <2>1. top # Main => Running(top) /\ Above = frame[top].depth + 1
                      /\ frame[top].depth \in Nat /\ 1 <= frame[top].depth
                      /\ top \in Frames
    BY <1>1, <1>11 DEF Inv, Chain, Above
  <2>2. top = Main => Above = 1
    BY DEF Above
  <2>3. ASSUME NEW g \in Frames, frame'[g].at = "running"
        PROVE  /\ top' # Main
               /\ 1 <= frame'[g].depth /\ frame'[g].depth <= frame'[top'].depth
               /\ frame'[g].depth = 1 <=> frame'[g].caller = Main
               /\ frame'[g].caller # Main =>
                     /\ frame'[frame'[g].caller].at = "running"
                     /\ frame'[g].depth = frame'[frame'[g].caller].depth + 1
    <3>1. CASE g = f
      BY <3>1, <2>1, <2>2, <1>2, <1>4, <1>5, <1>6, <1>8, <1>9
    <3>2. CASE g # f
      <4>1. Running(g) /\ frame'[g] = frame[g]
        BY <3>2, <1>6, <1>9, <2>3
      <4>2. frame[g].caller \in Frames \cup {Main}
        BY <1>1 DEF FrameRec
      <4>3. frame[g].caller # Main =>
              /\ Running(frame[g].caller)
              /\ frame[g].depth = frame[frame[g].caller].depth + 1
        BY <4>1 DEF Inv, Chain
      <4>4. frame[g].depth = 1 <=> frame[g].caller = Main
        BY <4>1 DEF Inv, Chain
      <4>5. frame[g].caller # Main =>
              frame'[frame[g].caller].at = "running" /\ frame[g].caller # f
        BY <4>2, <4>3, <1>8, <1>9
      <4> QED
        BY <4>1, <4>2, <4>3, <4>4, <4>5, <1>2, <1>4, <1>5, <1>6, <1>11
    <3> QED
      BY <3>1, <3>2
  <2>4. ASSUME NEW g \in Frames, NEW h \in Frames, frame'[g].at = "running", frame'[h].at = "running"
        PROVE  /\ frame'[g].depth = frame'[h].depth => g = h
               /\ frame'[g].depth <= frame'[h].depth =>
                    Touches[frame'[h].proc] \subseteq Touches[frame'[g].proc]
    <3>1. CASE g # f /\ h # f
      BY <3>1, <1>6, <1>9, <2>4 DEF Inv, Chain
    <3>2. CASE g # f /\ h = f
      <4>1. Running(g) /\ frame'[g] = frame[g]
        BY <3>2, <1>6, <1>9, <2>4
      <4>2. frame[g].depth <= frame[top].depth /\ Running(top) /\ top \in Frames
        BY <4>1, <1>1, <1>11 DEF Inv, Chain
      <4>3. Touches[frame[top].proc] \subseteq Touches[frame[g].proc]
        BY <4>1, <4>2 DEF Inv, Chain
      <4> QED
        BY <3>2, <4>1, <4>3, <1>2, <1>4, <1>6, <1>11
    <3>3. CASE g = f /\ h # f
      <4>1. Running(h) /\ frame'[h] = frame[h]
        BY <3>3, <1>6, <1>9, <2>4
      <4> QED
        BY <3>3, <4>1, <1>2, <1>4, <1>6, <1>11
    <3>4. CASE g = f /\ h = f
      BY <3>4
    <3> QED
      BY <3>1, <3>2, <3>3, <3>4
  <2> QED
    BY <1>5, <1>10, <2>3, <2>4 DEF Chain, Running
<1>13. Aimed'
  <2> SUFFICES ASSUME NEW g \in Frames, frame'[g].at = "running"
        PROVE  /\ frame'[g].into \in Vars =>
                    /\ frame'[g].proc \in Holds[frame'[g].into]
                    /\ frame'[g].caller # Main =>
                         frame'[g].into \in Touches[frame'[frame'[g].caller].proc]
               /\ frame'[g].into = Next <=> Shape[frame'[g].proc] = "generator"
    BY DEF Aimed, Running
  <2>1. CASE g = f
    BY <2>1, <1>1, <1>4, <1>6, <1>8 DEF Uses
  <2>2. CASE g # f
    <3>1. Running(g) /\ frame'[g] = frame[g]
      BY <2>2, <1>6, <1>9
    <3>2. frame[g].caller # Main =>
            frame[g].caller \in Frames /\ frame[g].caller # f
      <4>1. frame[g].caller \in Frames \cup {Main}
        BY <1>1 DEF FrameRec
      <4> QED
        BY <3>1, <4>1, <1>8 DEF Inv, Chain
    <3> QED
      BY <3>1, <3>2, <1>6 DEF Inv, Aimed
  <2> QED
    BY <2>1, <2>2
<1>14. Owned'
  <2>1. ASSUME NEW v \in Vars, holder'[v] # Null
        PROVE  /\ frame'[holder'[v]].at # "free"
               /\ frame'[holder'[v]].proc \in Holds[v]
               /\ frame'[holder'[v]].at = "running" => frame'[holder'[v]].into = Next
    <3>1. holder[v] # Null /\ holder'[v] = holder[v] /\ holder[v] \in Frames
      BY <2>1, <1>1, <1>5
    <3>2. /\ frame[holder[v]].at # "free"
          /\ frame[holder[v]].proc \in Holds[v]
          /\ Running(holder[v]) => frame[holder[v]].into = Next
      BY <3>1 DEF Inv, Owned
    <3>3. CASE holder[v] = f
      BY <3>1, <3>2, <3>3, <1>4, <1>6
    <3>4. CASE holder[v] # f
      BY <3>1, <3>2, <3>4, <1>6, <1>9
    <3> QED
      BY <3>3, <3>4
  <2>2. \A v, w \in Vars : holder'[v] # Null /\ holder'[v] = holder'[w] => v = w
    BY <1>5 DEF Inv, Owned
  <2>3. ASSUME NEW g \in Frames,
               \/ frame'[g].at \in {"suspended", "final"}
               \/ frame'[g].at = "running" /\ frame'[g].into = Next
        PROVE  \E v \in Vars : holder'[v] = g
    <3>1. CASE g = f
      <4>1. use = Next
        BY <3>1, <2>3, <1>4, <1>6 DEF Running
      <4> QED
        BY <3>1, <4>1, <1>5 DEF Inv, Owned
    <3>2. CASE g # f
      BY <3>2, <2>3, <1>5, <1>6, <1>9 DEF Inv, Owned
    <3> QED
      BY <3>1, <3>2
  <2>4. \A g \in Frames :
          frame'[g].at = "suspended" => Shape[frame'[g].proc] = "generator"
    BY <1>4, <1>6 DEF Inv, Owned
  <2> QED
    BY <2>1, <2>2, <2>3, <2>4 DEF Owned, Running
<1>15. EveryYieldTold'
  <2> SUFFICES ASSUME NEW g \in Frames
               PROVE  frame'[g].told = frame'[g].yields
    BY DEF EveryYieldTold
  <2>1. CASE g = f
    BY <2>1, <1>4, <1>6
  <2>2. CASE g # f
    BY <2>2, <1>6 DEF Inv, EveryYieldTold
  <2> QED
    BY <2>1, <2>2
<1>16. OnlyEmptyBreaks'
  BY <1>5 DEF Inv, OnlyEmptyBreaks
<1> QED
  BY <1>7, <1>12, <1>13, <1>14, <1>15, <1>16 DEF Inv
\* Nothing that runs changes.
LEMMA QuietStep ==
    ASSUME Inv, TypeOK', top' = top,
           \A g \in Frames : Running(g) <=> frame'[g].at = "running",
           \A g \in Frames : Running(g) => frame'[g] = frame[g]
    PROVE  Chain' /\ Aimed'
<1>1. \A g \in Frames : Running(g) /\ frame[g].caller # Main =>
         frame[g].caller \in Frames /\ Running(frame[g].caller)
  BY DEF Inv, TypeOK, FrameRec, Chain
<1>2. top \in Frames \cup {Main} /\ (top # Main => Running(top))
  BY DEF Inv, TypeOK, Chain
<1>3. ASSUME NEW g \in Frames, frame'[g].at = "running"
      PROVE  /\ top' # Main
             /\ 1 <= frame'[g].depth /\ frame'[g].depth <= frame'[top'].depth
             /\ frame'[g].depth = 1 <=> frame'[g].caller = Main
             /\ frame'[g].caller # Main =>
                   /\ frame'[frame'[g].caller].at = "running"
                   /\ frame'[g].depth = frame'[frame'[g].caller].depth + 1
  BY <1>1, <1>2, <1>3 DEF Inv, Chain
<1>4. ASSUME NEW g \in Frames, NEW h \in Frames,
             frame'[g].at = "running", frame'[h].at = "running"
      PROVE  /\ frame'[g].depth = frame'[h].depth => g = h
             /\ frame'[g].depth <= frame'[h].depth =>
                  Touches[frame'[h].proc] \subseteq Touches[frame'[g].proc]
  BY <1>4 DEF Inv, Chain
<1>5. Chain'
  BY <1>2, <1>3, <1>4 DEF Chain, Running
<1>6. Aimed'
  <2> SUFFICES ASSUME NEW g \in Frames, frame'[g].at = "running"
        PROVE  /\ frame'[g].into \in Vars =>
                    /\ frame'[g].proc \in Holds[frame'[g].into]
                    /\ frame'[g].caller # Main =>
                         frame'[g].into \in Touches[frame'[frame'[g].caller].proc]
               /\ frame'[g].into = Next <=> Shape[frame'[g].proc] = "generator"
    BY DEF Aimed, Running
  <2> QED
    BY <1>1 DEF Inv, Aimed
<1> QED
  BY <1>5, <1>6

\* Control goes back: whoever ran does not, and nothing else that runs
\* changes.
LEMMA PopStep ==
    ASSUME Inv, TypeOK', top # Main, top' = frame[top].caller,
           \A g \in Frames : Running(g) /\ g # top <=> frame'[g].at = "running",
           \A g \in Frames : Running(g) /\ g # top => frame'[g] = frame[g]
    PROVE  Chain' /\ Aimed'
<1> DEFINE c == frame[top].caller
<1>1. top \in Frames /\ Running(top) /\ frame \in [Frames -> FrameRec]
        /\ c \in Frames \cup {Main} /\ frame[top].depth \in Nat
  BY DEF Inv, TypeOK, Chain, FrameRec
<1>2. c # Main => c \in Frames /\ Running(c) /\ c # top
                  /\ frame[top].depth = frame[c].depth + 1
                  /\ frame[c].depth \in Nat
  BY <1>1 DEF Inv, Chain, FrameRec
<1>3. \A g \in Frames : Running(g) /\ g # top =>
         /\ frame[g].depth \in Nat /\ 1 <= frame[g].depth
         /\ frame[g].depth < frame[top].depth
  <2> SUFFICES ASSUME NEW g \in Frames, Running(g), g # top
        PROVE  /\ frame[g].depth \in Nat /\ 1 <= frame[g].depth
               /\ frame[g].depth < frame[top].depth
    OBVIOUS
  <2>1. frame[g].depth \in Nat /\ 1 <= frame[g].depth
          /\ frame[g].depth <= frame[top].depth
    BY <1>1 DEF Inv, Chain, FrameRec
  <2>2. frame[g].depth # frame[top].depth
    BY <1>1 DEF Inv, Chain
  <2> QED
    BY <1>1, <2>1, <2>2
<1>4. \A g \in Frames : Running(g) /\ g # top =>
         /\ c # Main /\ frame[g].depth <= frame[c].depth
         /\ frame[g].caller # Main =>
               /\ frame[g].caller \in Frames /\ frame[g].caller # top
               /\ Running(frame[g].caller)
               /\ frame[g].depth = frame[frame[g].caller].depth + 1
  <2> SUFFICES ASSUME NEW g \in Frames, Running(g), g # top
        PROVE  /\ c # Main /\ frame[g].depth <= frame[c].depth
               /\ frame[g].caller # Main =>
                     /\ frame[g].caller \in Frames /\ frame[g].caller # top
                     /\ Running(frame[g].caller)
                     /\ frame[g].depth = frame[frame[g].caller].depth + 1
    OBVIOUS
  <2>1. frame[top].depth = 1 <=> c = Main
    BY <1>1 DEF Inv, Chain
  <2>2. c # Main /\ frame[g].depth <= frame[c].depth
    BY <2>1, <1>1, <1>2, <1>3
  <2>3. frame[g].caller # Main =>
          /\ frame[g].caller \in Frames /\ Running(frame[g].caller)
          /\ frame[g].depth = frame[frame[g].caller].depth + 1
          /\ frame[frame[g].caller].depth \in Nat
    BY <1>1 DEF Inv, Chain, FrameRec
  <2> QED
    BY <2>2, <2>3, <1>1, <1>3
<1>5. ASSUME NEW g \in Frames, frame'[g].at = "running"
      PROVE  /\ top' # Main
             /\ 1 <= frame'[g].depth /\ frame'[g].depth <= frame'[top'].depth
             /\ frame'[g].depth = 1 <=> frame'[g].caller = Main
             /\ frame'[g].caller # Main =>
                   /\ frame'[frame'[g].caller].at = "running"
                   /\ frame'[g].depth = frame'[frame'[g].caller].depth + 1
  <2>1. Running(g) /\ g # top /\ frame'[g] = frame[g]
    BY <1>5
  <2>2. c \in Frames /\ frame'[c] = frame[c]
    BY <2>1, <1>2, <1>4
  <2>3. frame[g].depth = 1 <=> frame[g].caller = Main
    BY <2>1 DEF Inv, Chain
  <2> QED
    BY <2>1, <2>2, <2>3, <1>3, <1>4
<1>6. ASSUME NEW g \in Frames, NEW h \in Frames,
             frame'[g].at = "running", frame'[h].at = "running"
      PROVE  /\ frame'[g].depth = frame'[h].depth => g = h
             /\ frame'[g].depth <= frame'[h].depth =>
                  Touches[frame'[h].proc] \subseteq Touches[frame'[g].proc]
  BY <1>6 DEF Inv, Chain
<1>7. Chain'
  BY <1>2, <1>5, <1>6 DEF Chain, Running
<1>8. Aimed'
  <2> SUFFICES ASSUME NEW g \in Frames, frame'[g].at = "running"
        PROVE  /\ frame'[g].into \in Vars =>
                    /\ frame'[g].proc \in Holds[frame'[g].into]
                    /\ frame'[g].caller # Main =>
                         frame'[g].into \in Touches[frame'[frame'[g].caller].proc]
               /\ frame'[g].into = Next <=> Shape[frame'[g].proc] = "generator"
    BY DEF Aimed, Running
  <2> QED
    BY <1>4 DEF Inv, Aimed
<1> QED
  BY <1>7, <1>8

\* A frame that does not run any more, and is nobody's, moves into v.
LEMMA AssignStep ==
    ASSUME Inv, NEW v \in Vars, NEW f \in Frames, NEW r \in FrameRec,
           Assign(v, f, r), ~Occupied(v),
           \A w \in Vars : holder[w] # f,
           r.at \in {"suspended", "final"}, r.proc \in Holds[v],
           r.told = r.yields,
           r.at = "suspended" => Shape[r.proc] = "generator"
    PROVE  /\ state' = "going" /\ frame'[f] = r
           /\ \A g \in Frames : g # f =>
                 frame'[g] = IF g = holder[v] THEN NoFrame ELSE frame[g]
           /\ frame' \in [Frames -> FrameRec]
           /\ holder' \in [Vars -> Frames \cup {Null}]
           /\ Owned' /\ EveryYieldTold'
<1>1. /\ frame \in [Frames -> FrameRec]
      /\ holder \in [Vars -> Frames \cup {Null}]
  BY DEF Inv, TypeOK
<1>2. state' = "going"
  BY DEF Assign
<1>3. holder' = [holder EXCEPT ![v] = f]
  BY DEF Assign
<1>4. /\ frame'[f] = r
      /\ \A g \in Frames : g # f =>
            frame'[g] = IF g = holder[v] THEN NoFrame ELSE frame[g]
  BY <1>1 DEF Assign, Destroy
<1>5. frame' \in [Frames -> FrameRec]
  BY <1>1, NoFrameType DEF Assign, Destroy
<1>6. /\ holder'[v] = f /\ holder' \in [Vars -> Frames \cup {Null}]
      /\ \A w \in Vars : w # v => holder'[w] = holder[w]
  BY <1>1, <1>3
<1>7. ASSUME NEW w \in Vars, w # v, holder[w] # Null
      PROVE  /\ holder[w] \in Frames
             /\ frame'[holder[w]] = frame[holder[w]]
  BY <1>7, <1>1, <1>4 DEF Inv, Owned
<1>8. Owned'
  <2>1. ASSUME NEW w \in Vars, holder'[w] # Null
        PROVE  /\ frame'[holder'[w]].at # "free"
               /\ frame'[holder'[w]].proc \in Holds[w]
               /\ frame'[holder'[w]].at = "running" =>
                    frame'[holder'[w]].into = Next
    <3>1. CASE w = v
      BY <3>1, <1>4, <1>6
    <3>2. CASE w # v
      BY <3>2, <2>1, <1>6, <1>7 DEF Inv, Owned, Running
    <3> QED
      BY <3>1, <3>2
  <2>2. ASSUME NEW w \in Vars, NEW x \in Vars,
               holder'[w] # Null, holder'[w] = holder'[x]
        PROVE  w = x
    BY <2>2, <1>6 DEF Inv, Owned
  <2>3. ASSUME NEW g \in Frames,
               \/ frame'[g].at \in {"suspended", "final"}
               \/ frame'[g].at = "running" /\ frame'[g].into = Next
        PROVE  \E w \in Vars : holder'[w] = g
    <3>1. CASE g = f
      BY <3>1, <1>6
    <3>2. CASE g # f
      <4>1. g # holder[v] /\ frame'[g] = frame[g]
        BY <3>2, <2>3, <1>4, NoFrameType
      <4>2. PICK w \in Vars : holder[w] = g
        BY <4>1, <2>3 DEF Inv, Owned, Running
      <4>3. w # v
        BY <4>1, <4>2
      <4> QED
        BY <4>2, <4>3, <1>6
    <3> QED
      BY <3>1, <3>2
  <2>4. ASSUME NEW g \in Frames, frame'[g].at = "suspended"
        PROVE  Shape[frame'[g].proc] = "generator"
    BY <2>4, <1>4, NoFrameType DEF Inv, Owned
  <2> QED
    BY <2>1, <2>2, <2>3, <2>4 DEF Owned, Running
<1>9. EveryYieldTold'
  <2> SUFFICES ASSUME NEW g \in Frames
               PROVE  frame'[g].told = frame'[g].yields
    BY DEF EveryYieldTold
  <2> QED
    BY <1>4, NoFrameType DEF Inv, EveryYieldTold
<1> QED
  BY <1>2, <1>4, <1>5, <1>6, <1>8, <1>9

\* What AssignStep leaves of the frames that run.
LEMMA AssignRuns ==
    ASSUME Inv, NEW v \in Vars, NEW f \in Frames, NEW r \in FrameRec,
           Assign(v, f, r), ~Occupied(v), r.at # "running"
    PROVE  \A g \in Frames : g # f =>
              /\ Running(g) <=> frame'[g].at = "running"
              /\ Running(g) => frame'[g] = frame[g]
<1>1. \A g \in Frames : g # f =>
         frame'[g] = IF g = holder[v] THEN NoFrame ELSE frame[g]
  BY DEF Inv, TypeOK, Assign, Destroy
<1>2. \A g \in Frames : g = holder[v] => ~Running(g)
  BY DEF Occupied, Running
<1> QED
  BY <1>1, <1>2, NoFrameType DEF Running

LEMMA CallStep ==
    ASSUME Inv, NEW p \in Procs, NEW f \in Frames,
           NEW use \in Vars \cup {Drop, Await}, Call(p, f, use)
    PROVE  Inv'
<1>1. /\ state = "going" /\ frame[f].at = "free"
      /\ use \in Vars => p \in Holds[use] /\ Uses(use)
  BY DEF Call
<1>2. CASE Starts(p)
  <2> DEFINE r == Resting(p, "running")
  <2>1. r \in FrameRec /\ r.proc = p /\ r.told = r.yields
    BY RestingType DEF Resting
  <2>2. Resume(f, r, use)
    BY <1>2 DEF Call
  <2>3. top # Main => Touches[p] \subseteq Touches[frame[top].proc]
    <3>1. top # Main => frame[top].proc \in Procs /\ p \in Calls[frame[top].proc]
      BY DEF Call, May, Inv, TypeOK, FrameRec
    <3> QED
      BY <3>1
  <2>4. use # Next /\ Shape[p] # "generator"
    BY <1>2 DEF Starts
  <2>5. use \in Vars \cup {Next, Drop, Await}
    OBVIOUS
  <2> HIDE DEF r
  <2> QED
    BY <1>1, <2>1, <2>2, <2>3, <2>4, <2>5, ResumeStep
<1>3. CASE ~Starts(p)
  <2> DEFINE r == Resting(p, "suspended")
  <2>1. r \in FrameRec /\ r.proc = p /\ r.told = r.yields /\ r.at = "suspended"
    BY RestingType DEF Resting
  <2>2. use \in Vars /\ Assign(use, f, r) /\ top' = top
    BY <1>3 DEF Call
  <2>3. Shape[p] = "generator"
    BY <1>3 DEF Starts
  <2>4. ~Occupied(use)
    BY <1>1, <2>2, NotOccupied
  <2>5. \A w \in Vars : holder[w] # f
    BY <1>1 DEF Inv, Owned
  <2> HIDE DEF r
  <2>6. /\ state' = "going" /\ frame'[f] = r
        /\ frame' \in [Frames -> FrameRec]
        /\ holder' \in [Vars -> Frames \cup {Null}]
        /\ Owned' /\ EveryYieldTold'
    BY <1>1, <2>1, <2>2, <2>3, <2>4, <2>5, AssignStep
  <2>7. TypeOK'
    BY <2>2, <2>6 DEF Inv, TypeOK
  <2>8. \A g \in Frames : g # f =>
           /\ Running(g) <=> frame'[g].at = "running"
           /\ Running(g) => frame'[g] = frame[g]
    BY <2>1, <2>2, <2>4, AssignRuns
  <2>9. ~Running(f) /\ frame'[f].at # "running"
    BY <1>1, <2>1, <2>6 DEF Running
  <2>10. Chain' /\ Aimed'
    BY <2>2, <2>7, <2>8, <2>9, QuietStep
  <2> QED
    BY <2>6, <2>7, <2>10 DEF Inv, OnlyEmptyBreaks
<1> QED
  BY <1>2, <1>3

LEMMA MoveNextStep ==
    ASSUME Inv, NEW v \in Vars, MoveNext(v)
    PROVE  Inv'
<1> DEFINE f == holder[v]
<1>1. /\ state = "going" /\ Uses(v) /\ f \in Frames
      /\ Shape[frame[f].proc] = "generator" /\ frame[f].at # "final"
  BY DEF MoveNext, Inv, TypeOK
<1>2. ~Occupied(v)
  BY <1>1, NotOccupied
<1>3. Resume(f, frame[f], Next)
  BY <1>2 DEF MoveNext
<1>4. frame[f] \in FrameRec /\ frame[f].told = frame[f].yields
  BY <1>1 DEF Inv, TypeOK, EveryYieldTold
<1>5. frame[f].at = "suspended"
  <2>1. frame[f].at # "free" /\ frame[f].at # "running"
    BY <1>1, <1>2 DEF Inv, Owned, Occupied
  <2> QED
    BY <1>1, <1>4, <2>1 DEF FrameRec
<1>6. top # Main => Touches[frame[f].proc] \subseteq Touches[frame[top].proc]
  <2>1. frame[f].proc \in Holds[v]
    BY <1>1 DEF Inv, Owned
  <2>2. top # Main => frame[top].proc \in Procs /\ v \in Touches[frame[top].proc]
    BY <1>1 DEF Uses, Inv, TypeOK, FrameRec
  <2> QED
    BY <2>1, <2>2
<1>7. Next \in Vars \cup {Next, Drop, Await} /\ Next \notin Vars
  OBVIOUS
<1> HIDE DEF f
<1> QED
  BY <1>1, <1>3, <1>4, <1>5, <1>6, <1>7, ResumeStep

\* A frame gives control back and stays in its variable, or is freed.
LEMMA StayStep ==
    ASSUME Inv, top # Main, NEW r \in FrameRec,
           frame' = [frame EXCEPT ![top] = r], holder' = holder,
           top' = frame[top].caller, state' \in {"going", "unwinding"},
           r.told = r.yields,
           \/ /\ frame[top].into = Next
              /\ r.at \in {"suspended", "final"} /\ r.proc = frame[top].proc
           \/ frame[top].into # Next /\ r = NoFrame
    PROVE  Inv'
<1>1. /\ top \in Frames /\ Running(top) /\ frame \in [Frames -> FrameRec]
      /\ holder \in [Vars -> Frames \cup {Null}]
      /\ frame[top].caller \in Frames \cup {Main}
  BY DEF Inv, TypeOK, Chain, FrameRec
<1>2. /\ frame'[top] = r
      /\ \A g \in Frames : g # top => frame'[g] = frame[g]
  BY <1>1
<1>3. TypeOK'
  BY <1>1 DEF TypeOK
<1>4. r.at # "running"
  BY NoFrameType
<1>5. Chain' /\ Aimed'
  BY <1>1, <1>2, <1>3, <1>4, PopStep DEF Running
<1>6. frame[top].into = Next => Shape[frame[top].proc] = "generator"
  BY <1>1 DEF Inv, Aimed
<1>7. Owned'
  <2>1. ASSUME NEW v \in Vars, holder'[v] # Null
        PROVE  /\ frame'[holder'[v]].at # "free"
               /\ frame'[holder'[v]].proc \in Holds[v]
               /\ frame'[holder'[v]].at = "running" => frame'[holder'[v]].into = Next
    <3>1. /\ holder[v] \in Frames /\ frame[holder[v]].at # "free"
          /\ frame[holder[v]].proc \in Holds[v]
          /\ Running(holder[v]) => frame[holder[v]].into = Next
      BY <2>1, <1>1 DEF Inv, Owned
    <3>2. CASE holder[v] = top
      BY <3>1, <3>2, <1>1, <1>2
    <3>3. CASE holder[v] # top
      BY <3>1, <3>3, <1>2 DEF Running
    <3> QED
      BY <3>2, <3>3
  <2>2. \A v, w \in Vars : holder'[v] # Null /\ holder'[v] = holder'[w] => v = w
    BY DEF Inv, Owned
  <2>3. ASSUME NEW g \in Frames,
               \/ frame'[g].at \in {"suspended", "final"}
               \/ frame'[g].at = "running" /\ frame'[g].into = Next
        PROVE  \E v \in Vars : holder'[v] = g
    <3>1. CASE g = top
      <4>1. frame[top].into = Next
        BY <3>1, <2>3, <1>2, NoFrameType
      <4> QED
        BY <3>1, <4>1, <1>1 DEF Inv, Owned
    <3>2. CASE g # top
      BY <3>2, <2>3, <1>2 DEF Inv, Owned, Running
    <3> QED
      BY <3>1, <3>2
  <2>4. ASSUME NEW g \in Frames, frame'[g].at = "suspended"
        PROVE  Shape[frame'[g].proc] = "generator"
    <3>1. CASE g = top
      BY <3>1, <2>4, <1>2, <1>6, NoFrameType
    <3>2. CASE g # top
      BY <3>2, <2>4, <1>2 DEF Inv, Owned
    <3> QED
      BY <3>1, <3>2
  <2> QED
    BY <2>1, <2>2, <2>3, <2>4 DEF Owned, Running
<1>8. EveryYieldTold'
  <2> SUFFICES ASSUME NEW g \in Frames
               PROVE  frame'[g].told = frame'[g].yields
    BY DEF EveryYieldTold
  <2> QED
    BY <1>2 DEF Inv, EveryYieldTold
<1>9. OnlyEmptyBreaks'
  BY DEF OnlyEmptyBreaks
<1> QED
  BY <1>3, <1>5, <1>7, <1>8, <1>9 DEF Inv

\* Control goes back, and the object to where it was called for.
LEMMA BackStep ==
    ASSUME Inv, top # Main, NEW r \in FrameRec, Back(top, r),
           r.at \in {"suspended", "final"}, r.proc = frame[top].proc,
           r.told = r.yields, r.at = "suspended" => frame[top].into = Next
    PROVE  Inv'
<1>1. /\ top \in Frames /\ Running(top) /\ frame \in [Frames -> FrameRec]
      /\ frame[top].caller \in Frames \cup {Main}
      /\ top' = frame[top].caller
  BY DEF Inv, TypeOK, Chain, FrameRec, Back
<1>2. CASE frame[top].into \in Vars
  <2> DEFINE v == frame[top].into
  <2>1. Assign(v, top, r)
    BY <1>2 DEF Back
  <2>2. ~Occupied(v)
    BY <1>2, NotOccupiedBelow
  <2>3. \A w \in Vars : holder[w] # top
    BY <1>1, <1>2 DEF Inv, Owned
  <2>4. r.proc \in Holds[v] /\ v \in Vars /\ r.at # "suspended"
    BY <1>1, <1>2 DEF Inv, Aimed
  <2> HIDE DEF v
  <2>5. /\ state' = "going" /\ frame'[top] = r
        /\ frame' \in [Frames -> FrameRec]
        /\ holder' \in [Vars -> Frames \cup {Null}]
        /\ Owned' /\ EveryYieldTold'
    BY <1>1, <2>1, <2>2, <2>3, <2>4, AssignStep
  <2>6. TypeOK'
    BY <1>1, <2>5 DEF TypeOK
  <2>7. \A g \in Frames : g # top =>
           /\ Running(g) <=> frame'[g].at = "running"
           /\ Running(g) => frame'[g] = frame[g]
    BY <1>1, <2>1, <2>2, <2>4, AssignRuns
  <2>8. Chain' /\ Aimed'
    BY <1>1, <2>5, <2>6, <2>7, PopStep
  <2> QED
    BY <2>5, <2>6, <2>8 DEF Inv, OnlyEmptyBreaks
<1>3. CASE frame[top].into = Next
  <2>1. /\ frame' = [frame EXCEPT ![top] = r] /\ holder' = holder
        /\ state' \in {"going", "unwinding"}
    BY <1>3 DEF Back
  <2> QED
    BY <1>1, <1>3, <2>1, StayStep
<1>4. CASE frame[top].into \in {Drop, Await}
  <2>1. /\ frame' = [frame EXCEPT ![top] = NoFrame] /\ holder' = holder
        /\ state' \in {"going", "unwinding"} /\ frame[top].into # Next
    BY <1>4 DEF Back
  <2> QED
    BY <1>1, <2>1, NoFrameType, StayStep
<1>5. frame[top].into \in Vars \cup {Next, Drop, Await}
  BY <1>1 DEF FrameRec
<1> QED
  BY <1>2, <1>3, <1>4, <1>5

\* What a body leaves in its frame when it gives control back.
LEMMA RestType ==
    ASSUME Inv, top # Main, NEW w \in {"suspended", "final"}
    PROVE  /\ Rest(w) \in FrameRec /\ Rest(w).at = w
           /\ Rest(w).proc = frame[top].proc
           /\ Rest(w).told = Rest(w).yields
           /\ Rest(w).told = frame[top].told
<1>1. frame[top] \in FrameRec /\ frame[top].told = frame[top].yields
  BY DEF Inv, TypeOK, EveryYieldTold
<1> QED
  BY <1>1 DEF Rest, FrameRec

LEMMA YieldStep == ASSUME Inv, Yield PROVE Inv'
<1>1. top # Main /\ top \in Frames /\ Running(top)
      /\ Shape[frame[top].proc] = "generator"
  BY DEF Yield, Inv, TypeOK, Chain
<1>2. frame[top].into = Next
  BY <1>1 DEF Inv, Aimed
<1> DEFINE q == Rest("suspended")
<1> DEFINE r == [q EXCEPT !.yields = @ + 1, !.told = @ + 1]
<1>3. q \in FrameRec /\ q.at = "suspended" /\ q.proc = frame[top].proc
      /\ q.told = q.yields
  BY <1>1, RestType
<1>4. Back(top, r)
  BY <1>2 DEF Yield
<1> HIDE DEF q
<1>5. r \in FrameRec /\ r.at = "suspended" /\ r.proc = frame[top].proc
      /\ r.told = r.yields
  <2>1. q.yields \in Nat /\ q.told \in Nat
    BY <1>3 DEF FrameRec
  <2> DEFINE m == [q EXCEPT !.yields = q.yields + 1]
  <2>2. m \in FrameRec /\ m.yields = q.yields + 1 /\ m.told = q.told
        /\ m.at = q.at /\ m.proc = q.proc
    BY <1>3, <2>1 DEF FrameRec
  <2>3. r = [m EXCEPT !.told = q.told + 1]
    OBVIOUS
  <2> HIDE DEF m, r
  <2>4. r \in FrameRec /\ r.told = q.told + 1 /\ r.yields = m.yields
        /\ r.at = m.at /\ r.proc = m.proc
    BY <2>1, <2>2, <2>3 DEF FrameRec
  <2> QED
    BY <1>3, <2>2, <2>4
<1> HIDE DEF r
<1> QED
  BY <1>1, <1>2, <1>4, <1>5, BackStep

LEMMA EndStep == ASSUME Inv, Return \/ Throw PROVE Inv'
<1> DEFINE q == Rest("final")
<1>1. top # Main
  BY DEF Return, Throw
<1>2. q \in FrameRec /\ q.at = "final" /\ q.proc = frame[top].proc
      /\ q.told = q.yields
  BY <1>1, RestType
<1>3. CASE Return
  <2>1. Back(top, q)
    BY <1>3 DEF Return
  <2> HIDE DEF q
  <2> QED
    BY <1>1, <1>2, <2>1, BackStep
<1>4. CASE Throw
  <2> DEFINE r == [q EXCEPT !.thrown = TRUE]
  <2>1. Back(top, r)
    BY <1>4 DEF Throw
  <2> HIDE DEF q
  <2>2. r \in FrameRec /\ r.at = "final" /\ r.proc = frame[top].proc
        /\ r.told = r.yields
    BY <1>2 DEF FrameRec
  <2> HIDE DEF r
  <2> QED
    BY <1>1, <2>1, <2>2, BackStep
<1> QED
  BY <1>3, <1>4

LEMMA LeaveStep == ASSUME Inv, NEW v \in Vars, Leave(v) PROVE Inv'
<1>1. /\ Uses(v) /\ holder[v] \in Frames /\ top' = top
      /\ frame \in [Frames -> FrameRec]
      /\ holder \in [Vars -> Frames \cup {Null}]
  BY DEF Leave, Inv, TypeOK
<1>2. ~Running(holder[v]) /\ state' = "going"
  BY <1>1, NotOccupied DEF Leave, Occupied, Running
<1>3. /\ frame'[holder[v]] = NoFrame /\ frame' \in [Frames -> FrameRec]
      /\ \A g \in Frames : g # holder[v] => frame'[g] = frame[g]
  BY <1>1, NoFrameType DEF Leave, Destroy
<1>4. /\ holder'[v] = Null /\ holder' \in [Vars -> Frames \cup {Null}]
      /\ \A w \in Vars : w # v => holder'[w] = holder[w]
  BY <1>1 DEF Leave
<1>5. TypeOK'
  BY <1>1, <1>2, <1>3, <1>4 DEF Inv, TypeOK
<1>6. Chain' /\ Aimed'
  BY <1>1, <1>2, <1>3, <1>5, NoFrameType, QuietStep DEF Running
<1>7. Owned'
  <2>1. ASSUME NEW w \in Vars, holder'[w] # Null
        PROVE  /\ frame'[holder'[w]].at # "free"
               /\ frame'[holder'[w]].proc \in Holds[w]
               /\ frame'[holder'[w]].at = "running" => frame'[holder'[w]].into = Next
    <3>1. w # v /\ holder'[w] = holder[w] /\ holder[w] \in Frames
      BY <2>1, <1>1, <1>4
    <3>2. holder[w] # holder[v]
      BY <3>1, <2>1 DEF Inv, Owned
    <3>3. frame'[holder'[w]] = frame[holder[w]]
      BY <3>1, <3>2, <1>3
    <3> QED
      BY <2>1, <3>1, <3>3 DEF Inv, Owned, Running
  <2>2. \A w, x \in Vars : holder'[w] # Null /\ holder'[w] = holder'[x] => w = x
    BY <1>4 DEF Inv, Owned
  <2>3. ASSUME NEW g \in Frames,
               \/ frame'[g].at \in {"suspended", "final"}
               \/ frame'[g].at = "running" /\ frame'[g].into = Next
        PROVE  \E w \in Vars : holder'[w] = g
    <3>1. g # holder[v] /\ frame'[g] = frame[g]
      BY <2>3, <1>3, NoFrameType
    <3>2. PICK w \in Vars : holder[w] = g
      BY <2>3, <3>1 DEF Inv, Owned, Running
    <3> QED
      BY <3>1, <3>2, <1>4
  <2>4. \A g \in Frames :
          frame'[g].at = "suspended" => Shape[frame'[g].proc] = "generator"
    BY <1>3, NoFrameType DEF Inv, Owned
  <2> QED
    BY <2>1, <2>2, <2>3, <2>4 DEF Owned, Running
<1>8. EveryYieldTold'
  <2> SUFFICES ASSUME NEW g \in Frames
               PROVE  frame'[g].told = frame'[g].yields
    BY DEF EveryYieldTold
  <2> QED
    BY <1>3, NoFrameType DEF Inv, EveryYieldTold
<1> QED
  BY <1>2, <1>5, <1>6, <1>7, <1>8 DEF Inv, OnlyEmptyBreaks

\* A variable of its own to read, and what is in it has finished.
LEMMA NeverWaiting ==
    ASSUME Inv, NEW v \in Vars, AwaitVar(v)
    PROVE  state' # "waiting"
<1> SUFFICES ASSUME holder[v] # Null PROVE frame[holder[v]].at = "final"
  BY DEF AwaitVar
<1> DEFINE g == holder[v]
<1>1. g \in Frames /\ frame[g] \in FrameRec /\ Shape[frame[g].proc] = "task"
  BY DEF AwaitVar, Inv, TypeOK
<1>2. frame[g].at # "free" /\ (Running(g) => frame[g].into = Next)
  BY DEF Inv, Owned
<1>3. ~Running(g)
  BY <1>1, <1>2 DEF Inv, Aimed
<1>4. frame[g].at # "suspended"
  BY <1>1 DEF Inv, Owned
<1> QED
  BY <1>1, <1>2, <1>3, <1>4 DEF FrameRec, Running

\* Steps that change no frame and no handle.
LEMMA StillStep ==
    ASSUME Inv, UNCHANGED <<frame, holder, top>>,
           state' \in {"going", "unwinding", "ended", "empty"}
           \/ state' = state
    PROVE  Inv'
<1>1. TypeOK' /\ OnlyEmptyBreaks'
  BY DEF Inv, TypeOK, OnlyEmptyBreaks
<1>2. Chain' /\ Aimed'
  BY DEF Inv, Chain, Aimed, Running
<1>3. Owned' /\ EveryYieldTold'
  BY DEF Inv, Owned, EveryYieldTold, Running
<1> QED
  BY <1>1, <1>2, <1>3 DEF Inv

LEMMA StepInv == Inv /\ [Step]_vars => Inv'
<1> SUFFICES ASSUME Inv, [Step]_vars PROVE Inv'
  OBVIOUS
<1>1. ASSUME NEW p \in Procs, NEW f \in Frames,
             NEW use \in Vars \cup {Drop, Await}, Call(p, f, use)
      PROVE  Inv'
  BY <1>1, CallStep
<1>2. ASSUME NEW v \in Vars, MoveNext(v) PROVE Inv'
  BY <1>2, MoveNextStep
<1>3. ASSUME NEW v \in Vars, AwaitVar(v) PROVE Inv'
  <2>1. state' \in {"going", "unwinding", "empty"}
    BY <1>3, NeverWaiting DEF AwaitVar
  <2> QED
    BY <1>3, <2>1, StillStep DEF AwaitVar
<1>4. ASSUME NEW v \in Vars, Read(v) PROVE Inv'
  <2>1. state' \in {"going", "unwinding", "empty"}
    BY <1>4 DEF Read
  <2> QED
    BY <1>4, <2>1, StillStep DEF Read
<1>5. ASSUME NEW v \in Vars, Leave(v) PROVE Inv'
  BY <1>5, LeaveStep
<1>6. CASE Yield
  BY <1>6, YieldStep
<1>7. CASE Return \/ Throw
  BY <1>7, EndStep
<1>8. CASE Terminate
  BY <1>8, StillStep DEF Terminate
<1>9. CASE UNCHANGED vars
  BY <1>9, StillStep DEF vars
<1> QED
  BY <1>1, <1>2, <1>3, <1>4, <1>5, <1>6, <1>7, <1>8, <1>9 DEF Step

LEMMA InvOwned == Inv => OwnedOnce
<1> SUFFICES ASSUME Inv, NEW f \in Frames
             PROVE  /\ frame[f].at = "free" => Held(f) = {}
                    /\ frame[f].at \in {"suspended", "final"}
                          => \E v \in Vars : Held(f) = {v}
                    /\ frame[f].at = "running" =>
                          IF frame[f].into = Next
                          THEN \E v \in Vars : Held(f) = {v}
                          ELSE Held(f) = {}
  BY DEF OwnedOnce
<1>1. f # Null
  OBVIOUS
<1>2. ASSUME NEW v \in Vars, holder[v] = f PROVE Held(f) = {v}
  BY <1>1, <1>2 DEF Held, Inv, Owned
<1>3. frame[f].at = "free" \/ (Running(f) /\ frame[f].into # Next)
        => Held(f) = {}
  BY <1>1 DEF Held, Inv, Owned
<1>4. frame[f].at \in {"suspended", "final"} \/ (Running(f) /\ frame[f].into = Next)
        => \E v \in Vars : Held(f) = {v}
  BY <1>2 DEF Inv, Owned
<1> QED
  BY <1>3, <1>4 DEF Running
-----------------------------------------------------------------------------
\* Every frame that is not running is in exactly one variable, and one that
\* runs in at most one: no frame is leaked or destroyed twice (destroy() in
\* coroutine.hpp), however coroutines call, resume and overwrite one another.
THEOREM FramesHaveOneOwner == Spec => []OwnedOnce
<1>1. Inv /\ [Step]_vars => Inv'
  BY StepInv
<1> QED
  BY <1>1, InitInv, InvOwned, PTL DEF Spec

\* MoveNext has returned true as often as its generator has yielded: no value
\* is lost between the first MoveNext and the end.
THEOREM YieldsAreTold == Spec => []EveryYieldTold
<1>1. Inv => EveryYieldTold
  BY DEF Inv
<1>2. Inv /\ [Step]_vars => Inv'
  BY StepInv
<1> QED
  BY <1>1, <1>2, InitInv, PTL DEF Spec

\* As long as no body gets at a variable its own coroutine may be in, no
\* running frame is resumed or destroyed and no AWAIT waits for ever.
THEOREM NothingRunningIsTouched == Spec => []OnlyEmptyBreaks
<1>1. Inv => OnlyEmptyBreaks
  BY DEF Inv
<1>2. Inv /\ [Step]_vars => Inv'
  BY StepInv
<1> QED
  BY <1>1, <1>2, InitInv, PTL DEF Spec
=============================================================================

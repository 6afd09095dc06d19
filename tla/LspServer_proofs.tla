-------------------------- MODULE LspServer_proofs --------------------------
(***************************************************************************)
(* The language server, for every set of files, every session of the       *)
(* editor and any number of messages on their way.                         *)
(***************************************************************************)
EXTENDS LspServer, SequenceTheorems, TLAPS

USE LspAssumption

Notices == {"watched", "ignored", "exit"}

\* What the editor may have sent.
Messages ==
    {r \in [m : {"didOpen", "didChange"}, d : Docs, text : Texts] :
         r.text \in world.texts[r.d]}
    \cup [m : {"didClose"}, d : Docs]
    \cup [m : Requests, d : Docs, id : Nat]
    \cup [m : Notices]

TypeOK ==
    /\ world \in Worlds
    /\ inbox \in Seq(Messages)
    /\ shown \in [Files -> Marks]
    /\ asked \in Nat
    /\ answers \in Seq(Nat)
    /\ documents \in [Docs -> Texts \cup {NoText}]
    /\ lastGood \in [Docs -> Texts \cup {NoText}]
    /\ lastUris \in [Docs -> SUBSET Files]
    /\ computed \in [Docs -> [Files -> Marks]]
    /\ parsed \in SUBSET Docs
    /\ stranded \in SUBSET Files

\* A compilation says nothing of the files it does not concern, and the
\* server remembers none of them.
ReportsConcern ==
    \A d \in Docs :
        /\ lastUris[d] \subseteq Concerns(d)
        /\ \A f \in Files : computed[d][f] # "none" => f \in Concerns(d)

\* What parsed once has an index to fall back to.
IndexKept == \A d \in parsed : lastGood[d] # NoText

Inv ==
    /\ TypeOK /\ ReportsConcern /\ IndexKept
    /\ MarkersCanBeCleared /\ EditorIsCurrent /\ AnswersInOrder
-----------------------------------------------------------------------------
(* Messages                                                                  *)

LEMMA DocsAreFiles ==
    ASSUME TypeOK
    PROVE  /\ Docs \subseteq Files
           /\ \A d \in Docs : world.texts[d] \subseteq Texts
           /\ world.asks \subseteq Requests
           /\ world.notes \subseteq Notices
BY DEF TypeOK, Docs, Requests, Notices

LEMMA HeadMessage ==
    ASSUME TypeOK, inbox # <<>>
    PROVE  /\ Message \in Messages
           /\ Tail(inbox) \in Seq(Messages)
           /\ Message.m \in {"didOpen", "didChange"} =>
                 /\ Message.d \in Docs
                 /\ Message.text \in world.texts[Message.d]
                 /\ Message.text \in Texts
           /\ Message.m = "didClose" => Message.d \in Docs
           /\ Message.m \in Requests => Message.d \in Docs /\ Message.id \in Nat
<1>1. Message \in Messages /\ Tail(inbox) \in Seq(Messages)
  BY HeadTailProperties DEF TypeOK, Message
<1> QED BY <1>1 DEF Messages, Requests, Notices

LEMMA WorldStays ==
    ASSUME [Next]_vars
    PROVE  world' = world /\ Docs' = Docs
<1>1. world' = world
  BY DEF Next, Serve, DidOpen, DidChange, DidClose, Inspect, Complete, Watched,
         AnswerOnly, Shutdown, Ignore, Exit, Read, Open, Edit, Close, Ask,
         Notify, Send, Save, vars
<1> QED BY <1>1 DEF Docs
-----------------------------------------------------------------------------
(* Reports                                                                   *)

LEMMA ReportType ==
    ASSUME TypeOK, NEW d \in Docs, NEW t \in world.texts[d], NEW ctx
    PROVE  /\ Report(d, t, ctx) \in [Files -> Marks]
           /\ \A f \in Files : Report(d, t, ctx)[f] # "none" => f \in Concerns(d)
<1>1. d \in Concerns(d)
  BY DEF Concerns
<1>2. \A errs : With(d, t, ctx, errs) \subseteq Concerns(d)
  BY DEF With, Found, Concerns
<1>3. \A f \in Files, errs \in SUBSET Errs :
          f \in With(d, t, ctx, errs) => TextOf(d, t, f).err \in Errs
  BY DEF With
<1>4. /\ LexErrs \in SUBSET Errs /\ {"syntax"} \in SUBSET Errs
      /\ {"type"} \in SUBSET Errs
  BY DEF Errs
<1>5. \A f \in Files :
          Report(d, t, ctx)[f] \in Marks
              /\ (Report(d, t, ctx)[f] # "none" => f \in Concerns(d))
  <2> TAKE f \in Files
  <2>1. CASE Found(t, ctx) # t.uses
    BY <1>1, <2>1 DEF Report, Marks, Errs
  <2>2. CASE Found(t, ctx) = t.uses
    <3>1. PICK errs \in {LexErrs, {"syntax"}, {"type"}} :
              Report(d, t, ctx)[f] = IF f \in With(d, t, ctx, errs)
                                     THEN TextOf(d, t, f).err ELSE "none"
      BY <2>2 DEF Report
    <3> QED BY <1>2, <1>3, <1>4, <3>1 DEF Marks, Errs
  <2> QED BY <2>1, <2>2
<1>6. Report(d, t, ctx) = [f \in Files |-> Report(d, t, ctx)[f]]
  BY DEF Report
<1> QED BY <1>5, <1>6

-----------------------------------------------------------------------------
(* Types                                                                     *)

LEMMA TypeInit == Init => TypeOK
<1> SUFFICES ASSUME Init PROVE TypeOK
  OBVIOUS
<1>1. Clean \in [Files -> Marks]
  BY DEF Clean, Marks, Errs
<1> QED BY <1>1 DEF Init, TypeOK

LEMMA MessagesStay ==
    ASSUME world' = world PROVE Messages' = Messages
BY DEF Messages, Docs

\* A message of the editor's is one of Messages.
LEMMA SendType ==
    ASSUME TypeOK, NEW m \in Messages, Send(m)
    PROVE  /\ inbox' \in Seq(Messages)'
           /\ inbox' = Append(inbox, m)
           /\ world' = world
           /\ UNCHANGED <<shown, answers, documents, lastGood, lastUris,
                          computed, parsed, stranded>>
BY MessagesStay DEF Send, TypeOK, server

LEMMA PublishType ==
    ASSUME TypeOK, NEW d \in Docs, NEW t \in world.texts[d], NEW ctx,
           Publish(d, t, ctx)
    PROVE  /\ shown' \in [Files -> Marks]
           /\ lastGood' \in [Docs -> Texts \cup {NoText}]
           /\ lastUris' \in [Docs -> SUBSET Files]
           /\ computed' \in [Docs -> [Files -> Marks]]
           /\ parsed' \in SUBSET Docs
           /\ stranded' \in SUBSET Files
<1>1. Report(d, t, ctx) \in [Files -> Marks] /\ t \in Texts
  BY ReportType, DocsAreFiles
<1> HIDE DEF Report
<1>2. computed' \in [Docs -> [Files -> Marks]]
  BY <1>1 DEF Publish, TypeOK
<1>3. lastGood' \in [Docs -> Texts \cup {NoText}] /\ parsed' \in SUBSET Docs
  BY <1>1 DEF Publish, TypeOK
<1>4. /\ shown' \in [Files -> Marks] /\ lastUris' \in [Docs -> SUBSET Files]
      /\ stranded' \in SUBSET Files
  <2>1. CASE Garbled(Report(d, t, ctx)) = {}
    <3>1. shown' = [f \in Files |-> IF f \in Covered(d, Report(d, t, ctx))
                                   THEN Report(d, t, ctx)[f] ELSE shown[f]]
      BY <2>1 DEF Publish, GoThrough
    <3>2. shown' \in [Files -> Marks]
      BY <1>1, <3>1 DEF TypeOK
    <3>3. lastUris' = [lastUris EXCEPT
                           ![d] = {f \in Files : Report(d, t, ctx)[f] # "none"}]
      BY <2>1 DEF Publish, GoThrough, Keep
    <3>4. stranded' \in SUBSET Files
      BY <2>1 DEF Publish, GoThrough, TypeOK
    <3> QED BY <3>2, <3>3, <3>4 DEF TypeOK
  <2>2. CASE Garbled(Report(d, t, ctx)) # {}
    <3>1. PICK sent \in SUBSET Files :
              /\ shown' = [f \in Files |-> IF f \in sent
                                           THEN Report(d, t, ctx)[f]
                                           ELSE shown[f]]
              /\ stranded' = stranded \cup
                                {f \in sent : Report(d, t, ctx)[f] # "none"}
      <4>1. Covered(d, Report(d, t, ctx)) \subseteq Files
        BY DocsAreFiles DEF Covered, TypeOK
      <4> QED BY <2>2, <4>1 DEF Publish, BreakOff
    <3>2. lastUris' = lastUris
      BY <2>2 DEF Publish, BreakOff
    <3> QED BY <1>1, <3>1, <3>2 DEF TypeOK
  <2> QED BY <2>1, <2>2
<1> QED BY <1>2, <1>3, <1>4

\* The handlers that publish are one: the text comes with the message.
LEMMA Publishes ==
    ASSUME TypeOK, DidOpen \/ DidChange
    PROVE  \E d \in Docs, t \in Texts : \E ctx :
               /\ t \in world.texts[d] /\ Publish(d, t, ctx)
               /\ documents' = [documents EXCEPT ![d] = t]
               /\ inbox # <<>> /\ Message.m \notin Requests
               /\ inbox' = Tail(inbox) /\ UNCHANGED <<world, asked, answers>>
<1>1. /\ inbox # <<>> /\ Message.m \in {"didOpen", "didChange"}
      /\ Publish(Message.d, Message.text, ContextOf(Message.d))
      /\ documents' = [documents EXCEPT ![Message.d] = Message.text]
      /\ inbox' = Tail(inbox) /\ UNCHANGED <<world, asked, answers>>
  BY DEF DidOpen, DidChange, Got, Read
<1>2. /\ Message.d \in Docs /\ Message.text \in world.texts[Message.d]
      /\ Message.text \in Texts
  BY <1>1, HeadMessage
<1>3. Message.m \notin Requests
  BY <1>1 DEF Requests
<1> QED BY <1>1, <1>2, <1>3, Zenon

LEMMA TypeNext ==
    ASSUME TypeOK, [Next]_vars
    PROVE  TypeOK'
<1>0. world' = world /\ Docs' = Docs /\ Messages' = Messages
  BY WorldStays, MessagesStay
<1>1. CASE DidOpen \/ DidChange
  <2>1. PICK d \in Docs, t \in Texts : \E ctx :
               /\ t \in world.texts[d] /\ Publish(d, t, ctx)
               /\ documents' = [documents EXCEPT ![d] = t]
               /\ inbox # <<>>
               /\ inbox' = Tail(inbox) /\ UNCHANGED <<world, asked, answers>>
    BY <1>1, Publishes, Zenon
  <2>3. inbox' \in Seq(Messages)
    BY <2>1, HeadMessage
  <2> QED BY <1>0, <2>1, <2>3, PublishType DEF TypeOK
<1>2. CASE DidClose \/ Watched \/ Ignore \/ Exit
  <2>1. inbox' \in Seq(Messages)
    BY <1>2, HeadMessage DEF DidClose, Watched, Ignore, Exit, Got, Read
  <2>2. documents' \in [Docs -> Texts \cup {NoText}]
    BY <1>2 DEF DidClose, Watched, Ignore, Exit, TypeOK, server
  <2> QED BY <1>0, <1>2, <2>1, <2>2
          DEF DidClose, Watched, Ignore, Exit, Read, TypeOK, server
<1>3. CASE Inspect \/ Complete \/ AnswerOnly \/ Shutdown
  <2>1. inbox # <<>> /\ Message.m \in Requests /\ Read /\ Reply
    BY <1>3 DEF Inspect, Complete, AnswerOnly, Shutdown, Got, Requests
  <2>2. inbox' \in Seq(Messages)
    BY <2>1, HeadMessage DEF Read
  <2>3. answers' \in Seq(Nat)
    BY <2>1, HeadMessage, AppendProperties DEF Reply, TypeOK
  <2> QED BY <1>0, <1>3, <2>1, <2>2, <2>3
          DEF Inspect, Complete, AnswerOnly, Shutdown, Read, TypeOK
<1>4. ASSUME NEW d \in Docs,
             Close(d) \/ \E t \in world.texts[d] : Open(d, t) \/ Edit(d, t)
      PROVE  TypeOK'
  <2>1. [m |-> "didClose", d |-> d] \in Messages
    BY DEF Messages
  <2>2. ASSUME NEW t \in world.texts[d]
        PROVE  /\ [m |-> "didOpen", d |-> d, text |-> t] \in Messages
               /\ [m |-> "didChange", d |-> d, text |-> t] \in Messages
    BY DocsAreFiles DEF Messages
  <2>3. PICK m \in Messages : Send(m)
    BY <1>4, <2>1, <2>2 DEF Open, Edit, Close
  <2>4. asked' = asked
    BY <1>4 DEF Open, Edit, Close
  <2> QED BY <1>0, <2>3, <2>4, SendType DEF TypeOK
<1>5. ASSUME NEW d \in Docs, NEW what \in world.asks, Ask(what, d)
      PROVE  TypeOK'
  <2>1. asked + 1 \in Nat /\ what \in Requests
    BY DocsAreFiles DEF TypeOK
  <2>2. [m |-> what, d |-> d, id |-> asked + 1] \in Messages
    BY <2>1 DEF Messages
  <2> QED BY <1>0, <1>5, <2>1, <2>2, SendType DEF TypeOK, Ask
<1>6. ASSUME NEW what \in world.notes, Notify(what)
      PROVE  TypeOK'
  <2>1. [m |-> what] \in Messages
    BY DocsAreFiles DEF Messages
  <2>2. PICK r \in Messages : Send(r)
    BY <1>6, <2>1 DEF Notify
  <2>3. asked' = asked
    BY <1>6 DEF Notify
  <2> QED BY <1>0, <2>2, <2>3, SendType DEF TypeOK
<1>7. ASSUME NEW f \in Files, NEW t \in world.saved[f], Save(f, t)
      PROVE  TypeOK'
  BY <1>0, <1>7 DEF TypeOK, Save, server
<1>8. CASE UNCHANGED vars
  BY <1>0, <1>8 DEF TypeOK, vars
<1> QED BY <1>1, <1>2, <1>3, <1>4, <1>5, <1>6, <1>7, <1>8 DEF Next, Serve

-----------------------------------------------------------------------------
(* Markers                                                                   *)

\* A report that can be sent replaces all there was of the document's last
\* one; one that cannot leaves what it does not replace as it was.
LEMMA PublishShows ==
    ASSUME TypeOK, NEW d \in Docs, NEW t \in world.texts[d], NEW ctx,
           Publish(d, t, ctx)
    PROVE  \E report \in [Files -> Marks] :
              /\ computed' = [computed EXCEPT ![d] = report]
              /\ \A f \in Files : report[f] # "none" => f \in Concerns(d)
              /\ \/ /\ Garbled(report) = {}
                    /\ lastUris' = [lastUris EXCEPT
                                      ![d] = {f \in Files : report[f] # "none"}]
                    /\ \A f \in Files :
                          IF f = d \/ report[f] # "none" \/ f \in lastUris[d]
                          THEN shown'[f] = report[f] /\ f \notin stranded'
                          ELSE /\ shown'[f] = shown[f]
                               /\ f \in stranded' <=> f \in stranded
                 \/ /\ Garbled(report) # {}
                    /\ lastUris' = lastUris
                    /\ \A f \in Files :
                          /\ f \in stranded => f \in stranded'
                          /\ shown'[f] \in {shown[f], "none"} \/ f \in stranded'
                          /\ f # d /\ report[f] = "none" /\ f \notin lastUris[d]
                                => /\ shown'[f] = shown[f]
                                   /\ f \in stranded' <=> f \in stranded
<1> DEFINE report == Report(d, t, ctx)
<1>1. /\ report \in [Files -> Marks]
      /\ \A f \in Files : report[f] # "none" => f \in Concerns(d)
  BY ReportType
<1>2. computed' = [computed EXCEPT ![d] = report]
  BY DEF Publish
<1>3. Garbled(report) = {} => GoThrough(d, report)
  BY DEF Publish
<1>4. Garbled(report) # {} => BreakOff(d, report)
  BY DEF Publish
<1> HIDE DEF report
<1>5. \A f \in Files :
          f \in Covered(d, report) <=>
              f = d \/ report[f] # "none" \/ f \in lastUris[d]
  BY DEF Covered
<1>6. CASE Garbled(report) = {}
  <2>1. /\ shown' = [f \in Files |-> IF f \in Covered(d, report)
                                     THEN report[f] ELSE shown[f]]
        /\ stranded' = stranded \ Covered(d, report)
        /\ lastUris' = [lastUris EXCEPT
                           ![d] = {f \in Files : report[f] # "none"}]
    BY <1>3, <1>6 DEF GoThrough, Keep
  <2> QED BY <1>1, <1>2, <1>5, <1>6, <2>1
<1>7. CASE Garbled(report) # {}
  <2>1. PICK sent \in SUBSET (Covered(d, report) \ Garbled(report)) :
            /\ shown' = [f \in Files |-> IF f \in sent THEN report[f]
                                         ELSE shown[f]]
            /\ stranded' = stranded \cup {f \in sent : report[f] # "none"}
    BY <1>4, <1>7 DEF BreakOff
  <2>2. lastUris' = lastUris
    BY <1>4, <1>7 DEF BreakOff
  <2>3. \A f \in Files :
            /\ f \in stranded => f \in stranded'
            /\ shown'[f] \in {shown[f], "none"} \/ f \in stranded'
    BY <2>1
  <2>4. \A f \in Files :
            f # d /\ report[f] = "none" /\ f \notin lastUris[d]
                => shown'[f] = shown[f] /\ (f \in stranded' <=> f \in stranded)
    BY <1>5, <2>1
  <2> QED BY <1>1, <1>2, <1>7, <2>2, <2>3, <2>4
<1> QED BY <1>6, <1>7

\* Everything else leaves the markers as they are.
LEMMA NothingPublished ==
    ASSUME TypeOK, [Next]_vars, ~DidOpen, ~DidChange
    PROVE  UNCHANGED <<shown, computed, lastUris, lastGood, parsed, stranded>>
BY DEF Next, Serve, DidClose, Inspect, Complete, Watched,
       AnswerOnly, Shutdown, Ignore, Exit, Read, Open, Edit, Close, Ask,
       Notify, Send, Save, vars, server

LEMMA ConcernsStay ==
    ASSUME world' = world
    PROVE  \A d \in Docs : Concerns(d)' = Concerns(d)
BY DEF Concerns, Docs

LEMMA MarkersNext ==
    ASSUME TypeOK, TypeOK', ReportsConcern, MarkersCanBeCleared,
           EditorIsCurrent, [Next]_vars
    PROVE  ReportsConcern' /\ MarkersCanBeCleared' /\ EditorIsCurrent'
<1>0. /\ world' = world /\ Docs' = Docs
      /\ \A d \in Docs : Concerns(d)' = Concerns(d)
  BY WorldStays, ConcernsStay
<1>1. CASE DidOpen \/ DidChange
  <2>1. PICK d \in Docs, t \in Texts : \E ctx :
            t \in world.texts[d] /\ Publish(d, t, ctx)
    BY <1>1, Publishes, Zenon
  <2>2. PICK report \in [Files -> Marks] :
              /\ computed' = [computed EXCEPT ![d] = report]
              /\ \A f \in Files : report[f] # "none" => f \in Concerns(d)
              /\ \/ /\ Garbled(report) = {}
                    /\ lastUris' = [lastUris EXCEPT
                                      ![d] = {f \in Files : report[f] # "none"}]
                    /\ \A f \in Files :
                          IF f = d \/ report[f] # "none" \/ f \in lastUris[d]
                          THEN shown'[f] = report[f] /\ f \notin stranded'
                          ELSE /\ shown'[f] = shown[f]
                               /\ f \in stranded' <=> f \in stranded
                 \/ /\ Garbled(report) # {}
                    /\ lastUris' = lastUris
                    /\ \A f \in Files :
                          /\ f \in stranded => f \in stranded'
                          /\ shown'[f] \in {shown[f], "none"} \/ f \in stranded'
                          /\ f # d /\ report[f] = "none" /\ f \notin lastUris[d]
                                => /\ shown'[f] = shown[f]
                                   /\ f \in stranded' <=> f \in stranded
    BY <2>1, PublishShows
  <2>3. ReportsConcern'
    BY <1>0, <2>2 DEF TypeOK, ReportsConcern
  <2>4. ASSUME NEW f \in Files, shown'[f] # "none", f \notin stranded'
        PROVE  \E e \in Docs : f \in lastUris'[e]
    <3>1. CASE Garbled(report) # {}
      BY <2>2, <2>4, <3>1 DEF MarkersCanBeCleared
    <3>2. CASE Garbled(report) = {} /\ report[f] # "none"
      BY <2>2, <3>2 DEF TypeOK
    <3>3. CASE Garbled(report) = {} /\ report[f] = "none"
      <4>1. f \notin lastUris[d] /\ shown[f] # "none" /\ f \notin stranded
        BY <2>2, <2>4, <3>3
      <4>2. PICK e \in Docs : f \in lastUris[e]
        BY <4>1 DEF MarkersCanBeCleared
      <4> QED BY <2>2, <3>3, <4>1, <4>2 DEF TypeOK
    <3> QED BY <3>1, <3>2, <3>3
  <2>5. ASSUME NEW e \in Docs, NEW f \in OnlyOf(e), f \notin stranded',
               Garbled(computed'[e]) = {}
        PROVE  shown'[f] = computed'[e][f]
    <3>1. f \in Files /\ \A o \in Docs \ {e} : f \notin Concerns(o)
      BY DocsAreFiles DEF OnlyOf, Concerns, Texts
    <3>2. CASE e = d
      <4>1. computed'[e] = report /\ Garbled(report) = {}
        BY <2>2, <2>5, <3>2 DEF TypeOK
      <4>2. shown[f] # "none" => f \in stranded \/ f \in lastUris[d]
        BY <3>1, <3>2 DEF MarkersCanBeCleared, ReportsConcern
      <4> QED BY <2>2, <2>5, <3>1, <4>1, <4>2
    <3>3. CASE e # d
      <4>1. /\ f \notin Concerns(d) /\ report[f] = "none"
            /\ f \notin lastUris[d] /\ f # d
        BY <2>2, <3>1, <3>3 DEF ReportsConcern, Concerns
      <4>2. computed'[e] = computed[e]
        BY <2>2, <3>3 DEF TypeOK
      <4>3. Garbled(computed[e]) = {}
        BY <2>5, <4>2
      <4>4. shown'[f] = shown[f] /\ f \notin stranded
        BY <2>2, <2>5, <3>1, <4>1
      <4>5. shown[f] = computed[e][f]
        BY <2>5, <4>3, <4>4 DEF EditorIsCurrent
      <4> QED BY <4>2, <4>4, <4>5
    <3> QED BY <3>2, <3>3
  <2>6. EditorIsCurrent'
    BY <1>0, <2>5 DEF EditorIsCurrent, OnlyOf, Garbled
  <2> QED BY <1>0, <2>3, <2>4, <2>6 DEF MarkersCanBeCleared
<1>2. CASE ~DidOpen /\ ~DidChange
  <2>1. UNCHANGED <<shown, computed, lastUris, stranded>>
    BY <1>2, NothingPublished
  <2> QED BY <1>0, <2>1
          DEF ReportsConcern, MarkersCanBeCleared, EditorIsCurrent, OnlyOf,
              Garbled
<1> QED BY <1>1, <1>2

-----------------------------------------------------------------------------
(* Answers                                                                   *)

\* A message that is no request arrives.
LEMMA OtherSent ==
    ASSUME TypeOK, AnswersInOrder, NEW m \in Messages, m.m \notin Requests,
           Send(m), asked' = asked
    PROVE  AnswersInOrder'
<1>1. /\ inbox' = Append(inbox, m) /\ answers' = answers
      /\ inbox \in Seq(Messages)
  BY SendType DEF TypeOK
<1>2. /\ DOMAIN inbox' = DOMAIN inbox \cup {Len(inbox) + 1}
      /\ inbox'[Len(inbox) + 1] = m
      /\ \A i \in DOMAIN inbox : inbox'[i] = inbox[i]
  BY <1>1, AppendProperties
<1>3. Unanswered' = Unanswered
  BY <1>2 DEF Unanswered
<1>4. \A i \in Unanswered : inbox'[i].id = inbox[i].id
  BY <1>2 DEF Unanswered
<1>5. {inbox'[i].id : i \in Unanswered'} = {inbox[i].id : i \in Unanswered}
  BY <1>3, <1>4
<1> QED BY <1>1, <1>3, <1>4, <1>5 DEF AnswersInOrder

\* The next request arrives.
LEMMA RequestSent ==
    ASSUME TypeOK, AnswersInOrder, NEW d \in Docs, NEW what \in Requests,
           Ask(what, d)
    PROVE  AnswersInOrder'
<1> DEFINE m == [m |-> what, d |-> d, id |-> asked + 1]
           n == Len(inbox) + 1
<1>1. /\ asked \in Nat /\ asked' = asked + 1 /\ m \in Messages /\ Send(m)
      /\ m.m \in Requests /\ m.id = asked + 1
  BY DEF Ask, TypeOK, Messages
<1> HIDE DEF m
<1>2. /\ inbox' = Append(inbox, m) /\ answers' = answers
      /\ inbox \in Seq(Messages)
  BY <1>1, SendType DEF TypeOK
<1>3. /\ DOMAIN inbox' = DOMAIN inbox \cup {n}
      /\ DOMAIN inbox = 1..Len(inbox) /\ Len(inbox) \in Nat
      /\ inbox'[n] = m
      /\ \A i \in DOMAIN inbox : inbox'[i] = inbox[i]
  BY <1>2, AppendProperties
<1>4. Unanswered' = Unanswered \cup {n}
  BY <1>1, <1>3 DEF Unanswered
<1>5. \A i \in Unanswered : inbox'[i].id = inbox[i].id
  BY <1>3 DEF Unanswered
<1>6. {inbox'[i].id : i \in Unanswered'}
          = {inbox[i].id : i \in Unanswered} \cup {asked + 1}
  BY <1>1, <1>3, <1>4, <1>5
<1>7. Len(answers) \in Nat
  BY LenProperties DEF TypeOK
<1>8. {inbox'[i].id : i \in Unanswered'} = (Len(answers) + 1)..(asked + 1)
  <2>1. (Len(answers) + 1)..asked \cup {asked + 1}
            = (Len(answers) + 1)..(asked + 1)
    BY <1>1, <1>7 DEF AnswersInOrder
  <2> QED BY <1>6, <2>1 DEF AnswersInOrder
<1>9. ASSUME NEW i \in Unanswered', NEW j \in Unanswered', i < j
      PROVE  inbox'[i].id < inbox'[j].id
  <2>1. i \in Unanswered /\ i # n
    BY <1>3, <1>4, <1>9 DEF Unanswered
  <2>2. CASE j \in Unanswered
    BY <1>5, <1>9, <2>1, <2>2 DEF AnswersInOrder
  <2>3. CASE j = n
    <3>1. inbox[i].id \in (Len(answers) + 1)..asked
      BY <2>1 DEF AnswersInOrder
    <3> QED BY <1>1, <1>3, <1>5, <1>7, <2>1, <2>3, <3>1
  <2> QED BY <1>4, <2>2, <2>3
<1>10. Len(answers) <= asked + 1
  BY <1>1, <1>7 DEF AnswersInOrder
<1> QED BY <1>1, <1>2, <1>8, <1>9, <1>10 DEF AnswersInOrder

\* What is read is at the head, and everything behind it moves up.
LEMMA ReadHead ==
    ASSUME TypeOK, inbox # <<>>, inbox' = Tail(inbox)
    PROVE  /\ 1 \in Unanswered <=> Message.m \in Requests
           /\ Message = inbox[1]
           /\ \A i \in Unanswered : i \in Nat \ {0}
           /\ \A i \in Unanswered' :
                 i \in Nat \ {0} /\ i + 1 \in Unanswered
                                 /\ inbox'[i] = inbox[i + 1]
           /\ {inbox'[i].id : i \in Unanswered'}
                 = {inbox[i].id : i \in Unanswered \ {1}}
<1>1. inbox \in Seq(Messages)
  BY DEF TypeOK
<1>2. /\ DOMAIN inbox = 1..Len(inbox) /\ Len(inbox) \in Nat \ {0}
      /\ Message = inbox[1]
      /\ DOMAIN inbox' = 1..(Len(inbox) - 1)
      /\ \A i \in 1..(Len(inbox) - 1) : inbox'[i] = inbox[i + 1]
  BY <1>1, HeadTailProperties DEF Message
<1>3. ASSUME NEW i \in Unanswered'
      PROVE  i \in Nat \ {0} /\ i + 1 \in Unanswered
                             /\ inbox'[i] = inbox[i + 1]
  <2>1. i \in 1..(Len(inbox) - 1)
    BY <1>2 DEF Unanswered
  <2> QED BY <1>2, <2>1 DEF Unanswered
<1>4. ASSUME NEW i \in Unanswered \ {1}
      PROVE  \E j \in Unanswered' : inbox'[j] = inbox[i]
  <2>1. i \in 1..Len(inbox) /\ i # 1
    BY <1>2 DEF Unanswered
  <2>2. i - 1 \in 1..(Len(inbox) - 1) /\ (i - 1) + 1 = i
    BY <1>2, <2>1
  <2>3. inbox'[i - 1] = inbox[i]
    BY <1>2, <2>2
  <2>4. i - 1 \in Unanswered'
    BY <1>2, <2>2, <2>3 DEF Unanswered
  <2> QED BY <2>3, <2>4
<1>5. \A i \in Unanswered' : \E j \in Unanswered \ {1} : inbox'[i] = inbox[j]
  <2> SUFFICES ASSUME NEW i \in Unanswered'
               PROVE  \E j \in Unanswered \ {1} : inbox'[i] = inbox[j]
    OBVIOUS
  <2>1. i + 1 \in Unanswered \ {1}
    BY <1>3
  <2> QED BY <1>3, <2>1
<1>6. {inbox'[i].id : i \in Unanswered'}
          = {inbox[i].id : i \in Unanswered \ {1}}
  <2>1. ASSUME NEW i \in Unanswered'
        PROVE  inbox'[i].id \in {inbox[j].id : j \in Unanswered \ {1}}
    BY <1>5
  <2>2. ASSUME NEW j \in Unanswered \ {1}
        PROVE  inbox[j].id \in {inbox'[i].id : i \in Unanswered'}
    BY <1>4
  <2> QED BY <2>1, <2>2
<1>7. /\ 1 \in Unanswered <=> Message.m \in Requests
      /\ \A i \in Unanswered : i \in Nat \ {0}
  BY <1>2 DEF Unanswered
<1> QED BY <1>2, <1>3, <1>6, <1>7

LEMMA OrderKept ==
    ASSUME TypeOK, AnswersInOrder, inbox # <<>>, inbox' = Tail(inbox)
    PROVE  \A i, j \in Unanswered' : i < j => inbox'[i].id < inbox'[j].id
<1> SUFFICES ASSUME NEW i \in Unanswered', NEW j \in Unanswered', i < j
             PROVE  inbox'[i].id < inbox'[j].id
  OBVIOUS
<1>1. /\ i \in Nat /\ i + 1 \in Unanswered /\ inbox'[i] = inbox[i + 1]
      /\ j \in Nat /\ j + 1 \in Unanswered /\ inbox'[j] = inbox[j + 1]
  BY ReadHead
<1>2. i + 1 < j + 1
  BY <1>1
<1>3. inbox[i + 1].id < inbox[j + 1].id
  BY <1>1, <1>2 DEF AnswersInOrder
<1> QED BY <1>1, <1>3

LEMMA OtherRead ==
    ASSUME TypeOK, AnswersInOrder, inbox # <<>>, inbox' = Tail(inbox),
           Message.m \notin Requests, UNCHANGED <<asked, answers>>
    PROVE  AnswersInOrder'
<1>1. Unanswered \ {1} = Unanswered
  BY ReadHead
<1>2. {inbox'[i].id : i \in Unanswered'} = {inbox[i].id : i \in Unanswered}
  BY <1>1, ReadHead
<1> QED BY <1>2, OrderKept DEF AnswersInOrder

LEMMA RequestRead ==
    ASSUME TypeOK, AnswersInOrder, inbox # <<>>, inbox' = Tail(inbox),
           Message.m \in Requests, Reply, asked' = asked
    PROVE  AnswersInOrder'
<1> DEFINE n == Len(answers)
<1>1. 1 \in Unanswered /\ \A i \in Unanswered : i \in Nat \ {0}
  BY ReadHead
<1>2. n \in Nat /\ asked \in Nat
  BY LenProperties DEF TypeOK
<1>3. \A i \in Unanswered : inbox[i].id \in (n + 1)..asked
  BY DEF AnswersInOrder
<1>4. inbox[1].id = n + 1
  <2>1. n + 1 \in (n + 1)..asked
    BY <1>1, <1>2, <1>3
  <2>2. PICK i \in Unanswered : inbox[i].id = n + 1
    BY <2>1 DEF AnswersInOrder
  <2>3. i = 1 \/ inbox[1].id < n + 1
    BY <1>1, <2>2 DEF AnswersInOrder
  <2> QED BY <1>1, <1>2, <1>3, <2>2, <2>3
<1>5. {inbox'[i].id : i \in Unanswered'} = (n + 2)..asked
  <2>1. ASSUME NEW i \in Unanswered \ {1}
        PROVE  inbox[i].id \in (n + 2)..asked
    <3>1. 1 < i
      BY <1>1
    <3>2. inbox[1].id < inbox[i].id
      BY <1>1, <3>1 DEF AnswersInOrder
    <3> QED BY <1>2, <1>3, <1>4, <3>2
  <2>2. ASSUME NEW k \in (n + 2)..asked
        PROVE  k \in {inbox[i].id : i \in Unanswered \ {1}}
    <3>1. k \in (n + 1)..asked /\ k # n + 1
      BY <1>2
    <3>2. PICK i \in Unanswered : inbox[i].id = k
      BY <3>1 DEF AnswersInOrder
    <3> QED BY <1>4, <3>1, <3>2
  <2>3. {inbox[i].id : i \in Unanswered \ {1}} = (n + 2)..asked
    BY <2>1, <2>2
  <2> QED BY <2>3, ReadHead
<1>6. /\ answers' = Append(answers, n + 1) /\ answers \in Seq(Nat)
      /\ n + 1 <= asked
  BY <1>1, <1>2, <1>3, <1>4, ReadHead DEF Reply, TypeOK
<1>7. Len(answers') = n + 1 /\ answers' = [k \in 1..(n + 1) |-> k]
  BY <1>2, <1>6, AppendProperties DEF AnswersInOrder
<1>8. (n + 1) + 1 = n + 2
  BY <1>2
<1>9. \A i, j \in Unanswered' : i < j => inbox'[i].id < inbox'[j].id
  BY OrderKept
<1> HIDE DEF n
<1> QED BY <1>5, <1>6, <1>7, <1>8, <1>9 DEF AnswersInOrder

LEMMA AnswersNext ==
    ASSUME TypeOK, AnswersInOrder, [Next]_vars
    PROVE  AnswersInOrder'
<1>1. CASE DidOpen \/ DidChange
  BY <1>1, Publishes, OtherRead
<1>2. CASE DidClose \/ Watched \/ Ignore \/ Exit
  BY <1>2, OtherRead
     DEF DidClose, Watched, Ignore, Exit, Got, Read, server, Requests
<1>3. CASE Inspect \/ Complete \/ AnswerOnly \/ Shutdown
  BY <1>3, RequestRead
     DEF Inspect, Complete, AnswerOnly, Shutdown, Got, Read, Requests
<1>4. ASSUME NEW d \in Docs,
             Close(d) \/ \E t \in world.texts[d] : Open(d, t) \/ Edit(d, t)
      PROVE  AnswersInOrder'
  <2>1. PICK m \in Messages : Send(m) /\ m.m \notin Requests
    <3>1. LET m == [m |-> "didClose", d |-> d]
          IN  m \in Messages /\ m.m \notin Requests
      BY DEF Messages, Requests
    <3>2. \A t \in world.texts[d], what \in {"didOpen", "didChange"} :
              LET m == [m |-> what, d |-> d, text |-> t]
              IN  m \in Messages /\ m.m \notin Requests
      BY DocsAreFiles DEF Messages, Requests
    <3> QED BY <1>4, <3>1, <3>2 DEF Open, Edit, Close
  <2> QED BY <1>4, <2>1, OtherSent DEF Open, Edit, Close
<1>5. ASSUME NEW d \in Docs, NEW what \in world.asks, Ask(what, d)
      PROVE  AnswersInOrder'
  BY <1>5, RequestSent, DocsAreFiles
<1>6. ASSUME NEW what \in world.notes, Notify(what)
      PROVE  AnswersInOrder'
  <2>1. LET m == [m |-> what] IN m \in Messages /\ m.m \notin Requests
    BY DocsAreFiles DEF Messages, Requests, Notices
  <2>2. PICK m \in Messages : Send(m) /\ m.m \notin Requests
    BY <1>6, <2>1 DEF Notify
  <2> QED BY <1>6, <2>2, OtherSent DEF Notify
<1>7. ASSUME NEW f \in Files, NEW t \in world.saved[f], Save(f, t)
      PROVE  AnswersInOrder'
  BY <1>7 DEF AnswersInOrder, Unanswered, Save, server
<1>8. CASE UNCHANGED vars
  BY <1>8 DEF AnswersInOrder, Unanswered, vars
<1> QED BY <1>1, <1>2, <1>3, <1>4, <1>5, <1>6, <1>7, <1>8 DEF Next, Serve

-----------------------------------------------------------------------------
(* The theorems                                                              *)

LEMMA IndexNext ==
    ASSUME TypeOK, IndexKept, [Next]_vars
    PROVE  IndexKept'
<1>1. CASE DidOpen \/ DidChange
  <2>1. PICK d \in Docs, t \in Texts : \E ctx :
            t \in world.texts[d] /\ Publish(d, t, ctx)
    BY <1>1, Publishes, Zenon
  <2>2. \/ lastGood' = [lastGood EXCEPT ![d] = t] /\ parsed' = parsed \cup {d}
        \/ lastGood' = lastGood /\ parsed' = parsed
    BY <2>1 DEF Publish
  <2> QED BY <2>2 DEF IndexKept, TypeOK
<1>2. CASE ~DidOpen /\ ~DidChange
  BY <1>2, NothingPublished DEF IndexKept
<1> QED BY <1>1, <1>2

LEMMA InvInit == Init => Inv
<1> SUFFICES ASSUME Init PROVE Inv
  OBVIOUS
<1>1. TypeOK
  BY TypeInit
<1>2. /\ \A f \in Files : Clean[f] = "none"
      /\ \A d \in Docs : Concerns(d) \subseteq Files
  BY <1>1, DocsAreFiles DEF Clean, Concerns, Texts
<1>3. ReportsConcern /\ IndexKept /\ MarkersCanBeCleared /\ EditorIsCurrent
  BY <1>2 DEF Init, ReportsConcern, IndexKept, MarkersCanBeCleared,
              EditorIsCurrent, OnlyOf
<1>4. AnswersInOrder
  BY DEF Init, AnswersInOrder, Unanswered
<1> QED BY <1>1, <1>3, <1>4 DEF Inv

LEMMA InvNext == Inv /\ [Next]_vars => Inv'
BY TypeNext, MarkersNext, IndexNext, AnswersNext DEF Inv

THEOREM Invariance == Spec => []Inv
BY InvInit, InvNext, PTL DEF Spec

\* Whatever the editor sends and however messages queue up, each request gets
\* one answer, and the answers come in the order of the requests.
THEOREM AnswersInOrderSafe == Spec => []AnswersInOrder
<1>1. Inv => AnswersInOrder
  BY DEF Inv
<1> QED BY <1>1, Invariance, PTL

\* For any number of documents and files: what the editor shows of a file only
\* one document is about is what the compiler said last, whatever was opened,
\* closed, saved, built or re-resolved in between - save for reports that
\* cannot be sent, and the markers they have stranded.
THEOREM EditorIsCurrentSafe == Spec => []EditorIsCurrent
<1>1. Inv => EditorIsCurrent
  BY DEF Inv
<1> QED BY <1>1, Invariance, PTL

\* And every marker, of however many documents, is one the server knows of,
\* or one that a publication left behind that broke off.
THEOREM MarkersCanBeClearedSafe == Spec => []MarkersCanBeCleared
<1>1. Inv => MarkersCanBeCleared
  BY DEF Inv
<1> QED BY <1>1, Invariance, PTL

\* Completion in a document that has parsed once never goes blank.
THEOREM CompletionOffersSafe == Spec => CompletionOffers
<1>1. ASSUME Inv, NEW d \in Docs, Got("complete"), Message.d = d,
             documents[d] # NoText, d \in parsed, Complete
      PROVE  offer' # NoText
  BY <1>1 DEF Inv, IndexKept, Complete, Offer
<1>2. Inv /\ [Next]_vars =>
          [ \A d \in Docs :
              Got("complete") /\ Message.d = d /\ documents[d] # NoText
                /\ d \in parsed /\ Complete => offer' # NoText ]_vars
  BY <1>1
<1> QED BY <1>2, Invariance, PTL DEF Spec, CompletionOffers
=============================================================================

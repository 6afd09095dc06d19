----------------------------- MODULE LspServer -----------------------------
(***************************************************************************)
(* The language server, lsp/src/server.cpp: a single-threaded loop that    *)
(* takes one message of the editor at a time, runs the compiler over the   *)
(* document it is about - the text from the editor, what it includes from  *)
(* the disk - and publishes the diagnostics of every file concerned.       *)
(*                                                                         *)
(* The editor keeps typing while messages are on their way, files change   *)
(* on the disk, and `ebpm build` makes the interfaces of dependencies.     *)
(* A text is what the compiler will say of it: `err`, and the files it     *)
(* includes (included files include nothing: a bound).                     *)
(***************************************************************************)
EXTENDS Naturals, Sequences, FiniteSets

CONSTANTS
    Files,          \* documents, included files and interfaces, by uri
    Ifaces,         \* those that are interfaces of the package's dependencies
    NoText,         \* no such file, or not open
    NoContext,      \* nothing cached for the package
    Worlds,         \* the situations to look at:
                    \*   texts   [documents -> what may be typed into them]
                    \*   saved   [Files -> what they may be on the disk]
                    \*   rooted  the documents inside the package
                    \*   offline whether resolving the package may fail
                    \*   asks    the requests the editor makes
                    \*   notes   the other notifications it sends
    MaxInbox,       \* bound: messages on their way to the server
    MaxAsked        \* bound: requests

\* What the compiler has against a file, at the first of its stages that has
\* anything: nothing; the lexer, among others an unexpected character outside
\* ASCII ("char"), or no such character but a string without an end or an
\* unexpected character of ASCII ("string"); a syntax error; a type error.
LexErrs == {"string", "char"}
Errs == LexErrs \cup {"none", "syntax", "type"}

Texts == [err : Errs, uses : SUBSET Files]

ASSUME LspAssumption ==
    /\ Ifaces \subseteq Files
    /\ MaxInbox \in Nat /\ MaxAsked \in Nat
    /\ NoText \notin Texts
    /\ \A w \in Worlds :
          /\ DOMAIN w.texts \subseteq Files /\ DOMAIN w.saved = Files
          /\ \A d \in DOMAIN w.texts : w.texts[d] \subseteq Texts
          /\ \A f \in Files : w.saved[f] \subseteq Texts \cup {NoText}
          /\ w.asks \subseteq {"initialize", "inspect", "complete", "unknown",
                               "wrong", "shutdown"}
          /\ w.notes \subseteq {"watched", "ignored", "exit"}

\* What the editor shows for a file: nothing, that of Errs, an include that
\* cannot be opened.
Marks == Errs \cup {"include"}

Clean == [f \in Files |-> "none"]

\* A resolved package: the interfaces its include directories lead to.
Contexts == SUBSET Ifaces

VARIABLES
    world,          \* which of Worlds this is
    disk,           \* the files
    typed,          \* the editor: the documents open in it
    inbox,          \* stdin: messages the server has not read
    shown,          \* the editor: the diagnostics last published per file
    asked,          \* the editor: requests so far
    answers,        \* the editor: the requests that were answered, in order
    running,        \* FALSE once the server has left its loop
    shutdown,       \* `shutdownReceived_`
    documents,      \* `documents_`
    cache,          \* `packageCache_`
    lastGood,       \* `lastGoodIndex_`: the text its index was made from
    lastUris,       \* `lastDiagnosticUris_`
    offer,          \* history: what the last completion offered
    computed,       \* history: what the compiler last said per document
    parsed,         \* history: the documents that have parsed
    stranded        \* history: the files given markers by a publication that
                    \* broke off, and by none that went through since

vars == <<world, disk, typed, inbox, shown, asked, answers, running, shutdown,
          documents, cache, lastGood, lastUris, offer, computed, parsed,
          stranded>>

Docs == DOMAIN world.texts

Init ==
    /\ world \in Worlds
    /\ disk = [f \in Files |-> NoText]
    /\ typed = [d \in Docs |-> NoText]
    /\ inbox = <<>> /\ asked = 0 /\ answers = <<>>
    /\ shown = Clean
    /\ running = TRUE /\ shutdown = FALSE
    /\ documents = [d \in Docs |-> NoText]
    /\ cache = NoContext
    /\ lastGood = [d \in Docs |-> NoText]
    /\ lastUris = [d \in Docs |-> {}]
    /\ offer = NoText
    /\ computed = [d \in Docs |-> Clean]
    /\ parsed = {}
    /\ stranded = {}
-----------------------------------------------------------------------------
(* The editor, and the disk                                                  *)

server == <<shown, answers, running, shutdown, documents, cache, lastGood,
            lastUris, offer, computed, parsed, stranded>>

Send(m) ==
    /\ running /\ Len(inbox) < MaxInbox
    /\ inbox' = Append(inbox, m)
    /\ UNCHANGED <<world, disk, server>>

Open(d, t) ==
    /\ typed[d] = NoText
    /\ typed' = [typed EXCEPT ![d] = t]
    /\ Send([m |-> "didOpen", d |-> d, text |-> t])
    /\ UNCHANGED asked

Edit(d, t) ==
    /\ typed[d] \notin {NoText, t}
    /\ typed' = [typed EXCEPT ![d] = t]
    /\ Send([m |-> "didChange", d |-> d, text |-> t])
    /\ UNCHANGED asked

Close(d) ==
    /\ typed[d] # NoText
    /\ typed' = [typed EXCEPT ![d] = NoText]
    /\ Send([m |-> "didClose", d |-> d])
    /\ UNCHANGED asked

\* A request: "inspect" is documentSymbol, hover, definition or references,
\* "unknown" a method the server does not have, "wrong" parameters it cannot
\* use.  A document need not be open to be asked about.
Ask(what, d) ==
    /\ asked < MaxAsked
    /\ asked' = asked + 1
    /\ Send([m |-> what, d |-> d, id |-> asked + 1])
    /\ UNCHANGED typed

\* didChangeWatchedFiles, of a file in the package; a notification that is
\* not known, is malformed, or is not JSON at all; exit.
Notify(what) == Send([m |-> what]) /\ UNCHANGED <<typed, asked>>

\* A file is saved, built or removed.
Save(f, t) ==
    /\ t # disk[f]
    /\ disk' = [disk EXCEPT ![f] = t]
    /\ UNCHANGED <<world, typed, inbox, asked, server>>
-----------------------------------------------------------------------------
(* computeDiagnostics and checkDocument                                      *)

\* An include is looked for next to the document, an interface where the
\* resolved package says.
Found(t, ctx) ==
    {f \in t.uses : disk[f] # NoText /\ (f \in Ifaces => f \in ctx)}

TextOf(d, t, f) == IF f = d THEN t ELSE disk[f]

With(d, t, ctx, errs) ==
    {f \in {d} \cup Found(t, ctx) : TextOf(d, t, f).err \in errs}

\* Each stage of the compiler runs only if those before it found nothing, and
\* goes through all the files.
Report(d, t, ctx) ==
    LET marks(errs) ==
            [f \in Files |-> IF f \in With(d, t, ctx, errs)
                             THEN TextOf(d, t, f).err ELSE "none"]
    IN  IF Found(t, ctx) # t.uses
        THEN [f \in Files |-> IF f = d THEN "include" ELSE "none"]
        ELSE IF With(d, t, ctx, LexErrs) # {} THEN marks(LexErrs)
        ELSE IF With(d, t, ctx, {"syntax"}) # {} THEN marks({"syntax"})
        ELSE marks({"type"})

\* checkDocument has a result: type errors do not prevent one.
Parses(d, t, ctx) ==
    Found(t, ctx) = t.uses /\ With(d, t, ctx, LexErrs \cup {"syntax"}) = {}
-----------------------------------------------------------------------------
(* packageContextFor                                                         *)

Resolves(d, forceRefresh) ==
    d \in world.rooted /\ (forceRefresh \/ cache = NoContext)

\* Resolving gives the include directories, or none if it fails; the failure
\* is cached too.
PackageContextFor(d, forceRefresh) ==
    IF Resolves(d, forceRefresh)
    THEN cache' \in {Ifaces} \cup IF world.offline THEN {{}} ELSE {}
    ELSE UNCHANGED cache

\* What a handler has afterwards.
ContextOf(d) == IF d \in world.rooted THEN cache' ELSE {}
-----------------------------------------------------------------------------
(* publishDiagnostics                                                        *)

\* Mutant: only the document's own uri is cleared.
CoveredNow(d, report) == {d} \cup {f \in Files : report[f] # "none"}

\* The files that get a message: those with diagnostics, the document, and
\* those that had some last time.
Covered(d, report) ==
    {d} \cup {f \in Files : report[f] # "none"} \cup lastUris[d]

Keep(d, report) ==
    lastUris' = [lastUris EXCEPT ![d] = {f \in Files : report[f] # "none"}]

\* "unexpected character" quotes one byte of a character: not UTF-8, and the
\* JSON library throws when the message is to be written.
Garbled(report) == {f \in Files : report[f] = "char"}

\* dispatch drops the exception: what has been published by then stays
\* published, nothing else is, and lastUris is what it was.  The order of the
\* files is that of a hash table.
BreakOff(d, report) ==
    \E sent \in SUBSET (Covered(d, report) \ Garbled(report)) :
        /\ shown' = [f \in Files |-> IF f \in sent THEN report[f] ELSE shown[f]]
        /\ stranded' = stranded \cup {f \in sent : report[f] # "none"}
        /\ UNCHANGED lastUris

GoThrough(d, report) ==
    /\ shown' = [f \in Files |->
                    IF f \in Covered(d, report) THEN report[f] ELSE shown[f]]
    /\ stranded' = stranded \ Covered(d, report)
    /\ Keep(d, report)

Publish(d, t, ctx) ==
    LET report == Report(d, t, ctx)
    IN  /\ lastGood' = IF Parses(d, t, ctx) THEN [lastGood EXCEPT ![d] = t]
                                            ELSE lastGood
        /\ computed' = [computed EXCEPT ![d] = report]
        /\ parsed' = IF Parses(d, t, ctx) THEN parsed \cup {d} ELSE parsed
        /\ IF Garbled(report) = {} THEN GoThrough(d, report)
                                   ELSE BreakOff(d, report)
-----------------------------------------------------------------------------
(* The handlers                                                              *)

Message == Head(inbox)
Got(m) == running /\ inbox # <<>> /\ Message.m = m

Read == inbox' = Tail(inbox) /\ UNCHANGED <<world, disk, typed, asked>>

Reply == answers' = Append(answers, Message.id)

DidOpen ==
    /\ Got("didOpen") /\ Read
    /\ documents' = [documents EXCEPT ![Message.d] = Message.text]
    /\ PackageContextFor(Message.d, TRUE)
    /\ Publish(Message.d, Message.text, ContextOf(Message.d))
    /\ UNCHANGED <<answers, running, shutdown, offer>>

DidChange ==
    /\ Got("didChange") /\ Read
    /\ documents' = [documents EXCEPT ![Message.d] = Message.text]
    /\ PackageContextFor(Message.d, FALSE)
    /\ Publish(Message.d, Message.text, ContextOf(Message.d))
    /\ UNCHANGED <<answers, running, shutdown, offer>>

\* Mutant: a closed document is forgotten altogether.
DidCloseForgets ==
    /\ Got("didClose") /\ Read
    /\ documents' = [documents EXCEPT ![Message.d] = NoText]
    /\ lastUris' = [lastUris EXCEPT ![Message.d] = {}]
    /\ UNCHANGED <<shown, answers, running, shutdown, cache, lastGood, offer,
                   computed, parsed, stranded>>

DidClose ==
    /\ Got("didClose") /\ Read
    /\ documents' = [documents EXCEPT ![Message.d] = NoText]
    /\ UNCHANGED <<shown, answers, running, shutdown, cache, lastGood,
                   lastUris, offer, computed, parsed, stranded>>

\* Mutant: a document that is not open gets no answer.
InspectOpen ==
    /\ Got("inspect") /\ Read
    /\ IF documents[Message.d] # NoText
       THEN Reply /\ PackageContextFor(Message.d, FALSE)
       ELSE UNCHANGED <<answers, cache>>
    /\ UNCHANGED <<shown, running, shutdown, documents, lastGood, lastUris,
                   offer, computed, parsed, stranded>>

\* With no document, or nothing under the cursor, the answer is empty.
Inspect ==
    /\ Got("inspect") /\ Read /\ Reply
    /\ \/ UNCHANGED cache
       \/ documents[Message.d] # NoText /\ PackageContextFor(Message.d, FALSE)
    /\ UNCHANGED <<shown, running, shutdown, documents, lastGood, lastUris,
                   offer, computed, parsed, stranded>>

\* Mutant: no fallback.
OfferNow(d, t, ctx) == IF Parses(d, t, ctx) THEN t ELSE NoText

\* The names completion offers are those of the document, or of its last
\* version that parsed.
Offer(d, t, ctx) == IF Parses(d, t, ctx) THEN t ELSE lastGood[d]

Complete ==
    /\ Got("complete") /\ Read /\ Reply
    /\ IF documents[Message.d] = NoText
       THEN UNCHANGED cache /\ offer' = NoText
       ELSE /\ PackageContextFor(Message.d, FALSE)
            /\ offer' = Offer(Message.d, documents[Message.d],
                              ContextOf(Message.d))
    /\ UNCHANGED <<shown, running, shutdown, documents, lastGood, lastUris,
                   computed, parsed, stranded>>

\* didChangeWatchedFiles drops the package of the file.
Watched ==
    /\ Got("watched") /\ Read
    /\ cache' = NoContext
    /\ UNCHANGED <<shown, answers, running, shutdown, documents, lastGood,
                   lastUris, offer, computed, parsed, stranded>>

\* initialize; MethodNotFound; InvalidParams.
AnswerOnly ==
    /\ Got("initialize") \/ Got("unknown") \/ Got("wrong")
    /\ Read /\ Reply
    /\ UNCHANGED <<shown, running, shutdown, documents, cache, lastGood,
                   lastUris, offer, computed, parsed, stranded>>

Shutdown ==
    /\ Got("shutdown") /\ Read /\ Reply
    /\ shutdown' = TRUE
    /\ UNCHANGED <<shown, running, documents, cache, lastGood, lastUris, offer,
                   computed, parsed, stranded>>

Ignore ==
    /\ Got("ignored") /\ Read
    /\ UNCHANGED server

Exit ==
    /\ Got("exit") /\ Read
    /\ running' = FALSE
    /\ UNCHANGED <<shown, answers, shutdown, documents, cache, lastGood,
                   lastUris, offer, computed, parsed, stranded>>

Serve == DidOpen \/ DidChange \/ DidClose \/ Inspect \/ Complete \/ Watched
            \/ AnswerOnly \/ Shutdown \/ Ignore \/ Exit

Next ==
    \/ Serve
    \/ \E d \in Docs : \/ \E t \in world.texts[d] : Open(d, t) \/ Edit(d, t)
                       \/ Close(d)
                       \/ \E what \in world.asks : Ask(what, d)
    \/ \E what \in world.notes : Notify(what)
    \/ \E f \in Files : \E t \in world.saved[f] : Save(f, t)

Spec == Init /\ [][Next]_vars
-----------------------------------------------------------------------------
\* What the server has to answer.
Requests == {"initialize", "inspect", "complete", "unknown", "wrong",
             "shutdown"}

\* Every request is answered exactly once, and in the order it was asked:
\* what has not been answered is still on its way, each request behind those
\* before it.
Unanswered == {i \in DOMAIN inbox : inbox[i].m \in Requests}

AnswersInOrder ==
    /\ answers = [k \in 1..Len(answers) |-> k] /\ Len(answers) <= asked
    /\ {inbox[i].id : i \in Unanswered} = (Len(answers) + 1)..asked
    /\ \A i, j \in Unanswered : i < j => inbox[i].id < inbox[j].id

\* The editor shows for a file what the compiler last said about it, if only
\* one document's compilation concerns the file, whatever was opened, closed,
\* saved, built or resolved in between.  The exceptions are a report that
\* quotes a byte of a character outside ASCII, which cannot be sent, and the
\* markers that such a report has stranded.
Concerns(d) == {d} \cup UNION {t.uses : t \in world.texts[d]}

OnlyOf(d) == {f \in Concerns(d) : \A e \in Docs \ {d} : f \notin Concerns(e)}

EditorIsCurrent ==
    \A d \in Docs : \A f \in OnlyOf(d) \ stranded :
        Garbled(computed[d]) = {} => shown[f] = computed[d][f]

\* However many documents report on one file, what is shown of it is known
\* to the server, which can take it away with the next version of one of
\* them.  The only markers it does not know of are those it sent before a
\* publication broke off.
MarkersCanBeCleared ==
    \A f \in Files : shown[f] # "none" =>
        f \in stranded \/ \E d \in Docs : f \in lastUris[d]

\* What a comment of publishDiagnostics promises without exception (server.cpp,
\* 153-156): a file that had diagnostics and has none in a report that goes
\* out is sent an empty array, "or the editor would keep showing now-stale
\* markers forever".  The code breaks it: lastDiagnosticUris_ is set only after
\* the last file is sent, so a marker that went out before an exception is
\* forgotten.
NoStaleMarkers ==
    \A d \in Docs : \A f \in OnlyOf(d) :
        Garbled(computed[d]) = {} /\ computed[d][f] = "none"
            => shown[f] = "none"

\* Completion "falls back to the last version that parsed successfully,
\* rather than going blank" (docs/guide/lsp.md): once the compiler got as
\* far as a document's types, completion in it offers something.
CompletionOffers ==
    [][ \A d \in Docs :
          Got("complete") /\ Message.d = d /\ documents[d] # NoText
            /\ d \in parsed /\ Complete => offer' # NoText ]_vars
=============================================================================

----------------------------- MODULE LspServer -----------------------------
(***************************************************************************)
(* The language server (mirin-lsp/src/server.rs) and the editor that talks *)
(* to it: the open documents, the analysis overlay their texts are put     *)
(* into (semantic.rs, base/vfs.rs), the handlers that wait to send, and    *)
(* what the editor shows.                                                  *)
(*                                                                         *)
(* The tower-lsp-server library is external.  Its serve loop is one task:  *)
(* handlers start in the order of their messages, at most `Concurrency`    *)
(* are unfinished, and they give way only where they await.  All of them   *)
(* await only a send: the message is in the outgoing channel at once, and  *)
(* the handler then waits if the channel holds more than `Room` messages;  *)
(* one waiting handler is let go for each message taken out.               *)
(***************************************************************************)
EXTENDS Integers, Sequences, FiniteSets

CONSTANTS
    Docs,          \* the documents, all in one directory
    Texts,         \* what a document may contain
    TextsOf,       \* the contents each document is given
    Broken,        \* the texts with a syntax error
    Declares,      \* the documents a text declares with `mod m;`
    PreludeDocs,   \* the documents named prelude.mrn
    Shard,         \* the shard of the document map a document is kept in
    Requests,      \* the requests the editor makes, besides edits
    Room,          \* external: room of the outgoing channel
    Concurrency,   \* external: handlers that may be unfinished
    MaxEdits,      \* bound: opens, changes and closes of one document
    MaxInbox       \* bound: messages the server has not begun to handle

Prelude == "$prelude.mrn"          \* the path of the bundled prelude
Paths   == Docs \cup {Prelude}
NoText  == "no text"
NoRoot  == "no root"

(* The content of a document after its ver-th edit.  The server does not   *)
(* see the version: it is there to tell old contents from new ones.        *)
Snapshot == [ver : Nat, text : Texts \cup {NoText, Prelude}]
Never    == [ver |-> 0, text |-> NoText]

(* Diagnostics: the content they are computed for, and the contents of the *)
(* documents it declares that were taken into account.                     *)
Diagnostics == [of : Snapshot, seen : [Docs -> Snapshot]]
Unseen      == [e \in Docs |-> Never]

WriteKind == {"open", "change", "close"}
Incoming  == [kind : WriteKind \cup {"goto", "format"}, doc : Docs, snap : Snapshot]
Outgoing  == [kind : {"diagnostics", "message"}, doc : Docs, diags : Diagnostics]

(* A handler that waits to be let go, and whether it holds the guard of    *)
(* its document meanwhile.                                                 *)
Waiting == [doc : Docs, holds : BOOLEAN]

ASSUME DocsAssumption == Prelude \notin Docs /\ PreludeDocs \subseteq Docs
ASSUME TextsAssumption ==
    /\ NoText \notin Texts /\ Prelude \notin Texts /\ Broken \subseteq Texts
    /\ TextsOf \in [Docs -> SUBSET Texts]
    /\ Declares \in [Texts -> SUBSET Docs]
ASSUME LimitsAssumption ==
    /\ Room \in Nat /\ Concurrency \in Nat \ {0}
    /\ MaxEdits \in Nat /\ MaxInbox \in Nat
ASSUME RequestsAssumption == Requests \subseteq {"goto", "format"}

VARIABLES
    buffers,     \* the editor's documents; NoText when closed
    asked,       \* is a formatting request of the document unanswered?
    shown,       \* the diagnostics the editor shows
    inbox,       \* messages to the server, in order
    documents,   \* Backend.documents
    vfs,         \* Vfs.by_path with the texts; Never for an unknown path
    krate,       \* the SourceRoot input: its root file and its files
    outbox,      \* the outgoing channel
    waiting,     \* the handlers that wait to be let go, in order
    stuck        \* is the server's task blocked on a lock?

editor == <<buffers, asked, shown>>
engine == <<vfs, krate>>
vars == <<editor, inbox, documents, engine, outbox, waiting, stuck>>

----------------------------------------------------------------------------
(* The editor. *)

Sends(kind, d, s) ==
    /\ Len(inbox) < MaxInbox
    /\ inbox' = Append(inbox, [kind |-> kind, doc |-> d, snap |-> s])
    /\ UNCHANGED <<shown, documents, engine, outbox, waiting, stuck>>

Writes(kind, d, text) ==
    /\ buffers[d].ver < MaxEdits
    /\ LET s == [ver |-> buffers[d].ver + 1, text |-> text]
       IN  buffers' = [buffers EXCEPT ![d] = s] /\ Sends(kind, d, s)
    /\ UNCHANGED asked

EditorOpens(d) ==
    /\ buffers[d].text = NoText
    /\ \E t \in TextsOf[d] : Writes("open", d, t)

EditorChanges(d) ==
    /\ buffers[d].text # NoText
    /\ \E t \in TextsOf[d] : Writes("change", d, t)

EditorCloses(d) ==
    /\ buffers[d].text # NoText
    /\ Writes("close", d, NoText)

EditorAsks(d) ==
    /\ buffers[d].text # NoText
    /\ \E kind \in Requests :
         /\ kind = "format" => ~asked[d]
         /\ asked' = [asked EXCEPT ![d] = @ \/ kind = "format"]
         /\ Sends(kind, d, Never)
    /\ UNCHANGED buffers

----------------------------------------------------------------------------
(* The analysis engine. *)

(* Vfs::set_file_text *)
SetFileText(v, p, s) == [v EXCEPT ![p] = s]

Known(v) == {p \in Paths : v[p].text # NoText}

(* The bundled prelude is no file of a crate whose root is a prelude.mrn. *)
FilesOf(v, root) ==
    IF root \in PreludeDocs THEN Known(v) \ {Prelude} ELSE Known(v)

(* Vfs::source_root: the one SourceRoot input now stands for the crate of  *)
(* `root`, with every file the session has put into the VFS.               *)
SourceRoot(v, root) ==
    LET w == IF root \in PreludeDocs THEN v
             ELSE SetFileText(v, Prelude, [ver |-> 0, text |-> Prelude])
    IN  [vfs |-> w, krate |-> [root |-> root, files |-> FilesOf(w, root)]]

Overlay(d, s) == SourceRoot(SetFileText(vfs, d, s), d)

(* semantic::diagnostics of the root file: its own text, and the texts of  *)
(* the files its `mod`s lead to.  The `mod`s of those files look one       *)
(* directory deeper, where there is no document.                           *)
Diagnose(a) ==
    LET own == a.vfs[a.krate.root]
        via == (Declares[own.text] \cap a.krate.files) \ {a.krate.root}
    IN  [of |-> own, seen |-> [e \in Docs |-> IF e \in via THEN a.vfs[e] ELSE Never]]

Adopt(a) == vfs' = a.vfs /\ krate' = a.krate

----------------------------------------------------------------------------
(* The handlers. *)

(* Mutant: the send is left to a task of its own. *)
PostDetached(kind, d, diags, holds) ==
    /\ outbox' = Append(outbox, [kind |-> kind, doc |-> d, diags |-> diags])
    /\ UNCHANGED waiting

(* `client.publish_diagnostics(..).await` and `client.show_message(..).await` *)
Post(kind, d, diags, holds) ==
    /\ outbox' = Append(outbox, [kind |-> kind, doc |-> d, diags |-> diags])
    /\ waiting' = IF Len(outbox) >= Room
                  THEN Append(waiting, [doc |-> d, holds |-> holds])
                  ELSE waiting

(* Mutants: a broken text is not published; the text is analysed before it *)
(* is put into the VFS.                                                    *)
PublishClean(d, s) ==
    IF s.text \in Broken
    THEN UNCHANGED <<engine, outbox, waiting>>
    ELSE /\ Adopt(Overlay(d, s))
         /\ Post("diagnostics", d, Diagnose(Overlay(d, s)), FALSE)

PublishBefore(d, s) ==
    IF s.text \in Broken \/ vfs[d] = Never
    THEN /\ Post("diagnostics", d, [of |-> s, seen |-> Unseen], FALSE)
         /\ IF s.text \in Broken THEN UNCHANGED engine ELSE Adopt(Overlay(d, s))
    ELSE /\ Post("diagnostics", d, Diagnose(SourceRoot(vfs, d)), FALSE)
         /\ Adopt(Overlay(d, s))

(* Backend::publish.  A text with syntax errors is diagnosed by itself and *)
(* does not reach the analysis.                                            *)
Publish(d, s) ==
    IF s.text \in Broken
    THEN /\ Post("diagnostics", d, [of |-> s, seen |-> Unseen], FALSE)
         /\ UNCHANGED engine
    ELSE /\ Adopt(Overlay(d, s))
         /\ Post("diagnostics", d, Diagnose(Overlay(d, s)), FALSE)

(* A handler holds the guard of a document of the same shard. *)
Locked(d) ==
    \E i \in 1 .. Len(waiting) :
        waiting[i].holds /\ Shard[waiting[i].doc] = Shard[d]

MayStart == ~stuck /\ inbox # <<>> /\ Len(waiting) < Concurrency

Handles(kinds) ==
    /\ MayStart
    /\ Head(inbox).kind \in kinds
    /\ inbox' = Tail(inbox)
    /\ UNCHANGED <<buffers, shown, stuck>>

(* Mutant: a closed document is kept. *)
HandlesWriteKept(kinds) ==
    /\ Handles(kinds)
    /\ ~Locked(Head(inbox).doc)
    /\ documents' = [documents EXCEPT ![Head(inbox).doc] =
                         IF Head(inbox).kind = "close" THEN @ ELSE Head(inbox).snap]
    /\ UNCHANGED asked

(* The write lock of the document's shard is had. *)
HandlesWrite(kinds) ==
    /\ Handles(kinds)
    /\ ~Locked(Head(inbox).doc)
    /\ documents' = [documents EXCEPT ![Head(inbox).doc] = Head(inbox).snap]
    /\ UNCHANGED asked

DidOpen ==
    /\ HandlesWrite({"open"})
    /\ Publish(Head(inbox).doc, Head(inbox).snap)

DidChange ==
    /\ HandlesWrite({"change"})
    /\ Publish(Head(inbox).doc, Head(inbox).snap)

(* The text stays in the VFS. *)
DidClose ==
    /\ HandlesWrite({"close"})
    /\ Post("diagnostics", Head(inbox).doc,
            [of |-> Head(inbox).snap, seen |-> Unseen], FALSE)
    /\ UNCHANGED engine

(* Puts the text into the VFS, broken or not. *)
GotoDefinition ==
    /\ Handles({"goto"})
    /\ LET d == Head(inbox).doc
       IN  IF documents[d].text = NoText THEN UNCHANGED engine
           ELSE Adopt(Overlay(d, documents[d]))
    /\ UNCHANGED <<asked, documents, outbox, waiting>>

Answered(d) == asked' = [asked EXCEPT ![d] = FALSE]

(* A document that is closed or has no syntax error is answered at once. *)
Formatting ==
    /\ Handles({"format"})
    /\ documents[Head(inbox).doc].text \notin Broken
    /\ Answered(Head(inbox).doc)
    /\ UNCHANGED <<documents, engine, outbox, waiting>>

(* The refusal of a broken document is announced first; its guard is held  *)
(* until the send is over.                                                 *)
FormattingRefused ==
    /\ Handles({"format"})
    /\ LET d == Head(inbox).doc
       IN  /\ documents[d].text \in Broken
           /\ Post("message", d, [of |-> Never, seen |-> Unseen], TRUE)
           /\ IF Len(outbox) >= Room THEN UNCHANGED asked ELSE Answered(d)
    /\ UNCHANGED <<documents, engine>>

(* The map's lock is not an async one: waiting for it stops the task. *)
Blocks ==
    /\ MayStart
    /\ Head(inbox).kind \in WriteKind
    /\ Locked(Head(inbox).doc)
    /\ stuck' = TRUE
    /\ UNCHANGED <<editor, inbox, documents, engine, outbox, waiting>>

(* A handler whose turn has come finishes and drops its guard. *)
Resume ==
    /\ ~stuck
    /\ waiting # <<>>
    /\ Len(waiting) > Len(outbox) - Room
    /\ waiting' = Tail(waiting)
    /\ IF Head(waiting).holds THEN Answered(Head(waiting).doc) ELSE UNCHANGED asked
    /\ UNCHANGED <<buffers, shown, inbox, documents, engine, outbox, stuck>>

(* The next message leaves for the editor, which shows diagnostics. *)
Deliver ==
    /\ ~stuck
    /\ outbox # <<>>
    /\ outbox' = Tail(outbox)
    /\ shown' = IF Head(outbox).kind = "diagnostics"
                THEN [shown EXCEPT ![Head(outbox).doc] = Head(outbox).diags]
                ELSE shown
    /\ UNCHANGED <<buffers, asked, inbox, documents, engine, waiting, stuck>>

----------------------------------------------------------------------------
Init ==
    /\ buffers = [d \in Docs |-> Never]
    /\ asked = [d \in Docs |-> FALSE]
    /\ shown = [d \in Docs |-> [of |-> Never, seen |-> Unseen]]
    /\ inbox = <<>>
    /\ documents = [d \in Docs |-> Never]
    /\ vfs = [p \in Paths |-> Never]
    /\ krate = [root |-> NoRoot, files |-> {}]
    /\ outbox = <<>>
    /\ waiting = <<>>
    /\ stuck = FALSE

Start ==
    \/ DidOpen \/ DidChange \/ DidClose
    \/ GotoDefinition \/ Formatting \/ FormattingRefused
    \/ Blocks

Next ==
    \/ \E d \in Docs : EditorOpens(d) \/ EditorChanges(d) \/ EditorCloses(d)
                       \/ EditorAsks(d)
    \/ Start \/ Resume \/ Deliver

(* The task polls all its parts; nothing obliges the editor to write. *)
Spec ==
    /\ Init /\ [][Next]_vars
    /\ WF_vars(Start) /\ WF_vars(Resume) /\ WF_vars(Deliver)

----------------------------------------------------------------------------
(* Properties. *)

TypeOK ==
    /\ buffers \in [Docs -> Snapshot]
    /\ asked \in [Docs -> BOOLEAN]
    /\ shown \in [Docs -> Diagnostics]
    /\ inbox \in Seq(Incoming)
    /\ documents \in [Docs -> Snapshot]
    /\ vfs \in [Paths -> Snapshot]
    /\ krate \in [root : Docs \cup {NoRoot}, files : SUBSET Paths]
    /\ outbox \in Seq(Outgoing)
    /\ waiting \in Seq(Waiting)
    /\ stuck \in BOOLEAN

(* The messages of s about d, and the last of them. *)
About(s, d, kinds) == {i \in 1 .. Len(s) : s[i].doc = d /\ s[i].kind \in kinds}
IsLast(i, s, d, kinds) ==
    i \in About(s, d, kinds) /\ \A j \in About(s, d, kinds) : j <= i

BufferInStep(d) ==
    \/ About(inbox, d, WriteKind) = {} /\ buffers[d] = documents[d]
    \/ \E i \in 1 .. Len(inbox) :
          IsLast(i, inbox, d, WriteKind) /\ buffers[d] = inbox[i].snap

(* The server's copy of a document and the messages it has not handled yet *)
(* amount to the editor's buffer.                                          *)
BuffersInStep == \A d \in Docs : BufferInStep(d)

ScreenInStep(d) ==
    \/ About(outbox, d, {"diagnostics"}) = {} /\ documents[d] = shown[d].of
    \/ \E i \in 1 .. Len(outbox) :
          /\ IsLast(i, outbox, d, {"diagnostics"})
          /\ documents[d] = outbox[i].diags.of

(* What is shown and the diagnostics on their way amount to those of the   *)
(* server's copy: no order of edits, sends and closes leaves a document    *)
(* with diagnostics of a text it no longer has.                            *)
DiagnosticsInStep == \A d \in Docs : ScreenInStep(d)

(* Editor, server and screen are in step but for what is on its way.       *)
DocumentsInStep == BuffersInStep /\ DiagnosticsInStep

(* Waiting handlers hold back the others: the channel never holds more     *)
(* than its room and one message of each unfinished handler.               *)
OutboxBounded == Len(outbox) <= Room + Concurrency

(* Whatever was analysed before, a crate has one prelude: the bundled one, *)
(* or its own root.                                                        *)
OnePrelude ==
    krate.root # NoRoot =>
        Cardinality({p \in krate.files :
                        p = Prelude \/ p \in {krate.root} \cap PreludeDocs}) = 1

(* What the editor is shown steps forward with its documents. *)
View == INSTANCE EditorView
            WITH written  <- [d \in Docs |-> buffers[d].ver],
                 onScreen <- [d \in Docs |-> shown[d].of.ver]
ViewSpec == View!Spec

(* Once the editor pauses, it is shown the diagnostics of its buffers,     *)
(* unless the server is blocked on the lock of a document (see             *)
(* FormattingAnswered).                                                    *)
CatchesUp == <>[](stuck \/ \A d \in Docs : shown[d].of = buffers[d])

(* Every formatting request is answered. *)
FormattingAnswered == \A d \in Docs : asked[d] ~> ~asked[d]
=============================================================================

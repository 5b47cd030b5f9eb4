-------------------------- MODULE LspServerProofs --------------------------
(***************************************************************************)
(* What holds of the language server for any documents, texts, shards and  *)
(* limits, however many edits the editor makes.                            *)
(***************************************************************************)
EXTENDS LspServer, FiniteSetTheorems, TLAPS

----------------------------------------------------------------------------
(* Lemmas about sequences, the analysis and the handlers. *)

LEMMA TakeFirst ==
    ASSUME NEW S, NEW s \in Seq(S), s # <<>>
    PROVE  /\ Head(s) = s[1] /\ s[1] \in S
           /\ Tail(s) \in Seq(S)
           /\ Len(s) \in Nat \ {0} /\ Len(Tail(s)) = Len(s) - 1
           /\ \A i \in 1 .. Len(Tail(s)) : i + 1 \in 2 .. Len(s) /\ Tail(s)[i] = s[i + 1]
  OBVIOUS

LEMMA AddLast ==
    ASSUME NEW S, NEW s \in Seq(S), NEW e \in S
    PROVE  /\ Append(s, e) \in Seq(S)
           /\ Len(s) \in Nat /\ Len(Append(s, e)) = Len(s) + 1
           /\ Append(s, e)[Len(s) + 1] = e
           /\ \A i \in 1 .. Len(s) : Append(s, e)[i] = s[i]
  OBVIOUS

LEMMA NeverIsASnapshot == Never \in Snapshot /\ Unseen \in [Docs -> Snapshot]
  BY DEF Never, Unseen, Snapshot

(* Overlaying a text makes its document the root of the crate and gives    *)
(* diagnostics of that very text.                                          *)
LEMMA OverlayFacts ==
    ASSUME vfs \in [Paths -> Snapshot], NEW d \in Docs, NEW s \in Snapshot
    PROVE  LET a == Overlay(d, s)
           IN  /\ a.vfs \in [Paths -> Snapshot]
               /\ a.vfs[d] = s
               /\ d \notin PreludeDocs => a.vfs[Prelude].text = Prelude
               /\ a.krate = [root |-> d, files |-> FilesOf(a.vfs, d)]
               /\ a.krate \in [root : Docs \cup {NoRoot}, files : SUBSET Paths]
               /\ Diagnose(a) \in Diagnostics
               /\ Diagnose(a).of = s
  <1> DEFINE v == SetFileText(vfs, d, s)
             w == IF d \in PreludeDocs THEN v
                  ELSE SetFileText(v, Prelude, [ver |-> 0, text |-> Prelude])
             a == Overlay(d, s)
  <1>1. d \in Paths /\ Prelude \in Paths /\ d # Prelude
    BY DocsAssumption DEF Paths
  <1>2. v \in [Paths -> Snapshot] /\ v[d] = s
    BY <1>1 DEF SetFileText
  <1>3. [ver |-> 0, text |-> Prelude] \in Snapshot
    BY DEF Snapshot
  <1>4. /\ w \in [Paths -> Snapshot]
        /\ w[d] = s
        /\ d \notin PreludeDocs => w[Prelude].text = Prelude
    <2> HIDE DEF v
    <2> QED
      BY <1>1, <1>2, <1>3 DEF SetFileText
  <1>5. a = [vfs |-> w, krate |-> [root |-> d, files |-> FilesOf(w, d)]]
    BY DEF Overlay, SourceRoot
  <1> HIDE DEF w, a
  <1>6. FilesOf(w, d) \subseteq Paths
    BY DEF FilesOf, Known
  <1>7. a.krate = [root |-> d, files |-> FilesOf(w, d)] /\ a.vfs = w
    BY <1>5
  <1>8. a.vfs[a.krate.root] = s /\ \A e \in Docs : a.vfs[e] \in Snapshot
    BY <1>4, <1>7 DEF Paths
  <1>9. Diagnose(a) \in Diagnostics /\ Diagnose(a).of = s
    BY <1>8, NeverIsASnapshot DEF Diagnose, Diagnostics
  <1> QED
    BY <1>4, <1>6, <1>7, <1>9 DEF a

(* A publication is of the text it is given. *)
LEMMA PublishFacts ==
    ASSUME TypeOK, NEW d \in Docs, NEW s \in Snapshot, Publish(d, s)
    PROVE  /\ vfs' \in [Paths -> Snapshot]
           /\ krate' \in [root : Docs \cup {NoRoot}, files : SUBSET Paths]
           /\ \E diags \in Diagnostics :
                diags.of = s /\ Post("diagnostics", d, diags, FALSE)
  <1>1. CASE s.text \in Broken
    <2>1. [of |-> s, seen |-> Unseen] \in Diagnostics
      BY NeverIsASnapshot DEF Diagnostics
    <2> QED
      BY <1>1, <2>1 DEF Publish, TypeOK, engine
  <1>2. CASE s.text \notin Broken
    <2>1. vfs \in [Paths -> Snapshot]
      BY DEF TypeOK
    <2>2. /\ Adopt(Overlay(d, s))
          /\ Post("diagnostics", d, Diagnose(Overlay(d, s)), FALSE)
      BY <1>2 DEF Publish
    <2> QED
      BY <2>1, <2>2, OverlayFacts DEF Adopt
  <1> QED
    BY <1>1, <1>2

Finishes == DidOpen \/ DidChange \/ DidClose

(* The three handlers that write a document publish what they write. *)
LEMMA FinishesFacts ==
    ASSUME TypeOK, Finishes
    PROVE  /\ MayStart
           /\ Head(inbox) \in Incoming
           /\ Head(inbox).kind \in WriteKind
           /\ inbox' = Tail(inbox)
           /\ documents' = [documents EXCEPT ![Head(inbox).doc] = Head(inbox).snap]
           /\ UNCHANGED <<buffers, asked, shown, stuck>>
           /\ vfs' \in [Paths -> Snapshot]
           /\ krate' \in [root : Docs \cup {NoRoot}, files : SUBSET Paths]
           /\ \E diags \in Diagnostics :
                /\ diags.of = Head(inbox).snap
                /\ Post("diagnostics", Head(inbox).doc, diags, FALSE)
  <1> DEFINE m == Head(inbox)
  <1>1. PICK kind \in WriteKind : HandlesWrite({kind})
    BY DEF Finishes, DidOpen, DidChange, DidClose, WriteKind
  <1>2. /\ MayStart
        /\ m.kind \in WriteKind
        /\ inbox' = Tail(inbox)
        /\ documents' = [documents EXCEPT ![m.doc] = m.snap]
        /\ UNCHANGED <<buffers, asked, shown, stuck>>
    BY <1>1 DEF HandlesWrite, Handles
  <1>3. m \in Incoming
    BY <1>2, TakeFirst DEF TypeOK, MayStart
  <1>4. m.doc \in Docs /\ m.snap \in Snapshot
    BY <1>3 DEF Incoming
  <1>5. CASE DidOpen \/ DidChange
    <2>1. Publish(m.doc, m.snap)
      BY <1>5 DEF DidOpen, DidChange
    <2> HIDE DEF m
    <2>2. /\ vfs' \in [Paths -> Snapshot]
          /\ krate' \in [root : Docs \cup {NoRoot}, files : SUBSET Paths]
          /\ \E diags \in Diagnostics :
               diags.of = m.snap /\ Post("diagnostics", m.doc, diags, FALSE)
      BY <1>4, <2>1, PublishFacts
    <2> QED
      BY <1>2, <1>3, <2>2 DEF m
  <1>6. CASE DidClose
    <2>1. [of |-> m.snap, seen |-> Unseen] \in Diagnostics
      BY <1>4, NeverIsASnapshot DEF Diagnostics
    <2>2. /\ Post("diagnostics", m.doc, [of |-> m.snap, seen |-> Unseen], FALSE)
          /\ UNCHANGED <<vfs, krate>>
      BY <1>6 DEF DidClose, engine
    <2> QED
      BY <1>2, <1>3, <2>1, <2>2 DEF TypeOK
  <1> QED
    BY <1>5, <1>6 DEF Finishes

(* The four steps of the editor: a write or a request joins the inbox. *)
Edits ==
    \E kind \in WriteKind, d \in Docs, t \in Texts \cup {NoText} :
        /\ kind \in {"open", "change"} => t \in Texts
        /\ Writes(kind, d, t)

LEMMA EditorSteps ==
    ASSUME NEW d \in Docs,
           EditorOpens(d) \/ EditorChanges(d) \/ EditorCloses(d) \/ EditorAsks(d)
    PROVE  Edits \/ EditorAsks(d)
  <1>1. CASE EditorOpens(d) \/ EditorChanges(d)
    <2>1. PICK kind \in {"open", "change"}, t \in TextsOf[d] : Writes(kind, d, t)
      BY <1>1 DEF EditorOpens, EditorChanges
    <2>2. t \in Texts
      BY TextsAssumption
    <2> QED
      BY <2>1, <2>2 DEF Edits, WriteKind
  <1>2. CASE EditorCloses(d)
    BY <1>2 DEF EditorCloses, Edits, WriteKind
  <1> QED
    BY <1>1, <1>2

(* What a step may be. *)
LEMMA StepIsOneOf ==
    ASSUME Next
    PROVE  \/ Edits
           \/ \E d \in Docs : EditorAsks(d)
           \/ Finishes
           \/ GotoDefinition \/ Formatting \/ FormattingRefused \/ Blocks
           \/ Resume \/ Deliver
  BY EditorSteps DEF Next, Start, Finishes

LEMMA PostType ==
    ASSUME outbox \in Seq(Outgoing), waiting \in Seq(Waiting),
           NEW kind \in {"diagnostics", "message"}, NEW d \in Docs,
           NEW diags \in Diagnostics, NEW holds \in BOOLEAN,
           Post(kind, d, diags, holds)
    PROVE  outbox' \in Seq(Outgoing) /\ waiting' \in Seq(Waiting)
  <1> DEFINE o == [kind |-> kind, doc |-> d, diags |-> diags]
             w == [doc |-> d, holds |-> holds]
  <1>1. o \in Outgoing /\ w \in Waiting
    BY DEF Outgoing, Waiting
  <1>2. outbox' = Append(outbox, o) /\ (waiting' = Append(waiting, w) \/ waiting' = waiting)
    BY DEF Post
  <1> HIDE DEF o, w
  <1> QED
    BY <1>1, <1>2, AddLast

----------------------------------------------------------------------------
(* Type correctness. *)

LEMMA TypeStep ==
    ASSUME TypeOK, [Next]_vars
    PROVE  TypeOK'
  <1> USE DEF editor, engine
  <1>1. CASE Edits
    <2>1. PICK kind \in WriteKind, d \in Docs, t \in Texts \cup {NoText} :
             Writes(kind, d, t)
      BY <1>1 DEF Edits
    <2> DEFINE s == [ver |-> buffers[d].ver + 1, text |-> t]
               m == [kind |-> kind, doc |-> d, snap |-> s]
    <2>2. s \in Snapshot
      BY DEF TypeOK, Snapshot
    <2>3. m \in Incoming
      BY <2>2 DEF Incoming
    <2>4. buffers' = [buffers EXCEPT ![d] = s] /\ inbox' = Append(inbox, m)
      BY <2>1 DEF Writes, Sends
    <2>5. UNCHANGED <<asked, shown, documents, vfs, krate, outbox, waiting, stuck>>
      BY <2>1 DEF Writes, Sends
    <2> HIDE DEF s, m
    <2> QED
      BY <2>2, <2>3, <2>4, <2>5, AddLast DEF TypeOK
  <1>2. ASSUME NEW d \in Docs, EditorAsks(d) PROVE TypeOK'
    <2>1. PICK kind \in {"goto", "format"} :
             /\ asked' = [asked EXCEPT ![d] = @ \/ kind = "format"]
             /\ Sends(kind, d, Never)
      BY <1>2, RequestsAssumption DEF EditorAsks
    <2> DEFINE m == [kind |-> kind, doc |-> d, snap |-> Never]
    <2>2. m \in Incoming
      BY NeverIsASnapshot DEF Incoming
    <2>3. inbox' = Append(inbox, m)
      BY <2>1 DEF Sends
    <2>4. UNCHANGED <<buffers, shown, documents, vfs, krate, outbox, waiting, stuck>>
      BY <1>2, <2>1 DEF EditorAsks, Sends
    <2>5. asked' \in [Docs -> BOOLEAN]
      BY <2>1, Zenon DEF TypeOK
    <2> HIDE DEF m
    <2> QED
      BY <2>2, <2>3, <2>4, <2>5, AddLast DEF TypeOK
  <1>3. CASE Finishes
    <2> DEFINE m == Head(inbox)
    <2>1. /\ MayStart /\ m \in Incoming /\ inbox' = Tail(inbox)
          /\ documents' = [documents EXCEPT ![m.doc] = m.snap]
          /\ UNCHANGED <<buffers, asked, shown, stuck>>
          /\ vfs' \in [Paths -> Snapshot]
          /\ krate' \in [root : Docs \cup {NoRoot}, files : SUBSET Paths]
      BY <1>3, FinishesFacts
    <2>2. PICK diags \in Diagnostics : Post("diagnostics", m.doc, diags, FALSE)
      BY <1>3, FinishesFacts
    <2> HIDE DEF m
    <2>3. m.doc \in Docs /\ m.snap \in Snapshot
      BY <2>1 DEF Incoming
    <2>4. outbox' \in Seq(Outgoing) /\ waiting' \in Seq(Waiting)
      BY <2>2, <2>3, PostType DEF TypeOK
    <2>5. inbox' \in Seq(Incoming)
      BY <2>1, TakeFirst DEF TypeOK, MayStart
    <2> QED
      BY <2>1, <2>3, <2>4, <2>5 DEF TypeOK
  <1>4. ASSUME NEW kind, Handles({kind})
        PROVE  /\ Head(inbox) \in Incoming /\ Head(inbox).doc \in Docs
               /\ inbox' \in Seq(Incoming)
               /\ UNCHANGED <<buffers, shown, stuck>>
    <2>1. Head(inbox) \in Incoming /\ inbox' \in Seq(Incoming)
      BY <1>4, TakeFirst DEF TypeOK, Handles, MayStart
    <2> QED
      BY <1>4, <2>1 DEF Handles, Incoming
  <1>5. ASSUME NEW d \in Docs, Answered(d) PROVE asked' \in [Docs -> BOOLEAN]
    BY <1>5 DEF Answered, TypeOK
  <1>6. CASE GotoDefinition
    <2> DEFINE d == Head(inbox).doc
    <2>1. Handles({"goto"}) /\ UNCHANGED <<asked, documents, outbox, waiting>>
      BY <1>6 DEF GotoDefinition
    <2>2. UNCHANGED <<vfs, krate>> \/ Adopt(Overlay(d, documents[d]))
      BY <1>6 DEF GotoDefinition
    <2>3. d \in Docs
      BY <1>4, <2>1
    <2> HIDE DEF d
    <2>4. /\ vfs' \in [Paths -> Snapshot]
          /\ krate' \in [root : Docs \cup {NoRoot}, files : SUBSET Paths]
      <3>1. vfs \in [Paths -> Snapshot] /\ documents[d] \in Snapshot
        BY <2>3 DEF TypeOK
      <3>2. CASE UNCHANGED <<vfs, krate>>
        BY <3>2 DEF TypeOK
      <3>3. CASE Adopt(Overlay(d, documents[d]))
        BY <2>3, <3>1, <3>3, OverlayFacts DEF Adopt
      <3> QED
        BY <2>2, <3>2, <3>3
    <2> QED
      BY <1>4, <2>1, <2>4 DEF TypeOK
  <1>7. CASE Formatting
    <2>1. /\ Handles({"format"}) /\ Answered(Head(inbox).doc)
          /\ UNCHANGED <<documents, vfs, krate, outbox, waiting>>
      BY <1>7 DEF Formatting
    <2> QED
      BY <1>4, <1>5, <2>1 DEF TypeOK
  <1>8. CASE FormattingRefused
    <2> DEFINE d == Head(inbox).doc
               none == [of |-> Never, seen |-> Unseen]
    <2>1. /\ Handles({"format"})
          /\ Post("message", d, none, TRUE)
          /\ UNCHANGED asked \/ Answered(d)
          /\ UNCHANGED <<documents, vfs, krate>>
      BY <1>8 DEF FormattingRefused
    <2>2. none \in Diagnostics /\ d \in Docs
      BY <1>4, <2>1, NeverIsASnapshot DEF Diagnostics
    <2> HIDE DEF d, none
    <2>3. outbox' \in Seq(Outgoing) /\ waiting' \in Seq(Waiting)
      BY <2>1, <2>2, PostType DEF TypeOK
    <2>4. asked' \in [Docs -> BOOLEAN]
      BY <1>5, <2>1, <2>2 DEF TypeOK
    <2> QED
      BY <1>4, <2>1, <2>3, <2>4 DEF TypeOK
  <1>9. CASE Blocks
    BY <1>9 DEF Blocks, TypeOK
  <1>10. CASE Resume
    <2>1. Head(waiting) \in Waiting /\ waiting' \in Seq(Waiting)
      BY <1>10, TakeFirst DEF Resume, TypeOK
    <2>2. asked' \in [Docs -> BOOLEAN]
      BY <1>5, <1>10, <2>1 DEF Resume, Waiting, TypeOK
    <2> QED
      BY <1>10, <2>1, <2>2 DEF Resume, TypeOK
  <1>11. CASE Deliver
    <2>1. Head(outbox) \in Outgoing /\ outbox' \in Seq(Outgoing)
      BY <1>11, TakeFirst DEF Deliver, TypeOK
    <2>2. shown' \in [Docs -> Diagnostics]
      BY <1>11, <2>1 DEF Deliver, Outgoing, TypeOK
    <2> QED
      BY <1>11, <2>1, <2>2 DEF Deliver, TypeOK
  <1>12. CASE UNCHANGED vars
    BY <1>12 DEF vars, TypeOK
  <1> QED
    BY <1>1, <1>2, <1>3, <1>6, <1>7, <1>8, <1>9, <1>10, <1>11, <1>12, StepIsOneOf

(* The state of the server and of the editor keeps its type. *)
THEOREM TypeCorrect == Spec => []TypeOK
  <1>1. Init => TypeOK
    <2>1. [of |-> Never, seen |-> Unseen] \in Diagnostics
      BY NeverIsASnapshot DEF Diagnostics
    <2> SUFFICES ASSUME Init PROVE TypeOK
      OBVIOUS
    <2>2. asked \in [Docs -> BOOLEAN] /\ stuck \in BOOLEAN
      BY Zenon DEF Init
    <2>3. /\ buffers \in [Docs -> Snapshot] /\ documents \in [Docs -> Snapshot]
          /\ shown \in [Docs -> Diagnostics] /\ vfs \in [Paths -> Snapshot]
      BY <2>1, NeverIsASnapshot DEF Init
    <2>4. inbox \in Seq(Incoming) /\ outbox \in Seq(Outgoing) /\ waiting \in Seq(Waiting)
      BY DEF Init
    <2>5. krate \in [root : Docs \cup {NoRoot}, files : SUBSET Paths]
      BY DEF Init
    <2> QED
      BY <2>2, <2>3, <2>4, <2>5 DEF TypeOK
  <1> QED
    BY <1>1, TypeStep, PTL DEF Spec

----------------------------------------------------------------------------
(* The outgoing channel is bounded: a message too many has its handler     *)
(* waiting, and waiting handlers are unfinished ones.                      *)

WaitersCover ==
    /\ Len(outbox) - Room <= Len(waiting)
    /\ Len(waiting) <= Concurrency

LEMMA PostKeepsWaitersCover ==
    ASSUME TypeOK, WaitersCover, MayStart,
           NEW kind, NEW d, NEW diags, NEW holds, Post(kind, d, diags, holds)
    PROVE  WaitersCover'
  <1>1. Len(outbox') = Len(outbox) + 1 /\ Len(outbox) \in Nat /\ Len(waiting) \in Nat
    BY DEF Post, TypeOK
  <1>2. Len(waiting') = IF Len(outbox) >= Room THEN Len(waiting) + 1 ELSE Len(waiting)
    BY DEF Post, TypeOK
  <1> QED
    BY <1>1, <1>2, LimitsAssumption DEF WaitersCover, MayStart

LEMMA WaitersCoverStep ==
    ASSUME TypeOK, WaitersCover, [Next]_vars
    PROVE  WaitersCover'
  <1>1. ASSUME UNCHANGED <<outbox, waiting>> PROVE WaitersCover'
    BY <1>1 DEF WaitersCover
  <1>2. CASE Edits \/ \E d \in Docs : EditorAsks(d)
    BY <1>1, <1>2 DEF Edits, Writes, EditorAsks, Sends
  <1>3. CASE Finishes
    BY <1>3, FinishesFacts, PostKeepsWaitersCover
  <1>4. CASE GotoDefinition \/ Formatting \/ Blocks
    BY <1>1, <1>4 DEF GotoDefinition, Formatting, Blocks
  <1>5. CASE FormattingRefused
    <2>1. MayStart /\ Post("message", Head(inbox).doc, [of |-> Never, seen |-> Unseen], TRUE)
      BY <1>5 DEF FormattingRefused, Handles
    <2> QED
      BY <2>1, PostKeepsWaitersCover
  <1>6. CASE Resume
    <2>1. /\ Len(waiting) \in Nat \ {0} /\ Len(waiting') = Len(waiting) - 1
          /\ Len(outbox) \in Nat /\ outbox' = outbox
          /\ Len(waiting) > Len(outbox) - Room
      BY <1>6, TakeFirst DEF Resume, TypeOK
    <2> QED
      BY <2>1, LimitsAssumption DEF WaitersCover
  <1>7. CASE Deliver
    <2>1. /\ Len(outbox) \in Nat \ {0} /\ Len(outbox') = Len(outbox) - 1
          /\ Len(waiting) \in Nat /\ waiting' = waiting
      BY <1>7, TakeFirst DEF Deliver, TypeOK
    <2> QED
      BY <2>1, LimitsAssumption DEF WaitersCover
  <1>8. CASE UNCHANGED vars
    BY <1>1, <1>8 DEF vars
  <1> QED
    BY <1>2, <1>3, <1>4, <1>5, <1>6, <1>7, <1>8, StepIsOneOf

(* The channel never holds more than its room and one message of each      *)
(* unfinished handler.                                                     *)
THEOREM Backpressure == Spec => []OutboxBounded
  <1>1. Init => WaitersCover
    BY LimitsAssumption DEF Init, WaitersCover
  <1>2. TypeOK /\ WaitersCover => OutboxBounded
    BY LimitsAssumption DEF TypeOK, WaitersCover, OutboxBounded
  <1>3. TypeOK /\ WaitersCover /\ [Next]_vars => WaitersCover'
    BY WaitersCoverStep
  <1> QED
    BY <1>1, <1>2, <1>3, TypeCorrect, PTL DEF Spec

----------------------------------------------------------------------------
(* One prelude. *)

(* Opened and changed documents have a text, so that an analysed document  *)
(* is a file of its crate.                                                 *)
TextsPresent ==
    \A i \in 1 .. Len(inbox) :
        inbox[i].kind \in {"open", "change"} => inbox[i].snap.text # NoText

RightPrelude ==
    krate.root # NoRoot =>
        IF krate.root \in PreludeDocs
        THEN krate.root \in krate.files /\ Prelude \notin krate.files
        ELSE Prelude \in krate.files

LEMMA TextsPresentStep ==
    ASSUME TypeOK, TextsPresent, [Next]_vars
    PROVE  TextsPresent'
  <1>1. ASSUME NEW kind \in WriteKind \cup {"goto", "format"}, NEW d \in Docs,
               NEW s \in Snapshot, Sends(kind, d, s),
               kind \in {"open", "change"} => s.text # NoText
        PROVE  TextsPresent'
    <2> DEFINE m == [kind |-> kind, doc |-> d, snap |-> s]
    <2>1. m \in Incoming /\ m.kind = kind /\ m.snap = s
      BY DEF Incoming
    <2>2. inbox' = Append(inbox, m)
      BY <1>1 DEF Sends
    <2> HIDE DEF m
    <2>3. \A i \in 1 .. Len(inbox') :
             (i \in 1 .. Len(inbox) /\ inbox'[i] = inbox[i]) \/ inbox'[i] = m
      BY <2>1, <2>2, AddLast DEF TypeOK
    <2> QED
      BY <1>1, <2>1, <2>3 DEF TextsPresent
  <1>2. CASE Edits
    <2>1. PICK kind \in WriteKind, d \in Docs, t \in Texts \cup {NoText} :
             /\ kind \in {"open", "change"} => t \in Texts
             /\ Writes(kind, d, t)
      BY <1>2 DEF Edits
    <2> DEFINE s == [ver |-> buffers[d].ver + 1, text |-> t]
    <2>2. s \in Snapshot /\ s.text = t
      BY DEF TypeOK, Snapshot
    <2>3. Sends(kind, d, s)
      BY <2>1 DEF Writes
    <2>4. kind \in {"open", "change"} => s.text # NoText
      BY <2>1, <2>2, TextsAssumption
    <2> HIDE DEF s
    <2> QED
      BY <1>1, <2>2, <2>3, <2>4
  <1>3. ASSUME NEW d \in Docs, EditorAsks(d) PROVE TextsPresent'
    BY <1>1, <1>3, NeverIsASnapshot, RequestsAssumption DEF EditorAsks
  <1>4. ASSUME inbox # <<>>, inbox' = Tail(inbox) PROVE TextsPresent'
    BY <1>4, TakeFirst DEF TextsPresent, TypeOK
  <1>5. CASE Finishes \/ GotoDefinition \/ Formatting \/ FormattingRefused
    BY <1>4, <1>5, FinishesFacts
    DEF GotoDefinition, Formatting, FormattingRefused, Handles, MayStart
  <1>6. CASE Blocks \/ Resume \/ Deliver \/ UNCHANGED vars
    BY <1>6 DEF Blocks, Resume, Deliver, vars, TextsPresent
  <1> QED
    BY <1>2, <1>3, <1>5, <1>6, StepIsOneOf

LEMMA OverlayPrelude ==
    ASSUME vfs \in [Paths -> Snapshot], NEW d \in Docs, NEW s \in Snapshot,
           s.text # NoText, Adopt(Overlay(d, s))
    PROVE  RightPrelude'
  <1> DEFINE a == Overlay(d, s)
  <1>1. /\ a.vfs[d] = s
        /\ d \notin PreludeDocs => a.vfs[Prelude].text = Prelude
        /\ a.krate = [root |-> d, files |-> FilesOf(a.vfs, d)]
    BY OverlayFacts
  <1>2. krate' = a.krate
    BY DEF Adopt
  <1> HIDE DEF a
  <1>3. Prelude # NoText /\ d \in Paths /\ Prelude \in Paths /\ d # Prelude
    BY DocsAssumption DEF Prelude, NoText, Paths
  <1> QED
    BY <1>1, <1>2, <1>3 DEF RightPrelude, FilesOf, Known

LEMMA RightPreludeStep ==
    ASSUME TypeOK, TextsPresent, RightPrelude, [Next]_vars
    PROVE  RightPrelude'
  <1>1. ASSUME UNCHANGED krate PROVE RightPrelude'
    BY <1>1 DEF RightPrelude
  <1>2. CASE Edits \/ \E d \in Docs : EditorAsks(d)
    BY <1>1, <1>2 DEF Edits, Writes, EditorAsks, Sends, engine
  <1>3. CASE DidOpen \/ DidChange
    <2> DEFINE m == Head(inbox)
    <2>1. Publish(m.doc, m.snap) /\ m.kind \in {"open", "change"} /\ inbox # <<>>
      BY <1>3 DEF DidOpen, DidChange, HandlesWrite, Handles, MayStart
    <2>2. m \in Incoming /\ m.snap.text # NoText
      BY <2>1, TakeFirst DEF TypeOK, TextsPresent
    <2>3. m.doc \in Docs /\ m.snap \in Snapshot
      BY <2>2 DEF Incoming
    <2>4. UNCHANGED engine \/ Adopt(Overlay(m.doc, m.snap))
      BY <2>1 DEF Publish
    <2> HIDE DEF m
    <2>5. vfs \in [Paths -> Snapshot]
      BY DEF TypeOK
    <2>6. CASE UNCHANGED engine
      BY <1>1, <2>6 DEF engine
    <2>7. CASE Adopt(Overlay(m.doc, m.snap))
      BY <2>2, <2>3, <2>5, <2>7, OverlayPrelude
    <2> QED
      BY <2>4, <2>6, <2>7
  <1>4. CASE DidClose \/ Formatting \/ FormattingRefused \/ Blocks \/ Resume \/ Deliver
    BY <1>1, <1>4 DEF DidClose, Formatting, FormattingRefused, Blocks, Resume, Deliver, engine
  <1>5. CASE GotoDefinition
    <2> DEFINE d == Head(inbox).doc
    <2>1. /\ inbox # <<>>
          /\ IF documents[d].text = NoText THEN UNCHANGED engine
             ELSE Adopt(Overlay(d, documents[d]))
      BY <1>5 DEF GotoDefinition, Handles, MayStart
    <2>2. d \in Docs
      <3>1. Head(inbox) \in Incoming
        BY <2>1, TakeFirst DEF TypeOK
      <3> QED
        BY <3>1 DEF Incoming
    <2> HIDE DEF d
    <2>3. vfs \in [Paths -> Snapshot] /\ documents[d] \in Snapshot
      BY <2>2 DEF TypeOK
    <2>4. CASE documents[d].text = NoText
      BY <1>1, <2>1, <2>4 DEF engine
    <2>5. CASE documents[d].text # NoText
      BY <2>1, <2>2, <2>3, <2>5, OverlayPrelude
    <2> QED
      BY <2>4, <2>5
  <1>6. CASE UNCHANGED vars
    BY <1>1, <1>6 DEF vars, engine
  <1> QED
    BY <1>2, <1>3, <1>4, <1>5, <1>6, StepIsOneOf DEF Finishes

(* A crate has the bundled prelude, or is itself rooted in one, and never  *)
(* both, whatever the session analysed before.                             *)
THEOREM PreludeIsUnique == Spec => []OnePrelude
  <1>1. Init => TextsPresent /\ RightPrelude
    BY DEF Init, TextsPresent, RightPrelude
  <1>2. TypeOK /\ TextsPresent /\ RightPrelude /\ [Next]_vars
          => TextsPresent' /\ RightPrelude'
    BY TextsPresentStep, RightPreludeStep
  <1>3. TypeOK /\ RightPrelude => OnePrelude
    <2> SUFFICES ASSUME TypeOK, RightPrelude, krate.root # NoRoot
                 PROVE  Cardinality({p \in krate.files :
                            p = Prelude \/ p \in {krate.root} \cap PreludeDocs}) = 1
      BY DEF OnePrelude
    <2> DEFINE preludes == {p \in krate.files :
                              p = Prelude \/ p \in {krate.root} \cap PreludeDocs}
    <2>1. CASE krate.root \in PreludeDocs
      <3>1. preludes = {krate.root}
        BY <2>1 DEF RightPrelude
      <3> QED
        BY <3>1, FS_Singleton
    <2>2. CASE krate.root \notin PreludeDocs
      <3>1. preludes = {Prelude}
        BY <2>2 DEF RightPrelude
      <3> QED
        BY <3>1, FS_Singleton
    <2> QED
      BY <2>1, <2>2
  <1> QED
    BY <1>1, <1>2, <1>3, TypeCorrect, PTL DEF Spec

----------------------------------------------------------------------------
(* Nothing is lost between the buffers, the documents and the screen. *)

LEMMA LastAppend ==
    ASSUME NEW S, NEW s \in Seq(S), NEW e \in S, NEW d, NEW kinds,
           e.doc = d, e.kind \in kinds
    PROVE  \E i \in 1 .. Len(Append(s, e)) :
                IsLast(i, Append(s, e), d, kinds) /\ Append(s, e)[i] = e
  <1>1. Len(s) + 1 \in 1 .. Len(Append(s, e)) /\ Append(s, e)[Len(s) + 1] = e
    BY AddLast
  <1>2. IsLast(Len(s) + 1, Append(s, e), d, kinds)
    BY <1>1, AddLast DEF About, IsLast
  <1> QED
    BY <1>1, <1>2

LEMMA AboutAppend ==
    ASSUME NEW S, NEW s \in Seq(S), NEW e \in S, NEW d, NEW kinds
    PROVE  /\ ~(e.doc = d /\ e.kind \in kinds) =>
                About(Append(s, e), d, kinds) = About(s, d, kinds)
           /\ \A i \in 1 .. Len(s) : /\ i \in 1 .. Len(Append(s, e))
                                     /\ Append(s, e)[i] = s[i]
  BY AddLast DEF About, IsLast

LEMMA AboutTail ==
    ASSUME NEW S, NEW s \in Seq(S), s # <<>>, NEW d, NEW kinds
    PROVE  /\ About(s, d, kinds) = {} => About(Tail(s), d, kinds) = {}
           /\ \A i \in 2 .. Len(s) : IsLast(i, s, d, kinds) =>
                /\ i - 1 \in 1 .. Len(Tail(s))
                /\ IsLast(i - 1, Tail(s), d, kinds)
                /\ Tail(s)[i - 1] = s[i]
           /\ IsLast(1, s, d, kinds) =>
                /\ About(Tail(s), d, kinds) = {}
                /\ s[1].doc = d /\ s[1].kind \in kinds
  <1>1. /\ Tail(s) \in Seq(S) /\ Len(s) \in Nat \ {0} /\ Len(Tail(s)) = Len(s) - 1
        /\ \A i \in 1 .. Len(Tail(s)) : i + 1 \in 2 .. Len(s) /\ Tail(s)[i] = s[i + 1]
    BY TakeFirst
  <1>2. \A i \in 2 .. Len(s) : i - 1 \in 1 .. Len(Tail(s)) /\ Tail(s)[i - 1] = s[i]
    BY <1>1
  <1>3. \A j : j \in About(Tail(s), d, kinds) <=>
                 j \in 1 .. Len(Tail(s)) /\ j + 1 \in About(s, d, kinds)
    BY <1>1 DEF About
  <1>4. About(s, d, kinds) = {} => About(Tail(s), d, kinds) = {}
    BY <1>3
  <1>5. ASSUME NEW i \in 2 .. Len(s), IsLast(i, s, d, kinds)
        PROVE  IsLast(i - 1, Tail(s), d, kinds)
    BY <1>1, <1>2, <1>3, <1>5 DEF IsLast
  <1>6. ASSUME IsLast(1, s, d, kinds)
        PROVE  About(Tail(s), d, kinds) = {} /\ s[1].doc = d /\ s[1].kind \in kinds
    <2>1. \A j \in 1 .. Len(Tail(s)) : ~(j + 1 <= 1)
      BY <1>1
    <2> QED
      BY <1>3, <1>6, <2>1 DEF IsLast, About
  <1> QED
    BY <1>2, <1>4, <1>5, <1>6

LEMMA BuffersInStepStep ==
    ASSUME TypeOK, BuffersInStep, [Next]_vars
    PROVE  BuffersInStep'
  <1>1. CASE Edits
    <2>1. PICK kind \in WriteKind, d \in Docs, t \in Texts \cup {NoText} :
             Writes(kind, d, t)
      BY <1>1 DEF Edits
    <2> DEFINE s == [ver |-> buffers[d].ver + 1, text |-> t]
               m == [kind |-> kind, doc |-> d, snap |-> s]
    <2>2. s \in Snapshot
      BY DEF TypeOK, Snapshot
    <2>3. m \in Incoming /\ m.doc = d /\ m.kind \in WriteKind /\ m.snap = s
      BY <2>2 DEF Incoming
    <2>4. /\ buffers' = [buffers EXCEPT ![d] = s] /\ inbox' = Append(inbox, m)
          /\ documents' = documents
      BY <2>1 DEF Writes, Sends
    <2>5. inbox \in Seq(Incoming) /\ buffers \in [Docs -> Snapshot]
      BY DEF TypeOK
    <2> HIDE DEF s, m
    <2>6. BufferInStep(d)'
      <3>1. PICK i \in 1 .. Len(Append(inbox, m)) :
               IsLast(i, Append(inbox, m), d, WriteKind) /\ Append(inbox, m)[i] = m
        BY <2>3, <2>5, LastAppend
      <3>2. i \in 1 .. Len(inbox') /\ IsLast(i, inbox', d, WriteKind) /\ inbox'[i] = m
        BY <2>4, <3>1, Zenon
      <3>3. buffers'[d] = inbox'[i].snap
        BY <2>3, <2>4, <2>5, <3>2
      <3> QED
        BY <3>2, <3>3 DEF BufferInStep
    <2>7. ASSUME NEW e \in Docs \ {d} PROVE BufferInStep(e)'
      <3>1. About(inbox', e, WriteKind) = About(inbox, e, WriteKind)
        BY <2>3, <2>4, <2>5, AboutAppend
      <3>2. \A i \in 1 .. Len(inbox) : i \in 1 .. Len(inbox') /\ inbox'[i] = inbox[i]
        BY <2>3, <2>4, <2>5, AboutAppend
      <3> QED
        BY <2>4, <2>5, <3>1, <3>2 DEF BuffersInStep, BufferInStep, IsLast
    <2> QED
      BY <2>6, <2>7 DEF BuffersInStep
  <1>2. ASSUME NEW d \in Docs, EditorAsks(d) PROVE BuffersInStep'
    <2>1. PICK kind \in {"goto", "format"} : Sends(kind, d, Never) /\ UNCHANGED buffers
      BY <1>2, RequestsAssumption DEF EditorAsks
    <2> DEFINE m == [kind |-> kind, doc |-> d, snap |-> Never]
    <2>2. m \in Incoming /\ m.kind \notin WriteKind
      BY NeverIsASnapshot DEF Incoming, WriteKind
    <2>3. inbox' = Append(inbox, m) /\ UNCHANGED <<buffers, documents>>
      BY <2>1 DEF Sends
    <2> HIDE DEF m
    <2>4. inbox \in Seq(Incoming)
      BY DEF TypeOK
    <2>5. \A e \in Docs : About(inbox', e, WriteKind) = About(inbox, e, WriteKind)
      BY <2>2, <2>3, <2>4, AboutAppend
    <2>6. \A i \in 1 .. Len(inbox) : i \in 1 .. Len(inbox') /\ inbox'[i] = inbox[i]
      BY <2>2, <2>3, <2>4, AboutAppend
    <2> QED
      BY <2>3, <2>5, <2>6 DEF BuffersInStep, BufferInStep, IsLast
  <1>3. ASSUME inbox # <<>>, inbox' = Tail(inbox), UNCHANGED buffers, NEW d \in Docs,
               Head(inbox).doc = d /\ Head(inbox).kind \in WriteKind
                  => documents'[d] = Head(inbox).snap,
               ~(Head(inbox).doc = d /\ Head(inbox).kind \in WriteKind)
                  => documents'[d] = documents[d]
        PROVE  BufferInStep(d)'
    <2>1. inbox \in Seq(Incoming) /\ Len(inbox) \in Nat
      BY DEF TypeOK
    <2>2. Head(inbox) = inbox[1]
      BY <1>3, <2>1, TakeFirst
    <2>3. CASE About(inbox, d, WriteKind) = {}
      <3>1. About(inbox', d, WriteKind) = {}
        BY <1>3, <2>1, <2>3, AboutTail
      <3>2. 1 \in 1 .. Len(inbox)
        BY <1>3, <2>1, TakeFirst
      <3>3. ~(Head(inbox).doc = d /\ Head(inbox).kind \in WriteKind)
        BY <2>2, <2>3, <3>2 DEF About
      <3>4. buffers[d] = documents[d]
        BY <2>3 DEF BuffersInStep, BufferInStep, IsLast
      <3> QED
        BY <1>3, <3>1, <3>3, <3>4 DEF BufferInStep
    <2>4. ASSUME NEW i \in 1 .. Len(inbox), IsLast(i, inbox, d, WriteKind),
                 buffers[d] = inbox[i].snap
          PROVE  BufferInStep(d)'
      <3>1. CASE i = 1
        BY <1>3, <2>1, <2>2, <2>4, <3>1, AboutTail DEF BufferInStep
      <3>2. CASE i # 1
        <4>1. i \in 2 .. Len(inbox)
          BY <3>2, <2>1
        <4>2. /\ i - 1 \in 1 .. Len(inbox')
              /\ IsLast(i - 1, inbox', d, WriteKind)
              /\ inbox'[i - 1] = inbox[i]
          BY <1>3, <2>1, <2>4, <4>1, AboutTail
        <4>3. buffers'[d] = inbox'[i - 1].snap
          BY <1>3, <2>4, <4>2
        <4> QED
          BY <4>2, <4>3 DEF BufferInStep
      <3> QED
        BY <3>1, <3>2
    <2> QED
      BY <2>3, <2>4 DEF BuffersInStep, BufferInStep
  <1>4. CASE Finishes
    <2> DEFINE m == Head(inbox)
    <2>1. /\ MayStart /\ m \in Incoming /\ m.kind \in WriteKind
          /\ inbox' = Tail(inbox) /\ UNCHANGED buffers
          /\ documents' = [documents EXCEPT ![m.doc] = m.snap]
      BY <1>4, FinishesFacts
    <2>2. m.doc \in Docs /\ documents \in [Docs -> Snapshot] /\ inbox # <<>>
      BY <2>1 DEF Incoming, TypeOK, MayStart
    <2> QED
      BY <1>3, <2>1, <2>2 DEF BuffersInStep
  <1>5. CASE GotoDefinition \/ Formatting \/ FormattingRefused
    <2>1. /\ inbox # <<>> /\ inbox' = Tail(inbox) /\ UNCHANGED <<buffers, documents>>
          /\ Head(inbox).kind \notin WriteKind
      BY <1>5 DEF GotoDefinition, Formatting, FormattingRefused, Handles, MayStart, WriteKind
    <2> QED
      BY <1>3, <2>1 DEF BuffersInStep
  <1>6. CASE Blocks \/ Resume \/ Deliver \/ UNCHANGED vars
    BY <1>6 DEF Blocks, Resume, Deliver, vars, editor, BuffersInStep, BufferInStep
  <1> QED
    BY <1>1, <1>2, <1>4, <1>5, <1>6, StepIsOneOf

(* The server's documents and the messages on their way always amount to   *)
(* the editor's buffers.                                                   *)
THEOREM BuffersKeptInStep == Spec => []BuffersInStep
  <1>1. Init => BuffersInStep
    BY DEF Init, BuffersInStep, BufferInStep, About
  <1>2. TypeOK /\ BuffersInStep /\ [Next]_vars => BuffersInStep'
    BY BuffersInStepStep
  <1> QED
    BY <1>1, <1>2, TypeCorrect, PTL DEF Spec

(* A step of the outgoing channel: one diagnostics joins it, or one that   *)
(* is none, or its first leaves.                                           *)
LEMMA ScreenPosts ==
    ASSUME TypeOK, DiagnosticsInStep,
           NEW d \in Docs, NEW diags \in Diagnostics,
           outbox' = Append(outbox, [kind |-> "diagnostics", doc |-> d, diags |-> diags]),
           documents' = [documents EXCEPT ![d] = diags.of],
           shown' = shown
    PROVE  DiagnosticsInStep'
  <1> DEFINE m == [kind |-> "diagnostics", doc |-> d, diags |-> diags]
  <1>1. /\ m \in Outgoing /\ m.doc = d /\ m.diags = diags
        /\ m.kind \in {"diagnostics"}
    BY DEF Outgoing
  <1>2. outbox \in Seq(Outgoing) /\ documents \in [Docs -> Snapshot]
    BY DEF TypeOK
  <1>3. outbox' = Append(outbox, m)
    OBVIOUS
  <1> HIDE DEF m
  <1>4. ScreenInStep(d)'
    <2>1. PICK i \in 1 .. Len(Append(outbox, m)) :
             /\ IsLast(i, Append(outbox, m), d, {"diagnostics"})
             /\ Append(outbox, m)[i] = m
      BY <1>1, <1>2, LastAppend
    <2>2. /\ i \in 1 .. Len(outbox')
          /\ IsLast(i, outbox', d, {"diagnostics"})
          /\ outbox'[i] = m
      BY <1>3, <2>1, Zenon
    <2>3. documents'[d] = outbox'[i].diags.of
      BY <1>1, <1>2, <2>2
    <2> QED
      BY <2>2, <2>3 DEF ScreenInStep
  <1>5. ASSUME NEW e \in Docs \ {d} PROVE ScreenInStep(e)'
    <2>1. About(outbox', e, {"diagnostics"}) = About(outbox, e, {"diagnostics"})
      BY <1>1, <1>2, <1>3, AboutAppend
    <2>2. \A i \in 1 .. Len(outbox) : i \in 1 .. Len(outbox') /\ outbox'[i] = outbox[i]
      BY <1>1, <1>2, <1>3, AboutAppend
    <2> QED
      BY <1>2, <2>1, <2>2 DEF DiagnosticsInStep, ScreenInStep, IsLast
  <1> QED
    BY <1>4, <1>5 DEF DiagnosticsInStep

LEMMA ScreenDelivers ==
    ASSUME TypeOK, DiagnosticsInStep, Deliver, NEW d \in Docs
    PROVE  ScreenInStep(d)'
  <1>1. outbox \in Seq(Outgoing) /\ Len(outbox) \in Nat /\ shown \in [Docs -> Diagnostics]
    BY DEF TypeOK
  <1>2. /\ outbox # <<>> /\ outbox' = Tail(outbox) /\ documents' = documents
        /\ shown' = IF outbox[1].kind = "diagnostics"
                    THEN [shown EXCEPT ![outbox[1].doc] = outbox[1].diags]
                    ELSE shown
    BY <1>1, TakeFirst DEF Deliver
  <1>3. 1 \in 1 .. Len(outbox)
    BY <1>1, <1>2, TakeFirst
  <1>4. CASE About(outbox, d, {"diagnostics"}) = {}
    <2>1. About(outbox', d, {"diagnostics"}) = {}
      BY <1>1, <1>2, <1>4, AboutTail
    <2>2. ~(outbox[1].doc = d /\ outbox[1].kind = "diagnostics")
      BY <1>3, <1>4 DEF About
    <2>3. documents[d] = shown[d].of
      BY <1>4 DEF DiagnosticsInStep, ScreenInStep, IsLast
    <2>4. shown'[d] = shown[d]
      BY <1>1, <1>2, <2>2
    <2> QED
      BY <1>2, <2>1, <2>3, <2>4 DEF ScreenInStep
  <1>5. ASSUME NEW i \in 1 .. Len(outbox), IsLast(i, outbox, d, {"diagnostics"}),
               documents[d] = outbox[i].diags.of
        PROVE  ScreenInStep(d)'
    <2>1. CASE i = 1
      <3>1. /\ About(outbox', d, {"diagnostics"}) = {}
            /\ outbox[1].doc = d /\ outbox[1].kind = "diagnostics"
        BY <1>1, <1>2, <1>5, <2>1, AboutTail
      <3>2. shown'[d] = outbox[1].diags
        BY <1>1, <1>2, <3>1
      <3> QED
        BY <1>2, <1>5, <2>1, <3>1, <3>2 DEF ScreenInStep
    <2>2. CASE i # 1
      <3>1. i \in 2 .. Len(outbox)
        BY <1>1, <2>2
      <3>2. /\ i - 1 \in 1 .. Len(outbox')
            /\ IsLast(i - 1, outbox', d, {"diagnostics"})
            /\ outbox'[i - 1] = outbox[i]
        BY <1>1, <1>2, <1>5, <3>1, AboutTail
      <3>3. documents'[d] = outbox'[i - 1].diags.of
        BY <1>2, <1>5, <3>2
      <3> QED
        BY <3>2, <3>3 DEF ScreenInStep
    <2> QED
      BY <2>1, <2>2
  <1> QED
    BY <1>4, <1>5 DEF DiagnosticsInStep, ScreenInStep

LEMMA DiagnosticsInStepStep ==
    ASSUME TypeOK, DiagnosticsInStep, [Next]_vars
    PROVE  DiagnosticsInStep'
  <1>1. ASSUME UNCHANGED <<outbox, shown, documents>> PROVE DiagnosticsInStep'
    BY <1>1 DEF DiagnosticsInStep, ScreenInStep
  <1>2. CASE Edits
    BY <1>1, <1>2 DEF Edits, Writes, Sends
  <1>3. CASE \E d \in Docs : EditorAsks(d)
    BY <1>1, <1>3 DEF EditorAsks, Sends
  <1>4. CASE Finishes
    <2> DEFINE m == Head(inbox)
    <2>1. PICK diags \in Diagnostics :
             diags.of = m.snap /\ Post("diagnostics", m.doc, diags, FALSE)
      BY <1>4, FinishesFacts
    <2>2. /\ m \in Incoming /\ documents' = [documents EXCEPT ![m.doc] = m.snap]
          /\ shown' = shown
      BY <1>4, FinishesFacts
    <2> HIDE DEF m
    <2>3. m.doc \in Docs
      BY <2>2 DEF Incoming
    <2>4. outbox' = Append(outbox, [kind |-> "diagnostics", doc |-> m.doc, diags |-> diags])
      BY <2>1 DEF Post
    <2> QED
      BY <2>1, <2>2, <2>3, <2>4, ScreenPosts
  <1>5. CASE GotoDefinition \/ Formatting \/ Blocks \/ Resume \/ UNCHANGED vars
    <2>1. CASE GotoDefinition \/ Formatting
      BY <1>1, <2>1 DEF GotoDefinition, Formatting, Handles
    <2>2. CASE Blocks \/ Resume
      BY <1>1, <2>2 DEF Blocks, Resume, editor
    <2>3. CASE UNCHANGED vars
      BY <1>1, <2>3 DEF vars, editor
    <2> QED
      BY <1>5, <2>1, <2>2, <2>3
  <1>6. CASE FormattingRefused
    <2> DEFINE d == Head(inbox).doc
               m == [kind |-> "message", doc |-> d, diags |-> [of |-> Never, seen |-> Unseen]]
    <2>1. inbox # <<>> /\ inbox \in Seq(Incoming) /\ outbox \in Seq(Outgoing)
      <3>1. Handles({"format"})
        BY <1>6 DEF FormattingRefused
      <3> QED
        BY <3>1 DEF Handles, MayStart, TypeOK
    <2>2. d \in Docs
      <3>1. Head(inbox) \in Incoming
        BY <2>1, TakeFirst
      <3> QED
        BY <3>1 DEF Incoming
    <2>3. /\ outbox' = Append(outbox, m) /\ UNCHANGED <<shown, documents>>
      BY <1>6 DEF FormattingRefused, Handles, Post
    <2> HIDE DEF d
    <2>4. m \in Outgoing /\ m.kind \notin {"diagnostics"}
      BY <2>2, NeverIsASnapshot DEF Outgoing, Diagnostics
    <2> HIDE DEF m
    <2>5. \A e \in Docs :
             About(outbox', e, {"diagnostics"}) = About(outbox, e, {"diagnostics"})
      BY <2>1, <2>3, <2>4, AboutAppend
    <2>6. \A i \in 1 .. Len(outbox) : i \in 1 .. Len(outbox') /\ outbox'[i] = outbox[i]
      BY <2>1, <2>3, <2>4, AboutAppend
    <2> QED
      BY <2>3, <2>5, <2>6 DEF DiagnosticsInStep, ScreenInStep, IsLast
  <1>7. CASE Deliver
    BY <1>7, ScreenDelivers DEF DiagnosticsInStep
  <1> QED
    BY <1>2, <1>3, <1>4, <1>5, <1>6, <1>7, StepIsOneOf

(* Whatever the order of edits, sends and closes, the diagnostics shown    *)
(* and those on their way amount to those of the server's documents.       *)
THEOREM DiagnosticsKeptInStep == Spec => []DiagnosticsInStep
  <1>1. Init => DiagnosticsInStep
    BY DEF Init, DiagnosticsInStep, ScreenInStep, About
  <1>2. TypeOK /\ DiagnosticsInStep /\ [Next]_vars => DiagnosticsInStep'
    BY DiagnosticsInStepStep
  <1> QED
    BY <1>1, <1>2, TypeCorrect, PTL DEF Spec

(* Editor, server and screen are in step but for what is on its way.       *)
THEOREM DocumentsKeptInStep == Spec => []DocumentsInStep
  BY BuffersKeptInStep, DiagnosticsKeptInStep, PTL DEF DocumentsInStep

----------------------------------------------------------------------------
(* The server implements the editor's view: versions never decrease on the *)
(* way from a buffer to the screen.                                        *)

(* The versions v of the messages of s about d rise from lo to hi. *)
Rises(s, d, kinds, v, lo, hi) ==
    /\ lo <= hi
    /\ \A i \in About(s, d, kinds) : lo <= v[i] /\ v[i] <= hi
    /\ \A i, j \in About(s, d, kinds) : i <= j => v[i] <= v[j]

InboxVersions  == [i \in 1 .. Len(inbox) |-> inbox[i].snap.ver]
OutboxVersions == [i \in 1 .. Len(outbox) |-> outbox[i].diags.of.ver]

EditsRise(d) ==
    Rises(inbox, d, WriteKind, InboxVersions, documents[d].ver, buffers[d].ver)
ReportsRise(d) ==
    Rises(outbox, d, {"diagnostics"}, OutboxVersions,
          shown[d].of.ver, documents[d].ver)

InOrder == \A d \in Docs : EditsRise(d) /\ ReportsRise(d)

LEMMA RisesAppend ==
    ASSUME NEW S, NEW s \in Seq(S), NEW e \in S, NEW d, NEW kinds,
           NEW lo \in Nat, NEW hi \in Nat, NEW top \in Nat,
           NEW v \in [1 .. Len(s) -> Nat],
           NEW w \in [1 .. Len(Append(s, e)) -> Nat],
           \A i \in 1 .. Len(s) : w[i] = v[i],
           Rises(s, d, kinds, v, lo, hi),
           hi <= top,
           e.doc = d /\ e.kind \in kinds => w[Len(s) + 1] = top
    PROVE  Rises(Append(s, e), d, kinds, w, lo, top)
  <1>1. Len(s) \in Nat /\ Len(Append(s, e)) = Len(s) + 1
    BY AddLast
  <1>2. /\ \A i \in About(s, d, kinds) : lo <= v[i] /\ v[i] <= hi
        /\ \A i, j \in About(s, d, kinds) : i <= j => v[i] <= v[j]
        /\ lo <= hi
    BY DEF Rises
  <1>3. \A i \in About(Append(s, e), d, kinds) :
           \/ i \in About(s, d, kinds) /\ i \in 1 .. Len(s) /\ w[i] = v[i] /\ v[i] \in Nat
           \/ i = Len(s) + 1 /\ w[i] = top
    <2> SUFFICES ASSUME NEW i \in About(Append(s, e), d, kinds)
                 PROVE  \/ /\ i \in About(s, d, kinds) /\ i \in 1 .. Len(s)
                           /\ w[i] = v[i] /\ v[i] \in Nat
                        \/ i = Len(s) + 1 /\ w[i] = top
      OBVIOUS
    <2>1. /\ i \in 1 .. Len(s) + 1
          /\ Append(s, e)[i].doc = d /\ Append(s, e)[i].kind \in kinds
      BY <1>1 DEF About
    <2>2. CASE i = Len(s) + 1
      BY <2>1, <2>2, AddLast
    <2>3. CASE i # Len(s) + 1
      <3>1. i \in 1 .. Len(s)
        BY <1>1, <2>1, <2>3
      <3>2. Append(s, e)[i] = s[i]
        BY <3>1, AddLast
      <3> QED
        BY <2>1, <3>1, <3>2 DEF About
    <2> QED
      BY <2>2, <2>3
  <1>4. \A i \in About(Append(s, e), d, kinds) : lo <= w[i] /\ w[i] <= top
    BY <1>2, <1>3
  <1>5. ASSUME NEW i \in About(Append(s, e), d, kinds),
               NEW j \in About(Append(s, e), d, kinds), i <= j
        PROVE  w[i] <= w[j]
    <2>1. CASE j = Len(s) + 1 /\ w[j] = top
      BY <1>4, <2>1
    <2>2. CASE j \in About(s, d, kinds) /\ j \in 1 .. Len(s) /\ w[j] = v[j]
      <3>1. i \in About(s, d, kinds) /\ w[i] = v[i]
        BY <1>1, <1>3, <1>5, <2>2
      <3> QED
        BY <1>2, <1>5, <2>2, <3>1
    <2> QED
      BY <1>3, <2>1, <2>2
  <1>6. lo <= top
    BY <1>2
  <1> QED
    BY <1>4, <1>5, <1>6 DEF Rises

LEMMA RisesTail ==
    ASSUME NEW S, NEW s \in Seq(S), s # <<>>, NEW v \in [1 .. Len(s) -> Nat]
    PROVE  \A d, kinds : \A lo, hi, low \in Nat :
              /\ Rises(s, d, kinds, v, lo, hi)
              /\ s[1].doc = d /\ s[1].kind \in kinds => low = v[1]
              /\ ~(s[1].doc = d /\ s[1].kind \in kinds) => low = lo
              => /\ Rises(Tail(s), d, kinds, [i \in 1 .. Len(Tail(s)) |-> v[i + 1]],
                          low, hi)
                 /\ lo <= low
  <1> DEFINE w == [i \in 1 .. Len(Tail(s)) |-> v[i + 1]]
  <1> SUFFICES ASSUME NEW d, NEW kinds, NEW lo \in Nat, NEW hi \in Nat, NEW low \in Nat,
                      Rises(s, d, kinds, v, lo, hi),
                      s[1].doc = d /\ s[1].kind \in kinds => low = v[1],
                      ~(s[1].doc = d /\ s[1].kind \in kinds) => low = lo
               PROVE  Rises(Tail(s), d, kinds, w, low, hi) /\ lo <= low
    OBVIOUS
  <1>1. /\ Len(s) \in Nat \ {0} /\ Len(Tail(s)) = Len(s) - 1
        /\ \A i \in 1 .. Len(Tail(s)) : i + 1 \in 2 .. Len(s) /\ Tail(s)[i] = s[i + 1]
    BY TakeFirst
  <1>2. /\ \A i \in About(s, d, kinds) : lo <= v[i] /\ v[i] <= hi
        /\ \A i, j \in About(s, d, kinds) : i <= j => v[i] <= v[j]
        /\ lo <= hi
    BY DEF Rises
  <1>3. \A i \in About(Tail(s), d, kinds) :
           /\ i \in Nat /\ 1 <= i + 1 /\ i + 1 \in About(s, d, kinds)
           /\ w[i] = v[i + 1]
    BY <1>1 DEF About
  <1> HIDE DEF w
  <1>4. lo <= low /\ low <= hi /\ \A i \in About(Tail(s), d, kinds) : low <= v[i + 1]
    <2>1. CASE s[1].doc = d /\ s[1].kind \in kinds
      <3>1. 1 \in About(s, d, kinds) /\ low = v[1]
        BY <1>1, <2>1 DEF About
      <3> QED
        BY <1>2, <1>3, <3>1
    <2>2. CASE ~(s[1].doc = d /\ s[1].kind \in kinds)
      <3>1. low = lo
        BY <2>2
      <3> QED
        BY <1>2, <1>3, <3>1
    <2> QED
      BY <2>1, <2>2
  <1>5. \A i, j \in About(Tail(s), d, kinds) : i <= j => w[i] <= w[j]
    BY <1>2, <1>3
  <1> QED
    BY <1>2, <1>3, <1>4, <1>5 DEF Rises

VersionsOK ==
    /\ InboxVersions \in [1 .. Len(inbox) -> Nat]
    /\ OutboxVersions \in [1 .. Len(outbox) -> Nat]
    /\ \A d \in Docs : /\ buffers[d].ver \in Nat
                       /\ documents[d].ver \in Nat
                       /\ shown[d].of.ver \in Nat

LEMMA VersionTypes == TypeOK => VersionsOK
  <1> SUFFICES ASSUME TypeOK PROVE VersionsOK
    OBVIOUS
  <1>1. \A i \in 1 .. Len(inbox) : inbox[i].snap.ver \in Nat
    <2>1. \A i \in 1 .. Len(inbox) : inbox[i] \in Incoming
      BY DEF TypeOK
    <2> QED
      BY <2>1 DEF Incoming, Snapshot
  <1>2. \A i \in 1 .. Len(outbox) : outbox[i].diags.of.ver \in Nat
    <2>1. \A i \in 1 .. Len(outbox) : outbox[i] \in Outgoing
      BY DEF TypeOK
    <2> QED
      BY <2>1 DEF Outgoing, Diagnostics, Snapshot
  <1>3. ASSUME NEW d \in Docs
        PROVE  /\ buffers[d].ver \in Nat
               /\ documents[d].ver \in Nat
               /\ shown[d].of.ver \in Nat
    <2>1. /\ buffers[d] \in Snapshot /\ documents[d] \in Snapshot
          /\ shown[d] \in Diagnostics
      BY DEF TypeOK
    <2> QED
      BY <2>1 DEF Diagnostics, Snapshot
  <1> QED
    BY <1>1, <1>2, <1>3 DEF VersionsOK, InboxVersions, OutboxVersions

LEMMA VersionTypesNext == TypeOK' => VersionsOK'
  BY VersionTypes, PTL

(* A message that joins the inbox is no older than the buffer was. *)
LEMMA EditsRiseAppend ==
    ASSUME TypeOK, TypeOK', NEW d \in Docs, EditsRise(d),
           NEW m \in Incoming, inbox' = Append(inbox, m),
           documents'[d] = documents[d],
           buffers[d].ver <= buffers'[d].ver,
           m.doc = d /\ m.kind \in WriteKind => buffers'[d].ver = m.snap.ver
    PROVE  EditsRise(d)'
  <1> DEFINE w == [i \in 1 .. Len(Append(inbox, m)) |-> Append(inbox, m)[i].snap.ver]
  <1>1. inbox \in Seq(Incoming)
    BY DEF TypeOK
  <1>2. /\ InboxVersions \in [1 .. Len(inbox) -> Nat]
        /\ buffers[d].ver \in Nat /\ documents[d].ver \in Nat /\ buffers'[d].ver \in Nat
    BY VersionTypes, VersionTypesNext DEF VersionsOK
  <1>3. InboxVersions' \in [1 .. Len(inbox') -> Nat]
    BY VersionTypes, VersionTypesNext DEF VersionsOK
  <1>4. InboxVersions' = w
    BY DEF InboxVersions
  <1>5. w \in [1 .. Len(Append(inbox, m)) -> Nat]
    BY <1>3, <1>4, Zenon
  <1>6. \A i \in 1 .. Len(inbox) : w[i] = InboxVersions[i]
    BY <1>1, AddLast DEF InboxVersions
  <1>7. w[Len(inbox) + 1] = m.snap.ver
    BY <1>1, AddLast
  <1> HIDE DEF w
  <1>8. Rises(Append(inbox, m), d, WriteKind, w, documents[d].ver, buffers'[d].ver)
    <2>1. Rises(inbox, d, WriteKind, InboxVersions, documents[d].ver, buffers[d].ver)
      BY DEF EditsRise
    <2> QED
      BY <1>1, <1>2, <1>5, <1>6, <1>7, <2>1, RisesAppend
  <1> QED
    BY <1>4, <1>8, Zenon DEF EditsRise

(* Handling a message moves its document up to what the message carries. *)
LEMMA EditsRiseTail ==
    ASSUME TypeOK, TypeOK', NEW d \in Docs, EditsRise(d),
           inbox # <<>>, inbox' = Tail(inbox), buffers' = buffers,
           documents'[d] = IF Head(inbox).doc = d /\ Head(inbox).kind \in WriteKind
                           THEN Head(inbox).snap ELSE documents[d]
    PROVE  EditsRise(d)' /\ documents[d].ver <= documents'[d].ver
  <1> DEFINE w == [i \in 1 .. Len(Tail(inbox)) |-> InboxVersions[i + 1]]
             low == documents'[d].ver
  <1>1. inbox \in Seq(Incoming)
    BY DEF TypeOK
  <1>2. /\ InboxVersions \in [1 .. Len(inbox) -> Nat]
        /\ buffers[d].ver \in Nat /\ documents[d].ver \in Nat /\ low \in Nat
    BY VersionTypes, VersionTypesNext DEF VersionsOK
  <1>3. InboxVersions' = w
    BY <1>1, TakeFirst DEF InboxVersions
  <1>4. /\ inbox[1].doc = d /\ inbox[1].kind \in WriteKind => low = InboxVersions[1]
        /\ ~(inbox[1].doc = d /\ inbox[1].kind \in WriteKind)
             => low = documents[d].ver
    <2>1. Head(inbox) = inbox[1] /\ 1 \in 1 .. Len(inbox)
      BY <1>1, TakeFirst
    <2>2. InboxVersions[1] = inbox[1].snap.ver
      BY <2>1 DEF InboxVersions
    <2> QED
      BY <2>1, <2>2
  <1> HIDE DEF w, low
  <1>5. /\ Rises(Tail(inbox), d, WriteKind, w, low, buffers[d].ver)
        /\ documents[d].ver <= low
    <2>1. Rises(inbox, d, WriteKind, InboxVersions, documents[d].ver, buffers[d].ver)
      BY DEF EditsRise
    <2>2. inbox # <<>> /\ InboxVersions \in [1 .. Len(inbox) -> Nat]
      BY <1>2
    <2>3. \A e, kinds : \A lo, hi, up \in Nat :
             /\ Rises(inbox, e, kinds, InboxVersions, lo, hi)
             /\ inbox[1].doc = e /\ inbox[1].kind \in kinds => up = InboxVersions[1]
             /\ ~(inbox[1].doc = e /\ inbox[1].kind \in kinds) => up = lo
             => Rises(Tail(inbox), e, kinds, w, up, hi) /\ lo <= up
      BY <1>1, <2>2, RisesTail, Zenon DEF w
    <2> QED
      BY <1>2, <1>4, <2>1, <2>3
  <1>6. Rises(inbox', d, WriteKind, InboxVersions', low, buffers'[d].ver)
    BY <1>3, <1>5, Zenon
  <1> QED
    BY <1>5, <1>6 DEF EditsRise, low

(* A message that joins the outgoing channel is no older than the document *)
(* was.                                                                    *)
LEMMA ReportsRiseAppend ==
    ASSUME TypeOK, TypeOK', NEW d \in Docs, ReportsRise(d),
           NEW m \in Outgoing, outbox' = Append(outbox, m),
           shown' = shown,
           documents[d].ver <= documents'[d].ver,
           m.doc = d /\ m.kind \in {"diagnostics"} => documents'[d].ver = m.diags.of.ver
    PROVE  ReportsRise(d)'
  <1> DEFINE w == [i \in 1 .. Len(Append(outbox, m)) |-> Append(outbox, m)[i].diags.of.ver]
  <1>1. outbox \in Seq(Outgoing)
    BY DEF TypeOK
  <1>2. /\ OutboxVersions \in [1 .. Len(outbox) -> Nat]
        /\ shown[d].of.ver \in Nat /\ documents[d].ver \in Nat /\ documents'[d].ver \in Nat
    BY VersionTypes, VersionTypesNext DEF VersionsOK
  <1>3. OutboxVersions' \in [1 .. Len(outbox') -> Nat]
    BY VersionTypes, VersionTypesNext DEF VersionsOK
  <1>4. OutboxVersions' = w
    BY DEF OutboxVersions
  <1>5. w \in [1 .. Len(Append(outbox, m)) -> Nat]
    BY <1>3, <1>4, Zenon
  <1>6. \A i \in 1 .. Len(outbox) : w[i] = OutboxVersions[i]
    BY <1>1, AddLast DEF OutboxVersions
  <1>7. w[Len(outbox) + 1] = m.diags.of.ver
    BY <1>1, AddLast
  <1> HIDE DEF w
  <1>8. Rises(Append(outbox, m), d, {"diagnostics"}, w, shown[d].of.ver, documents'[d].ver)
    <2>1. Rises(outbox, d, {"diagnostics"}, OutboxVersions,
                shown[d].of.ver, documents[d].ver)
      BY DEF ReportsRise
    <2> QED
      BY <1>1, <1>2, <1>5, <1>6, <1>7, <2>1, RisesAppend
  <1> QED
    BY <1>4, <1>8, Zenon DEF ReportsRise

(* What leaves the channel moves the screen up to what it carries. *)
LEMMA ReportsRiseTail ==
    ASSUME TypeOK, TypeOK', NEW d \in Docs, ReportsRise(d), Deliver
    PROVE  ReportsRise(d)' /\ shown[d].of.ver <= shown'[d].of.ver
  <1> DEFINE w == [i \in 1 .. Len(Tail(outbox)) |-> OutboxVersions[i + 1]]
             low == shown'[d].of.ver
  <1>1. outbox \in Seq(Outgoing) /\ shown \in [Docs -> Diagnostics]
    BY DEF TypeOK
  <1>2. /\ outbox # <<>> /\ outbox' = Tail(outbox) /\ documents' = documents
        /\ shown' = IF Head(outbox).kind = "diagnostics"
                    THEN [shown EXCEPT ![Head(outbox).doc] = Head(outbox).diags]
                    ELSE shown
    BY DEF Deliver
  <1>3. /\ OutboxVersions \in [1 .. Len(outbox) -> Nat]
        /\ shown[d].of.ver \in Nat /\ documents[d].ver \in Nat /\ low \in Nat
    BY VersionTypes, VersionTypesNext DEF VersionsOK
  <1>4. OutboxVersions' = w
    BY <1>1, <1>2, TakeFirst DEF OutboxVersions
  <1>5. /\ outbox[1].doc = d /\ outbox[1].kind \in {"diagnostics"}
             => low = OutboxVersions[1]
        /\ ~(outbox[1].doc = d /\ outbox[1].kind \in {"diagnostics"})
             => low = shown[d].of.ver
    <2>1. Head(outbox) = outbox[1] /\ 1 \in 1 .. Len(outbox)
      BY <1>1, <1>2, TakeFirst
    <2>2. OutboxVersions[1] = outbox[1].diags.of.ver
      BY <2>1 DEF OutboxVersions
    <2>3. shown'[d] = IF outbox[1].doc = d /\ outbox[1].kind \in {"diagnostics"}
                      THEN outbox[1].diags ELSE shown[d]
      BY <1>1, <1>2, <2>1
    <2> QED
      BY <2>2, <2>3
  <1> HIDE DEF w, low
  <1>6. /\ Rises(Tail(outbox), d, {"diagnostics"}, w, low, documents[d].ver)
        /\ shown[d].of.ver <= low
    <2>1. Rises(outbox, d, {"diagnostics"}, OutboxVersions,
                shown[d].of.ver, documents[d].ver)
      BY DEF ReportsRise
    <2>2. outbox # <<>> /\ OutboxVersions \in [1 .. Len(outbox) -> Nat]
      BY <1>2, <1>3
    <2>3. \A e, kinds : \A lo, hi, up \in Nat :
             /\ Rises(outbox, e, kinds, OutboxVersions, lo, hi)
             /\ outbox[1].doc = e /\ outbox[1].kind \in kinds => up = OutboxVersions[1]
             /\ ~(outbox[1].doc = e /\ outbox[1].kind \in kinds) => up = lo
             => Rises(Tail(outbox), e, kinds, w, up, hi) /\ lo <= up
      BY <1>1, <2>2, RisesTail, Zenon DEF w
    <2> QED
      BY <1>3, <1>5, <2>1, <2>3
  <1>7. Rises(outbox', d, {"diagnostics"}, OutboxVersions', low, documents'[d].ver)
    BY <1>2, <1>4, <1>6, Zenon
  <1> QED
    BY <1>6, <1>7 DEF ReportsRise, low

LEMMA InOrderStep ==
    ASSUME TypeOK, TypeOK', InOrder, [Next]_vars
    PROVE  /\ InOrder'
           /\ \A d \in Docs : shown[d].of.ver <= shown'[d].of.ver
  <1>0. /\ VersionsOK /\ VersionsOK'
        /\ buffers \in [Docs -> Snapshot] /\ documents \in [Docs -> Snapshot]
        /\ inbox \in Seq(Incoming) /\ outbox \in Seq(Outgoing)
    BY VersionTypes, VersionTypesNext DEF TypeOK
  <1>1. ASSUME NEW d \in Docs, UNCHANGED <<inbox, documents, buffers>>
        PROVE  EditsRise(d)'
    BY <1>1 DEF InOrder, EditsRise, InboxVersions
  <1>2. ASSUME NEW d \in Docs, UNCHANGED <<outbox, documents, shown>>
        PROVE  ReportsRise(d)'
    BY <1>2 DEF InOrder, ReportsRise, OutboxVersions
  <1>3. ASSUME shown' = shown PROVE \A d \in Docs : shown[d].of.ver <= shown'[d].of.ver
    BY <1>0, <1>3 DEF VersionsOK
  <1>4. CASE Edits
    <2>1. PICK kind \in WriteKind, d \in Docs, t \in Texts \cup {NoText} :
             Writes(kind, d, t)
      BY <1>4 DEF Edits
    <2> DEFINE s == [ver |-> buffers[d].ver + 1, text |-> t]
               m == [kind |-> kind, doc |-> d, snap |-> s]
    <2>2. s \in Snapshot /\ s.ver = buffers[d].ver + 1
      BY <1>0 DEF VersionsOK, Snapshot
    <2>3. m \in Incoming /\ m.doc = d /\ m.snap = s
      BY <2>2 DEF Incoming
    <2>4. /\ buffers' = [buffers EXCEPT ![d] = s] /\ inbox' = Append(inbox, m)
          /\ UNCHANGED <<documents, outbox, shown>>
      BY <2>1 DEF Writes, Sends
    <2> HIDE DEF s, m
    <2>5. ASSUME NEW e \in Docs PROVE EditsRise(e)'
      <3>1. CASE e = d
        <4>1. buffers'[e] = s /\ buffers[e].ver <= s.ver
          BY <1>0, <2>2, <2>4, <3>1 DEF VersionsOK
        <4> QED
          BY <2>3, <2>4, <4>1, EditsRiseAppend DEF InOrder
      <3>2. CASE e # d
        <4>1. buffers'[e] = buffers[e] /\ buffers[e].ver <= buffers[e].ver
          BY <1>0, <2>4, <3>2 DEF VersionsOK
        <4> QED
          BY <2>3, <2>4, <3>2, <4>1, EditsRiseAppend DEF InOrder
      <3> QED
        BY <3>1, <3>2
    <2> QED
      BY <1>2, <1>3, <2>4, <2>5 DEF InOrder
  <1>5. ASSUME NEW d \in Docs, EditorAsks(d)
        PROVE  /\ InOrder'
               /\ \A e \in Docs : shown[e].of.ver <= shown'[e].of.ver
    <2>1. PICK kind \in {"goto", "format"} : Sends(kind, d, Never) /\ UNCHANGED buffers
      BY <1>5, RequestsAssumption DEF EditorAsks
    <2> DEFINE m == [kind |-> kind, doc |-> d, snap |-> Never]
    <2>2. m \in Incoming /\ m.kind \notin WriteKind
      BY NeverIsASnapshot DEF Incoming, WriteKind
    <2>3. /\ inbox' = Append(inbox, m)
          /\ UNCHANGED <<buffers, documents, outbox, shown>>
      BY <2>1 DEF Sends
    <2> HIDE DEF m
    <2>4. ASSUME NEW e \in Docs PROVE EditsRise(e)'
      <3>1. buffers[e].ver <= buffers'[e].ver
        BY <1>0, <2>3 DEF VersionsOK
      <3> QED
        BY <2>2, <2>3, <3>1, EditsRiseAppend DEF InOrder
    <2> QED
      BY <1>2, <1>3, <2>3, <2>4 DEF InOrder
  <1>6. CASE Finishes
    <2> DEFINE m == Head(inbox)
    <2>1. /\ MayStart /\ m \in Incoming /\ m.kind \in WriteKind
          /\ inbox' = Tail(inbox) /\ UNCHANGED <<buffers, shown>>
          /\ documents' = [documents EXCEPT ![m.doc] = m.snap]
      BY <1>6, FinishesFacts
    <2>2. PICK diags \in Diagnostics :
             diags.of = m.snap /\ Post("diagnostics", m.doc, diags, FALSE)
      BY <1>6, FinishesFacts
    <2>3. m.doc \in Docs /\ inbox # <<>>
      BY <2>1 DEF Incoming, MayStart
    <2> DEFINE o == [kind |-> "diagnostics", doc |-> m.doc, diags |-> diags]
    <2>4. o \in Outgoing /\ o.doc = m.doc /\ o.diags = diags
      BY <2>3 DEF Outgoing
    <2>5. outbox' = Append(outbox, o)
      BY <2>2 DEF Post
    <2> HIDE DEF o
    <2>6. ASSUME NEW e \in Docs PROVE EditsRise(e)' /\ ReportsRise(e)'
      <3>1. documents'[e] = IF m.doc = e /\ m.kind \in WriteKind
                            THEN m.snap ELSE documents[e]
        BY <1>0, <2>1, <2>3
      <3>2. EditsRise(e)' /\ documents[e].ver <= documents'[e].ver
        BY <2>1, <2>3, <3>1, EditsRiseTail DEF InOrder
      <3>3. m.doc = e => documents'[e].ver = diags.of.ver
        BY <2>1, <2>2, <3>1
      <3> HIDE DEF m
      <3> QED
        BY <2>1, <2>4, <2>5, <3>2, <3>3, ReportsRiseAppend DEF InOrder
    <2> QED
      BY <1>3, <2>1, <2>6 DEF InOrder
  <1>7. CASE GotoDefinition \/ Formatting \/ FormattingRefused
    <2>1. /\ inbox # <<>> /\ inbox' = Tail(inbox)
          /\ UNCHANGED <<buffers, documents, shown>>
          /\ Head(inbox).kind \notin WriteKind
      BY <1>7 DEF GotoDefinition, Formatting, FormattingRefused, Handles, MayStart, WriteKind
    <2>2. ASSUME NEW e \in Docs PROVE EditsRise(e)'
      BY <2>1, EditsRiseTail DEF InOrder
    <2>3. CASE UNCHANGED outbox
      BY <1>2, <1>3, <2>1, <2>2, <2>3 DEF InOrder
    <2>4. CASE FormattingRefused
      <3> DEFINE d == Head(inbox).doc
                 m == [kind |-> "message", doc |-> d,
                       diags |-> [of |-> Never, seen |-> Unseen]]
      <3>1. d \in Docs
        <4>1. Head(inbox) \in Incoming
          BY <1>0, <2>1, TakeFirst
        <4> QED
          BY <4>1 DEF Incoming
      <3>2. outbox' = Append(outbox, m)
        BY <2>4 DEF FormattingRefused, Post
      <3> HIDE DEF d
      <3>3. m \in Outgoing /\ m.kind \notin {"diagnostics"}
        BY <3>1, NeverIsASnapshot DEF Outgoing, Diagnostics
      <3> HIDE DEF m
      <3>4. ASSUME NEW e \in Docs PROVE ReportsRise(e)'
        <4>1. documents[e].ver <= documents'[e].ver
          BY <1>0, <2>1 DEF VersionsOK
        <4> QED
          BY <2>1, <3>2, <3>3, <4>1, ReportsRiseAppend DEF InOrder
      <3> QED
        BY <1>3, <2>1, <2>2, <3>4 DEF InOrder
    <2> QED
      BY <1>7, <2>3, <2>4 DEF GotoDefinition, Formatting
  <1>8. CASE Blocks \/ Resume \/ UNCHANGED vars
    <2>1. UNCHANGED <<inbox, buffers, documents, outbox, shown>>
      BY <1>8 DEF Blocks, Resume, vars, editor
    <2> QED
      BY <1>1, <1>2, <1>3, <2>1 DEF InOrder
  <1>9. CASE Deliver
    <2>1. UNCHANGED <<inbox, buffers, documents>>
      BY <1>9 DEF Deliver
    <2> QED
      BY <1>1, <1>9, <2>1, ReportsRiseTail DEF InOrder
  <1> QED
    BY <1>4, <1>5, <1>6, <1>7, <1>8, <1>9, StepIsOneOf

(* Each step of the server and of the editor is a step of the view: an     *)
(* edit writes one document, a delivery moves one document's screen        *)
(* forward, and the rest is not seen.                                      *)
LEMMA ViewStep ==
    ASSUME TypeOK, TypeOK', InOrder, InOrder', [Next]_vars,
           \A d \in Docs : shown[d].of.ver <= shown'[d].of.ver
    PROVE  [View!Next]_<<[d \in Docs |-> buffers[d].ver],
                         [d \in Docs |-> shown[d].of.ver]>>
  <1> DEFINE written  == [d \in Docs |-> buffers[d].ver]
             onScreen == [d \in Docs |-> shown[d].of.ver]
  <1>0. /\ VersionsOK /\ VersionsOK'
        /\ buffers \in [Docs -> Snapshot] /\ shown \in [Docs -> Diagnostics]
    BY VersionTypes, VersionTypesNext DEF TypeOK
  <1>1. ASSUME UNCHANGED <<buffers, shown>>
        PROVE  UNCHANGED <<written, onScreen>>
    BY <1>1
  <1>2. CASE Edits
    <2>1. PICK kind \in WriteKind, d \in Docs, t \in Texts \cup {NoText} :
             Writes(kind, d, t)
      BY <1>2 DEF Edits
    <2>2. /\ buffers' = [buffers EXCEPT ![d] = [ver |-> buffers[d].ver + 1, text |-> t]]
          /\ shown' = shown
      BY <2>1 DEF Writes, Sends
    <2>3. written' = [written EXCEPT ![d] = @ + 1]
      BY <1>0, <2>2
    <2>4. onScreen' = onScreen
      BY <2>2
    <2> QED
      BY <2>3, <2>4 DEF View!Next, View!Write
  <1>3. CASE Deliver
    <2>1. buffers' = buffers
      BY <1>3 DEF Deliver
    <2>2. written' = written
      BY <2>1
    <2>3. CASE shown' = shown
      BY <1>1, <2>1, <2>3
    <2>4. CASE shown' # shown
      <3> DEFINE d == Head(outbox).doc
                 v == Head(outbox).diags.of.ver
      <3>1. /\ outbox # <<>> /\ shown' = [shown EXCEPT ![d] = Head(outbox).diags]
        BY <1>3, <2>4 DEF Deliver
      <3>2. d \in Docs
        <4>1. Head(outbox) \in Outgoing
          BY <3>1, TakeFirst DEF TypeOK
        <4> QED
          BY <4>1 DEF Outgoing
      <3>3. shown'[d].of.ver = v
        BY <1>0, <3>1, <3>2
      <3>4. onScreen' = [onScreen EXCEPT ![d] = v]
        BY <1>0, <3>1, <3>2
      <3> HIDE DEF d, v
      <3>5. v \in shown[d].of.ver .. buffers[d].ver
        <4>1. /\ shown'[d].of.ver <= documents'[d].ver
              /\ documents'[d].ver <= buffers'[d].ver
          BY <3>2 DEF InOrder, EditsRise, ReportsRise, Rises
        <4>2. /\ shown[d].of.ver \in Nat /\ shown'[d].of.ver \in Nat
              /\ documents'[d].ver \in Nat /\ buffers'[d].ver \in Nat
          BY <1>0, <3>2 DEF VersionsOK
        <4>3. shown[d].of.ver <= v
          BY <3>2, <3>3
        <4> QED
          BY <2>1, <3>3, <4>1, <4>2, <4>3
      <3>6. v \in onScreen[d] .. written[d]
        BY <3>2, <3>5
      <3> QED
        BY <2>2, <3>2, <3>4, <3>6 DEF View!Next, View!Show
    <2> QED
      BY <2>3, <2>4
  <1>4. CASE UNCHANGED <<buffers, shown>>
    BY <1>1, <1>4
  <1>5. UNCHANGED <<buffers, shown>> \/ Edits \/ Deliver
    <2>1. CASE \E d \in Docs : EditorAsks(d)
      BY <2>1 DEF EditorAsks, Sends
    <2>2. CASE Finishes
      BY <2>2, FinishesFacts
    <2>3. CASE GotoDefinition \/ Formatting \/ FormattingRefused
      BY <2>3 DEF GotoDefinition, Formatting, FormattingRefused, Handles
    <2>4. CASE Blocks \/ Resume \/ UNCHANGED vars
      BY <2>4 DEF Blocks, Resume, vars, editor
    <2> QED
      BY <2>1, <2>2, <2>3, <2>4, StepIsOneOf
  <1> QED
    BY <1>2, <1>3, <1>4, <1>5

(* What the editor is shown is always of a version of the document it has  *)
(* written, and never steps back to an older one.                          *)
THEOREM ImplementsView == Spec => ViewSpec
  <1>1. Init => InOrder
    BY DEF Init, InOrder, EditsRise, ReportsRise, Rises, About, Never
  <1>2. Init => View!Init
    BY DEF Init, View!Init, Never
  <1>3. TypeOK /\ TypeOK' /\ InOrder /\ [Next]_vars => InOrder'
    BY InOrderStep
  <1>4. TypeOK /\ TypeOK' /\ InOrder /\ InOrder' /\ [Next]_vars
          => [View!Next]_<<[d \in Docs |-> buffers[d].ver],
                           [d \in Docs |-> shown[d].of.ver]>>
    BY InOrderStep, ViewStep
  <1> QED
    BY <1>1, <1>2, <1>3, <1>4, TypeCorrect, PTL DEF Spec, ViewSpec, View!Spec
=============================================================================

----------------------------- MODULE EditorView -----------------------------
(***************************************************************************)
(* What an editor may be shown for its documents, whatever the server      *)
(* does in between: the diagnostics on screen are those of some version of *)
(* the document, never of one not yet written, and they never step back    *)
(* to an older version.                                                    *)
(***************************************************************************)
EXTENDS Naturals

CONSTANT Docs

VARIABLES
    written,   \* the version of each document the editor holds
    onScreen   \* the version whose diagnostics the editor shows

Init ==
    /\ written = [d \in Docs |-> 0]
    /\ onScreen = [d \in Docs |-> 0]

Write(d) ==
    /\ written' = [written EXCEPT ![d] = @ + 1]
    /\ UNCHANGED onScreen

Show(d) ==
    /\ \E v \in onScreen[d] .. written[d] : onScreen' = [onScreen EXCEPT ![d] = v]
    /\ UNCHANGED written

Next == \E d \in Docs : Write(d) \/ Show(d)

Spec == Init /\ [][Next]_<<written, onScreen>>
=============================================================================

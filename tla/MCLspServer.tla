---------------------------- MODULE MCLspServer ----------------------------
(* Two documents: "p", which may declare "q", and "q", named prelude.mrn in *)
(* the runs that say so.                                                    *)
EXTENDS LspServer

TwoDocs    == {"p", "q"}
AllTexts   == {"p uses q", "p broken", "q plain"}
TheTexts   == [d \in TwoDocs |-> IF d = "p" THEN {"p uses q", "p broken"}
                                 ELSE {"q plain"}]
BrokenTexts == {"p broken"}
Mods       == [t \in AllTexts |-> IF t = "p uses q" THEN {"q"} ELSE {}]
OneShard   == [d \in TwoDocs |-> 0]
=============================================================================

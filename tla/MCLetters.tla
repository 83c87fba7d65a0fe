----------------------------- MODULE MCLetters -----------------------------
(***************************************************************************)
(* Small instances of Letters for TLC: two homes, and an earlier profile   *)
(* of the first one that shares its identity key, as in the tests, with    *)
(* the agreement key of the second.                                        *)
(***************************************************************************)
EXTENDS Letters, TLC

CONSTANTS alice, bob, l1

MCHomes   == {alice, bob}
MCOwn     == [h \in MCHomes |-> IF h = alice THEN [identity |-> 1, agreement |-> 2]
                                             ELSE [identity |-> 3, agreement |-> 4]]
MCPlain   == {MCOwn[h] : h \in MCHomes}
MCMixed   == MCPlain \cup {[identity |-> 1, agreement |-> 4]}
MCClaims  == [sender : MCMixed \ {MCOwn[bob]}, bound : MCPlain, letter : {l1}]
MCNone    == {}

\* Two letter writers who know each other's profile; or one of them imports the
\* mixed profile too, under a second name.
MCFriends == [h \in MCHomes |-> MCPlain]
MCOffered == [h \in MCHomes |-> IF h = alice THEN {MCOwn[bob]} ELSE MCMixed]

Symmetric == Permutations(Procs) \cup Permutations(Letters) \cup Permutations(Places)
=============================================================================

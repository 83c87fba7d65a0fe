-------------------------------- MODULE Post --------------------------------
(***************************************************************************)
(* What sealing and opening letters promises, whatever the transport does: *)
(* a home is only ever shown what a sender has sealed for it.              *)
(***************************************************************************)
CONSTANTS Homes,        \* state directories, each with its identity
          Statements,   \* what a letter says: sender, recipient and text
          To            \* To[h]: the statements addressed to home h

VARIABLES sealed,   \* the statements senders have signed so far
          shown     \* pairs of a home and a statement shown there

vars == <<sealed, shown>>

Init == sealed = {} /\ shown = {}

\* A sender signs a statement.
Seal == /\ \E s \in Statements : sealed' = sealed \cup {s}
        /\ UNCHANGED shown

\* A home is shown a statement sealed for it, perhaps once more.
Show(h) == /\ \E s \in sealed \cap To[h] : shown' = shown \cup {<<h, s>>}
           /\ UNCHANGED sealed

Next == Seal \/ \E h \in Homes : Show(h)

Spec == Init /\ [][Next]_vars
=============================================================================

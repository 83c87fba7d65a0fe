------------------------------ MODULE PinStore ------------------------------
(***************************************************************************)
(* What a Sealed contact store promises: a contact name is pinned to one   *)
(* public profile for good, and whatever a command tells its user about    *)
(* the pinned contacts is true.                                            *)
(***************************************************************************)
CONSTANTS Users,     \* those who run commands
          Aliases,   \* contact names
          Profiles,  \* public profiles
          NoPin      \* none of Profiles: the name is not pinned

VARIABLES pin,   \* pin[a]: the profile pinned under a
          told   \* told[u]: the pinned contacts the last command of u reported

vars == <<pin, told>>

\* The pinned contacts.
Pinned == {<<a, pin[a]>> : a \in {b \in Aliases : pin[b] # NoPin}}

Init == /\ pin = [a \in Aliases |-> NoPin]
        /\ told = [u \in Users |-> {}]

\* A name without a pin gets one; nothing ever replaces it.
Pin(a) == /\ pin[a] = NoPin
          /\ \E k \in Profiles : pin' = [pin EXCEPT ![a] = k]
          /\ UNCHANGED told

\* A command reports some of the contacts, or none.
Tell(u) == /\ \E some \in SUBSET Pinned : told' = [told EXCEPT ![u] = some]
           /\ UNCHANGED pin

Next == (\E a \in Aliases : Pin(a)) \/ (\E u \in Users : Tell(u))

Spec == Init /\ [][Next]_vars
=============================================================================

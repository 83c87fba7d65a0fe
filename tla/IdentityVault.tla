--------------------------- MODULE IdentityVault ---------------------------
(***************************************************************************)
(* What a Sealed state directory promises about its private identity,      *)
(* whatever number of processes share it and wherever they crash: at most  *)
(* one identity is ever established in it, and every process that is       *)
(* handed an identity, by `initialize` or by `load_identity`, is handed    *)
(* that one.                                                               *)
(***************************************************************************)
CONSTANTS Ids,     \* identities the random generator can produce
          NoId     \* none of Ids: the vault holds no identity yet

VARIABLES vault,   \* the identity established in the directory
          served   \* the identities handed to callers so far

vars == <<vault, served>>

Init == vault = NoId /\ served = {}

\* An identity is established; nothing ever replaces it.
Establish == /\ vault = NoId
             /\ vault' \in Ids
             /\ UNCHANGED served

\* A caller is handed the established identity.
Serve == /\ vault # NoId
         /\ served' = served \cup {vault}
         /\ UNCHANGED vault

Next == Establish \/ Serve

Spec == Init /\ [][Next]_vars
=============================================================================

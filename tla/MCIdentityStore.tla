-------------------------- MODULE MCIdentityStore --------------------------
(***************************************************************************)
(* The small instance of IdentityStore for TLC: three commands at once, so *)
(* that an `initialize` can fail and roll back, another win and a third    *)
(* load meanwhile.  Two draws are enough for two identities to mix; a third*)
(* initialization then gets no randomness.  The path nested is refused.    *)
(***************************************************************************)
EXTENDS IdentityStore, TLC

\* Processes and draws are interchangeable; so are the unlock paths outside
\* the state directory.
Symmetric == Permutations(Procs) \cup Permutations(Draws)
               \cup Permutations(UnlockPaths \ InsideState)
=============================================================================

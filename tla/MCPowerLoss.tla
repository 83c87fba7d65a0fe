---------------------------- MODULE MCPowerLoss ----------------------------
(***************************************************************************)
(* PowerLoss for TLC: one power loss, with two commands under way and two   *)
(* draws, so that an identity of before and one of after it can mix.       *)
(***************************************************************************)
EXTENDS PowerLoss, TLC

\* Processes, draws and unlock paths are interchangeable.
Symmetric == Permutations(Procs) \cup Permutations(Draws) \cup Permutations(UnlockPaths)
=============================================================================

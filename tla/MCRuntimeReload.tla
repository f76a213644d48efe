-------------------------- MODULE MCRuntimeReload --------------------------
(* Instances of RuntimeReload for TLC.                                     *)
EXTENDS RuntimeReload, TLC

ReloadSymmetry == Permutations(Roots) \cup Permutations(Attempts)
=============================================================================

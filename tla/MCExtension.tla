----------------------------- MODULE MCExtension -----------------------------
(***************************************************************************)
(* Extension on small instances.                                           *)
(***************************************************************************)
EXTENDS Extension, TLC

ExtensionSymmetry == Permutations(Handlers) \cup Permutations(Flushes)

=============================================================================

--------------------------- MODULE MCRegistryFile ---------------------------
(* Small instances of RegistryFile for TLC: two programs, two calls each. *)
EXTENDS RegistryFile, TLC

Symmetric == Permutations(Programs)
=============================================================================

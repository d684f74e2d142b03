----------------------------- MODULE MCFileView -----------------------------
(* Small instances of FileView for TLC. *)
EXTENDS FileView, TLC

Symmetry == Permutations(Objects) \cup Permutations(Values)
            \cup Permutations(Modes)
=============================================================================

---------------------------- MODULE MCProcessRun ----------------------------
(* Small instances of ProcessRun for TLC: the limits are 2 arguments and 4
   bytes, so that every boundary is met by short lists. *)
EXTENDS ProcessRun

ShortArgument == [length : 0..4, utf8 : BOOLEAN]
AllLists == UNION {[1..n -> ShortArgument] : n \in 0..3}
=============================================================================

-------------------------- MODULE MCAtomicPublish --------------------------
(* Small instances of AtomicPublish for TLC, on its own and together with
   WindowsPublish. *)
EXTENDS WindowsPublish, TLC

CONSTANTS p1, p2, p3

TwoHosts == [p \in Publishers |-> IF p = p1 THEN "posix" ELSE "linux"]
MixedHosts == [p \in Publishers |-> IF p = p1 THEN "posix"
                                    ELSE IF p = p2 THEN "apple" ELSE "linux"]

DirSymmetry == Permutations(Dirs)

(* Two publishers on one directory: both on POSIX, or one on Windows. *)
OneOnWindows == SharedInit /\ onWindows \in {{}, {p1}}
MCSharedSpec == OneOnWindows /\ [][SharedNext]_<<vars, windowsVars>>

(* Publishers of each POSIX branch, scheduled fairly. *)
NoneOnWindows == SharedInit /\ onWindows = {}
MCQuietSpec ==
  /\ NoneOnWindows
  /\ [][SharedNext]_<<vars, windowsVars>>
  /\ \A p \in Publishers : WF_vars(Step(p))
=============================================================================

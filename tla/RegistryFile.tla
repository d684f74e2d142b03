---------------------------- MODULE RegistryFile ----------------------------
(***************************************************************************)
(* typetree_schema_registry_export_file and _import_file_replace on POSIX: *)
(* programs that replace one registry file by rename and read it, with     *)
(* system calls as steps, other programs that change the file, and power   *)
(* losses.  What an image means is SchemaRegistry's subject; here it has   *)
(* two halves, and its digest tells whether both are of the same image.    *)
(*                                                                         *)
(* The history of the file's name is a log: every rename, and every change *)
(* by another program, appends what the name denotes from then on.  After  *)
(* a power loss it denotes one of the log's entries from the last one that *)
(* was flushed to the end.                                                 *)
(***************************************************************************)
EXTENDS Naturals, Sequences, FiniteSets

CONSTANTS
  Programs,
  Absent, Special, \* the name denotes nothing, or no regular file
  Junk,            \* a half of a file that is not of any image
  MaxCalls,        \* bound on the calls of each program
  MaxTotal,        \* bound on the calls of all of them
  MaxDisturb,      \* bound on other programs' changes
  MaxCrashes,      \* bound on power losses
  Faults           \* may system calls fail for reasons of their own?

Exports == Programs \X (1..MaxCalls)   \* a program's n-th call, and its image
Old == <<"old", 0>>
Foreign == <<"foreign", 0>>
Inodes == Exports \cup {Old, Foreign}

ASSUME FileAssumption ==
  /\ MaxCalls \in Nat /\ MaxTotal \in Nat /\ MaxDisturb \in Nat /\ MaxCrashes \in Nat
  /\ Faults \in BOOLEAN
  /\ Absent \notin Inodes /\ Special \notin Inodes /\ Junk \notin Inodes

(* Up to two halves, of images or of anything. *)
Contents == UNION {[1..n -> Inodes \cup {Junk}] : n \in 0..2}

VARIABLES
  content,      \* the halves in each file
  durable,      \* files whose present content is on storage
  temps,        \* temporary names in the directory
  log,          \* what the destination name denoted, up to now
  flushed,      \* index of the log's last entry that is on storage
  prog,         \* local state of each program
  acknowledged, \* history: the latest export that was answered OK
  tampered,     \* history: files another program wrote into
  stuck,        \* history: temporary files whose unlink failed
  changes, crashes

files == <<content, durable, temps, log, flushed>>
env   == <<tampered, stuck, changes, crashes>>
vars  == <<files, prog, acknowledged, env>>

Labels == {"idle", "check", "create", "write", "fsync", "recheck", "rename",
           "unlink", "sync", "lstat", "open", "fstat", "read", "probe",
           "done", "crashed"}
Status == {"none", "OK", "IO_ERROR", "INVALID_FORMAT", "DIGEST_MISMATCH",
           "ALLOCATION_FAILED"}
Locals == [pc : Labels, call : 0..MaxCalls, status : Status, index : Nat,
           size : 0..2, got : Contents, since : Nat]
Fresh == [pc |-> "idle", call |-> 0, status |-> "none", index |-> 0,
          size |-> 0, got |-> <<>>, since |-> 0]

Init ==
  /\ content = [f \in Inodes |-> IF f = Old THEN <<Old, Old>>
                                 ELSE IF f = Foreign THEN <<Junk>> ELSE <<>>]
  /\ durable = {Old, Foreign}
  /\ temps = {}
  /\ log \in {<<Old>>, <<Absent>>}
  /\ flushed = 1
  /\ prog = [p \in Programs |-> Fresh]
  /\ acknowledged = 0 /\ tampered = {} /\ stuck = {} /\ changes = 0 /\ crashes = 0

Current == log[Len(log)]
Mine(p) == <<p, prog[p].call>>
At(p, label) == prog[p].pc = label
Goto(p, label) == prog' = [prog EXCEPT ![p].pc = label]
Return(p, status) == prog' = [prog EXCEPT ![p].pc = "done", ![p].status = status]

RegularOrMissing == Current # Special
Regular == Current \in Inodes

Calls == {e \in Exports : e[2] <= prog[e[1]].call}

(* A program's next call: an export, or an import. *)
Start(p, label) ==
  /\ prog[p].pc \in {"idle", "done", "crashed"}
  /\ prog[p].call < MaxCalls /\ Cardinality(Calls) < MaxTotal
  /\ prog' = [prog EXCEPT ![p] = [Fresh EXCEPT !.pc = label,
                !.call = prog[p].call + 1, !.since = acknowledged]]
  /\ UNCHANGED <<files, acknowledged, env>>

----------------------------------------------------------------------------
(* registry_atomic_write. *)

Check(p) ==
  /\ At(p, "check")
  /\ IF RegularOrMissing THEN Goto(p, "create") ELSE Return(p, "IO_ERROR")
  /\ UNCHANGED <<files, acknowledged, env>>

Create(p) ==
  /\ At(p, "create")
  /\ \/ temps' = temps \cup {Mine(p)} /\ Goto(p, "write")
     \/ Faults /\ Return(p, "IO_ERROR") /\ UNCHANGED temps
  /\ UNCHANGED <<content, durable, log, flushed, acknowledged, env>>

Write(p) ==
  /\ At(p, "write")
  /\ \/ /\ content' = [content EXCEPT ![Mine(p)] = Append(@, Mine(p))]
        /\ durable' = durable \ {Mine(p)}
        /\ Goto(p, IF Len(content[Mine(p)]) = 1 THEN "fsync" ELSE "write")
     \/ Faults /\ Goto(p, "unlink") /\ UNCHANGED <<content, durable>>
  /\ UNCHANGED <<temps, log, flushed, acknowledged, env>>

(* Mutant of Fsync: the file is closed without it. *)
FsyncForgotten(p) ==
  /\ At(p, "fsync")
  /\ Goto(p, "recheck")
  /\ UNCHANGED <<files, acknowledged, env>>

(* fsync, then close. *)
Fsync(p) ==
  /\ At(p, "fsync")
  /\ \/ durable' = durable \cup {Mine(p)} /\ Goto(p, "recheck")
     \/ Faults /\ Goto(p, "unlink") /\ durable' \in {durable, durable \cup {Mine(p)}}
  /\ UNCHANGED <<content, temps, log, flushed, acknowledged, env>>

Recheck(p) ==
  /\ At(p, "recheck")
  /\ Goto(p, IF RegularOrMissing THEN "rename" ELSE "unlink")
  /\ UNCHANGED <<files, acknowledged, env>>

(* rename replaces a file and a symbolic link, but no directory. *)
Rename(p) ==
  /\ At(p, "rename")
  /\ \/ /\ log' = Append(log, Mine(p))
        /\ temps' = temps \ {Mine(p)}
        /\ prog' = [prog EXCEPT ![p].pc = "sync", ![p].index = Len(log) + 1]
     \/ /\ Faults \/ Current = Special
        /\ Goto(p, "unlink")
        /\ UNCHANGED <<log, temps>>
  /\ UNCHANGED <<content, durable, flushed, acknowledged, env>>

Unlink(p) ==
  /\ At(p, "unlink")
  /\ \/ temps' = temps \ {Mine(p)} /\ UNCHANGED stuck
     \/ Faults /\ UNCHANGED temps /\ stuck' = stuck \cup {Mine(p)}
  /\ Return(p, "IO_ERROR")
  /\ UNCHANGED <<content, durable, log, flushed, acknowledged, tampered,
                 changes, crashes>>

(* Mutant of Sync: the answer does not wait for the directory. *)
SyncForgotten(p) ==
  /\ At(p, "sync")
  /\ Return(p, "OK")
  /\ acknowledged' = IF prog[p].index > acknowledged THEN prog[p].index
                     ELSE acknowledged
  /\ UNCHANGED <<files, env>>

(* registry_sync_parent_directory flushes every change of the name so far. *)
Sync(p) ==
  /\ At(p, "sync")
  /\ \/ /\ flushed' = Len(log)
        /\ Return(p, "OK")
        /\ acknowledged' = IF prog[p].index > acknowledged THEN prog[p].index
                           ELSE acknowledged
     \/ /\ Faults
        /\ Return(p, "IO_ERROR")
        /\ flushed' \in {flushed, Len(log)}
        /\ UNCHANGED acknowledged
  /\ UNCHANGED <<content, durable, temps, log, env>>

----------------------------------------------------------------------------
(* registry_read_file, and the digest check of the import. *)

Lstat(p) ==
  /\ At(p, "lstat")
  /\ IF Regular THEN Goto(p, "open") ELSE Return(p, "IO_ERROR")
  /\ UNCHANGED <<files, acknowledged, env>>

(* open(O_NOFOLLOW) of whatever the name denotes now. *)
Open(p) ==
  /\ At(p, "open")
  /\ \/ /\ Regular
        /\ prog' = [prog EXCEPT ![p].pc = "fstat", ![p].index = Len(log)]
     \/ ~Regular /\ Return(p, "IO_ERROR")
  /\ UNCHANGED <<files, acknowledged, env>>

Held(p) == log[prog[p].index]

Fstat(p) ==
  /\ At(p, "fstat")
  /\ \/ /\ content[Held(p)] # <<>>
        /\ prog' = [prog EXCEPT ![p].pc = "read", ![p].size = Len(content[Held(p)])]
     \/ content[Held(p)] = <<>> /\ Return(p, "INVALID_FORMAT")
     \/ Faults /\ Return(p, "ALLOCATION_FAILED")
  /\ UNCHANGED <<files, acknowledged, env>>

(* Half by half; a file that ends early fails the read. *)
Read(p) ==
  LET next == Len(prog[p].got) + 1
  IN /\ At(p, "read")
     /\ \/ /\ next <= Len(content[Held(p)])
           /\ prog' = [prog EXCEPT ![p].got = Append(@, content[Held(p)][next]),
                         ![p].pc = IF next = prog[p].size THEN "probe" ELSE "read"]
        \/ /\ Faults \/ next > Len(content[Held(p)])
           /\ Return(p, "IO_ERROR")
     /\ UNCHANGED <<files, acknowledged, env>>

(* Mutant of Whole: no digest. *)
WholeBySize(halves) == Len(halves) = 2
(* The digest is that of the two halves of one image. *)
Whole(halves) == Len(halves) = 2 /\ halves[1] = halves[2] /\ halves[1] # Junk

(* The byte after the last one, the size again, then the import's checks. *)
Probe(p) ==
  /\ At(p, "probe")
  /\ \/ /\ Len(content[Held(p)]) = prog[p].size
        /\ Return(p, IF Whole(prog[p].got) THEN "OK" ELSE "DIGEST_MISMATCH")
     \/ /\ Faults \/ Len(content[Held(p)]) # prog[p].size
        /\ Return(p, "IO_ERROR")
  /\ UNCHANGED <<files, acknowledged, env>>

Step(p) ==
  \/ Start(p, "check") \/ Start(p, "lstat")
  \/ Check(p) \/ Create(p) \/ Write(p) \/ Fsync(p) \/ Recheck(p) \/ Rename(p)
  \/ Unlink(p) \/ Sync(p)
  \/ Lstat(p) \/ Open(p) \/ Fstat(p) \/ Read(p) \/ Probe(p)

----------------------------------------------------------------------------
(* Other programs write into the file, or replace it; power is lost, and
   temporary names that were there survive it. *)

Disturb ==
  /\ changes < MaxDisturb
  /\ changes' = changes + 1
  /\ \/ /\ Regular
        /\ tampered' = tampered \cup {Current}
        /\ \E halves \in {<<>>, <<Junk>>, <<Junk, Junk>>, <<Junk, Old>>} :
             content' = [content EXCEPT ![Current] = halves]
        /\ durable' = durable \ {Current}
        /\ UNCHANGED log
     \/ /\ \E it \in {Absent, Special, Foreign} : log' = Append(log, it)
        /\ UNCHANGED <<content, durable, tampered>>
  /\ UNCHANGED <<temps, flushed, prog, acknowledged, stuck, crashes>>

(* Files that may lose part of what was written to them. *)
Unsafe == {f \in Inodes \ durable : content[f] # <<>>}

Crash ==
  /\ crashes < MaxCrashes
  /\ crashes' = crashes + 1
  /\ \E i \in flushed..Len(log) : log' = SubSeq(log, 1, i) /\ flushed' = i
  /\ \E kept \in [Unsafe -> 0..2] :
       content' = [f \in Inodes |->
         IF f \in Unsafe /\ kept[f] < Len(content[f])
         THEN SubSeq(content[f], 1, kept[f]) ELSE content[f]]
  /\ durable' = durable \cup Unsafe
  /\ prog' = [p \in Programs |->
                IF prog[p].pc \in {"idle", "done"} THEN prog[p]
                ELSE [Fresh EXCEPT !.pc = "crashed", !.call = prog[p].call]]
  /\ UNCHANGED <<temps, acknowledged, tampered, stuck, changes>>

Next == (\E p \in Programs : Step(p)) \/ Disturb \/ Crash
Spec == Init /\ [][Next]_vars

----------------------------------------------------------------------------
(* Properties. *)

(* Every variable keeps its type. *)
TypeOK ==
  /\ content \in [Inodes -> Contents]
  /\ durable \subseteq Inodes /\ temps \subseteq Exports
  /\ log \in Seq(Inodes \cup {Absent, Special})
  /\ flushed \in 1..Len(log) /\ acknowledged \in 0..Len(log)
  /\ prog \in [Programs -> Locals]
  /\ tampered \subseteq Inodes /\ stuck \subseteq Exports
  /\ changes \in 0..MaxDisturb /\ crashes \in 0..MaxCrashes

(* Whatever the name may denote now or after a power loss, an exported file
   under it is complete and on storage; only other programs spoil it. *)
NamedIsWhole ==
  /\ TypeOK
  /\ \A i \in flushed..Len(log) :
       log[i] \in Exports \ tampered =>
         content[log[i]] = <<log[i], log[i]>> /\ log[i] \in durable

(* An export answered OK is never lost: no power loss brings back what it, or
   a later one, replaced.  And one that is over, whatever failed and whatever
   other programs did, has removed its temporary file, unless that removal is
   what failed or power loss cut it short.  What is named is always whole. *)
AcknowledgedStays ==
  /\ NamedIsWhole
  /\ acknowledged <= flushed
  /\ \A f \in temps \ stuck :
       crashes = 0 => prog[f[1]].pc \notin {"idle", "done"} /\ prog[f[1]].call = f[2]

(* An import that succeeds delivers one whole image, although files are
   replaced and edited while it reads, and one no older than the latest export
   that was acknowledged before it began. *)
ImportsFreshImage ==
  \A p \in Programs :
    At(p, "done") /\ prog[p].status = "OK" /\ prog[p].got # <<>> =>
      /\ prog[p].got[1] = prog[p].got[2] /\ prog[p].got[1] # Junk
      /\ prog[p].index >= prog[p].since
=============================================================================

------------------------------ MODULE FileView ------------------------------
(***************************************************************************)
(* The stable readers of src/src/common/file_io.c on POSIX hosts:          *)
(* common_file_view_open_regular / common_file_view_close,                 *)
(* common_file_read_regular and common_file_read_prefix_regular.  One      *)
(* reader makes one call (or the open/close pair of a view) while other    *)
(* programs write, truncate, extend, remap, chmod and rename what it       *)
(* reads.  Every system call is one action; a file is read one chunk (64K) *)
(* at a time.  SHA-256 is taken to be injective: a digest is the content   *)
(* it was computed from.                                                   *)
(***************************************************************************)
EXTENDS Naturals, Sequences

CONSTANTS
  Objects,       \* regular files (inodes)
  Values,        \* what a chunk may hold
  Modes,         \* values of st_mode
  MaxChunks,     \* bound on the size of a file
  Limits,        \* what a caller may pass as max_size, in chunks
  Capacity,      \* the caller's prefix capacity, in chunks
  Absent,        \* the pathname denotes nothing
  NotRegular,    \* the pathname denotes a link, directory, device, ...
  NoStat,        \* a struct stat not yet filled in
  Faults,        \* may system calls and allocations fail of their own?
  MaxMutations   \* bound on the steps of other programs

ASSUME ViewAssumption ==
  /\ MaxChunks \in Nat /\ Limits \subseteq Nat /\ Capacity \in Nat
  /\ MaxMutations \in Nat
  /\ Faults \in BOOLEAN
  /\ Absent \notin Objects /\ NotRegular \notin Objects
  /\ Absent # NotRegular

VARIABLES
  name,        \* what the pathname denotes
  content,     \* the chunks of each file
  mode,        \* st_mode of each file
  ctime,       \* st_ctime (and, for content, st_mtime) of each file
  clock,       \* the kernel's timestamp source
  fine,        \* does every metadata change get a timestamp of its own?
  mapped,      \* may files change through shared mappings, untimestamped?
  mutations,   \* steps of other programs so far
  reader,      \* the call's local variables
  seen,        \* history: contents of the held file since its first fstat
  sampled,     \* history: the same, as of the last later fstat
  since        \* history: contents of the held file since that fstat

host == <<fine, mapped>>
disk == <<name, content, mode, ctime, clock, mutations, host>>
history == <<seen, sampled, since>>
vars == <<disk, reader, history>>

Kinds  == {"view", "read", "prefix"}
Labels == {"idle", "lstat", "open", "fstat", "copy", "probe", "sampleFile",
           "samplePath", "digest", "compare", "held", "close", "done"}
Results == {"none", "OK", "NOT_FOUND", "NOT_REGULAR", "TOO_LARGE",
            "ALLOCATION_FAILED", "IO_ERROR"}

(* struct stat, as far as stat_same_identity and stat_file_unchanged look. *)
Stat(o) == [id |-> o, size |-> Len(content[o]), mode |-> mode[o],
            ctime |-> ctime[o]]

(* Mutant of Unchanged: the timestamps are not compared. *)
UnchangedButTime(s, t) == [s EXCEPT !.ctime = 0] = [t EXCEPT !.ctime = 0]

SameIdentity(s, t) == s.id = t.id
Unchanged(s, t) == s = t

Idle == [pc |-> "idle", kind |-> "view", limit |-> 0, phase |-> "open", held |-> Absent,
         pathBefore |-> NoStat, before |-> NoStat, after |-> NoStat,
         pathAfter |-> NoStat, image |-> <<>>, second |-> <<>>,
         exposed |-> FALSE, opened |-> "none", result |-> "none"]

Contents == UNION {[1..n -> Values] : n \in 0..MaxChunks}

Init ==
  /\ name \in Objects
  /\ content \in [Objects -> Contents]
  /\ mode \in [Objects -> Modes]
  /\ ctime = [o \in Objects |-> 0]
  /\ clock = 0
  /\ fine \in BOOLEAN
  /\ mapped \in BOOLEAN
  /\ mutations = 0
  /\ reader = Idle
  /\ seen = {} /\ sampled = {} /\ since = {}

At(label) == reader.pc = label

Goto(label) == reader' = [reader EXCEPT !.pc = label]

(* Any failure: descriptors and mapping are released, the output cleared. *)
Fail(status) ==
  reader' = [reader EXCEPT !.pc = "done", !.held = Absent,
                           !.exposed = FALSE, !.result = status]

----------------------------------------------------------------------------
(* The reader. *)

(* Arguments are checked; a view also opens its namespace anchor. *)
Begin ==
  /\ At("idle")
  /\ \E k \in Kinds :
       \/ \E limit \in Limits :
            reader' = [reader EXCEPT !.pc = "lstat", !.kind = k,
                                     !.limit = limit]
       \/ Faults /\ k = "view" /\ Fail("IO_ERROR")
  /\ UNCHANGED <<disk, history>>

(* The first sample of the pathname, without following links. *)
LstatBefore ==
  /\ At("lstat")
  /\ \/ name = Absent /\ Fail("NOT_FOUND")
     \/ name = NotRegular /\ Fail("NOT_REGULAR")
     \/ /\ name \in Objects
        /\ reader' = [reader EXCEPT !.pc = "open", !.pathBefore = Stat(name)]
     \/ Faults /\ Fail("IO_ERROR")
  /\ UNCHANGED <<disk, history>>

(* O_NOFOLLOW refuses a link (ELOOP); another irregular object opens but is
   refused by the fstat that follows. *)
Open ==
  /\ At("open")
  /\ \/ name = Absent /\ Fail("NOT_FOUND")
     \/ name = NotRegular /\ (Fail("NOT_REGULAR") \/ Fail("IO_ERROR"))
     \/ /\ name \in Objects
        /\ reader' = [reader EXCEPT !.pc = "fstat", !.held = name]
     \/ Faults /\ Fail("IO_ERROR")
  /\ UNCHANGED <<disk, history>>

(* A view requires the opened object to be exactly the sampled one; the plain
   readers require the same inode. *)
OpenedAsSampled ==
  IF reader.kind = "view" THEN Unchanged(reader.pathBefore, Stat(reader.held))
  ELSE SameIdentity(reader.pathBefore, Stat(reader.held))

TooLarge == reader.kind # "prefix" /\ Len(content[reader.held]) > reader.limit

FstatBefore ==
  /\ At("fstat")
  /\ \/ /\ OpenedAsSampled /\ ~TooLarge
        /\ reader' = [reader EXCEPT !.pc = "copy",
                                    !.before = Stat(reader.held)]
        /\ seen' = {content[reader.held]}
     \/ /\ \/ ~OpenedAsSampled /\ Fail("IO_ERROR")
           \/ OpenedAsSampled /\ TooLarge /\ Fail("TOO_LARGE")
           \/ Faults /\ (Fail("ALLOCATION_FAILED") \/ Fail("IO_ERROR"))
        /\ UNCHANGED seen
  /\ UNCHANGED <<disk, sampled, since>>

Wanted == IF reader.kind = "prefix" /\ Capacity < reader.before.size
          THEN Capacity ELSE reader.before.size

(* posix_copy_to_memory_exact / posix_read_all: a file cut short fails. *)
Copy ==
  /\ At("copy")
  /\ \/ /\ Len(reader.image) = Wanted
        /\ Goto(IF reader.kind = "read" THEN "probe" ELSE "sampleFile")
     \/ /\ Len(reader.image) < Wanted
        /\ \/ /\ Len(reader.image) < Len(content[reader.held])
              /\ reader' = [reader EXCEPT !.image =
                              Append(@, content[reader.held][Len(@) + 1])]
           \/ /\ Faults \/ Len(reader.image) >= Len(content[reader.held])
              /\ Fail("IO_ERROR")
  /\ UNCHANGED <<disk, history>>

(* common_file_read_regular reads one byte more, which must not exist. *)
Probe ==
  /\ At("probe")
  /\ \/ Len(content[reader.held]) <= reader.before.size /\ Goto("sampleFile")
     \/ /\ Faults \/ Len(content[reader.held]) > reader.before.size
        /\ Fail("IO_ERROR")
  /\ UNCHANGED <<disk, history>>

(* fstat of the held file; common_file_view_close begins with it, too. *)
SampleFile ==
  /\ At("sampleFile") \/ At("held")
  /\ \/ /\ reader' = [reader EXCEPT !.pc = "samplePath",
                                    !.phase = IF At("held") THEN "close"
                                              ELSE @,
                                    !.second = <<>>,
                                    !.after = Stat(reader.held)]
        /\ sampled' = seen
        /\ since' = {content[reader.held]}
     \/ /\ Faults /\ Fail("IO_ERROR")
        /\ UNCHANGED <<sampled, since>>
  /\ UNCHANGED <<disk, seen>>

(* The last sample of the pathname. *)
SamplePath ==
  /\ At("samplePath")
  /\ \/ /\ name \in Objects
        /\ reader' = [reader EXCEPT
             !.pc = IF reader.kind = "view" THEN "digest" ELSE "compare",
             !.pathAfter = Stat(name)]
     \/ (Faults \/ name \notin Objects) /\ Fail("IO_ERROR")
  /\ UNCHANGED <<disk, history>>

(* posix_digest_exact: the second pass over the held file. *)
Digest ==
  /\ At("digest")
  /\ \/ Len(reader.second) = reader.before.size /\ Goto("compare")
     \/ /\ Len(reader.second) < reader.before.size
        /\ \/ /\ Len(reader.second) < Len(content[reader.held])
              /\ reader' = [reader EXCEPT !.second =
                              Append(@, content[reader.held][Len(@) + 1])]
           \/ /\ Faults \/ Len(reader.second) >= Len(content[reader.held])
              /\ Fail("IO_ERROR")
  /\ UNCHANGED <<disk, history>>

(* Mutant of Agrees: the second digest is not compared. *)
AgreesByStat ==
  /\ Unchanged(reader.before, reader.after)
  /\ IF reader.kind = "view" THEN Unchanged(reader.after, reader.pathAfter)
     ELSE SameIdentity(reader.after, reader.pathAfter)

Agrees ==
  /\ Unchanged(reader.before, reader.after)
  /\ IF reader.kind = "view"
     THEN /\ reader.second = reader.image
          /\ Unchanged(reader.after, reader.pathAfter)
     ELSE SameIdentity(reader.after, reader.pathAfter)

(* An opened view is exposed and held; any other call goes on to close. *)
Compare ==
  /\ At("compare")
  /\ \/ /\ Agrees
        /\ reader' =
             IF reader.kind = "view" /\ reader.phase = "open"
             THEN [reader EXCEPT !.pc = "held", !.exposed = TRUE,
                                 !.opened = "OK"]
             ELSE [reader EXCEPT !.pc = "close"]
     \/ (Faults \/ ~Agrees) /\ Fail("IO_ERROR")
  /\ UNCHANGED <<disk, history>>

(* The closes; one that fails clears the output. *)
Close ==
  /\ At("close")
  /\ \/ reader' = [reader EXCEPT !.pc = "done", !.held = Absent,
                                 !.exposed = FALSE, !.result = "OK"]
     \/ Faults /\ Fail("IO_ERROR")
  /\ UNCHANGED <<disk, history>>

ReaderStep == \/ Begin \/ LstatBefore \/ Open \/ FstatBefore \/ Copy \/ Probe
              \/ SampleFile \/ SamplePath \/ Digest \/ Compare \/ Close

----------------------------------------------------------------------------
(* Other programs. *)

(* They only matter while the call runs: what they do before it is one of the
   initial states, what they do after it changes no answer. *)
Mutate ==
  /\ ~At("idle") /\ ~At("done")
  /\ mutations < MaxMutations
  /\ mutations' = mutations + 1

(* The timestamp of a change: always a later one with a fine clock, possibly
   that of an earlier change with a coarse one. *)
Stamp(o) ==
  /\ clock' \in IF fine THEN {clock + 1} ELSE {clock, clock + 1}
  /\ ctime' = [ctime EXCEPT ![o] = clock']

Rewrite(o, c) ==
  /\ content' = [content EXCEPT ![o] = c]
  /\ seen' = IF o = reader.held THEN seen \cup {c} ELSE seen
  /\ since' = IF o = reader.held THEN since \cup {c} ELSE since
  /\ UNCHANGED sampled

(* write, pwrite, truncate, append: one chunk at a time. *)
Edited(c) ==
  {[c EXCEPT ![i] = v] : i \in 1..Len(c), v \in Values}
  \cup (IF Len(c) < MaxChunks THEN {Append(c, v) : v \in Values} ELSE {})
  \cup (IF Len(c) > 0 THEN {SubSeq(c, 1, Len(c) - 1)} ELSE {})

WriteFile ==
  /\ Mutate
  /\ \E o \in Objects : \E c \in Edited(content[o]) \ {content[o]} :
       Rewrite(o, c) /\ Stamp(o)
  /\ UNCHANGED <<name, mode, host, reader>>

(* A store into a shared mapping of an already dirty page. *)
StoreMapped ==
  /\ mapped
  /\ Mutate
  /\ \E o \in Objects : \E c \in Edited(content[o]) \ {content[o]} :
       Len(c) = Len(content[o]) /\ Rewrite(o, c)
  /\ UNCHANGED <<name, mode, ctime, clock, host, reader>>

Chmod ==
  /\ Mutate
  /\ \E o \in Objects, m \in Modes :
       mode[o] # m /\ mode' = [mode EXCEPT ![o] = m] /\ Stamp(o)
  /\ UNCHANGED <<name, content, host, reader, history>>

(* The pathname, or a directory on the way, is moved. *)
Rename ==
  /\ Mutate
  /\ name' \in (Objects \cup {Absent, NotRegular}) \ {name}
  /\ UNCHANGED <<content, mode, ctime, clock, host, reader, history>>

OtherStep == WriteFile \/ StoreMapped \/ Chmod \/ Rename

Next == ReaderStep \/ OtherStep

Spec == Init /\ [][Next]_vars

----------------------------------------------------------------------------
(* Properties. *)

Stats == [id : Objects, size : 0..MaxChunks, mode : Modes,
          ctime : 0..MaxMutations] \cup {NoStat}

Locals == [pc : Labels, kind : Kinds, limit : Limits \cup {0}, phase : {"open", "close"},
           held : Objects \cup {Absent}, pathBefore : Stats, before : Stats,
           after : Stats, pathAfter : Stats, image : Contents, second : Contents,
           exposed : BOOLEAN, opened : Results, result : Results]

(* Every variable keeps its type. *)
TypeOK ==
  /\ name \in Objects \cup {Absent, NotRegular}
  /\ content \in [Objects -> Contents]
  /\ mode \in [Objects -> Modes]
  /\ ctime \in [Objects -> 0..MaxMutations]
  /\ clock \in 0..MaxMutations
  /\ fine \in BOOLEAN
  /\ mapped \in BOOLEAN
  /\ mutations \in 0..MaxMutations
  /\ reader \in Locals
  /\ seen \subseteq Contents
  /\ sampled \subseteq Contents
  /\ since \subseteq Contents

(* A call has answered OK: a view is held, or a call is over. *)
Delivered == At("held") \/ reader.result = "OK"

(* "observed metadata/content races fail closed": where every change is
   timestamped, what any of the three readers delivers is the one content the
   file had from the first fstat to the last one before the answer; for a
   closed view that is the whole time it was held. *)
StableRead ==
  /\ TypeOK
  /\ Delivered /\ fine /\ ~mapped =>
       \E c \in sampled :
         /\ sampled = {c}
         /\ reader.image = IF reader.kind = "prefix" /\ Capacity < Len(c)
                           THEN SubSeq(c, 1, Capacity) ELSE c

(* common_file_view_close "re-hashes the held source": a change that is still
   there when the close samples the file is never missed, whatever the
   timestamps say. *)
CloseRehashes ==
  reader.kind = "view" /\ reader.opened = "OK" /\ reader.result = "OK" =>
    \A c \in since : since = {c} => reader.image = c

(* A view is a genuine snapshot even against a coarse clock and untimestamped
   stores: the second pass accepts only bytes the file really had at one
   instant, as long as fewer changes than an A-to-B-to-A of every chunk in
   both passes take place. *)
GenuineView ==
  /\ reader.kind = "view" /\ Delivered => reader.image \in seen
  /\ CloseRehashes
=============================================================================

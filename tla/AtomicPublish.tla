--------------------------- MODULE AtomicPublish ---------------------------
(***************************************************************************)
(* common_file_write_new_atomic (src/src/common/file_io.c) on POSIX hosts: *)
(* the publication of a new regular file through an unnamed or named       *)
(* temporary and an atomic no-replace primitive, one action per system     *)
(* call that another process can be interleaved with.                      *)
(*                                                                         *)
(* Several publishers write the same destination pathname.  Between their  *)
(* steps the environment may move another directory under the parent       *)
(* pathname, remove, replace or hard-link the destination, and lose power. *)
(* A file is named by the publisher that writes it (its inode); Foreign is *)
(* any object another program created.                                     *)
(***************************************************************************)
EXTENDS Naturals, FiniteSets

CONSTANTS
  Publishers,   \* one call of common_file_write_new_atomic each
  Dirs,         \* directory inodes the parent pathname may resolve to
  Blocks,       \* the number of writes the payload takes (posix_write_all)
  Absent,       \* "no such name"
  Foreign,      \* a file no publisher wrote
  NoDir,        \* the parent pathname resolves to nothing
  Platform,     \* each publisher's host, "linux", "apple" or "posix": the
                \* #if branches of the code (hosts may share a directory)
  Faults,       \* may system calls fail for reasons of their own?
  Hostile,      \* may others touch names inside the held directory?
  MaxEnv,       \* bound on the environment's steps
  MaxCrashes    \* bound on power losses

ASSUME PublishAssumption ==
  /\ Blocks \in Nat
  /\ MaxEnv \in Nat
  /\ MaxCrashes \in Nat
  /\ Faults \in BOOLEAN
  /\ Hostile \in BOOLEAN
  /\ Platform \in [Publishers -> {"linux", "apple", "posix"}]
  /\ Absent \notin Publishers
  /\ Foreign \notin Publishers
  /\ Absent # Foreign
  /\ NoDir \notin Dirs

VARIABLES
  parentPath,   \* the directory the parent pathname resolves to
  entry,        \* what the destination name denotes in each directory
  stable,       \* what it denotes on storage
  temp,         \* what a publisher's temporary name denotes in its directory
  cached,       \* payload blocks a file shows to readers
  durable,      \* payload blocks a file keeps across a power loss
  alias,        \* files another program gave one more hard link
  call,         \* the local state of each call
  touched,      \* history: directories whose destination others changed
  envSteps,     \* environment steps taken
  crashes       \* power losses so far

files   == <<entry, stable, temp, cached, durable, alias>>
history == <<touched, envSteps, crashes>>
vars    == <<parentPath, files, call, history>>

Entry == Publishers \cup {Foreign, Absent}

Label == {"idle", "openParent", "lookup", "recheckExisting", "create",
          "write", "bind", "publish", "publishProc", "checkDestination",
          "release", "unlink", "confirm", "sync", "recheckParent",
          "recheckDestination", "checkNamed", "close", "done", "crashed"}

Status == {"none", "OK", "INVALID_ARGUMENT", "ALLOCATION_FAILED",
           "TOO_LARGE", "ALREADY_EXISTS", "IO_ERROR"}

(***************************************************************************)
(* The local variables of one call.  fds holds the open descriptors,       *)
(* links the st_nlink sampled by posix_unlink_held_temporary.              *)
(***************************************************************************)
Call == [pc        : Label,
         parent    : Dirs \cup {NoDir},
         fds       : SUBSET {"root", "parent", "temporary", "reopened"},
         bound     : BOOLEAN,
         published : BOOLEAN,
         eexist    : BOOLEAN,
         destBound : BOOLEAN,
         released  : BOOLEAN,
         result    : Status]

NoCall == [pc |-> "idle", parent |-> NoDir, fds |-> {}, bound |-> FALSE,
           published |-> FALSE, eexist |-> FALSE, destBound |-> FALSE,
           released |-> FALSE, result |-> "none"]

Init ==
  /\ parentPath \in Dirs
  /\ entry \in [Dirs -> {Absent, Foreign}]
  /\ stable = entry
  /\ temp = [p \in Publishers |-> Absent]
  /\ cached = [p \in Publishers |-> 0]
  /\ durable = [p \in Publishers |-> 0]
  /\ alias = {}
  /\ call = [p \in Publishers |-> NoCall]
  /\ touched = {}
  /\ envSteps = 0
  /\ crashes = 0

At(p, label) == call[p].pc = label

Goto(p, label) == call' = [call EXCEPT ![p].pc = label]

(* An early return: the status, with every descriptor closed. *)
Return(p, status) ==
  call' = [call EXCEPT ![p].pc = "done", ![p].fds = {}, ![p].result = status]

(* st_nlink of the file a publisher writes. *)
Links(p) == Cardinality({d \in Dirs : entry[d] = p})
            + (IF temp[p] = p THEN 1 ELSE 0)
            + (IF p \in alias THEN 1 ELSE 0)

----------------------------------------------------------------------------
(* The call, system call by system call. *)

(* Arguments are split and the anchor ("/" or ".") is opened. *)
Begin(p) ==
  /\ At(p, "idle")
  /\ \/ call' = [call EXCEPT ![p].pc = "openParent", ![p].fds = {"root"}]
     \/ /\ Faults
        /\ \E s \in {"INVALID_ARGUMENT", "ALLOCATION_FAILED", "TOO_LARGE",
                     "IO_ERROR"} : Return(p, s)
  /\ UNCHANGED <<parentPath, files, history>>

(* openat of the parent, held until the call returns. *)
OpenParent(p) ==
  /\ At(p, "openParent")
  /\ \/ /\ parentPath # NoDir
        /\ call' = [call EXCEPT ![p].pc = "lookup",
                                ![p].parent = parentPath,
                                ![p].fds = @ \cup {"parent"}]
     \/ /\ Faults \/ parentPath = NoDir
        /\ Return(p, "IO_ERROR")
  /\ UNCHANGED <<parentPath, files, history>>

(* fstatat of the destination: an existing one ends the call. *)
Lookup(p) ==
  /\ At(p, "lookup")
  /\ \/ /\ entry[call[p].parent] # Absent
        /\ Goto(p, "recheckExisting")
     \/ /\ entry[call[p].parent] = Absent
        /\ Goto(p, "create")
     \/ /\ Faults
        /\ Return(p, "IO_ERROR")
  /\ UNCHANGED <<parentPath, files, history>>

(* The destination existed: it counts only while the parent pathname still
   leads to the held directory. *)
RecheckExisting(p) ==
  /\ At(p, "recheckExisting")
  /\ \/ /\ parentPath = call[p].parent
        /\ Return(p, "ALREADY_EXISTS")
     \/ /\ Faults \/ parentPath # call[p].parent
        /\ Return(p, "IO_ERROR")
  /\ UNCHANGED <<parentPath, files, history>>

(* O_TMPFILE on Linux, a random O_EXCL name elsewhere. *)
CreateTemporary(p) ==
  /\ At(p, "create")
  /\ \/ /\ call' = [call EXCEPT ![p].pc = "write",
                                ![p].fds = @ \cup {"temporary"}]
        /\ temp' = IF Platform[p] = "linux" THEN temp
                   ELSE [temp EXCEPT ![p] = p]
     \/ /\ Faults
        /\ Return(p, "IO_ERROR")
        /\ UNCHANGED temp
  /\ UNCHANGED <<parentPath, entry, stable, cached, durable, alias, history>>

(* posix_write_all, one write at a time. *)
Write(p) ==
  /\ At(p, "write")
  /\ cached[p] < Blocks
  /\ \/ /\ cached' = [cached EXCEPT ![p] = @ + 1]
        /\ UNCHANGED call
     \/ /\ Faults
        /\ Goto(p, "release")
        /\ UNCHANGED cached
  /\ UNCHANGED <<parentPath, entry, stable, temp, durable, alias, history>>

(* Mutant of Flush: no fsync before the file gets its name. *)
FlushForgotten(p) ==
  /\ At(p, "write")
  /\ cached[p] = Blocks
  /\ Goto(p, "bind")
  /\ UNCHANGED <<parentPath, files, history>>

(* posix_flush_file: the content is on storage before it has a name. *)
Flush(p) ==
  /\ At(p, "write")
  /\ cached[p] = Blocks
  /\ \/ /\ durable' = [durable EXCEPT ![p] = cached[p]]
        /\ Goto(p, "bind")
     \/ /\ Faults
        /\ Goto(p, "release")
        /\ UNCHANGED durable
  /\ UNCHANGED <<parentPath, entry, stable, temp, cached, alias, history>>

(* temporary_bound: the held object is still the whole, private file. *)
TemporaryMatches(p) ==
  IF Platform[p] = "linux" THEN cached[p] = Blocks /\ Links(p) = 0
                        ELSE temp[p] = p

Bind(p) ==
  /\ At(p, "bind")
  /\ \/ /\ TemporaryMatches(p)
        /\ call' = [call EXCEPT ![p].pc = "publish", ![p].bound = TRUE]
     \/ /\ Faults \/ ~TemporaryMatches(p)
        /\ Goto(p, "release")
  /\ UNCHANGED <<parentPath, files, history>>

(* The file the no-replace primitive would name, and the primitive itself:
   linkat of the held descriptor on Linux, renameatx_np(RENAME_EXCL) of the
   temporary name on Apple, linkat of that name elsewhere. *)
Source(p) == IF Platform[p] = "linux" THEN p ELSE temp[p]

(* Mutant of LinkDestination: a plain rename, which replaces. *)
LinkReplaces(p) ==
  /\ Source(p) # Absent
  /\ entry' = [entry EXCEPT ![call[p].parent] = Source(p)]
  /\ temp' = IF Platform[p] = "apple" THEN [temp EXCEPT ![p] = Absent] ELSE temp
  /\ call' = [call EXCEPT ![p].pc = "checkDestination",
                          ![p].published = TRUE]

LinkDestination(p) ==
  /\ entry[call[p].parent] = Absent
  /\ Source(p) # Absent
  /\ entry' = [entry EXCEPT ![call[p].parent] = Source(p)]
  /\ temp' = IF Platform[p] = "apple" THEN [temp EXCEPT ![p] = Absent] ELSE temp
  /\ call' = [call EXCEPT ![p].pc = "checkDestination",
                          ![p].published = TRUE]

(* Mutant of LinkRefused: EEXIST is retried for ever. *)
LinkRefusedRetries(p) ==
  /\ entry[call[p].parent] # Absent
  /\ UNCHANGED <<entry, temp, call>>

LinkRefused(p) ==
  /\ entry[call[p].parent] # Absent
  /\ Source(p) # Absent
  /\ call' = [call EXCEPT ![p].pc = "release", ![p].eexist = TRUE]
  /\ UNCHANGED <<entry, temp>>

(* Mutant of LinkFails: every errno is taken for EEXIST. *)
LinkFailsAsExists(p) ==
  /\ Faults \/ Source(p) = Absent
  /\ call' = [call EXCEPT ![p].pc = "release", ![p].eexist = TRUE]
  /\ UNCHANGED <<entry, temp>>

(* Any other errno; Linux then retries through /proc/self/fd once. *)
LinkFails(p) ==
  /\ Faults \/ Source(p) = Absent
  /\ Goto(p, IF Platform[p] = "linux" /\ At(p, "publish") THEN "publishProc"
                                                       ELSE "release")
  /\ UNCHANGED <<entry, temp>>

Publish(p) ==
  /\ call[p].pc \in {"publish", "publishProc"}
  /\ LinkDestination(p) \/ LinkRefused(p) \/ LinkFails(p)
  /\ UNCHANGED <<parentPath, stable, cached, durable, alias, history>>

(* destination_bound: does the new name denote the held file? *)
CheckDestination(p) ==
  /\ At(p, "checkDestination")
  /\ \/ call' = [call EXCEPT ![p].pc = "release",
                             ![p].destBound = entry[call[p].parent] = p]
     \/ Faults /\ Goto(p, "release")
  /\ UNCHANGED <<parentPath, files, history>>

(* posix_unlink_held_temporary's expected_links_after. *)
ExpectedLinks(p) == IF call[p].published THEN 1 ELSE 0

Released(p, label, ok) ==
  call' = [call EXCEPT ![p].pc = label, ![p].released = ok]

(* temporary_released without a name to remove: Linux, and Apple after the
   rename.  An unpublished Linux file disappears with its descriptor. *)
ReleaseUnnamed(p) ==
  /\ At(p, "release")
  /\ Platform[p] = "linux" \/ (Platform[p] = "apple" /\ call[p].published)
  /\ \/ Released(p, "sync", ~call[p].published \/ Links(p) = 1)
     \/ /\ Faults /\ call[p].published
        /\ Released(p, "sync", FALSE)
  /\ UNCHANGED <<parentPath, files, history>>

(* Mutant of ReleaseNamed: a refused temporary is not removed. *)
ReleaseKeepsName(p) ==
  /\ At(p, "release")
  /\ Platform[p] = "posix" \/ (Platform[p] = "apple" /\ ~call[p].published)
  /\ Released(p, "sync", TRUE)
  /\ UNCHANGED <<parentPath, files, history>>

(* temporary_released with a name: fstat of the held file and fstatat of the
   name; only a name that still denotes the held file is removed. *)
ReleaseNamed(p) ==
  /\ At(p, "release")
  /\ Platform[p] = "posix" \/ (Platform[p] = "apple" /\ ~call[p].published)
  /\ \/ temp[p] = p /\ Goto(p, "unlink")
     \/ temp[p] = Absent /\ Released(p, "sync", Links(p) = ExpectedLinks(p))
     \/ (temp[p] = Foreign \/ Faults) /\ Released(p, "sync", FALSE)
  /\ UNCHANGED <<parentPath, files, history>>

(* unlinkat removes whatever the name denotes by now. *)
Unlink(p) ==
  /\ At(p, "unlink")
  /\ \/ /\ temp[p] # Absent
        /\ temp' = [temp EXCEPT ![p] = Absent]
        /\ Goto(p, "confirm")
     \/ /\ Faults \/ temp[p] = Absent
        /\ Released(p, "sync", FALSE)
        /\ UNCHANGED temp
  /\ UNCHANGED <<parentPath, entry, stable, cached, durable, alias, history>>

ConfirmUnlinked(p) ==
  /\ At(p, "confirm")
  /\ \/ Released(p, "sync", Links(p) = ExpectedLinks(p))
     \/ Faults /\ Released(p, "sync", FALSE)
  /\ UNCHANGED <<parentPath, files, history>>

(* fsync of the held parent directory, and the choice of the last check: a
   call that cannot succeed any more goes straight to its closes. *)
AfterSync(p) ==
  IF call[p].published /\ call[p].destBound THEN "recheckDestination"
  ELSE IF ~call[p].published /\ call[p].bound /\ call[p].eexist
       THEN "recheckParent" ELSE "close"

(* Mutant of SyncDirectory: the directory is not flushed. *)
SyncForgotten(p) ==
  /\ At(p, "sync")
  /\ Goto(p, IF call[p].released THEN AfterSync(p) ELSE "close")
  /\ UNCHANGED <<parentPath, files, history>>

SyncDirectory(p) ==
  /\ At(p, "sync")
  /\ \/ /\ call[p].released
        /\ stable' = [stable EXCEPT ![call[p].parent] = entry[call[p].parent]]
        /\ Goto(p, AfterSync(p))
     \/ /\ Faults \/ ~call[p].released
        /\ Goto(p, "close")
        /\ UNCHANGED stable
  /\ UNCHANGED <<parentPath, entry, temp, cached, durable, alias, history>>

(* posix_namespace_parent_matches on the way to ALREADY_EXISTS. *)
RecheckParent(p) ==
  /\ At(p, "recheckParent")
  /\ \/ /\ parentPath = call[p].parent
        /\ call' = [call EXCEPT ![p].pc = "close",
                                ![p].result = "ALREADY_EXISTS"]
     \/ /\ Faults \/ parentPath # call[p].parent
        /\ Goto(p, "close")
  /\ UNCHANGED <<parentPath, files, history>>

(* posix_namespace_destination_matches: reopen the parent by its pathname,
   then look the destination up in what was reopened. *)
RecheckDestination(p) ==
  /\ At(p, "recheckDestination")
  /\ \/ /\ parentPath = call[p].parent
        /\ call' = [call EXCEPT ![p].pc = "checkNamed",
                                ![p].fds = @ \cup {"reopened"}]
     \/ /\ Faults \/ parentPath # call[p].parent
        /\ Goto(p, "close")
  /\ UNCHANGED <<parentPath, files, history>>

(* Mutant of CheckNamed: the reopened parent is enough. *)
CheckNamedBlind(p) ==
  /\ At(p, "checkNamed")
  /\ call' = [call EXCEPT ![p].pc = "close",
                          ![p].fds = @ \ {"reopened"},
                          ![p].result = "OK"]
  /\ UNCHANGED <<parentPath, files, history>>

CheckNamed(p) ==
  /\ At(p, "checkNamed")
  /\ \/ /\ entry[call[p].parent] = p
        /\ call' = [call EXCEPT ![p].pc = "close",
                                ![p].fds = @ \ {"reopened"},
                                ![p].result = "OK"]
     \/ /\ Faults \/ entry[call[p].parent] # p
        /\ call' = [call EXCEPT ![p].pc = "close",
                                ![p].fds = @ \ {"reopened"}]
  /\ UNCHANGED <<parentPath, files, history>>

(* The closes; one that fails turns every answer into IO_ERROR. *)
Close(p) ==
  /\ At(p, "close")
  /\ \/ Return(p, IF call[p].result = "none" THEN "IO_ERROR"
                  ELSE call[p].result)
     \/ Faults /\ Return(p, "IO_ERROR")
  /\ UNCHANGED <<parentPath, files, history>>

Step(p) ==
  \/ Begin(p) \/ OpenParent(p) \/ Lookup(p) \/ RecheckExisting(p)
  \/ CreateTemporary(p) \/ Write(p) \/ Flush(p) \/ Bind(p) \/ Publish(p)
  \/ CheckDestination(p) \/ ReleaseUnnamed(p) \/ ReleaseNamed(p)
  \/ Unlink(p) \/ ConfirmUnlinked(p) \/ SyncDirectory(p)
  \/ RecheckParent(p) \/ RecheckDestination(p) \/ CheckNamed(p) \/ Close(p)

----------------------------------------------------------------------------
(* The environment: other programs and the machine. *)

EnvStep == envSteps < MaxEnv /\ envSteps' = envSteps + 1

(* Another directory, or nothing, appears under the parent pathname. *)
SwapParent ==
  /\ EnvStep
  /\ parentPath' \in (Dirs \cup {NoDir}) \ {parentPath}
  /\ UNCHANGED <<files, call, touched, crashes>>

(* The destination is removed, or an object of another program put there. *)
DisturbDestination ==
  /\ EnvStep
  /\ \E d \in Dirs, f \in {Absent, Foreign} :
       /\ entry[d] # f
       /\ entry' = [entry EXCEPT ![d] = f]
       /\ touched' = touched \cup {d}
  /\ UNCHANGED <<parentPath, stable, temp, cached, durable, alias, call,
                 crashes>>

(* A published file gets a second hard link. *)
AliasDestination ==
  /\ EnvStep
  /\ \E p \in Publishers \ alias :
       /\ \E d \in Dirs : entry[d] = p
       /\ alias' = alias \cup {p}
  /\ UNCHANGED <<parentPath, entry, stable, temp, cached, durable, call,
                 touched, crashes>>

(* The same principal plays with the temporary name in the held directory. *)
DisturbTemporary ==
  /\ Hostile
  /\ EnvStep
  /\ \E p \in Publishers, f \in {Absent, Foreign} :
       /\ temp[p] \notin {f, Absent}
       /\ temp' = [temp EXCEPT ![p] = f]
  /\ UNCHANGED <<parentPath, entry, stable, cached, durable, alias, call,
                 touched, crashes>>

(* Power loss: each destination name is what it was or what storage holds,
   each file keeps some blocks beyond the flushed ones, every running call
   is gone.  A named temporary stays behind. *)
Crash ==
  /\ crashes < MaxCrashes
  /\ crashes' = crashes + 1
  /\ entry' \in {e \in [Dirs -> Entry] :
                   \A d \in Dirs : e[d] \in {entry[d], stable[d]}}
  /\ stable' = entry'
  /\ cached' \in {c \in [Publishers -> 0..Blocks] :
                    \A p \in Publishers : durable[p] <= c[p]
                                          /\ c[p] <= cached[p]}
  /\ durable' = cached'
  /\ call' = [p \in Publishers |->
                IF call[p].pc \in {"idle", "done"} THEN call[p]
                ELSE [call[p] EXCEPT !.pc = "crashed", !.fds = {}]]
  /\ UNCHANGED <<parentPath, temp, alias, touched, envSteps>>

Environment == SwapParent \/ DisturbDestination \/ AliasDestination
               \/ DisturbTemporary \/ Crash

Next == (\E p \in Publishers : Step(p)) \/ Environment

Spec == Init /\ [][Next]_vars

(* A call is ordinary sequential code: it is never stopped for good, unless
   the machine is. *)
FairSpec == Spec /\ \A p \in Publishers : WF_vars(Step(p))

----------------------------------------------------------------------------
(* Properties. *)

(* Every variable keeps its type; the counters stay within their bounds. *)
TypeOK ==
  /\ parentPath \in Dirs \cup {NoDir}
  /\ entry \in [Dirs -> Entry]
  /\ stable \in [Dirs -> Entry]
  /\ temp \in [Publishers -> Entry]
  /\ cached \in [Publishers -> 0..Blocks]
  /\ durable \in [Publishers -> 0..Blocks]
  /\ alias \subseteq Publishers
  /\ call \in [Publishers -> Call]
  /\ touched \subseteq Dirs
  /\ envSteps \in 0..MaxEnv
  /\ crashes \in 0..MaxCrashes

Whole(p) == cached[p] = Blocks /\ durable[p] = Blocks

(* "Publishes a new regular file atomically": whatever the interleaving and
   whenever power is lost, the destination name, in memory and on storage,
   denotes either nothing of a publisher or the whole of its payload. *)
NeverPartial ==
  \A d \in Dirs, p \in Publishers :
    entry[d] = p \/ stable[d] = p => Whole(p)

(* "success is reported only after" the file and the directory are flushed
   and the destination is known to be the written file: a call that answered
   OK leaves its file under the name, also after a power loss, until somebody
   else changes the directory. *)
OkSurvives ==
  \A p \in Publishers :
    call[p].result = "OK" /\ call[p].parent \notin touched =>
      entry[call[p].parent] = p /\ stable[call[p].parent] = p

(* ALREADY_EXISTS is about somebody else's destination: there is one, and it
   is not the caller's own half-published file. *)
RefusalJustified ==
  \A p \in Publishers :
    call[p].result = "ALREADY_EXISTS" =>
      /\ \A d \in Dirs : entry[d] # p /\ stable[d] # p
      /\ call[p].parent \notin touched /\ crashes = 0 =>
           entry[call[p].parent] # Absent

(* Only IO_ERROR leaves anything behind: any other final answer means that
   the temporary name is gone, and only OK means that the file has a name.
   common_output_publish_exact_residue_possible relies on it. *)
ResidueOnlyOnIoError ==
  \A p \in Publishers :
    At(p, "done") /\ call[p].result # "IO_ERROR" =>
      /\ temp[p] # p
      /\ call[p].fds = {}
      /\ call[p].result # "OK" => \A d \in Dirs : entry[d] # p

(* The inductive form of NeverPartial and OkSurvives: what each point of the
   call may rely on.  A temporary name denotes only its own file or one of
   another program; whatever is about to be named is whole; a confirmed name
   is durable before the answer is chosen. *)
CallInvariant(p) ==
  /\ temp[p] \in {p, Foreign, Absent}
  /\ call[p].bound \/ At(p, "bind") => Whole(p)
  /\ call[p].pc \in {"publish", "publishProc"} => call[p].bound
  /\ \A d \in Dirs : entry[d] = p \/ stable[d] = p => Whole(p)
  /\ call[p].pc \notin {"idle", "openParent", "done", "crashed"} =>
       call[p].parent \in Dirs
  /\ call[p].pc \in {"recheckDestination", "checkNamed"}
     /\ entry[call[p].parent] = p => stable[call[p].parent] = p
  /\ call[p].result = "OK" =>
       /\ call[p].pc \in {"close", "done", "crashed"}
       /\ call[p].parent \in Dirs
       /\ call[p].parent \notin touched =>
            entry[call[p].parent] = p /\ stable[call[p].parent] = p

IInv == TypeOK /\ \A p \in Publishers : CallInvariant(p)

(* "The destination is never overwritten": no step of a publisher changes a
   destination name that denotes something. *)
NeverOverwrites ==
  [][(\E p \in Publishers : Step(p)) =>
       \A d \in Dirs : entry[d] # Absent => entry'[d] = entry[d]]_vars

(* "a concurrent publisher wins or loses atomically": when nothing fails and
   nobody else interferes, exactly one of the calls that ended has won, or
   none where the destination was there first, and all the others know. *)
Undisturbed == ~Faults /\ envSteps = 0 /\ crashes = 0

OneWinner ==
  Undisturbed /\ (\A p \in Publishers : At(p, "done")) =>
    /\ \A p \in Publishers :
         call[p].result = IF entry[parentPath] = p THEN "OK"
                          ELSE "ALREADY_EXISTS"
    /\ entry[parentPath] # Absent

(* Every call comes back, unless power is lost under it. *)
EveryCallReturns ==
  \A p \in Publishers :
    At(p, "openParent") ~> call[p].pc \in {"done", "crashed"}

(* The call implements the write-once name of WriteOnce: how far it is there
   follows from its local variables here. *)
Progress(p) ==
  CASE At(p, "crashed") -> "failed"
    [] At(p, "done") -> IF call[p].result = "OK" THEN "OK"
                        ELSE IF call[p].result = "ALREADY_EXISTS"
                        THEN "EXISTS" ELSE "failed"
    [] ~At(p, "crashed") /\ ~At(p, "done") ->
         IF call[p].result = "OK" THEN "committed"
         ELSE IF call[p].published THEN "placed"
         ELSE IF call[p].eexist \/ At(p, "recheckExisting") THEN "refused"
         ELSE "pending"

Abstract == INSTANCE WriteOnce WITH
  state <- [p \in Publishers |-> Progress(p)],
  place <- [p \in Publishers |-> IF call[p].published THEN call[p].parent
                                 ELSE NoDir]

(* Without hostile names in the held directory, every behaviour of the system
   calls is one of the write-once name. *)
ImplementsWriteOnce == Abstract!Spec
=============================================================================

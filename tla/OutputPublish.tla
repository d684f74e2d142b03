--------------------------- MODULE OutputPublish ---------------------------
(***************************************************************************)
(* src/src/common/output_publish.c: exact publication of sets of related   *)
(* artifacts.  Callers follow output_publish.h: preflight every member of  *)
(* the set, publish the members one by one, stop at the first failure, ask *)
(* common_output_publish_exact_residue_possible about an IO_ERROR.         *)
(*                                                                         *)
(* The write is the write-once name of WriteOnce, which AtomicPublish is   *)
(* shown to implement: one publisher per caller and artifact, one name per *)
(* artifact.  A view is an interval between its open and its close, which  *)
(* succeeds only if the sampled file did not change (FileView).            *)
(***************************************************************************)
EXTENDS Naturals, Sequences

CONSTANTS
  Callers,       \* runs of a tool that publishes the whole set
  Artifacts,     \* the destination paths, in publication order (a sequence)
  Data,          \* what a file may hold
  Cases,         \* the cases considered, each with output[c][a], the bytes
                 \* caller c has for artifact a; restamps, does the host touch a
                 \* file again once it has its name?; faulty, may a write fail
                 \* for a reason of its own?
  Absent, Foreign, NoDir,
  ViewFaults,    \* may a view fail for a reason of its own?
  MaxDisturb,    \* bound on other programs' changes to the destinations
  MaxCrashes     \* bound on power losses

Paths == {Artifacts[i] : i \in 1..Len(Artifacts)}

ASSUME OutputAssumption ==
  /\ Artifacts \in Seq(Paths) /\ Len(Artifacts) > 0
  /\ \A i, j \in 1..Len(Artifacts) : Artifacts[i] = Artifacts[j] => i = j
  /\ Absent # Foreign /\ {Absent, Foreign} \cap (Callers \X Paths) = {}
  /\ NoDir \notin Paths
  /\ Cases \subseteq [output : [Callers -> [Paths -> Data]],
                      restamps : BOOLEAN, faulty : BOOLEAN]
  /\ MaxDisturb \in Nat /\ MaxCrashes \in Nat
  /\ ViewFaults \in BOOLEAN

VARIABLES
  case,                          \* the case at hand; it never changes
  entry, stable, state, place,   \* the write-once names
  foreign,    \* what another program's file under a name holds
  settled,    \* publishers that will not touch their file any more
  caller,     \* local state of each caller
  disturbed,  \* history: names other programs changed
  changes,    \* how often they did
  crashes     \* power losses so far

names == <<entry, stable, state, place>>
env   == <<foreign, disturbed, changes, crashes>>
vars  == <<case, names, settled, caller, env>>

Publishers == Callers \X Paths

Name == INSTANCE WriteOnce WITH Dirs <- Paths

Labels == {"idle", "preflight", "preflightClose", "write", "commit", "answer",
           "compare", "compareClose", "residue", "residueClose", "done", "crashed"}
Status == {"none", "MISSING", "EMITTED", "UNCHANGED", "COLLISION", "IO_ERROR"}
Samples == (Publishers \cup {Foreign}) \X Data \X BOOLEAN

(* i is the member at hand; view the sampled file; preflight and report the
   statuses answered for each name; residue the final answer about a failed
   member. *)
Locals == [pc : Labels, i : 1..Len(Artifacts), view : {<<>>} \cup Samples,
           preflight : [Paths -> Status], report : [Paths -> Status], residue : BOOLEAN]
Start == [pc |-> "idle", i |-> 1, view |-> <<>>,
          preflight |-> [a \in Paths |-> "none"],
          report |-> [a \in Paths |-> "none"], residue |-> FALSE]

Init ==
  /\ case \in Cases
  /\ Name!Init
  /\ foreign \in [Paths -> Data]
  /\ settled = {}
  /\ caller = [c \in Callers |-> Start]
  /\ disturbed = {} /\ changes = 0 /\ crashes = 0

At(c, label) == caller[c].pc = label
Path(c) == Artifacts[caller[c].i]
Me(c) == <<c, Path(c)>>
Mine(c) == case.output[c][Path(c)]

(* What a reader finds under a name. *)
Bytes(a) == IF entry[a] \in Publishers THEN case.output[entry[a][1]][a]
            ELSE foreign[a]

(* What a view samples: the file, its bytes, and its metadata, which change
   once more when a publisher drops its temporary name. *)
Sample(a) == <<entry[a], Bytes(a), entry[a] \in settled>>

Goto(c, label) == caller' = [caller EXCEPT ![c].pc = label]

(* common_file_view_open_regular and common_file_view_close of member a. *)
ViewOpens(c, label) ==
  /\ entry[Path(c)] # Absent
  /\ caller' = [caller EXCEPT ![c] = [@ EXCEPT !.pc = label, !.view = Sample(Path(c))]]

ViewIntact(c) == caller[c].view = Sample(Path(c))
(* Mutant of ViewEqual: any file will do. *)
ViewThere(c) == caller[c].view # <<>>
ViewEqual(c) == caller[c].view[2] = Mine(c)

----------------------------------------------------------------------------
(* common_output_preflight_exact for every member. *)

Begin(c) ==
  /\ At(c, "idle")
  /\ Goto(c, "preflight")
  /\ UNCHANGED <<case, names, settled, env>>

(* Mutant of Preflighted: a collision does not end the run. *)
PreflightedAnyway(c, s) ==
  caller' = [caller EXCEPT ![c] = [@ EXCEPT
    !.preflight[Path(c)] = s,
    !.view = <<>>,
    !.i = IF caller[c].i < Len(Artifacts) THEN caller[c].i + 1 ELSE 1,
    !.pc = IF caller[c].i < Len(Artifacts) THEN "preflight" ELSE "write"]]

(* The outcome of one preflight: a collision or an error ends the run before
   anything is written, the last good one starts the publication. *)
Preflighted(c, s) ==
  caller' = [caller EXCEPT ![c] = [@ EXCEPT
    !.preflight[Path(c)] = s,
    !.view = <<>>,
    !.i = IF s \in {"MISSING", "UNCHANGED"}
          THEN IF caller[c].i < Len(Artifacts) THEN caller[c].i + 1 ELSE 1
          ELSE caller[c].i,
    !.pc = IF s \notin {"MISSING", "UNCHANGED"} THEN "done"
           ELSE IF caller[c].i < Len(Artifacts) THEN "preflight"
           ELSE "write"]]

Preflight(c) ==
  /\ At(c, "preflight")
  /\ \/ entry[Path(c)] = Absent /\ Preflighted(c, "MISSING")
     \/ ViewOpens(c, "preflightClose")
     \/ ViewFaults /\ Preflighted(c, "IO_ERROR")
  /\ UNCHANGED <<case, names, settled, env>>

PreflightClose(c) ==
  /\ At(c, "preflightClose")
  /\ \/ /\ ViewIntact(c)
        /\ Preflighted(c, IF ViewEqual(c) THEN "UNCHANGED" ELSE "COLLISION")
     \/ (ViewFaults \/ ~ViewIntact(c)) /\ Preflighted(c, "IO_ERROR")
  /\ UNCHANGED <<case, names, settled, env>>

----------------------------------------------------------------------------
(* common_output_publish_exact, member by member. *)

(* The outcome for one member; the run stops at a failure, and asks whether
   an IO_ERROR left the file behind. *)
Published(c, s) ==
  caller' = [caller EXCEPT ![c] = [@ EXCEPT
    !.report[Path(c)] = s,
    !.view = <<>>,
    !.i = IF s \in {"EMITTED", "UNCHANGED"} /\ caller[c].i < Len(Artifacts)
          THEN caller[c].i + 1 ELSE caller[c].i,
    !.pc = IF s = "IO_ERROR" THEN "residue"
           ELSE IF s = "COLLISION" \/ caller[c].i = Len(Artifacts)
           THEN "done" ELSE "write"]]

(* The write puts the file there, or finds a file. *)
Write(c) ==
  /\ At(c, "write")
  /\ \/ Name!Place(Me(c), Path(c)) /\ Goto(c, "commit")
     \/ /\ entry[Path(c)] # Absent
        /\ Name!Refuse(Me(c))
        /\ Goto(c, "answer")
     \/ /\ case.faulty
        /\ Name!Become(Me(c), "failed")
        /\ Published(c, "IO_ERROR")
        /\ UNCHANGED <<entry, stable, place>>
  /\ UNCHANGED <<case, settled, env>>

(* The named-temporary hosts change the link count once more. *)
Settle(c) ==
  /\ At(c, "commit")
  /\ case.restamps
  /\ Me(c) \notin settled
  /\ settled' = settled \cup {Me(c)}
  /\ UNCHANGED <<case, names, caller, env>>

Ready(c) == case.restamps => Me(c) \in settled

(* The directory is flushed, then the name is seen to be the caller's. *)
Persist(c) ==
  /\ At(c, "commit")
  /\ Ready(c)
  /\ stable[Path(c)] # entry[Path(c)]
  /\ Name!Persist(Path(c))
  /\ UNCHANGED <<case, settled, caller, env>>

Commit(c) ==
  /\ At(c, "commit")
  /\ Ready(c)
  /\ Name!Commit(Me(c))
  /\ Goto(c, "answer")
  /\ UNCHANGED <<case, settled, env>>

(* The answer of common_file_write_new_atomic. *)
Answer(c) ==
  /\ At(c, "answer")
  /\ \/ /\ state[Me(c)] = "committed"
        /\ Name!Become(Me(c), "OK")
        /\ Published(c, "EMITTED")
     \/ /\ state[Me(c)] = "refused"
        /\ Name!Become(Me(c), "EXISTS")
        /\ Goto(c, "compare")
     \/ /\ case.faulty
        /\ Name!Become(Me(c), "failed")
        /\ Published(c, "IO_ERROR")
  /\ UNCHANGED <<case, entry, stable, place, settled, env>>

(* A file that was put there and is gone, or a failing flush. *)
CommitFails(c) ==
  /\ At(c, "commit")
  /\ case.faulty \/ entry[Path(c)] # Me(c)
  /\ Name!Become(Me(c), "failed")
  /\ Published(c, "IO_ERROR")
  /\ UNCHANGED <<case, entry, stable, place, settled, env>>

(* Mutant of Compare: an existing file is a collision. *)
CompareNothing(c) ==
  /\ At(c, "compare")
  /\ Published(c, "COLLISION")
  /\ UNCHANGED <<case, names, settled, env>>

(* Mutant of Compare: a destination that vanished is waited for. *)
CompareWaits(c) ==
  /\ At(c, "compare")
  /\ ViewOpens(c, "compareClose")
  /\ UNCHANGED <<case, names, settled, env>>

(* ALREADY_EXISTS: the file that is there decides. *)
Compare(c) ==
  /\ At(c, "compare")
  /\ \/ ViewOpens(c, "compareClose")
     \/ /\ ViewFaults \/ entry[Path(c)] = Absent
        /\ Published(c, "IO_ERROR")
  /\ UNCHANGED <<case, names, settled, env>>

CompareClose(c) ==
  /\ At(c, "compareClose")
  /\ \/ /\ ViewIntact(c)
        /\ Published(c, IF ViewEqual(c) THEN "UNCHANGED" ELSE "COLLISION")
     \/ (ViewFaults \/ ~ViewIntact(c)) /\ Published(c, "IO_ERROR")
  /\ UNCHANGED <<case, names, settled, env>>

----------------------------------------------------------------------------
(* common_output_publish_exact_residue_possible. *)

Residue(c, answer) ==
  caller' = [caller EXCEPT ![c] = [@ EXCEPT !.pc = "done", !.view = <<>>,
                                            !.residue = answer]]

CheckResidue(c) ==
  /\ At(c, "residue")
  /\ \/ /\ caller[c].preflight[Path(c)] = "MISSING"
        /\ ViewOpens(c, "residueClose")
     \/ /\ \/ caller[c].preflight[Path(c)] # "MISSING"
           \/ entry[Path(c)] = Absent
           \/ ViewFaults
        /\ Residue(c, FALSE)
  /\ UNCHANGED <<case, names, settled, env>>

ResidueClose(c) ==
  /\ At(c, "residueClose")
  /\ \/ Residue(c, ViewIntact(c) /\ ViewEqual(c))
     \/ ViewFaults /\ Residue(c, FALSE)
  /\ UNCHANGED <<case, names, settled, env>>

Step(c) ==
  \/ Begin(c) \/ Preflight(c) \/ PreflightClose(c) \/ Write(c) \/ Settle(c)
  \/ Persist(c) \/ Commit(c) \/ CommitFails(c) \/ Answer(c) \/ Compare(c)
  \/ CompareClose(c) \/ CheckResidue(c) \/ ResidueClose(c)

----------------------------------------------------------------------------
(* Other programs and power losses. *)

Disturb ==
  /\ changes < MaxDisturb
  /\ changes' = changes + 1
  /\ \E a \in Paths :
       /\ Name!Disturb(a)
       /\ \E d \in Data : foreign' = [foreign EXCEPT ![a] = d]
       /\ <<entry', foreign'>> # <<entry, foreign>>
       /\ disturbed' = disturbed \cup {a}
  /\ UNCHANGED <<case, settled, caller, crashes>>

Crash ==
  /\ crashes < MaxCrashes
  /\ crashes' = crashes + 1
  /\ entry' \in {e \in [Paths -> Publishers \cup {Foreign, Absent}] :
                   \A a \in Paths : e[a] \in {entry[a], stable[a]}}
  /\ stable' = entry'
  /\ state' = [p \in Publishers |->
                 IF state[p] \in Name!Answered
                    \/ caller[p[1]].pc = "idle" THEN state[p] ELSE "failed"]
  /\ caller' = [c \in Callers |->
                  IF caller[c].pc \in {"idle", "done"} THEN caller[c]
                  ELSE [caller[c] EXCEPT !.pc = "crashed", !.view = <<>>]]
  /\ settled' = Publishers
  /\ UNCHANGED <<case, place, foreign, disturbed, changes>>

Next == (\E c \in Callers : Step(c)) \/ Disturb \/ Crash

Spec == Init /\ [][Next]_vars
FairSpec == Spec /\ \A c \in Callers : WF_vars(Step(c))

----------------------------------------------------------------------------
(* Properties. *)

Report(c, a) == caller[c].report[a]

(* Every variable keeps its type. *)
TypeOK ==
  /\ case \in Cases
  /\ {entry, stable} \subseteq [Paths -> Publishers \cup {Absent, Foreign}]
  /\ state \in [Publishers -> Name!State]
  /\ place \in [Publishers -> Paths \cup {NoDir}]
  /\ foreign \in [Paths -> Data]
  /\ settled \subseteq Publishers
  /\ caller \in [Callers -> Locals]
  /\ disturbed \subseteq Paths
  /\ changes \in 0..MaxDisturb /\ crashes \in 0..MaxCrashes

\* What c was told about a name that no other program changed.
ReportTrue(c, a) ==
  /\ Report(c, a) = "EMITTED" => entry[a] = <<c, a>> /\ stable[a] = <<c, a>>
  /\ Report(c, a) = "UNCHANGED" /\ crashes = 0 =>
       entry[a] # Absent /\ Bytes(a) = case.output[c][a]
  /\ "COLLISION" \in {Report(c, a), caller[c].preflight[a]} /\ crashes = 0 =>
       entry[a] # Absent /\ Bytes(a) # case.output[c][a]
  /\ At(c, "done") /\ Report(c, a) = "IO_ERROR" /\ entry[a] = <<c, a>> =>
       caller[c].residue \/ ViewFaults
  /\ At(c, "done") /\ caller[c].residue /\ a = Path(c) /\ crashes = 0 =>
       entry[a] # Absent /\ Bytes(a) = Mine(c)

ReportsTrue == \A c \in Callers, a \in Paths \ disturbed : ReportTrue(c, a)

(* "preventing a known later collision from leaving a partial set on disk":
   a run that knew of a collision wrote nothing, and a collision met while
   publishing comes from a racing caller or another program. *)
NoKnownPartialSet ==
  \A c \in Callers, a \in Paths :
    /\ caller[c].preflight[a] = "COLLISION" =>
         \A b \in Paths : place[<<c, b>>] = NoDir
    /\ Report(c, a) = "COLLISION" /\ a \notin disturbed /\ entry[a] # Absent
         => caller[c].preflight[a] = "MISSING" /\ entry[a][1] \in Callers \ {c}

(* "reports byte-identical pre-existence as unchanged", also when the other
   publisher is still at work: runs that have the same bytes, which no other
   program contradicts, never get in each other's way, nor does a retry after
   a power loss. *)
Uncontradicted ==
  /\ disturbed = {}
  /\ \A a \in Paths : entry[a] = Foreign =>
                         \A c \in Callers : foreign[a] = case.output[c][a]

SameBytes ==
  ~case.faulty /\ ~ViewFaults /\ \A c, d \in Callers : case.output[c] = case.output[d]

SameBytesAgree ==
  SameBytes /\ Uncontradicted =>
    \A c \in Callers, a \in Paths : Report(c, a) \notin {"COLLISION", "IO_ERROR"}

\* The part of it that holds, and more: where a file is not touched again once
\* it has its name (O_TMPFILE, RENAME_EXCL), every run that ends has emitted
\* each member or found it unchanged.
SameBytesSucceed ==
  SameBytes /\ Uncontradicted /\ ~case.restamps =>
    \A c \in Callers : At(c, "done") =>
      \A a \in Paths : Report(c, a) \in {"EMITTED", "UNCHANGED"}

(* "reports byte-identical pre-existence as unchanged, and rejects differing
   pre-existing bytes as a collision": neither verdict is ever given about
   bytes that say the opposite, nor a failure where runs with the same bytes are
   alone; what was emitted is the caller's file and stays, across power losses,
   until others change it.  A run whose failed write left its file behind is
   told of residue, and nobody is about other bytes. *)
VerdictsTrue == ReportsTrue /\ SameBytesSucceed

(* Every run ends, unless power is lost under it. *)
RunsEnd ==
  \A c \in Callers :
    At(c, "preflight") ~> caller[c].pc \in {"done", "crashed"}
=============================================================================

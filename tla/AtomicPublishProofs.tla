------------------------ MODULE AtomicPublishProofs ------------------------
(***************************************************************************)
(* Theorems about AtomicPublish for every number of publishers and         *)
(* directories, every payload size and each of the three POSIX variants:   *)
(* type correctness, no partial file under the destination name, no        *)
(* publisher ever overwriting it; that each system call is a step of       *)
(* WriteOnce or none; and what the answers mean: ALREADY_EXISTS is about   *)
(* somebody else's file, only IO_ERROR leaves anything behind, and of      *)
(* calls that nothing disturbs exactly one wins.  The last part is about   *)
(* the publishers of WindowsPublish beside them.                           *)
(***************************************************************************)
EXTENDS WindowsPublish, FiniteSetTheorems, TLAPS

USE DEF At, Goto, Return, Released

(* The initial states have the declared types. *)
LEMMA InitType == Init => TypeOK
  BY PublishAssumption
  DEF Init, TypeOK, Entry, NoCall, Call, Label, Status

(* One step of a call keeps the type of its local state. *)
LEMMA StepCall ==
  ASSUME call \in [Publishers -> Call], parentPath \in Dirs \cup {NoDir},
         NEW p \in Publishers, Step(p)
  PROVE  call' \in [Publishers -> Call]
<1> USE DEF Call, Label, Status
<1>1. CASE Begin(p)
  BY <1>1 DEF Begin
<1>2. CASE OpenParent(p)
  BY <1>2 DEF OpenParent
<1>3. CASE Lookup(p)
  BY <1>3 DEF Lookup
<1>4. CASE RecheckExisting(p)
  BY <1>4 DEF RecheckExisting
<1>5. CASE CreateTemporary(p)
  <2>1. \/ call' = [call EXCEPT ![p].pc = "write",
                              ![p].fds = @ \cup {"temporary"}]
        \/ Return(p, "IO_ERROR")
    BY <1>5, Zenon DEF CreateTemporary
  <2>2. QED
    BY <2>1
<1>6. CASE Write(p)
  BY <1>6 DEF Write
<1>7. CASE Flush(p)
  BY <1>7 DEF Flush
<1>8. CASE Bind(p)
  BY <1>8 DEF Bind
<1>9. CASE Publish(p)
  BY <1>9 DEF Publish, LinkDestination, LinkRefused,
                 LinkFails
<1>10. CASE CheckDestination(p)
  BY <1>10 DEF CheckDestination
<1>11. CASE ReleaseUnnamed(p)
  BY <1>11 DEF ReleaseUnnamed
<1>12. CASE ReleaseNamed(p)
  BY <1>12 DEF ReleaseNamed
<1>13. CASE Unlink(p)
  BY <1>13 DEF Unlink
<1>14. CASE ConfirmUnlinked(p)
  BY <1>14 DEF ConfirmUnlinked
<1>15. CASE SyncDirectory(p)
  BY <1>15 DEF SyncDirectory, AfterSync
<1>16. CASE RecheckParent(p)
  BY <1>16 DEF RecheckParent
<1>17. CASE RecheckDestination(p)
  BY <1>17 DEF RecheckDestination
<1>18. CASE CheckNamed(p)
  BY <1>18 DEF CheckNamed
<1>19. CASE Close(p)
  BY <1>19 DEF Close
<1>20. QED
  BY <1>1, <1>2, <1>3, <1>4, <1>5, <1>6, <1>7, <1>8, <1>9, <1>10, <1>11, <1>12, <1>13, <1>14, <1>15, <1>16, <1>17, <1>18, <1>19 DEF Step

(* The part of TypeOK that is about files. *)
FilesOK ==
  /\ entry \in [Dirs -> Entry]
  /\ stable \in [Dirs -> Entry]
  /\ temp \in [Publishers -> Entry]
  /\ cached \in [Publishers -> 0..Blocks]
  /\ durable \in [Publishers -> 0..Blocks]
  /\ alias \subseteq Publishers

(* A step of a call keeps the types of the files. *)
LEMMA StepFiles ==
  ASSUME TypeOK, NEW p \in Publishers, Step(p)
  PROVE  FilesOK'
<1> USE PublishAssumption DEF TypeOK, FilesOK, Entry
<1>1. CASE Begin(p) \/ OpenParent(p) \/ Lookup(p) \/ RecheckExisting(p)
            \/ Bind(p) \/ CheckDestination(p)
  BY <1>1 DEF Begin, OpenParent, Lookup, RecheckExisting, Bind, CheckDestination, files
<1>2. CASE ReleaseUnnamed(p) \/ ReleaseNamed(p) \/ ConfirmUnlinked(p)
  BY <1>2 DEF ReleaseUnnamed, ReleaseNamed, ConfirmUnlinked, files
<1>3. CASE RecheckParent(p) \/ RecheckDestination(p) \/ CheckNamed(p)
            \/ Close(p)
  BY <1>3 DEF RecheckParent, RecheckDestination, CheckNamed, Close, files
<1>4. CASE CreateTemporary(p)
  BY <1>4 DEF CreateTemporary
<1>5. CASE Write(p)
  BY <1>5 DEF Write
<1>6. CASE Flush(p)
  BY <1>6 DEF Flush
<1>7. CASE Publish(p)
  <2>1. temp[p] \in Entry /\ Source(p) \in Entry
    BY DEF Source
  <2>2. entry' = entry \/ entry' = [entry EXCEPT ![call[p].parent] = Source(p)]
    BY <1>7 DEF Publish, LinkDestination, LinkRefused, LinkFails
  <2>3. temp' = temp \/ temp' = [temp EXCEPT ![p] = Absent]
    BY <1>7 DEF Publish, LinkDestination, LinkRefused, LinkFails
  <2>4. UNCHANGED <<stable, cached, durable, alias>>
    BY <1>7 DEF Publish
  <2>5. QED
    BY <2>1, <2>2, <2>3, <2>4
<1>8. CASE Unlink(p)
  BY <1>8 DEF Unlink
<1>9. CASE SyncDirectory(p)
  BY <1>9 DEF SyncDirectory, Call
<1>10. QED
  BY <1>1, <1>2, <1>3, <1>4, <1>5, <1>6, <1>7, <1>8, <1>9 DEF Step

(* And it leaves the pathname and the history alone. *)
LEMMA StepRest ==
  ASSUME NEW p \in Publishers, Step(p)
  PROVE  UNCHANGED <<parentPath, history>>
  BY DEF Step, Begin, OpenParent, Lookup, RecheckExisting, CreateTemporary,
         Write, Flush, Bind, Publish, CheckDestination, ReleaseUnnamed,
         ReleaseNamed, Unlink, ConfirmUnlinked, SyncDirectory, RecheckParent,
         RecheckDestination, CheckNamed, Close

(* Together: a step of a call preserves TypeOK. *)
LEMMA StepType ==
  ASSUME TypeOK, NEW p \in Publishers, Step(p)
  PROVE  TypeOK'
<1>1. call' \in [Publishers -> Call]
  BY StepCall DEF TypeOK
<1>2. FilesOK'
  BY StepFiles
<1>3. UNCHANGED <<parentPath, history>>
  BY StepRest
<1>4. QED
  BY <1>1, <1>2, <1>3 DEF TypeOK, FilesOK, history

(* A crash ends calls without leaving the type of their local state. *)
LEMMA CrashCall ==
  ASSUME call \in [Publishers -> Call], Crash
  PROVE  call' \in [Publishers -> Call]
<1>1. \A c \in Call : [c EXCEPT !.pc = "crashed", !.fds = {}] \in Call
  BY DEF Call, Label
<1>2. call' = [p \in Publishers |->
                IF call[p].pc \in {"idle", "done"} THEN call[p]
                ELSE [call[p] EXCEPT !.pc = "crashed", !.fds = {}]]
  BY DEF Crash
<1>3. QED
  BY <1>1, <1>2

(* So does a step of the environment. *)
LEMMA EnvironmentType ==
  ASSUME TypeOK, Environment
  PROVE  TypeOK'
<1> USE PublishAssumption DEF TypeOK, Entry
<1>1. CASE SwapParent
  BY <1>1 DEF SwapParent, EnvStep, files
<1>2. CASE DisturbDestination
  BY <1>2 DEF DisturbDestination, EnvStep
<1>3. CASE AliasDestination
  BY <1>3 DEF AliasDestination, EnvStep
<1>4. CASE DisturbTemporary
  BY <1>4 DEF DisturbTemporary, EnvStep
<1>5. CASE Crash
  <2>1. call' \in [Publishers -> Call]
    BY <1>5, CrashCall
  <2>2. cached' \in [Publishers -> 0..Blocks]
    BY <1>5 DEF Crash
  <2>3. crashes' \in 0..MaxCrashes
    <3>1. crashes < MaxCrashes /\ crashes' = crashes + 1
      BY <1>5 DEF Crash
    <3>2. QED
      BY <3>1
  <2>4. entry' \in [Dirs -> Entry]
    BY <1>5 DEF Crash
  <2>5. UNCHANGED <<parentPath, temp, alias, touched, envSteps>>
        /\ stable' = entry' /\ durable' = cached'
    BY <1>5 DEF Crash
  <2>6. QED
    BY <2>1, <2>2, <2>3, <2>4, <2>5
<1>6. QED
  BY <1>1, <1>2, <1>3, <1>4, <1>5 DEF Environment

(* Every variable keeps its type in every behaviour. *)
THEOREM TypeCorrect == Spec => []TypeOK
<1>1. TypeOK /\ [Next]_vars => TypeOK'
  <2> SUFFICES ASSUME TypeOK, [Next]_vars
               PROVE  TypeOK'
    OBVIOUS
  <2>1. CASE \E p \in Publishers : Step(p)
    BY <2>1, StepType
  <2>2. CASE Environment
    BY <2>2, EnvironmentType
  <2>3. CASE UNCHANGED vars
    BY <2>3 DEF vars, files, history, TypeOK
  <2>4. QED
    BY <2>1, <2>2, <2>3 DEF Next
<1>2. QED
  BY InitType, <1>1, PTL DEF Spec

----------------------------------------------------------------------------
(* The inductive invariant. *)

(* No call has begun, so nothing is relied on yet. *)
LEMMA InitInvariant == Init => IInv
<1> SUFFICES ASSUME Init PROVE IInv
  OBVIOUS
<1>1. TypeOK
  BY InitType
<1>2. ASSUME NEW p \in Publishers PROVE CallInvariant(p)
  BY PublishAssumption DEF Init, NoCall, CallInvariant
<1>3. QED
  BY <1>1, <1>2 DEF IInv

(* A call that goes on to its flush and its closes relies on nothing new. *)
LEMMA ClosingKeeps ==
  ASSUME NEW q \in Publishers, CallInvariant(q), UNCHANGED <<files, history>>,
         call'[q].parent = call[q].parent, call'[q].bound = call[q].bound,
         call'[q].result \in {call[q].result, "ALREADY_EXISTS"},
         \/ call'[q].pc = call[q].pc
         \/ /\ call[q].pc \in {"release", "confirm", "recheckParent"}
            /\ call'[q].pc \in {"unlink", "sync", "close"}
  PROVE  CallInvariant(q)'
<1>1. /\ UNCHANGED <<entry, stable, temp, cached, durable, touched>>
      /\ Whole(q)' <=> Whole(q)
  BY DEF files, history, Whole
<1>2. CASE call'[q].pc = call[q].pc
  BY <1>1, <1>2 DEF CallInvariant
<1>3. CASE call'[q].pc # call[q].pc
  BY <1>1, <1>3 DEF CallInvariant
<1>4. QED
  BY <1>2, <1>3

(* A step of a call preserves what every call relies on. *)
LEMMA StepInvariant ==
  ASSUME TypeOK, NEW p \in Publishers, Step(p), CallInvariant(p),
         NEW q \in Publishers, CallInvariant(q)
  PROVE  CallInvariant(q)'
<1>1. /\ TypeOK /\ CallInvariant(p) /\ CallInvariant(q)
  OBVIOUS
<1>2. /\ call \in [Publishers -> Call] /\ entry \in [Dirs -> Entry]
      /\ stable \in [Dirs -> Entry] /\ temp \in [Publishers -> Entry]
      /\ cached \in [Publishers -> 0..Blocks]
      /\ durable \in [Publishers -> 0..Blocks]
  BY <1>1 DEF TypeOK
<1> USE <1>1, <1>2, PublishAssumption DEF CallInvariant, Whole, Call
<1>3. CASE Begin(p)
  <2>1. /\ At(p, "idle")
        /\ UNCHANGED <<parentPath, files, history>>
        /\ \/ call' = [call EXCEPT ![p].pc = "openParent", ![p].fds = {"root"}]
           \/ \E s \in {"INVALID_ARGUMENT", "ALLOCATION_FAILED", "TOO_LARGE",
                        "IO_ERROR"} : Return(p, s)
    BY <1>3, Zenon DEF Begin
  <2>2. CASE call' = [call EXCEPT ![p].pc = "openParent",
                                  ![p].fds = {"root"}]
    BY <2>1, <2>2 DEF files, history
  <2>3. ASSUME NEW s \in {"INVALID_ARGUMENT", "ALLOCATION_FAILED",
                          "TOO_LARGE", "IO_ERROR"}, Return(p, s)
        PROVE  CallInvariant(q)'
    BY <2>1, <2>3 DEF files, history
  <2>4. QED
    BY <2>1, <2>2, <2>3
<1>4. CASE OpenParent(p)
  BY <1>4 DEF OpenParent, files, history
<1>5. CASE Lookup(p)
  BY <1>5 DEF Lookup, files, history
<1>6. CASE RecheckExisting(p)
  BY <1>6 DEF RecheckExisting, files, history
<1>7. CASE CreateTemporary(p)
  BY <1>7 DEF CreateTemporary, history
<1>8. CASE Write(p)
  BY <1>8 DEF Write, history
<1>9. CASE Flush(p)
  BY <1>9 DEF Flush, history
<1>10. CASE Bind(p)
  <2>1. /\ At(p, "bind")
        /\ \/ call' = [call EXCEPT ![p].pc = "publish", ![p].bound = TRUE]
           \/ Goto(p, "release")
        /\ UNCHANGED <<parentPath, files, history>>
    BY <1>10 DEF Bind
  <2>2. CASE Goto(p, "release")
    BY <2>1, <2>2 DEF files, history
  <2>3. CASE call' = [call EXCEPT ![p].pc = "publish", ![p].bound = TRUE]
    BY <2>1, <2>3 DEF files, history
  <2>4. QED
    BY <2>1, <2>2, <2>3
<1>11. CASE Publish(p)
  BY <1>11 DEF Publish, LinkDestination, LinkRefused,
                 LinkFails, Source, history
<1>12. CASE CheckDestination(p)
  <2>1. /\ At(p, "checkDestination")
        /\ UNCHANGED <<parentPath, files, history>>
        /\ \E b \in BOOLEAN :
             call' = [call EXCEPT ![p].pc = "release", ![p].destBound = b]
    <3>1. CASE Goto(p, "release")
      <4>1. call' = [call EXCEPT ![p].pc = "release",
                                 ![p].destBound = call[p].destBound]
        BY <3>1
      <4>2. QED
        BY <1>12, <4>1 DEF CheckDestination
    <3>2. QED
      BY <1>12, <3>1 DEF CheckDestination
  <2>2. QED
    BY <2>1 DEF files, history
<1>13. CASE ReleaseUnnamed(p)
  BY <1>13 DEF ReleaseUnnamed, files, history
<1>14. CASE ReleaseNamed(p)
  <2>1. /\ At(p, "release")
        /\ UNCHANGED <<parentPath, files, history>>
        /\ \/ Goto(p, "unlink")
           \/ \E b \in BOOLEAN : Released(p, "sync", b)
    BY <1>14 DEF ReleaseNamed
  <2>2. CASE Goto(p, "unlink")
    BY <2>1, <2>2 DEF files, history
  <2>3. ASSUME NEW b \in BOOLEAN, Released(p, "sync", b)
        PROVE  CallInvariant(q)'
    <3>1. /\ call'[q].parent = call[q].parent /\ call'[q].bound = call[q].bound
          /\ call'[q].result = call[q].result
          /\ call'[q].pc = IF q = p THEN "sync" ELSE call[q].pc
      BY <2>3
    <3>2. QED
      BY <2>1, <3>1, ClosingKeeps
  <2>4. QED
    BY <2>1, <2>2, <2>3
<1>15. CASE Unlink(p)
  <2>1. CASE q = p
    BY <1>15, <2>1 DEF Unlink, history
  <2>2. CASE q # p
    BY <1>15, <2>2 DEF Unlink, history
  <2>3. QED
    BY <2>1, <2>2
<1>16. CASE ConfirmUnlinked(p)
  <2>1. /\ call'[q].parent = call[q].parent /\ call'[q].bound = call[q].bound
        /\ call'[q].result \in {call[q].result, "ALREADY_EXISTS"}
        /\ call'[q].pc = IF q = p THEN "sync" ELSE call[q].pc
    BY <1>16 DEF ConfirmUnlinked
  <2>2. UNCHANGED <<files, history>> /\ At(p, "confirm")
    BY <1>16 DEF ConfirmUnlinked
  <2>3. QED
    BY <2>1, <2>2, ClosingKeeps
<1>17. CASE SyncDirectory(p)
  <2>1. CASE q = p
    BY <1>17, <2>1 DEF SyncDirectory, AfterSync, history
  <2>2. CASE q # p
    BY <1>17, <2>2 DEF SyncDirectory, history
  <2>3. QED
    BY <2>1, <2>2
<1>18. CASE RecheckParent(p)
  <2>1. /\ call'[q].parent = call[q].parent /\ call'[q].bound = call[q].bound
        /\ call'[q].result \in {call[q].result, "ALREADY_EXISTS"}
        /\ call'[q].pc = IF q = p THEN "close" ELSE call[q].pc
    BY <1>18 DEF RecheckParent
  <2>2. UNCHANGED <<files, history>> /\ At(p, "recheckParent")
    BY <1>18 DEF RecheckParent
  <2>3. QED
    BY <2>1, <2>2, ClosingKeeps
<1>19. CASE RecheckDestination(p)
  <2>1. CASE q = p
    BY <1>19, <2>1 DEF RecheckDestination, files, history
  <2>2. CASE q # p
    BY <1>19, <2>2 DEF RecheckDestination, files, history
  <2>3. QED
    BY <2>1, <2>2
<1>20. CASE CheckNamed(p)
  <2>1. CASE q = p
    BY <1>20, <2>1 DEF CheckNamed, files, history
  <2>2. CASE q # p
    BY <1>20, <2>2 DEF CheckNamed, files, history
  <2>3. QED
    BY <2>1, <2>2
<1>21. CASE Close(p)
  <2>1. CASE q = p
    BY <1>21, <2>1 DEF Close, files, history
  <2>2. CASE q # p
    BY <1>21, <2>2 DEF Close, files, history
  <2>3. QED
    BY <2>1, <2>2
<1>22. QED
  BY <1>3, <1>4, <1>5, <1>6, <1>7, <1>8, <1>9, <1>10, <1>11, <1>12, <1>13, <1>14, <1>15, <1>16, <1>17, <1>18, <1>19, <1>20, <1>21 DEF Step

(* A step of the environment preserves it too. *)
LEMMA EnvironmentInvariant ==
  ASSUME TypeOK, Environment, NEW q \in Publishers, CallInvariant(q)
  PROVE  CallInvariant(q)'
<1>1. TypeOK /\ CallInvariant(q)
  OBVIOUS
<1> USE <1>1, PublishAssumption DEF CallInvariant, Whole
<1>2. CASE SwapParent
  BY <1>2 DEF SwapParent, files
<1>3. CASE DisturbDestination
  BY <1>3 DEF DisturbDestination, TypeOK
<1>4. CASE AliasDestination
  BY <1>4 DEF AliasDestination
<1>5. CASE DisturbTemporary
  BY <1>5 DEF DisturbTemporary, TypeOK
<1>6. CASE Crash
  <2>1. \/ call'[q] = call[q] /\ call[q].pc \in {"idle", "done"}
        \/ /\ call'[q] = [call[q] EXCEPT !.pc = "crashed", !.fds = {}]
           /\ call[q].pc \notin {"idle", "done"}
    BY <1>6 DEF Crash
  <2>2. \A d \in Dirs : stable'[d] = entry'[d]
                       /\ entry'[d] \in {entry[d], stable[d]}
    BY <1>6 DEF Crash
  <2>3. Whole(q) => Whole(q)'
    <3>1. /\ durable[q] <= cached'[q] /\ cached'[q] <= cached[q]
          /\ cached'[q] \in 0..Blocks /\ durable' = cached'
      BY <1>6 DEF Crash
    <3>2. QED
      BY <3>1 DEF TypeOK
  <2>4. UNCHANGED <<temp, touched>>
    BY <1>6 DEF Crash
  <2>5. call[q] \in Call
    BY DEF TypeOK
  <2>6. /\ call'[q].bound = call[q].bound
        /\ call'[q].parent = call[q].parent
        /\ call'[q].result = call[q].result
        /\ call'[q].pc = call[q].pc \/ call'[q].pc = "crashed"
        /\ call'[q].pc \in {"idle", "done", "crashed"}
    BY <2>1, <2>5 DEF Call
  <2>7. QED
    BY <2>2, <2>3, <2>4, <2>6
<1>7. QED
  BY <1>2, <1>3, <1>4, <1>5, <1>6 DEF Environment

(* Whatever the interleaving and whenever power is lost, the name denotes
   nothing of a publisher or the whole of its payload, and what was answered
   OK stays until another program changes the directory. *)
THEOREM PublishInvariant == Spec => []IInv
<1>1. IInv /\ [Next]_vars => IInv'
  <2> SUFFICES ASSUME IInv, [Next]_vars
               PROVE  IInv'
    OBVIOUS
  <2>1. CASE \E p \in Publishers : Step(p)
    BY <2>1, StepType, StepInvariant DEF IInv
  <2>2. CASE Environment
    BY <2>2, EnvironmentType, EnvironmentInvariant DEF IInv
  <2>3. CASE UNCHANGED vars
    BY <2>3 DEF vars, files, history, IInv, TypeOK, CallInvariant, Whole
  <2>4. QED
    BY <2>1, <2>2, <2>3 DEF Next
<1>2. QED
  BY InitInvariant, <1>1, PTL DEF Spec

(* The destination never denotes a part of a publisher's payload. *)
THEOREM NeverPartialHolds == Spec => []NeverPartial
<1>1. IInv => NeverPartial
  BY DEF IInv, CallInvariant, NeverPartial
<1>2. QED
  BY PublishInvariant, <1>1, PTL

(* What was answered OK is named and durable until somebody else changes the
   directory. *)
THEOREM OkSurvivesHolds == Spec => []OkSurvives
<1>1. IInv => OkSurvives
  BY DEF IInv, CallInvariant, OkSurvives
<1>2. QED
  BY PublishInvariant, <1>1, PTL

(* Only the no-replace primitive changes a name, and it fills a free one. *)
LEMMA StepOverwritesNothing ==
  ASSUME TypeOK, NEW p \in Publishers, Step(p), NEW d \in Dirs, entry[d] # Absent
  PROVE  entry'[d] = entry[d]
<1>1. CASE Publish(p)
  BY <1>1 DEF Publish, LinkDestination, LinkRefused, LinkFails, TypeOK
<1>2. CASE ~Publish(p)
  BY <1>2
  DEF Step, Begin, OpenParent, Lookup, RecheckExisting, CreateTemporary,
      Write, Flush, Bind, CheckDestination, ReleaseUnnamed, ReleaseNamed,
      Unlink, ConfirmUnlinked, SyncDirectory, RecheckParent,
      RecheckDestination, CheckNamed, Close, files
<1>3. QED
  BY <1>1, <1>2

(* No step of a publisher changes a destination name that denotes
   something. *)
THEOREM NeverOverwritesHolds == Spec => NeverOverwrites
<1>1. TypeOK =>
        [(\E p \in Publishers : Step(p)) =>
           \A d \in Dirs : entry[d] # Absent => entry'[d] = entry[d]]_vars
  BY StepOverwritesNothing
<1>2. QED
  BY TypeCorrect, <1>1, PTL DEF NeverOverwrites
----------------------------------------------------------------------------
(* AtomicPublish implements WriteOnce. *)

PlaceOf(p) == IF call[p].published THEN call[p].parent ELSE NoDir

(* What the refinement needs to know of the local variables, beyond IInv: how
   far published, eexist and the answer follow from the place in the code. *)
LocalInvariant(p) ==
  /\ ~Hostile => temp[p] # Foreign
  /\ call[p].pc \in {"idle", "openParent", "lookup", "recheckExisting", "create",
                     "write", "bind", "publish", "publishProc"} =>
       ~call[p].published /\ ~call[p].eexist
  /\ call[p].pc \notin {"close", "done", "crashed"} => call[p].result = "none"
  /\ call[p].pc \in {"recheckDestination", "checkNamed"} => call[p].published
  /\ At(p, "recheckParent") => ~call[p].published /\ call[p].eexist
  /\ At(p, "close") =>
       /\ call[p].result \in {"none", "OK", "ALREADY_EXISTS"}
       /\ call[p].result = "OK" => call[p].published
       /\ call[p].result = "ALREADY_EXISTS" =>
            ~call[p].published /\ call[p].eexist

RInv == IInv /\ \A p \in Publishers : LocalInvariant(p)

(* Nothing has begun, so the local variables say nothing yet. *)
LEMMA InitLocal == Init => \A p \in Publishers : LocalInvariant(p)
  BY PublishAssumption DEF Init, NoCall, LocalInvariant

(* A step of one call leaves the others' local variables alone. *)
LEMMA StepOthers ==
  ASSUME TypeOK, NEW p \in Publishers, Step(p), NEW q \in Publishers, q # p
  PROVE  call'[q] = call[q] /\ temp'[q] = temp[q]
<1> USE DEF TypeOK
<1>1. CASE CreateTemporary(p) \/ Publish(p) \/ Unlink(p)
  BY <1>1 DEF CreateTemporary, Publish, LinkDestination, LinkRefused, LinkFails,
              Unlink
<1>2. CASE ~(CreateTemporary(p) \/ Publish(p) \/ Unlink(p))
  BY <1>2 DEF Step, Begin, OpenParent, Lookup, RecheckExisting, Write, Flush, Bind,
         CheckDestination, ReleaseUnnamed, ReleaseNamed, ConfirmUnlinked,
         SyncDirectory, RecheckParent, RecheckDestination, CheckNamed, Close, files
<1>3. QED
  BY <1>1, <1>2

OnlyCall(p) == \A q \in Publishers \ {p} : call'[q] = call[q]

(* A call's own step keeps its local variables in line with its place. *)
LEMMA StepLocal ==
  ASSUME TypeOK, NEW p \in Publishers, Step(p), LocalInvariant(p), CallInvariant(p)
  PROVE  LocalInvariant(p)'
<1>1. /\ TypeOK /\ LocalInvariant(p) /\ CallInvariant(p)
  OBVIOUS
<1>2. call \in [Publishers -> Call] /\ temp \in [Publishers -> Entry]
  BY <1>1 DEF TypeOK
<1> USE <1>1, <1>2, PublishAssumption DEF LocalInvariant, Call
<1>3. CASE Begin(p)
  <2>1. /\ At(p, "idle") /\ temp' = temp
        /\ \/ call' = [call EXCEPT ![p].pc = "openParent", ![p].fds = {"root"}]
           \/ \E s \in Status : Return(p, s)
    BY <1>3 DEF Begin, files, Status
  <2>2. QED
    BY <2>1
<1>4. CASE OpenParent(p)
  BY <1>4 DEF OpenParent, files
<1>5. CASE Lookup(p) \/ RecheckExisting(p)
  BY <1>5 DEF Lookup, RecheckExisting, files
<1>6. CASE CreateTemporary(p)
  BY <1>6 DEF CreateTemporary
<1>7. CASE Write(p) \/ Flush(p)
  BY <1>7 DEF Write, Flush
<1>8. CASE Bind(p)
  <2>1. /\ At(p, "bind") /\ temp' = temp
        /\ \/ call' = [call EXCEPT ![p].pc = "publish", ![p].bound = TRUE]
           \/ Goto(p, "release")
    BY <1>8 DEF Bind, files
  <2>2. QED
    BY <2>1
<1>9. CASE Publish(p)
  BY <1>9 DEF Publish, LinkDestination, LinkRefused, LinkFails
<1>10. CASE CheckDestination(p)
  <2>1. /\ At(p, "checkDestination") /\ temp' = temp
        /\ call'[p].pc = "release" /\ call'[p].result = call[p].result
    BY <1>10 DEF CheckDestination, files
  <2>2. QED
    BY <2>1
<1>11. CASE ReleaseUnnamed(p)
  BY <1>11 DEF ReleaseUnnamed, files
<1>12. CASE ReleaseNamed(p)
  <2>1. /\ At(p, "release") /\ temp' = temp
        /\ Goto(p, "unlink") \/ \E b \in BOOLEAN : Released(p, "sync", b)
    BY <1>12 DEF ReleaseNamed, files
  <2>2. QED
    BY <2>1
<1>13. CASE Unlink(p)
  BY <1>13 DEF Unlink
<1>14. CASE ConfirmUnlinked(p)
  BY <1>14 DEF ConfirmUnlinked, files
<1>15. CASE SyncDirectory(p)
  BY <1>15 DEF SyncDirectory, AfterSync
<1>16. CASE RecheckParent(p)
  BY <1>16 DEF RecheckParent, files
<1>17. CASE RecheckDestination(p)
  BY <1>17 DEF RecheckDestination, files
<1>18. CASE CheckNamed(p)
  BY <1>18 DEF CheckNamed, files
<1>19. CASE Close(p)
  BY <1>19 DEF Close, files
<1>20. QED
  BY <1>3, <1>4, <1>5, <1>6, <1>7, <1>8, <1>9, <1>10, <1>11, <1>12, <1>13, <1>14,
     <1>15, <1>16, <1>17, <1>18, <1>19 DEF Step

(* So does a step of the environment. *)
LEMMA EnvironmentLocal ==
  ASSUME TypeOK, Environment, NEW q \in Publishers, LocalInvariant(q)
  PROVE  LocalInvariant(q)'
<1>1. TypeOK /\ LocalInvariant(q)
  OBVIOUS
<1> USE <1>1, PublishAssumption DEF LocalInvariant
<1>2. CASE SwapParent \/ DisturbDestination \/ AliasDestination
  BY <1>2 DEF SwapParent, DisturbDestination, AliasDestination, files
<1>3. CASE DisturbTemporary
  BY <1>3 DEF DisturbTemporary
<1>4. CASE Crash
  <2>1. /\ temp' = temp
        /\ \/ call'[q] = call[q]
           \/ call'[q] = [call[q] EXCEPT !.pc = "crashed", !.fds = {}]
    BY <1>4 DEF Crash
  <2>2. call[q] \in Call
    BY DEF TypeOK
  <2>3. CASE call'[q] = call[q]
    BY <2>1, <2>3
  <2>4. CASE call'[q] = [call[q] EXCEPT !.pc = "crashed", !.fds = {}]
    BY <2>1, <2>2, <2>4 DEF Call
  <2>5. QED
    BY <2>1, <2>3, <2>4
<1>5. QED
  BY <1>2, <1>3, <1>4 DEF Environment

(* No step breaks it. *)
LEMMA RInvStep == RInv /\ [Next]_vars => RInv'
<1> SUFFICES ASSUME RInv, [Next]_vars PROVE RInv'
  OBVIOUS
<1>1. CASE \E p \in Publishers : Step(p)
  <2>1. PICK p \in Publishers : Step(p)
    BY <1>1
  <2>2. IInv'
    BY <2>1, StepType, StepInvariant DEF RInv, IInv
  <2>3. ASSUME NEW q \in Publishers PROVE LocalInvariant(q)'
    <3>1. CASE q = p
      BY <2>1, <3>1, StepLocal DEF RInv, IInv
    <3>2. CASE q # p
      BY <2>1, <3>2, StepOthers DEF RInv, IInv, LocalInvariant
    <3>3. QED
      BY <3>1, <3>2
  <2>4. QED
    BY <2>2, <2>3 DEF RInv
<1>2. CASE Environment
  BY <1>2, EnvironmentType, EnvironmentInvariant, EnvironmentLocal DEF RInv, IInv
<1>3. CASE UNCHANGED vars
  BY <1>3 DEF vars, files, history, RInv, IInv, TypeOK, CallInvariant, Whole,
              LocalInvariant
<1>4. QED
  BY <1>1, <1>2, <1>3 DEF Next

(* It holds in every behaviour. *)
LEMMA RefinementInvariant == Spec => []RInv
<1>1. Init => RInv
  BY InitInvariant, InitLocal DEF RInv
<1>2. QED
  BY <1>1, RInvStep, PTL DEF Spec

----------------------------------------------------------------------------
(* The other calls keep their progress and place. *)
LEMMA StepMapsOthers ==
  ASSUME NEW p \in Publishers, OnlyCall(p), NEW q \in Publishers, q # p
  PROVE  Progress(q)' = Progress(q) /\ PlaceOf(q)' = PlaceOf(q)
  BY DEF OnlyCall, Progress, PlaceOf

(* A system call that the name does not show. *)
LEMMA Silent ==
  ASSUME NEW p \in Publishers, OnlyCall(p), UNCHANGED <<entry, stable>>,
         Progress(p)' = Progress(p), PlaceOf(p)' = PlaceOf(p)
  PROVE  UNCHANGED Abstract!vars
<1>1. \A q \in Publishers : Progress(q)' = Progress(q) /\ PlaceOf(q)' = PlaceOf(q)
  BY StepMapsOthers
<1>2. QED
  BY <1>1 DEF Abstract!vars, PlaceOf

(* A system call after which the call is at another point of the name. *)
LEMMA Shown ==
  ASSUME NEW p \in Publishers, OnlyCall(p), NEW s, Progress(p)' = s
  PROVE  Abstract!Become(p, s)
  BY StepMapsOthers DEF Abstract!Become

(* A system call that does not name the file. *)
LEMMA Unmoved ==
  ASSUME NEW p \in Publishers, OnlyCall(p), PlaceOf(p)' = PlaceOf(p)
  PROVE  [q \in Publishers |-> IF call[q].published THEN call[q].parent ELSE NoDir]'
         = [q \in Publishers |-> IF call[q].published THEN call[q].parent ELSE NoDir]
  BY StepMapsOthers DEF PlaceOf

(* The answer, from the point the call had reached. *)
LEMMA AnswerRefines ==
  ASSUME NEW p \in Publishers, OnlyCall(p), UNCHANGED <<entry, stable>>,
         PlaceOf(p)' = PlaceOf(p),
         \/ Progress(p) = "committed" /\ Progress(p)' = "OK"
         \/ Progress(p) = "refused" /\ Progress(p)' = "EXISTS"
         \/ Progress(p) \notin {"OK", "EXISTS", "failed"} /\ Progress(p)' = "failed"
  PROVE  Abstract!Answer(p)
  BY Shown, Unmoved DEF Abstract!Answer, Abstract!Answered

(* The name was seen to be taken. *)
LEMMA RefuseRefines ==
  ASSUME NEW p \in Publishers, OnlyCall(p), UNCHANGED <<entry, stable>>,
         PlaceOf(p)' = PlaceOf(p), Progress(p) = "pending",
         Progress(p)' = "refused", \E d \in Dirs : entry[d] # Absent
  PROVE  Abstract!Refuse(p)
  BY Shown, Unmoved DEF Abstract!Refuse

(* The local variables after a return. *)
LEMMA Returned ==
  ASSUME call \in [Publishers -> Call], NEW p \in Publishers, NEW s \in Status,
         Return(p, s)
  PROVE  /\ PlaceOf(p)' = PlaceOf(p)
         /\ Progress(p)' = IF s = "OK" THEN "OK"
                           ELSE IF s = "ALREADY_EXISTS" THEN "EXISTS" ELSE "failed"
  BY DEF PlaceOf, Progress, Call

(* The first system calls, before there is a temporary. *)
LEMMA PrepareRefines ==
  ASSUME TypeOK, NEW p \in Publishers, Step(p),
         LocalInvariant(p), CallInvariant(p),
         Begin(p) \/ OpenParent(p) \/ Lookup(p) \/ RecheckExisting(p)
         \/ CreateTemporary(p)
  PROVE  Abstract!Answer(p) \/ Abstract!Refuse(p) \/ UNCHANGED Abstract!vars
<1>1. TypeOK /\ LocalInvariant(p) /\ CallInvariant(p)
  OBVIOUS
<1>only. OnlyCall(p)
  BY StepOthers DEF OnlyCall
<1>2. call \in [Publishers -> Call]
  BY <1>1 DEF TypeOK
<1>3. UNCHANGED <<entry, stable>>
  BY DEF Begin, OpenParent, Lookup, RecheckExisting, CreateTemporary, files
<1>4. /\ call[p].pc \in {"idle", "openParent", "lookup", "recheckExisting", "create"}
      /\ ~call[p].published /\ ~call[p].eexist /\ call[p].result = "none"
  BY <1>1 DEF LocalInvariant, Begin, OpenParent, Lookup, RecheckExisting,
              CreateTemporary
<1>5. Progress(p) = IF At(p, "recheckExisting") THEN "refused" ELSE "pending"
  BY <1>4 DEF Progress
<1>6. ASSUME NEW s \in Status \ {"OK"}, Return(p, s),
             s = "ALREADY_EXISTS" => At(p, "recheckExisting")
      PROVE  Abstract!Answer(p)
  BY <1>1, <1>2, <1>3, <1>5, <1>6, Returned, <1>only, AnswerRefines
<1>io. Return(p, "IO_ERROR") => Abstract!Answer(p)
  <2>1. "IO_ERROR" \in Status \ {"OK"}
    BY DEF Status
  <2>2. QED
    BY <2>1, <1>6
<1>7. CASE Begin(p)
  <2>1. \/ call' = [call EXCEPT ![p].pc = "openParent", ![p].fds = {"root"}]
        \/ \E s \in Status \ {"OK", "ALREADY_EXISTS"} : Return(p, s)
    BY <1>7 DEF Begin, Status
  <2>2. CASE call' = [call EXCEPT ![p].pc = "openParent", ![p].fds = {"root"}]
    <3>1. Progress(p)' = Progress(p) /\ PlaceOf(p)' = PlaceOf(p)
      BY <1>2, <1>4, <1>7, <2>2 DEF Begin, Progress, PlaceOf, Call
    <3>2. QED
      BY <3>1, <1>1, <1>3, <1>only, Silent
  <2>3. QED
    BY <2>1, <2>2, <1>6
<1>8. CASE OpenParent(p)
  <2>1. CASE Return(p, "IO_ERROR")
    BY <2>1, <1>io
  <2>2. CASE ~Return(p, "IO_ERROR")
    <3>1. Progress(p)' = Progress(p) /\ PlaceOf(p)' = PlaceOf(p)
      BY <1>2, <1>4, <1>8, <2>2 DEF OpenParent, Progress, PlaceOf, Call
    <3>2. QED
      BY <3>1, <1>1, <1>3, <1>only, Silent
  <2>3. QED
    BY <2>1, <2>2
<1>9. CASE Lookup(p)
  <2>1. CASE Return(p, "IO_ERROR")
    BY <2>1, <1>io
  <2>2. CASE Goto(p, "create")
    <3>1. Progress(p)' = Progress(p) /\ PlaceOf(p)' = PlaceOf(p)
      BY <1>2, <1>4, <1>9, <2>2 DEF Lookup, Progress, PlaceOf, Call
    <3>2. QED
      BY <3>1, <1>1, <1>3, <1>only, Silent
  <2>3. CASE entry[call[p].parent] # Absent /\ Goto(p, "recheckExisting")
    <3>1. Progress(p)' = "refused" /\ PlaceOf(p)' = PlaceOf(p)
      BY <1>2, <1>4, <2>3 DEF Progress, PlaceOf, Call
    <3>2. call[p].parent \in Dirs /\ Progress(p) = "pending"
      BY <1>1, <1>5, <1>9 DEF CallInvariant, Lookup
    <3>3. QED
      BY <3>1, <3>2, <2>3, <1>1, <1>3, <1>only, RefuseRefines
  <2>4. QED
    BY <1>9, <2>1, <2>2, <2>3 DEF Lookup
<1>10. CASE RecheckExisting(p)
  BY <1>10, <1>6 DEF RecheckExisting, Status
<1>11. CASE CreateTemporary(p)
  <2>1. CASE Return(p, "IO_ERROR")
    BY <2>1, <1>io
  <2>2. CASE call' = [call EXCEPT ![p].pc = "write",
                                  ![p].fds = @ \cup {"temporary"}]
    <3>1. Progress(p)' = Progress(p) /\ PlaceOf(p)' = PlaceOf(p)
      BY <1>2, <1>4, <1>5, <1>11, <2>2 DEF CreateTemporary, Progress, PlaceOf, Call
    <3>2. QED
      BY <3>1, <1>1, <1>3, <1>only, Silent
  <2>3. QED
    BY <1>11, <2>1, <2>2, Zenon DEF CreateTemporary
<1>12. QED
  BY <1>7, <1>8, <1>9, <1>10, <1>11

(* A step on local variables that neither answers nor shows in the name. *)
LEMMA LocalRefines ==
  ASSUME NEW p \in Publishers, OnlyCall(p), UNCHANGED <<entry, stable>>,
         call[p].pc \notin {"recheckExisting", "done", "crashed"},
         call'[p].pc \notin {"recheckExisting", "done", "crashed"},
         call'[p].result = call[p].result, call'[p].published = call[p].published,
         call'[p].eexist = call[p].eexist, call'[p].parent = call[p].parent
  PROVE  UNCHANGED Abstract!vars
<1>1. Progress(p)' = Progress(p) /\ PlaceOf(p)' = PlaceOf(p)
  BY DEF Progress, PlaceOf
<1>2. QED
  BY <1>1, Silent

(* Writing, flushing and checking the temporary. *)
LEMMA FillRefines ==
  ASSUME TypeOK, NEW p \in Publishers, Step(p), Write(p) \/ Flush(p) \/ Bind(p)
  PROVE  UNCHANGED Abstract!vars
<1>1. call \in [Publishers -> Call]
  BY DEF TypeOK
<1>only. OnlyCall(p)
  BY StepOthers DEF OnlyCall
<1>2. CASE Write(p)
  BY <1>1, <1>2, <1>only, LocalRefines DEF Write, Call
<1>3. CASE Flush(p)
  BY <1>1, <1>3, <1>only, LocalRefines DEF Flush, Call
<1>4. CASE Bind(p)
  BY <1>1, <1>4, <1>only, LocalRefines DEF Bind, Call, files
<1>5. QED
  BY <1>2, <1>3, <1>4

(* The no-replace primitive names the file, or finds the name taken. *)
LEMMA PublishRefines ==
  ASSUME ~Hostile, TypeOK, NEW p \in Publishers, Step(p),
         LocalInvariant(p), CallInvariant(p), Publish(p)
  PROVE  \/ \E d \in Dirs : Abstract!Place(p, d)
         \/ Abstract!Refuse(p) \/ UNCHANGED Abstract!vars
<1>1. TypeOK /\ LocalInvariant(p) /\ CallInvariant(p)
  OBVIOUS
<1>only. OnlyCall(p)
  BY StepOthers DEF OnlyCall
<1>2. call \in [Publishers -> Call]
  BY <1>1 DEF TypeOK
<1>3. /\ call[p].pc \in {"publish", "publishProc"} /\ call[p].parent \in Dirs
      /\ ~call[p].published /\ ~call[p].eexist /\ call[p].result = "none"
      /\ stable' = stable
  BY <1>1 DEF Publish, LocalInvariant, CallInvariant
<1>4. Progress(p) = "pending" /\ PlaceOf(p) = NoDir
  BY <1>3 DEF Progress, PlaceOf
<1>5. CASE LinkDestination(p)
  <2>1. Source(p) = p
    BY <1>1, <1>5 DEF LinkDestination, Source, LocalInvariant, CallInvariant
  <2>2. Progress(p)' = "placed" /\ PlaceOf(p)' = call[p].parent
    BY <1>2, <1>3, <1>5 DEF LinkDestination, Progress, PlaceOf, Call
  <2>3. Abstract!Become(p, "placed")
    BY <1>1, <2>2, <1>only, Shown
  <2>4. [q \in Publishers |-> IF call[q].published THEN call[q].parent ELSE NoDir]'
        = [[q \in Publishers |-> IF call[q].published THEN call[q].parent ELSE NoDir]
             EXCEPT ![p] = call[p].parent]
    BY <1>1, <2>2, <1>only, StepMapsOthers DEF PlaceOf
  <2>5. PICK d \in Dirs : d = call[p].parent
    BY <1>3
  <2>6. Abstract!Place(p, d)
    <3>1. entry[d] = Absent /\ entry' = [entry EXCEPT ![d] = p]
      BY <1>5, <2>1, <2>5 DEF LinkDestination
    <3>2. [q \in Publishers |-> Progress(q)][p] = "pending"
      BY <1>4
    <3>3. QED
      BY <1>3, <2>3, <2>4, <2>5, <3>1, <3>2 DEF Abstract!Place
  <2>7. QED
    BY <2>6
<1>6. CASE LinkRefused(p)
  <2>1. Progress(p)' = "refused" /\ PlaceOf(p)' = PlaceOf(p)
    BY <1>2, <1>3, <1>6 DEF LinkRefused, Progress, PlaceOf, Call
  <2>2. entry' = entry /\ entry[call[p].parent] # Absent
    BY <1>6 DEF LinkRefused
  <2>3. QED
    BY <1>1, <1>3, <1>4, <2>1, <2>2, <1>only, RefuseRefines
<1>7. CASE LinkFails(p)
  <2>1. entry' = entry
    BY <1>7 DEF LinkFails
  <2>2. /\ call'[p].pc \in {"publishProc", "release"}
        /\ call'[p].result = call[p].result /\ call'[p].parent = call[p].parent
        /\ call'[p].published = call[p].published
        /\ call'[p].eexist = call[p].eexist
    BY <1>2, <1>7 DEF LinkFails, Call
  <2>3. QED
    BY <1>1, <1>3, <2>1, <2>2, <1>only, LocalRefines
<1>8. QED
  BY <1>5, <1>6, <1>7 DEF Publish

(* Giving the temporary up, and the checks of the pathname. *)
LEMMA ReleaseRefines ==
  ASSUME TypeOK, NEW p \in Publishers, Step(p),
         \/ CheckDestination(p) \/ ReleaseUnnamed(p) \/ ReleaseNamed(p)
         \/ Unlink(p) \/ ConfirmUnlinked(p) \/ RecheckDestination(p)
  PROVE  UNCHANGED Abstract!vars
<1>1. call \in [Publishers -> Call]
  BY DEF TypeOK
<1>only. OnlyCall(p)
  BY StepOthers DEF OnlyCall
<1>2. CASE CheckDestination(p)
  BY <1>1, <1>2, <1>only, LocalRefines DEF CheckDestination, Call, files
<1>3. CASE ReleaseUnnamed(p)
  BY <1>1, <1>3, <1>only, LocalRefines DEF ReleaseUnnamed, Call, files
<1>4. CASE ReleaseNamed(p)
  BY <1>1, <1>4, <1>only, LocalRefines DEF ReleaseNamed, Call, files
<1>5. CASE Unlink(p)
  BY <1>1, <1>5, <1>only, LocalRefines DEF Unlink, Call
<1>6. CASE ConfirmUnlinked(p)
  BY <1>1, <1>6, <1>only, LocalRefines DEF ConfirmUnlinked, Call, files
<1>7. CASE RecheckDestination(p)
  BY <1>1, <1>7, <1>only, LocalRefines DEF RecheckDestination, Call, files
<1>8. QED
  BY <1>2, <1>3, <1>4, <1>5, <1>6, <1>7

(* The flush of the directory makes the name what storage holds. *)
LEMMA SyncRefines ==
  ASSUME TypeOK, NEW p \in Publishers, Step(p),
         LocalInvariant(p), CallInvariant(p), SyncDirectory(p)
  PROVE  (\E d \in Dirs : Abstract!Persist(d)) \/ UNCHANGED Abstract!vars
<1>1. TypeOK /\ LocalInvariant(p) /\ CallInvariant(p)
  OBVIOUS
<1>only. OnlyCall(p)
  BY StepOthers DEF OnlyCall
<1>2. call \in [Publishers -> Call]
  BY <1>1 DEF TypeOK
<1>3. /\ At(p, "sync") /\ call[p].parent \in Dirs /\ entry' = entry
  BY <1>1 DEF SyncDirectory, CallInvariant
<1>4. /\ call'[p].pc \in {"recheckDestination", "recheckParent", "close"}
      /\ call'[p].result = call[p].result /\ call'[p].parent = call[p].parent
      /\ call'[p].published = call[p].published
      /\ call'[p].eexist = call[p].eexist
  BY <1>2 DEF SyncDirectory, AfterSync, Call
<1>5. Progress(p)' = Progress(p) /\ PlaceOf(p)' = PlaceOf(p)
  BY <1>3, <1>4 DEF Progress, PlaceOf
<1>6. CASE stable' = stable
  BY <1>1, <1>3, <1>5, <1>6, <1>only, Silent
<1>7. CASE stable' = [stable EXCEPT ![call[p].parent] = entry[call[p].parent]]
  <2>1. Abstract!Persist(call[p].parent)
    <3>1. \A q \in Publishers : Progress(q)' = Progress(q)
      BY <1>1, <1>5, <1>only, StepMapsOthers
    <3>2. QED
      BY <1>1, <1>3, <1>5, <1>7, <3>1, <1>only, Unmoved DEF Abstract!Persist
  <2>2. QED
    BY <1>3, <2>1
<1>8. QED
  BY <1>6, <1>7 DEF SyncDirectory

(* The last checks and the closes give the answer. *)
LEMMA FinishRefines ==
  ASSUME TypeOK, NEW p \in Publishers, Step(p),
         LocalInvariant(p), CallInvariant(p),
         RecheckParent(p) \/ CheckNamed(p) \/ Close(p)
  PROVE  Abstract!Commit(p) \/ Abstract!Answer(p) \/ UNCHANGED Abstract!vars
<1>1. TypeOK /\ LocalInvariant(p) /\ CallInvariant(p)
  OBVIOUS
<1>only. OnlyCall(p)
  BY StepOthers DEF OnlyCall
<1>2. call \in [Publishers -> Call] /\ UNCHANGED <<entry, stable>>
  BY <1>1 DEF TypeOK, RecheckParent, CheckNamed, Close, files
<1>3. CASE RecheckParent(p)
  <2>1. /\ ~call[p].published /\ call[p].eexist /\ call[p].result = "none"
        /\ At(p, "recheckParent")
    BY <1>1, <1>3 DEF LocalInvariant, RecheckParent
  <2>2. Progress(p) = "refused"
    BY <2>1 DEF Progress
  <2>3. Progress(p)' = "refused" /\ PlaceOf(p)' = PlaceOf(p)
    BY <1>2, <1>3, <2>1 DEF RecheckParent, Progress, PlaceOf, Call
  <2>4. QED
    BY <1>1, <1>2, <2>2, <2>3, <1>only, Silent
<1>4. CASE CheckNamed(p)
  <2>1. call[p].published /\ call[p].result = "none" /\ At(p, "checkNamed")
    BY <1>1, <1>4 DEF LocalInvariant, CheckNamed
  <2>2. Progress(p) = "placed" /\ PlaceOf(p) = call[p].parent
    BY <2>1 DEF Progress, PlaceOf
  <2>3. PlaceOf(p)' = PlaceOf(p)
    BY <1>2, <1>4 DEF CheckNamed, PlaceOf, Call
  <2>4. CASE entry[call[p].parent] = p
             /\ call' = [call EXCEPT ![p].pc = "close",
                                     ![p].fds = @ \ {"reopened"},
                                     ![p].result = "OK"]
    <3>1. Progress(p)' = "committed"
      BY <1>2, <2>4 DEF Progress, Call
    <3>2. stable[call[p].parent] = p
      BY <1>1, <2>1, <2>4 DEF CallInvariant
    <3>3. [q \in Publishers |-> Progress(q)][p] = "placed"
      BY <2>2
    <3>4. [q \in Publishers |-> IF call[q].published THEN call[q].parent ELSE NoDir][p]
          = call[p].parent
      BY <2>1
    <3>5. Abstract!Become(p, "committed")
      BY <1>1, <3>1, <1>only, Shown
    <3>6. Abstract!Commit(p)
      BY <1>1, <1>2, <2>3, <2>4, <3>2, <3>3, <3>4, <3>5, <1>only, Unmoved
      DEF Abstract!Commit
    <3>7. QED
      BY <3>6
  <2>5. CASE call' = [call EXCEPT ![p].pc = "close",
                                  ![p].fds = @ \ {"reopened"}]
    <3>1. Progress(p)' = "placed"
      BY <1>2, <2>1, <2>5 DEF Progress, Call
    <3>2. QED
      BY <1>1, <1>2, <2>2, <2>3, <3>1, <1>only, Silent
  <2>6. QED
    BY <1>4, <2>4, <2>5 DEF CheckNamed
<1>5. CASE Close(p)
  <2>1. /\ At(p, "close") /\ call[p].result \in {"none", "OK", "ALREADY_EXISTS"}
        /\ call[p].result = "ALREADY_EXISTS" => ~call[p].published /\ call[p].eexist
    BY <1>1, <1>5 DEF LocalInvariant, Close
  <2>2. /\ Progress(p) \notin {"OK", "EXISTS", "failed"}
        /\ call[p].result = "OK" => Progress(p) = "committed"
        /\ call[p].result = "ALREADY_EXISTS" => Progress(p) = "refused"
    BY <2>1 DEF Progress
  <2>3. PICK s \in Status : /\ Return(p, s)
                            /\ s \in {call[p].result, "IO_ERROR"} \ {"none"}
    BY <1>5, <2>1 DEF Close, Status
  <2>4. /\ PlaceOf(p)' = PlaceOf(p)
        /\ Progress(p)' = IF s = "OK" THEN "OK"
                          ELSE IF s = "ALREADY_EXISTS" THEN "EXISTS" ELSE "failed"
    BY <1>2, <2>3, Returned
  <2>5. QED
    BY <1>1, <1>2, <2>1, <2>2, <2>3, <2>4, <1>only, AnswerRefines
<1>6. QED
  BY <1>3, <1>4, <1>5

(* Other programs and the machine. *)
LEMMA EnvironmentRefines ==
  ASSUME TypeOK, Environment,
         \A q \in Publishers : At(q, "idle") =>
           ~call[q].published /\ ~call[q].eexist /\ call[q].result = "none"
  PROVE  \/ \E d \in Dirs : Abstract!Disturb(d)
         \/ Abstract!Crash \/ UNCHANGED Abstract!vars
<1>1. TypeOK
  OBVIOUS
<1>2. CASE call' = call /\ UNCHANGED <<entry, stable>>
  BY <1>2 DEF Abstract!vars, Progress
<1>3. CASE DisturbDestination
  <2>1. PICK d \in Dirs, f \in {Absent, Foreign} :
          entry' = [entry EXCEPT ![d] = f]
    BY <1>3 DEF DisturbDestination
  <2>2. call' = call /\ stable' = stable
    BY <1>3 DEF DisturbDestination
  <2>3. Abstract!Disturb(d)
    BY <2>1, <2>2 DEF Abstract!Disturb, Progress
  <2>4. QED
    BY <2>3
<1>4. CASE Crash
  <2>1. ASSUME NEW q \in Publishers
        PROVE  /\ PlaceOf(q)' = PlaceOf(q)
               /\ Progress(q)' \in {Progress(q), "failed"}
               /\ Progress(q) \in {"OK", "EXISTS", "failed"} =>
                    Progress(q)' = Progress(q)
               /\ Progress(q) \notin {"OK", "EXISTS", "failed", "pending"} =>
                    Progress(q)' = "failed"
               /\ Progress(q)' \in Abstract!State
    <3>1. call[q] \in Call
      BY <1>1 DEF TypeOK
    <3>2. CASE call'[q] = call[q] /\ call[q].pc \in {"idle", "done"}
      <4>1. Progress(q)' = Progress(q) /\ PlaceOf(q)' = PlaceOf(q)
        BY <3>2 DEF PlaceOf, Progress
      <4>2. Progress(q) \in {"pending", "OK", "EXISTS", "failed"}
        BY <3>2 DEF Progress
      <4>3. QED
        BY <4>1, <4>2 DEF Abstract!State
    <3>3. CASE call'[q] = [call[q] EXCEPT !.pc = "crashed", !.fds = {}]
               /\ call[q].pc \notin {"idle", "done"}
      BY <3>1, <3>3 DEF PlaceOf, Progress, Abstract!State, Call
    <3>4. QED
      BY <1>4, <3>2, <3>3 DEF Crash
  <2>2. /\ \A d \in Dirs : entry'[d] \in {entry[d], stable[d]}
        /\ entry' \in [Dirs -> Entry] /\ stable' = entry'
    BY <1>4 DEF Crash
  <2>3. Abstract!Crash
    BY <2>1, <2>2 DEF Abstract!Crash, Abstract!Answered, Entry, PlaceOf
  <2>4. QED
    BY <2>3
<1>5. QED
  BY <1>2, <1>3, <1>4 DEF Environment, SwapParent, AliasDestination,
                          DisturbTemporary, files

(* No call has begun, so the name is as others left it. *)
LEMMA InitRefines == Init => Abstract!Init
<1> SUFFICES ASSUME Init PROVE Abstract!Init
  OBVIOUS
<1>1. \A p \in Publishers : Progress(p) = "pending" /\ ~call[p].published
  BY DEF Init, NoCall, Progress
<1>2. QED
  BY <1>1 DEF Init, Abstract!Init

(* Each system call is a step of the write-once name or none. *)
LEMMA StepRefines ==
  ASSUME ~Hostile, TypeOK, NEW p \in Publishers, Step(p),
         LocalInvariant(p), CallInvariant(p)
  PROVE  Abstract!Next \/ UNCHANGED Abstract!vars
<1>1. \/ Abstract!Answer(p) \/ Abstract!Refuse(p) \/ Abstract!Commit(p)
      \/ \E d \in Dirs : Abstract!Place(p, d) \/ Abstract!Persist(d)
      \/ UNCHANGED Abstract!vars
  BY PrepareRefines, FillRefines, PublishRefines, ReleaseRefines, SyncRefines,
     FinishRefines DEF Step
<1>2. QED
  BY <1>1 DEF Abstract!Next

(* "Publishes a new regular file atomically", for any number of callers:
   unless others play with the names of temporaries, every behaviour of the
   system calls is one of a name that is written once, as a whole, and durably
   before the answer. *)
THEOREM Implements == ASSUME ~Hostile PROVE Spec => ImplementsWriteOnce
<1>1. RInv /\ [Next]_vars => [Abstract!Next]_(Abstract!vars)
  <2> SUFFICES ASSUME RInv, [Next]_vars
               PROVE  Abstract!Next \/ UNCHANGED Abstract!vars
    OBVIOUS
  <2>1. CASE \E p \in Publishers : Step(p)
    BY <2>1, StepRefines DEF RInv, IInv
  <2>2. CASE Environment
    BY <2>2, EnvironmentRefines DEF Abstract!Next, RInv, IInv, LocalInvariant
  <2>3. CASE UNCHANGED vars
    BY <2>3 DEF vars, files, Abstract!vars, Progress
  <2>4. QED
    BY <2>1, <2>2, <2>3 DEF Next
<1>2. QED
  BY <1>1, InitRefines, RefinementInvariant, PTL
  DEF Spec, ImplementsWriteOnce, Abstract!Spec
----------------------------------------------------------------------------
(* What the answers mean. *)

Refused(p) == call[p].eexist \/ At(p, "recheckExisting")
              \/ call[p].result = "ALREADY_EXISTS"

(* A name the caller did not fill was seen to be taken, and nobody emptied it
   since; a caller whose file has a name is not refused. *)
RefusalInvariant(p) ==
  /\ \A d \in Dirs : entry[d] = p \/ stable[d] = p => call[p].published
  /\ call[p].result \notin {"none", "OK", "IO_ERROR"} => ~call[p].published
  /\ Refused(p) =>
       /\ call[p].parent \in Dirs
       /\ call[p].parent \notin touched /\ crashes = 0 =>
            entry[call[p].parent] # Absent

(* From which point on the temporary name is gone. *)
ResidueInvariant(p) ==
  /\ call[p].pc \in {"idle", "openParent", "lookup", "recheckExisting", "create",
                     "confirm", "recheckParent", "recheckDestination",
                     "checkNamed"} => temp[p] # p
  /\ Platform[p] = "linux" \/ (Platform[p] = "apple" /\ call[p].published) =>
       temp[p] # p
  /\ At(p, "sync") /\ call[p].released => temp[p] # p
  /\ call[p].result \notin {"none", "IO_ERROR"} => temp[p] # p
  /\ At(p, "done") => call[p].fds = {} /\ call[p].result # "none"

AnswerInvariant(p) == RefusalInvariant(p) /\ ResidueInvariant(p)

(* All that holds of a call on a POSIX host. *)
CallHolds(p) == CallInvariant(p) /\ LocalInvariant(p) /\ AnswerInvariant(p)

AInv == TypeOK /\ \A p \in Publishers : CallHolds(p)

LEMMA InitAnswers == Init => \A p \in Publishers : AnswerInvariant(p)
  BY PublishAssumption
  DEF Init, NoCall, AnswerInvariant, RefusalInvariant, ResidueInvariant, Refused

(* The types and the local facts a step starts from. *)
LEMMA StepFacts ==
  ASSUME TypeOK, NEW p \in Publishers, CallHolds(p)
  PROVE  /\ TypeOK /\ LocalInvariant(p) /\ CallInvariant(p)
         /\ RefusalInvariant(p) /\ ResidueInvariant(p)
         /\ call \in [Publishers -> Call] /\ temp \in [Publishers -> Entry]
         /\ entry \in [Dirs -> Entry] /\ stable \in [Dirs -> Entry]
  BY DEF CallHolds, TypeOK, AnswerInvariant

(* A call's own step keeps its temporary name out of the way of its answer. *)
LEMMA StepResidue ==
  ASSUME TypeOK, NEW p \in Publishers, CallHolds(p), Step(p)
  PROVE  ResidueInvariant(p)'
<1> USE StepFacts, PublishAssumption DEF ResidueInvariant, LocalInvariant, Call
<1>1. CASE Begin(p)
  <2>1. /\ At(p, "idle") /\ temp' = temp
        /\ \/ call' = [call EXCEPT ![p].pc = "openParent", ![p].fds = {"root"}]
           \/ \E s \in Status \ {"none"} : Return(p, s)
    BY <1>1 DEF Begin, files, Status
  <2>2. QED
    BY <2>1
<1>2. CASE OpenParent(p) \/ Lookup(p) \/ RecheckExisting(p)
  BY <1>2 DEF OpenParent, Lookup, RecheckExisting, files
<1>3. CASE CreateTemporary(p)
  <2>1. \/ /\ call'[p].pc = "write" /\ call'[p].published = call[p].published
           /\ call'[p].result = call[p].result
           /\ temp' = IF Platform[p] = "linux" THEN temp ELSE [temp EXCEPT ![p] = p]
        \/ Return(p, "IO_ERROR") /\ temp' = temp
    BY <1>3 DEF CreateTemporary
  <2>2. At(p, "create")
    BY <1>3 DEF CreateTemporary
  <2>3. QED
    BY <2>1, <2>2
<1>4. CASE Write(p) \/ Flush(p)
  BY <1>4 DEF Write, Flush
<1>5. CASE Bind(p)
  <2>1. /\ At(p, "bind") /\ temp' = temp
        /\ \/ call' = [call EXCEPT ![p].pc = "publish", ![p].bound = TRUE]
           \/ Goto(p, "release")
    BY <1>5 DEF Bind, files
  <2>2. QED
    BY <2>1
<1>6. CASE Publish(p)
  BY <1>6 DEF Publish, LinkDestination, LinkRefused, LinkFails
<1>7. CASE CheckDestination(p)
  <2>1. /\ At(p, "checkDestination") /\ temp' = temp
        /\ call'[p].pc = "release" /\ call'[p].result = call[p].result
        /\ call'[p].published = call[p].published
    BY <1>7 DEF CheckDestination, files
  <2>2. QED
    BY <2>1
<1>8. CASE ReleaseUnnamed(p)
  BY <1>8 DEF ReleaseUnnamed, files
<1>9. CASE ReleaseNamed(p)
  <2>1. /\ At(p, "release") /\ temp' = temp
        /\ \/ Goto(p, "unlink")
           \/ \E b \in BOOLEAN : Released(p, "sync", b) /\ (b => temp[p] = Absent)
    BY <1>9 DEF ReleaseNamed, files
  <2>2. QED
    BY <2>1
<1>10. CASE Unlink(p)
  BY <1>10 DEF Unlink
<1>11. CASE ConfirmUnlinked(p)
  BY <1>11 DEF ConfirmUnlinked, files
<1>12. CASE SyncDirectory(p)
  BY <1>12 DEF SyncDirectory, AfterSync
<1>13. CASE RecheckParent(p) \/ RecheckDestination(p)
  BY <1>13 DEF RecheckParent, RecheckDestination, files
<1>14. CASE CheckNamed(p)
  BY <1>14 DEF CheckNamed, files
<1>15. CASE Close(p)
  BY <1>15 DEF Close, files
<1>16. QED
  BY <1>1, <1>2, <1>3, <1>4, <1>5, <1>6, <1>7, <1>8, <1>9, <1>10, <1>11, <1>12,
     <1>13, <1>14, <1>15 DEF Step

(* What a step of a call may do to the names: fill a free one with its own or
   a foreign file, or make storage agree with memory. *)
LEMMA StepNames ==
  ASSUME TypeOK, NEW p \in Publishers, CallHolds(p), Step(p)
  PROVE  /\ \A d \in Dirs : entry'[d] # entry[d] =>
              entry[d] = Absent /\ entry'[d] \in {p, Foreign} /\ call'[p].published
         /\ \A d \in Dirs : stable'[d] \in {stable[d], entry[d]}
<1> USE StepFacts, PublishAssumption DEF Call
<1>1. CASE Publish(p)
  <2>1. Source(p) \in {p, Foreign, Absent}
    BY DEF Source, CallInvariant
  <2>2. QED
    BY <1>1, <2>1 DEF Publish, LinkDestination, LinkRefused, LinkFails
<1>2. CASE SyncDirectory(p)
  BY <1>2 DEF SyncDirectory
<1>3. CASE ~Publish(p) /\ ~SyncDirectory(p)
  BY <1>3 DEF Step, Begin, OpenParent, Lookup, RecheckExisting, CreateTemporary,
        Write, Flush, Bind, CheckDestination, ReleaseUnnamed, ReleaseNamed,
        Unlink, ConfirmUnlinked, RecheckParent, RecheckDestination, CheckNamed,
        Close, files
<1>4. QED
  BY <1>1, <1>2, <1>3

(* published is never taken back, and the answer keeps to it. *)
LEMMA StepPublished ==
  ASSUME TypeOK, NEW p \in Publishers, CallHolds(p), Step(p)
  PROVE  /\ call[p].published => call'[p].published
         /\ call'[p].result \notin {"none", "OK", "IO_ERROR"} => ~call'[p].published
<1> USE StepFacts, PublishAssumption DEF RefusalInvariant, LocalInvariant, Call
<1>1. CASE Begin(p)
  <2>1. /\ At(p, "idle")
        /\ \/ call' = [call EXCEPT ![p].pc = "openParent", ![p].fds = {"root"}]
           \/ \E s \in Status : Return(p, s)
    BY <1>1 DEF Begin, Status
  <2>2. QED
    BY <2>1
<1>2. CASE OpenParent(p) \/ Lookup(p) \/ RecheckExisting(p)
  BY <1>2 DEF OpenParent, Lookup, RecheckExisting
<1>3. CASE CreateTemporary(p)
  BY <1>3 DEF CreateTemporary
<1>4. CASE Write(p) \/ Flush(p)
  BY <1>4 DEF Write, Flush
<1>5. CASE Bind(p)
  <2>1. call'[p].result = call[p].result /\ call'[p].published = call[p].published
    BY <1>5 DEF Bind
  <2>2. QED
    BY <2>1
<1>6. CASE Publish(p)
  BY <1>6 DEF Publish, LinkDestination, LinkRefused, LinkFails
<1>7. CASE CheckDestination(p) \/ ReleaseUnnamed(p) \/ ReleaseNamed(p) \/ Unlink(p)
           \/ ConfirmUnlinked(p)
  <2>1. call'[p].result = call[p].result /\ call'[p].published = call[p].published
    BY <1>7 DEF CheckDestination, ReleaseUnnamed, ReleaseNamed, Unlink,
                ConfirmUnlinked
  <2>2. QED
    BY <2>1
<1>8. CASE SyncDirectory(p)
  BY <1>8 DEF SyncDirectory, AfterSync
<1>9. CASE RecheckParent(p) \/ RecheckDestination(p)
  BY <1>9 DEF RecheckParent, RecheckDestination
<1>10. CASE CheckNamed(p)
  BY <1>10 DEF CheckNamed
<1>11. CASE Close(p)
  <2>1. /\ At(p, "close") /\ call'[p].published = call[p].published
        /\ call'[p].result \in {call[p].result, "IO_ERROR"}
    BY <1>11 DEF Close, Status
  <2>2. QED
    BY <2>1
<1>12. QED
  BY <1>1, <1>2, <1>3, <1>4, <1>5, <1>6, <1>7, <1>8, <1>9, <1>10, <1>11 DEF Step

(* A call counts as refused only if it was, or finds the name taken now. *)
LEMMA StepRefused ==
  ASSUME TypeOK, NEW p \in Publishers, CallHolds(p), Step(p), Refused(p)'
  PROVE  /\ call'[p].parent = call[p].parent
         /\ \/ Refused(p)
            \/ call[p].parent \in Dirs /\ entry[call[p].parent] # Absent
<1> USE StepFacts, PublishAssumption DEF Refused, LocalInvariant, CallInvariant, Call
<1>1. CASE Begin(p)
  <2>1. /\ At(p, "idle")
        /\ \/ call' = [call EXCEPT ![p].pc = "openParent", ![p].fds = {"root"}]
           \/ \E s \in Status \ {"ALREADY_EXISTS"} : Return(p, s)
    BY <1>1 DEF Begin, Status
  <2>2. QED
    BY <2>1
<1>2. CASE OpenParent(p)
  BY <1>2 DEF OpenParent
<1>3. CASE Lookup(p) \/ RecheckExisting(p)
  <2>1. CASE Lookup(p)
    BY <2>1 DEF Lookup
  <2>2. CASE RecheckExisting(p)
    BY <2>2 DEF RecheckExisting
  <2>3. QED
    BY <1>3, <2>1, <2>2
<1>4. CASE CreateTemporary(p)
  <2>1. \/ /\ call'[p].pc = "write" /\ call'[p].result = call[p].result
           /\ call'[p].eexist = call[p].eexist /\ call'[p].parent = call[p].parent
        \/ Return(p, "IO_ERROR")
    BY <1>4 DEF CreateTemporary
  <2>2. At(p, "create")
    BY <1>4 DEF CreateTemporary
  <2>3. QED
    BY <2>1, <2>2
<1>5. CASE Write(p) \/ Flush(p)
  BY <1>5 DEF Write, Flush
<1>6. CASE Bind(p) \/ CheckDestination(p) \/ ReleaseUnnamed(p) \/ ReleaseNamed(p)
           \/ Unlink(p) \/ ConfirmUnlinked(p)
  <2>1. /\ call'[p].result = call[p].result /\ call'[p].eexist = call[p].eexist
        /\ call'[p].pc # "recheckExisting" /\ call'[p].parent = call[p].parent
    BY <1>6 DEF Bind, CheckDestination, ReleaseUnnamed, ReleaseNamed, Unlink,
                ConfirmUnlinked
  <2>2. QED
    BY <2>1
<1>7. CASE Publish(p)
  BY <1>7 DEF Publish, LinkDestination, LinkRefused, LinkFails
<1>8. CASE SyncDirectory(p)
  BY <1>8 DEF SyncDirectory, AfterSync
<1>9. CASE RecheckParent(p) \/ RecheckDestination(p)
  BY <1>9 DEF RecheckParent, RecheckDestination
<1>10. CASE CheckNamed(p)
  BY <1>10 DEF CheckNamed
<1>11. CASE Close(p)
  BY <1>11 DEF Close
<1>12. QED
  BY <1>1, <1>2, <1>3, <1>4, <1>5, <1>6, <1>7, <1>8, <1>9, <1>10, <1>11 DEF Step

(* A step of any call preserves what the answers rely on. *)
LEMMA StepRefusal ==
  ASSUME TypeOK, NEW p \in Publishers, CallHolds(p), Step(p),
         NEW q \in Publishers, CallHolds(q)
  PROVE  RefusalInvariant(q)'
<1>1. /\ call'[q].published \/ ~call[q].published
      /\ call'[q].result \notin {"none", "OK", "IO_ERROR"} => ~call'[q].published
  <2>1. CASE q = p
    BY <2>1, StepPublished
  <2>2. CASE q # p
    BY <2>2, StepOthers, StepFacts DEF RefusalInvariant
  <2>3. QED
    BY <2>1, <2>2
<1>2. \A d \in Dirs : entry'[d] = q \/ stable'[d] = q => call'[q].published
  <2> SUFFICES ASSUME NEW d \in Dirs, entry'[d] = q \/ stable'[d] = q
               PROVE  call'[q].published
    OBVIOUS
  <2>1. RefusalInvariant(q) /\ q # Foreign
    BY StepFacts, PublishAssumption
  <2>2. entry[d] = q \/ stable[d] = q \/ (q = p /\ call'[p].published)
    BY <2>1, StepNames
  <2>3. QED
    BY <1>1, <2>1, <2>2 DEF RefusalInvariant
<1>3. UNCHANGED <<touched, crashes>>
  BY StepRest DEF history
<1>4. ASSUME Refused(q)'
      PROVE  /\ call'[q].parent = call[q].parent /\ call[q].parent \in Dirs
             /\ call[q].parent \notin touched /\ crashes = 0 =>
                  entry[call[q].parent] # Absent
  <2>1. /\ call'[q].parent = call[q].parent
        /\ \/ Refused(q)
           \/ call[q].parent \in Dirs /\ entry[call[q].parent] # Absent
    <3>1. CASE q = p
      BY <3>1, <1>4, StepRefused
    <3>2. CASE q # p
      BY <3>2, <1>4, StepOthers, StepFacts DEF Refused
    <3>3. QED
      BY <3>1, <3>2
  <2>2. QED
    BY <2>1, StepFacts DEF RefusalInvariant
<1>5. QED
  BY <1>1, <1>2, <1>3, <1>4, StepNames, PublishAssumption DEF RefusalInvariant

(* So do other programs, and a power loss. *)
LEMMA EnvironmentAnswers ==
  ASSUME TypeOK, Environment, NEW q \in Publishers, CallHolds(q)
  PROVE  AnswerInvariant(q)'
<1>1. RefusalInvariant(q) /\ ResidueInvariant(q)
  BY StepFacts
<1> USE <1>1, StepFacts, PublishAssumption
    DEF AnswerInvariant, RefusalInvariant, ResidueInvariant, Refused
<1>2. CASE SwapParent
  BY <1>2 DEF SwapParent, files
<1>3. CASE DisturbDestination
  BY <1>3 DEF DisturbDestination
<1>4. CASE AliasDestination
  BY <1>4 DEF AliasDestination
<1>5. CASE DisturbTemporary
  BY <1>5 DEF DisturbTemporary
<1>6. CASE Crash
  <2>1. crashes' # 0
    <3>1. crashes \in 0..MaxCrashes /\ crashes' = crashes + 1
      BY <1>6, StepFacts DEF Crash, TypeOK
    <3>2. QED
      BY <3>1
  <2>2. /\ \A d \in Dirs : entry'[d] \in {entry[d], stable[d]}
        /\ stable' = entry' /\ temp' = temp
    BY <1>6 DEF Crash
  <2>3. \/ call'[q] = call[q]
        \/ call'[q] = [call[q] EXCEPT !.pc = "crashed", !.fds = {}]
    BY <1>6 DEF Crash
  <2>4. /\ call'[q].parent = call[q].parent /\ call'[q].result = call[q].result
        /\ call'[q].published = call[q].published
        /\ call'[q].eexist = call[q].eexist
        /\ \/ call'[q].pc = call[q].pc /\ call'[q].fds = call[q].fds
              /\ call'[q].released = call[q].released
           \/ call'[q].pc = "crashed"
    <3>1. call[q] \in Call
      BY StepFacts
    <3>2. QED
      BY <2>3, <3>1 DEF Call
  <2>5. RefusalInvariant(q)'
    BY <2>1, <2>2, <2>4
  <2>6. ResidueInvariant(q)'
    BY <2>2, <2>4
  <2>7. QED
    BY <2>5, <2>6
<1>7. QED
  BY <1>2, <1>3, <1>4, <1>5, <1>6 DEF Environment

(* What the answers rely on holds in every behaviour. *)
THEOREM AnswersInvariant == Spec => []AInv
<1>1. AInv => RInv
  BY DEF AInv, CallHolds, RInv, IInv
<1>2. AInv /\ [Next]_vars => AInv'
  <2> SUFFICES ASSUME AInv, [Next]_vars PROVE AInv'
    OBVIOUS
  <2>1. RInv'
    BY <1>1, RInvStep
  <2>2. ASSUME NEW q \in Publishers PROVE AnswerInvariant(q)'
    <3>1. CASE \E p \in Publishers : Step(p)
      <4>1. PICK p \in Publishers : Step(p)
        BY <3>1
      <4>2. RefusalInvariant(q)'
        BY <4>1, StepRefusal DEF AInv
      <4>3. CASE q = p
        BY <4>1, <4>2, <4>3, StepResidue DEF AInv, AnswerInvariant
      <4>4. CASE q # p
        <5>1. ResidueInvariant(q) /\ call'[q] = call[q] /\ temp'[q] = temp[q]
          BY <4>1, <4>4, StepOthers, StepFacts DEF AInv
        <5>2. QED
          BY <4>2, <5>1 DEF AnswerInvariant, ResidueInvariant
      <4>5. QED
        BY <4>3, <4>4
    <3>2. CASE Environment
      BY <3>2, EnvironmentAnswers DEF AInv
    <3>3. CASE UNCHANGED vars
      BY <3>3, StepFacts DEF vars, files, history, AInv, AnswerInvariant,
         RefusalInvariant, ResidueInvariant, Refused
    <3>4. QED
      BY <3>1, <3>2, <3>3 DEF Next
  <2>3. QED
    BY <2>1, <2>2 DEF AInv, CallHolds, RInv, IInv
<1>3. Init => AInv
  BY InitInvariant, InitLocal, InitAnswers DEF AInv, CallHolds, IInv
<1>4. QED
  BY <1>2, <1>3, PTL DEF Spec

(* ALREADY_EXISTS is never about the caller's own file, and while nobody else
   touches the directory and power stays on, something is there. *)
THEOREM RefusalJustifiedHolds == Spec => []RefusalJustified
<1>1. AInv => RefusalJustified
  BY DEF AInv, CallHolds, AnswerInvariant, RefusalInvariant, Refused, RefusalJustified
<1>2. QED
  BY AnswersInvariant, <1>1, PTL

(* Any final answer but IO_ERROR means that the temporary is gone, and any but
   OK that the file has no name. *)
THEOREM ResidueOnlyOnIoErrorHolds == Spec => []ResidueOnlyOnIoError
<1>1. AInv => ResidueOnlyOnIoError
  BY DEF AInv, CallHolds, AnswerInvariant, RefusalInvariant, ResidueInvariant,
         ResidueOnlyOnIoError
<1>2. QED
  BY AnswersInvariant, <1>1, PTL
----------------------------------------------------------------------------
(* Calls that nothing disturbs. *)

Preparing == {"write", "bind", "publish"}
Releasing == {"release", "unlink", "confirm", "sync"}
Answering == {"close", "done"}

(* Without a fault or an interference a call that finds the name free fills
   it or learns that it was taken, and its file is bound all the way. *)
Smooth(p) ==
  /\ temp[p] \in {p, Absent}
  /\ call[p].pc \notin {"crashed", "publishProc"}
  /\ call[p].pc \notin {"idle", "openParent"} => call[p].parent = parentPath
  /\ \A d \in Dirs : entry[d] = p <=> d = parentPath /\ call[p].published
  /\ call[p].pc \in Preparing /\ Platform[p] # "linux" => temp[p] = p
  /\ At(p, "checkDestination") => call[p].published
  /\ At(p, "unlink") => temp[p] = p
  /\ call[p].pc \in {"checkDestination", "release"} /\
     (Platform[p] = "posix" \/ (Platform[p] = "apple" /\ ~call[p].published)) =>
       temp[p] = p
  /\ call[p].pc \in Releasing =>
       IF call[p].published THEN call[p].destBound ELSE call[p].bound /\ call[p].eexist
  /\ At(p, "sync") => call[p].released
  /\ call[p].pc \in Releasing \cup Answering \cup {"recheckExisting", "recheckParent"} =>
       entry[parentPath] # Absent
  /\ call[p].pc \in Answering =>
       call[p].result = IF call[p].published THEN "OK" ELSE "ALREADY_EXISTS"

Calm ==
  Undisturbed => /\ alias = {} /\ parentPath \in Dirs
                 /\ \A p \in Publishers : Smooth(p)

(* The link count such a call sees. *)
LEMMA LinksCalm ==
  ASSUME NEW p \in Publishers, Smooth(p), alias = {}, parentPath \in Dirs
  PROVE  Links(p) = (IF call[p].published THEN 1 ELSE 0) + (IF temp[p] = p THEN 1 ELSE 0)
<1> DEFINE named == {d \in Dirs : entry[d] = p}
<1>1. named = IF call[p].published THEN {parentPath} ELSE {}
  BY DEF Smooth
<1>2. Cardinality({parentPath}) = 1 /\ Cardinality({}) = 0
  BY FS_Singleton, FS_EmptySet
<1>3. Cardinality(named) = IF call[p].published THEN 1 ELSE 0
  BY <1>1, <1>2
<1>4. QED
  BY <1>3 DEF Links

(* What such a call may rely on. *)
LEMMA CalmFacts ==
  ASSUME AInv, Calm, Undisturbed, NEW p \in Publishers
  PROVE  /\ ~Faults /\ Smooth(p) /\ alias = {} /\ parentPath \in Dirs /\ parentPath # NoDir
         /\ Links(p) = (IF call[p].published THEN 1 ELSE 0) + (IF temp[p] = p THEN 1 ELSE 0)
         /\ LocalInvariant(p) /\ CallInvariant(p) /\ RefusalInvariant(p) /\ ResidueInvariant(p)
         /\ call \in [Publishers -> Call] /\ temp \in [Publishers -> Entry]
         /\ entry \in [Dirs -> Entry] /\ p # Absent /\ p # Foreign
  BY StepFacts, LinksCalm, PublishAssumption DEF AInv, Calm, Undisturbed

(* A step before the file has its name. *)
LEMMA CalmPrepare ==
  ASSUME AInv, Calm, Undisturbed, NEW p \in Publishers,
         Begin(p) \/ OpenParent(p) \/ Lookup(p) \/ RecheckExisting(p)
         \/ CreateTemporary(p) \/ Write(p) \/ Flush(p) \/ Bind(p)
  PROVE  Smooth(p)'
<1>1. parentPath' = parentPath /\ entry' = entry
  BY DEF Begin, OpenParent, Lookup, RecheckExisting, CreateTemporary, Write, Flush, Bind, files
<1> USE CalmFacts DEF Smooth, Preparing, Releasing, Answering, Call
<1>2. CASE Begin(p)
  BY <1>1, <1>2 DEF Begin, files, LocalInvariant
<1>3. CASE OpenParent(p)
  <2>1. /\ At(p, "openParent") /\ temp' = temp /\ ~call[p].published
        /\ call' = [call EXCEPT ![p].pc = "lookup", ![p].parent = parentPath,
                               ![p].fds = @ \cup {"parent"}]
    BY <1>3 DEF OpenParent, files, LocalInvariant
  <2>2. /\ call'[p].pc = "lookup" /\ call'[p].parent = parentPath
        /\ call'[p].published = call[p].published
    BY <2>1
  <2>3. QED
    BY <1>1, <2>1, <2>2
<1>4. CASE Lookup(p)
  <2>1. At(p, "lookup") /\ temp' = temp /\ ~call[p].published
    BY <1>4 DEF Lookup, files, LocalInvariant
  <2>2. \/ entry[call[p].parent] # Absent /\ Goto(p, "recheckExisting")
        \/ Goto(p, "create")
    BY <1>4 DEF Lookup
  <2>3. /\ call'[p].pc = "create" \/ (call'[p].pc = "recheckExisting" /\ entry[parentPath] # Absent)
        /\ call'[p].parent = call[p].parent /\ call'[p].published = call[p].published
    BY <2>1, <2>2
  <2>4. QED
    BY <1>1, <2>1, <2>3
<1>5. CASE RecheckExisting(p)
  <2>1. At(p, "recheckExisting") /\ temp' = temp /\ ~call[p].published
    BY <1>5 DEF RecheckExisting, files, LocalInvariant
  <2>2. Return(p, "ALREADY_EXISTS")
    BY <1>5, <2>1 DEF RecheckExisting
  <2>3. /\ call'[p].pc = "done" /\ call'[p].result = "ALREADY_EXISTS"
        /\ call'[p].parent = call[p].parent /\ call'[p].published = call[p].published
    BY <2>2 DEF Return
  <2>4. QED
    BY <1>1, <2>1, <2>3
<1>6. CASE CreateTemporary(p)
  <2> HIDE CalmFacts DEF Smooth, Preparing, Releasing, Answering, Call
  <2>1. ~Faults /\ LocalInvariant(p)
    BY CalmFacts
  <2>2. /\ At(p, "create")
        /\ call' = [call EXCEPT ![p].pc = "write", ![p].fds = @ \cup {"temporary"}]
        /\ temp' = IF Platform[p] = "linux" THEN temp ELSE [temp EXCEPT ![p] = p]
    BY <1>6, <2>1, Zenon DEF CreateTemporary
  <2>3. ~call[p].published
    BY <2>1, <2>2 DEF LocalInvariant, At
  <2>4. call \in [Publishers -> Call] /\ temp \in [Publishers -> Entry]
    BY CalmFacts
  <2>5. /\ call'[p].pc = "write" /\ call'[p].parent = call[p].parent
        /\ call'[p].published = call[p].published
    BY <2>2, <2>4 DEF Call
  <2>6. temp'[p] = IF Platform[p] = "linux" THEN temp[p] ELSE p
    BY <2>2, <2>4
  <2>7. QED
    BY <1>1, <2>2, <2>3, <2>5, <2>6, CalmFacts DEF Smooth, Preparing, Releasing, Answering, At
<1>7. CASE Write(p) \/ Flush(p)
  BY <1>1, <1>7 DEF Write, Flush, LocalInvariant
<1>8. CASE Bind(p)
  <2>1. TemporaryMatches(p)
    BY <1>8 DEF Bind, TemporaryMatches, CallInvariant, Whole, LocalInvariant, ResidueInvariant
  <2>2. call' = [call EXCEPT ![p].pc = "publish", ![p].bound = TRUE] /\ temp' = temp
    BY <1>8, <2>1 DEF Bind, files
  <2>3. At(p, "bind") /\ ~call[p].published
    BY <1>8 DEF Bind, LocalInvariant
  <2>4. /\ call'[p].pc = "publish" /\ call'[p].parent = call[p].parent
        /\ call'[p].published = call[p].published
    BY <2>2
  <2>5. QED
    BY <1>1, <2>2, <2>3, <2>4
<1>9. QED
  BY <1>2, <1>3, <1>4, <1>5, <1>6, <1>7, <1>8

(* The step that names the file, or finds another one. *)
LEMMA CalmPublish ==
  ASSUME AInv, Calm, Undisturbed, NEW p \in Publishers, Publish(p) \/ CheckDestination(p)
  PROVE  Smooth(p)'
<1> USE CalmFacts DEF Smooth, Preparing, Releasing, Answering, Call
<1>1. parentPath' = parentPath
  BY DEF Publish, CheckDestination
<1>2. CASE Publish(p)
  <2>1. /\ At(p, "publish") /\ Source(p) = p /\ call[p].bound /\ ~call[p].published
        /\ call[p].parent = parentPath
    BY <1>2 DEF Publish, Source, CallInvariant, LocalInvariant
  <2>2. CASE LinkDestination(p)
    BY <1>1, <2>1, <2>2 DEF LinkDestination
  <2>3. CASE LinkRefused(p)
    BY <1>1, <2>1, <2>3 DEF LinkRefused
  <2>4. ~LinkFails(p)
    BY <2>1 DEF LinkFails
  <2>5. QED
    BY <1>2, <2>2, <2>3, <2>4 DEF Publish
<1>3. CASE CheckDestination(p)
  <2>1. /\ At(p, "checkDestination") /\ entry' = entry /\ temp' = temp
        /\ call[p].published /\ entry[parentPath] = p /\ call[p].parent = parentPath
    BY <1>3 DEF CheckDestination, files
  <2>2. call' = [call EXCEPT ![p].pc = "release", ![p].destBound = TRUE]
    BY <1>3, <2>1 DEF CheckDestination
  <2>3. QED
    BY <1>1, <2>1, <2>2
<1>4. QED
  BY <1>2, <1>3

(* The steps that give the temporary up and flush the directory. *)
LEMMA CalmRelease ==
  ASSUME AInv, Calm, Undisturbed, NEW p \in Publishers,
         ReleaseUnnamed(p) \/ ReleaseNamed(p) \/ Unlink(p) \/ ConfirmUnlinked(p)
         \/ SyncDirectory(p)
  PROVE  Smooth(p)'
<1> USE CalmFacts DEF Smooth, Preparing, Releasing, Answering, Call
<1>1. parentPath' = parentPath /\ entry' = entry
  BY DEF ReleaseUnnamed, ReleaseNamed, Unlink, ConfirmUnlinked, SyncDirectory, files
<1>2. CASE ReleaseUnnamed(p)
  <2>1. /\ At(p, "release") /\ temp' = temp /\ temp[p] # p
    BY <1>2 DEF ReleaseUnnamed, files, ResidueInvariant
  <2>2. Released(p, "sync", TRUE)
    BY <1>2, <2>1 DEF ReleaseUnnamed
  <2>3. QED
    BY <1>1, <2>1, <2>2
<1>3. CASE ReleaseNamed(p)
  <2>1. At(p, "release") /\ temp' = temp /\ temp[p] = p
    BY <1>3 DEF ReleaseNamed, files
  <2>2. Goto(p, "unlink")
    BY <1>3, <2>1 DEF ReleaseNamed
  <2>3. QED
    BY <1>1, <2>1, <2>2
<1>4. CASE Unlink(p)
  <2>1. /\ At(p, "unlink") /\ temp' = [temp EXCEPT ![p] = Absent] /\ Goto(p, "confirm")
    BY <1>4 DEF Unlink
  <2>2. QED
    BY <1>1, <2>1
<1>5. CASE ConfirmUnlinked(p)
  <2>1. At(p, "confirm") /\ temp' = temp /\ temp[p] # p
    BY <1>5 DEF ConfirmUnlinked, files, ResidueInvariant
  <2>2. Released(p, "sync", TRUE)
    BY <1>5, <2>1 DEF ConfirmUnlinked, ExpectedLinks
  <2>3. QED
    BY <1>1, <2>1, <2>2
<1>6. CASE SyncDirectory(p)
  <2>1. At(p, "sync") /\ temp' = temp /\ Goto(p, AfterSync(p))
    BY <1>6 DEF SyncDirectory
  <2>2. AfterSync(p) = IF call[p].published THEN "recheckDestination" ELSE "recheckParent"
    BY <2>1 DEF AfterSync
  <2>3. QED
    BY <1>1, <2>1, <2>2
<1>7. QED
  BY <1>2, <1>3, <1>4, <1>5, <1>6

(* The steps that decide the answer. *)
LEMMA CalmFinish ==
  ASSUME AInv, Calm, Undisturbed, NEW p \in Publishers,
         RecheckParent(p) \/ RecheckDestination(p) \/ CheckNamed(p) \/ Close(p)
  PROVE  Smooth(p)'
<1> USE CalmFacts DEF Smooth, Preparing, Releasing, Answering, Call
<1>1. parentPath' = parentPath /\ entry' = entry /\ temp' = temp
  BY DEF RecheckParent, RecheckDestination, CheckNamed, Close, files
<1>2. CASE RecheckParent(p)
  BY <1>1, <1>2 DEF RecheckParent, LocalInvariant
<1>3. CASE RecheckDestination(p)
  BY <1>1, <1>3 DEF RecheckDestination, LocalInvariant
<1>4. CASE CheckNamed(p)
  <2>1. call[p].published /\ entry[call[p].parent] = p
    BY <1>4 DEF CheckNamed, LocalInvariant
  <2>2. QED
    BY <1>1, <1>4, <2>1 DEF CheckNamed
<1>5. CASE Close(p)
  <2>1. At(p, "close") /\ call[p].result # "none"
    BY <1>5 DEF Close
  <2>2. Return(p, call[p].result)
    BY <1>5, <2>1 DEF Close
  <2>3. QED
    BY <1>1, <2>1, <2>2
<1>6. QED
  BY <1>2, <1>3, <1>4, <1>5

LEMMA CalmStep ==
  ASSUME AInv, Calm, Undisturbed, NEW p \in Publishers, Step(p), NEW q \in Publishers
  PROVE  Smooth(q)'
<1>1. CASE q = p
  BY <1>1, CalmPrepare, CalmPublish, CalmRelease, CalmFinish DEF Step
<1>2. CASE q # p
  <2>1. call'[q] = call[q] /\ temp'[q] = temp[q] /\ parentPath' = parentPath
    BY <1>2, StepOthers, StepRest DEF AInv
  <2>2. \A d \in Dirs : entry'[d] # entry[d] => entry[d] = Absent /\ entry'[d] \in {p, Foreign}
    BY StepNames DEF AInv
  <2>3. Smooth(q) /\ q # Absent /\ q # Foreign /\ parentPath \in Dirs /\ p # Absent
    BY CalmFacts
  <2>4. \A d \in Dirs : (entry'[d] = q <=> entry[d] = q) /\ (entry[d] # Absent => entry'[d] # Absent)
    BY <1>2, <2>2, <2>3
  <2>5. QED
    BY <2>1, <2>3, <2>4 DEF Smooth
<1>3. QED
  BY <1>1, <1>2

(* Nothing is undone by calls alone, and any other step is a disturbance. *)
THEOREM CalmHolds == Spec => []Calm
<1>1. Init => Calm
  BY PublishAssumption DEF Init, NoCall, Calm, Smooth, Preparing, Releasing, Answering
<1>2. AInv /\ Calm /\ [Next]_vars => Calm'
  <2> SUFFICES ASSUME AInv, Calm, [Next]_vars, Undisturbed'
               PROVE  (alias = {} /\ parentPath \in Dirs)' /\ \A q \in Publishers : Smooth(q)'
    BY DEF Calm
  <2>1. CASE \E p \in Publishers : Step(p)
    <3>1. PICK p \in Publishers : Step(p)
      BY <2>1
    <3>2. Undisturbed
      BY <3>1, StepRest DEF Undisturbed, history
    <3>3. alias' = alias /\ parentPath' = parentPath
      BY <3>1 DEF Step, Begin, OpenParent, Lookup, RecheckExisting, CreateTemporary,
         Write, Flush, Bind, Publish, CheckDestination, ReleaseUnnamed, ReleaseNamed,
         Unlink, ConfirmUnlinked, SyncDirectory, RecheckParent, RecheckDestination,
         CheckNamed, Close, files
    <3>4. QED
      BY <3>1, <3>2, <3>3, CalmStep, CalmFacts DEF Calm
  <2>2. CASE Environment
    <3>1. envSteps \in Nat /\ crashes \in Nat
      BY PublishAssumption DEF AInv, TypeOK
    <3>2. envSteps' = envSteps + 1 \/ crashes' = crashes + 1
      BY <2>2 DEF Environment, SwapParent, DisturbDestination, AliasDestination,
                  DisturbTemporary, Crash, EnvStep
    <3>3. QED
      BY <3>1, <3>2 DEF Undisturbed
  <2>3. CASE UNCHANGED vars
    BY <2>3 DEF vars, files, history, Undisturbed, Calm, Smooth
  <2>4. QED
    BY <2>1, <2>2, <2>3 DEF Next
<1>3. QED
  BY <1>1, <1>2, AnswersInvariant, PTL DEF Spec

(* "A concurrent publisher wins or loses atomically": of any number of calls
   that nothing disturbs exactly one has won when all are over, unless the
   name was taken before, and all the others have been told. *)
THEOREM OneWinnerHolds == ASSUME Publishers # {} PROVE Spec => []OneWinner
<1>1. AInv /\ Calm => OneWinner
  <2> SUFFICES ASSUME AInv, Calm, Undisturbed, \A p \in Publishers : At(p, "done")
               PROVE  /\ \A p \in Publishers :
                           call[p].result = IF entry[parentPath] = p THEN "OK"
                                            ELSE "ALREADY_EXISTS"
                      /\ entry[parentPath] # Absent
    BY DEF OneWinner
  <2>1. ASSUME NEW p \in Publishers
        PROVE  /\ call[p].result = IF entry[parentPath] = p THEN "OK" ELSE "ALREADY_EXISTS"
               /\ entry[parentPath] # Absent
    BY CalmFacts DEF Smooth, Answering
  <2>2. QED
    BY <2>1
<1>2. QED
  BY <1>1, AnswersInvariant, CalmHolds, PTL
----------------------------------------------------------------------------
(* Publishers on Windows beside those on POSIX hosts. *)

WindowsType == anchor \in [Publishers -> Dirs \cup {NoDir}] /\ onWindows \subseteq Publishers

Entering == {"idle", "openParent", "create"}
Naming == {"write", "publish", "recheckParent", "sync", "checkNamed", "release"}
Final == {"close", "done", "crashed"}

(* What has a name on Windows was written and flushed first, and it has the
   name its call remembers. *)
NamedOnWindows(p) ==
  /\ call[p].bound => Whole(p)
  /\ At(p, "publish") \/ call[p].published => call[p].bound
  /\ \A d \in Dirs : entry[d] = p \/ stable[d] = p =>
                      call[p].published /\ d = call[p].parent
  /\ At(p, "checkNamed") /\ entry[call[p].parent] = p => stable[call[p].parent] = p
  /\ temp[p] \in {p, Foreign, Absent} /\ (~Hostile => temp[p] # Foreign)
  /\ call[p].pc \in Entering \/ call[p].published => temp[p] # p

(* No call both filled a name and found one taken. *)
PlacedOnWindows(p) ==
  /\ call[p].pc \in Entering \cup Naming \cup Final
  /\ call[p].pc \in Naming \/ call[p].eexist \/ call[p].published => call[p].parent \in Dirs
  /\ call[p].pc \in Entering \cup {"write", "publish"} => ~call[p].published /\ ~call[p].eexist
  /\ call[p].pc \in {"sync", "checkNamed"} => call[p].published
  /\ ~(call[p].published /\ call[p].eexist)

(* The answer follows from the name, and a name that was found taken stays so
   until somebody empties it. *)
AnsweredOnWindows(p) ==
  /\ call[p].pc \in Entering \cup (Naming \ {"release"}) => call[p].result = "none"
  /\ At(p, "release") => call[p].result \in {"none", "ALREADY_EXISTS"}
  /\ At(p, "close") => call[p].result \in {"none", "ALREADY_EXISTS", "OK"}
  /\ At(p, "done") => call[p].fds = {} /\ call[p].result # "none"
  /\ call[p].result = "ALREADY_EXISTS" => call[p].eexist
  /\ call[p].result \notin {"none", "OK", "IO_ERROR"} => ~call[p].published
  /\ call[p].pc \in {"close", "done"} /\ call[p].result \notin {"none", "IO_ERROR"} =>
       temp[p] # p
  /\ call[p].eexist /\ call[p].parent \notin touched /\ crashes = 0 =>
       entry[call[p].parent] # Absent
  /\ call[p].result = "OK" =>
       /\ call[p].pc \in Final /\ call[p].published
       /\ call[p].parent \notin touched =>
            entry[call[p].parent] = p /\ stable[call[p].parent] = p

WindowsHolds(p) == NamedOnWindows(p) /\ PlacedOnWindows(p) /\ AnsweredOnWindows(p)

SharedInv ==
  /\ TypeOK /\ WindowsType
  /\ \A p \in Publishers \ onWindows : CallHolds(p)
  /\ \A p \in onWindows : WindowsHolds(p)

LEMMA InitShared == SharedInit => SharedInv
<1> SUFFICES ASSUME SharedInit PROVE SharedInv
  OBVIOUS
<1>1. Init /\ TypeOK /\ WindowsType
  BY InitType DEF SharedInit, WindowsType
<1>2. ASSUME NEW p \in Publishers PROVE CallHolds(p)
  BY <1>1, InitInvariant, InitLocal, InitAnswers DEF CallHolds, IInv
<1>3. ASSUME NEW p \in Publishers PROVE WindowsHolds(p)
  BY <1>1, PublishAssumption DEF Init, NoCall, WindowsHolds, NamedOnWindows, PlacedOnWindows,
     AnsweredOnWindows, Entering, Naming, Final
<1>4. QED
  BY <1>1, <1>2, <1>3 DEF SharedInv, WindowsType

(* The steps of the Windows branch that change no file but the caller's own,
   and what each of them makes of the call. *)
LEMMA WindowsCalls ==
  ASSUME call \in [Publishers -> Call], parentPath \in Dirs \cup {NoDir},
         NEW p \in Publishers, WindowsStep(p)
  PROVE  call' \in [Publishers -> Call]
<1> USE DEF Call, Label, Status
<1>1. CASE (Begin(p) \/ Close(p)) /\ UNCHANGED anchor
  <2>1. CASE Begin(p)
    BY <1>1, <2>1 DEF Begin
  <2>2. CASE Close(p)
    BY <1>1, <2>2 DEF Close
  <2>3. QED
    BY <1>1, <2>1, <2>2
<1>2. CASE OpenAnchor(p)
  BY <1>2 DEF OpenAnchor
<1>3. CASE CreateByPath(p)
  <2>1. \/ /\ parentPath \in Dirs \cup {NoDir}
           /\ call' = [call EXCEPT ![p].pc = "write", ![p].parent = parentPath,
                                   ![p].fds = @ \cup {"temporary"}]
        \/ Return(p, "IO_ERROR")
    BY <1>3, Zenon DEF CreateByPath
  <2>2. QED
    BY <2>1
<1>4. CASE WriteThrough(p) \/ FlushWritten(p)
  BY <1>4 DEF WriteThrough, FlushWritten, Failed
<1>5. CASE RenameHeld(p)
  BY <1>5 DEF RenameHeld
<1>6. CASE CompareParent(p)
  <2> HIDE DEF Call
  <2>1. call[p].result \in Status /\ call[p] \in Call
    BY DEF Call
  <2>2. PICK b \in BOOLEAN : call' = [call EXCEPT
               ![p].pc = IF call[p].published THEN "sync" ELSE "release",
               ![p].destBound = b,
               ![p].result = IF call[p].eexist /\ b THEN "ALREADY_EXISTS" ELSE @]
    BY <1>6 DEF CompareParent
  <2>3. PICK s \in Status, l \in {"sync", "release"} :
          call' = [call EXCEPT ![p] = [call[p] EXCEPT !.pc = l, !.destBound = b, !.result = s]]
    BY <2>1, <2>2 DEF Status
  <2>4. [call[p] EXCEPT !.pc = l, !.destBound = b, !.result = s] \in Call
    BY <2>1 DEF Call, Label
  <2>5. QED
    BY <2>3, <2>4
<1>7. CASE FlushRenamed(p)
  BY <1>7 DEF FlushRenamed, Failed
<1>8. CASE MatchDestination(p)
  BY <1>8 DEF MatchDestination
<1>9. CASE DeleteHeld(p)
  BY <1>9 DEF DeleteHeld, Withdrawn
<1>10. QED
  BY <1>1, <1>2, <1>3, <1>4, <1>5, <1>6, <1>7, <1>8, <1>9 DEF WindowsStep

(* It keeps the types of everything else. *)
LEMMA WindowsFiles ==
  ASSUME TypeOK, NEW p \in Publishers, WindowsStep(p)
  PROVE  /\ FilesOK' /\ touched' \subseteq Dirs /\ touched \subseteq touched'
         /\ UNCHANGED <<parentPath, envSteps, crashes>>
<1> USE PublishAssumption DEF TypeOK, FilesOK, Entry
<1>1. CASE (Begin(p) \/ Close(p)) /\ UNCHANGED anchor
  BY <1>1 DEF Begin, Close, files, history
<1>2. CASE OpenAnchor(p) \/ CompareParent(p) \/ MatchDestination(p)
  BY <1>2 DEF OpenAnchor, CompareParent, MatchDestination, files, history
<1>3. CASE CreateByPath(p)
  BY <1>3 DEF CreateByPath, history
<1>4. CASE WriteThrough(p) \/ FlushWritten(p)
  BY <1>4 DEF WriteThrough, FlushWritten, history
<1>5. CASE RenameHeld(p)
  BY <1>5 DEF RenameHeld, history
<1>6. CASE FlushRenamed(p)
  BY <1>6 DEF FlushRenamed, history
<1>7. CASE DeleteHeld(p)
  BY <1>7 DEF DeleteHeld, Withdrawn, files, history
<1>8. QED
  BY <1>1, <1>2, <1>3, <1>4, <1>5, <1>6, <1>7 DEF WindowsStep

LEMMA WindowsTypes ==
  ASSUME TypeOK, WindowsType, NEW p \in Publishers, WindowsStep(p), onWindows' = onWindows
  PROVE  TypeOK' /\ WindowsType'
<1>1. call' \in [Publishers -> Call]
  BY WindowsCalls DEF TypeOK
<1>2. anchor' = anchor \/ (anchor' = [anchor EXCEPT ![p] = parentPath])
  BY DEF WindowsStep, OpenAnchor, CreateByPath, WriteThrough, FlushWritten, RenameHeld,
     CompareParent, FlushRenamed, MatchDestination, DeleteHeld, Withdrawn
<1>3. anchor' \in [Publishers -> Dirs \cup {NoDir}]
  BY <1>2 DEF TypeOK, WindowsType
<1>4. QED
  BY <1>1, <1>3, WindowsFiles DEF TypeOK, FilesOK, WindowsType

----------------------------------------------------------------------------
(* What a step of one publisher leaves to another. *)

(* Its own variables; and a name changes only where it was free, or where it
   is known to be touched, and never from or to the other's file. *)
LeavesTo(q) ==
  /\ call'[q] = call[q] /\ temp'[q] = temp[q]
  /\ cached'[q] = cached[q] /\ durable'[q] = durable[q]
  /\ touched \subseteq touched' /\ crashes' = crashes
  /\ \A d \in Dirs : entry'[d] # entry[d] =>
       /\ entry[d] # q /\ entry'[d] # q
       /\ entry[d] = Absent \/ d \in touched'
  /\ \A d \in Dirs : stable'[d] \in {stable[d], entry[d]}

LEMMA PosixLeaves ==
  ASSUME TypeOK, NEW p \in Publishers, CallHolds(p), Step(p), NEW q \in Publishers, q # p
  PROVE  LeavesTo(q)
<1>1. call'[q] = call[q] /\ temp'[q] = temp[q]
  BY StepOthers
<1>2. touched' = touched /\ crashes' = crashes
  BY StepRest DEF history
<1>3. /\ \A d \in Dirs : entry'[d] # entry[d] =>
              entry[d] = Absent /\ entry'[d] \in {p, Foreign} /\ call'[p].published
      /\ \A d \in Dirs : stable'[d] \in {stable[d], entry[d]}
  BY StepNames
<1>4. cached'[q] = cached[q] /\ durable'[q] = durable[q]
  <2>1. CASE Write(p) \/ Flush(p)
    BY <2>1 DEF Write, Flush, TypeOK
  <2>2. CASE ~Write(p) /\ ~Flush(p)
    BY <2>2 DEF Step, Begin, OpenParent, Lookup, RecheckExisting, CreateTemporary, Bind,
       Publish, CheckDestination, ReleaseUnnamed, ReleaseNamed, Unlink, ConfirmUnlinked,
       SyncDirectory, RecheckParent, RecheckDestination, CheckNamed, Close, files
  <2>3. QED
    BY <2>1, <2>2
<1>5. QED
  BY <1>1, <1>2, <1>3, <1>4, PublishAssumption DEF LeavesTo

LEMMA WindowsLeaves ==
  ASSUME TypeOK, WindowsType, NEW p \in Publishers, WindowsHolds(p), WindowsStep(p),
         NEW q \in Publishers, q # p
  PROVE  LeavesTo(q)
<1> USE PublishAssumption DEF TypeOK, WindowsType, LeavesTo
<1>1. CASE (Begin(p) \/ Close(p)) /\ UNCHANGED anchor
  BY <1>1 DEF Begin, Close, files, history
<1>2. CASE OpenAnchor(p) \/ CompareParent(p) \/ MatchDestination(p)
  BY <1>2 DEF OpenAnchor, CompareParent, MatchDestination, files, history
<1>3. CASE CreateByPath(p)
  BY <1>3 DEF CreateByPath, history
<1>4. CASE WriteThrough(p) \/ FlushWritten(p)
  BY <1>4 DEF WriteThrough, FlushWritten, Failed, history
<1>5. CASE RenameHeld(p)
  BY <1>5 DEF RenameHeld, history
<1>6. CASE FlushRenamed(p)
  BY <1>6 DEF FlushRenamed, Failed, history
<1>7. CASE DeleteHeld(p)
  BY <1>7 DEF DeleteHeld, Withdrawn, files, history
<1>8. QED
  BY <1>1, <1>2, <1>3, <1>4, <1>5, <1>6, <1>7 DEF WindowsStep

(* So another publisher may rely on what it did. *)
LEMMA LeftAlone ==
  ASSUME TypeOK, NEW q \in Publishers, LeavesTo(q)
  PROVE  /\ CallHolds(q) => CallHolds(q)'
         /\ WindowsHolds(q) => WindowsHolds(q)'
<1>1. /\ call'[q] = call[q] /\ temp'[q] = temp[q]
      /\ Whole(q)' <=> Whole(q)
      /\ touched \subseteq touched' /\ crashes' = crashes
  BY DEF LeavesTo, Whole
<1>2. \A d \in Dirs : /\ entry'[d] = q <=> entry[d] = q
                      /\ stable'[d] = q => stable[d] = q \/ entry[d] = q
                      /\ entry[d] = q /\ stable[d] = q => stable'[d] = q
                      /\ entry[d] # Absent /\ d \notin touched' => entry'[d] # Absent
  BY DEF LeavesTo
<1>3. ASSUME CallHolds(q) PROVE CallHolds(q)'
  <2>1. CallInvariant(q)'
    BY <1>1, <1>2, <1>3 DEF CallHolds, CallInvariant
  <2>2. LocalInvariant(q)'
    BY <1>1, <1>3 DEF CallHolds, LocalInvariant
  <2>3. RefusalInvariant(q)'
    BY <1>1, <1>2, <1>3 DEF CallHolds, AnswerInvariant, RefusalInvariant, Refused
  <2>4. ResidueInvariant(q)'
    BY <1>1, <1>3 DEF CallHolds, AnswerInvariant, ResidueInvariant
  <2>5. QED
    BY <2>1, <2>2, <2>3, <2>4 DEF CallHolds, AnswerInvariant
<1>4. ASSUME WindowsHolds(q) PROVE WindowsHolds(q)'
  <2>1. NamedOnWindows(q) /\ PlacedOnWindows(q) /\ AnsweredOnWindows(q)
    BY <1>4 DEF WindowsHolds
  <2>2. NamedOnWindows(q)'
    BY <1>1, <1>2, <2>1 DEF NamedOnWindows, PlacedOnWindows
  <2>3. PlacedOnWindows(q)'
    BY <1>1, <2>1 DEF PlacedOnWindows
  <2>4. AnsweredOnWindows(q)'
    BY <1>1, <1>2, <2>1 DEF AnsweredOnWindows, PlacedOnWindows
  <2>5. QED
    BY <2>2, <2>3, <2>4 DEF WindowsHolds
<1>5. QED
  BY <1>3, <1>4
----------------------------------------------------------------------------
(* The Windows branch keeps its own promises. *)

(* A step that touches neither the files nor what they are to the call. *)
LEMMA WindowsNamesKept ==
  ASSUME NEW p \in Publishers, NamedOnWindows(p), UNCHANGED <<files, history>>,
         call'[p].bound = call[p].bound, call'[p].published = call[p].published,
         call'[p].parent = call[p].parent \/ ~call[p].published,
         call'[p].pc \notin {"idle", "publish", "checkNamed", "create"},
         call'[p].pc = "openParent" => call[p].pc = "idle"
  PROVE  NamedOnWindows(p)'
<1>1. /\ UNCHANGED <<entry, stable, temp, touched>>
      /\ Whole(p)' <=> Whole(p)
  BY DEF files, history, Whole
<1>2. QED
  BY <1>1 DEF NamedOnWindows, Entering

LEMMA WindowsOwn ==
  ASSUME TypeOK, WindowsType, NEW p \in Publishers, WindowsHolds(p), WindowsStep(p)
  PROVE  WindowsHolds(p)'
<1>f. /\ call \in [Publishers -> Call] /\ call[p] \in Call
      /\ entry \in [Dirs -> Entry] /\ stable \in [Dirs -> Entry]
      /\ temp \in [Publishers -> Entry] /\ anchor \in [Publishers -> Dirs \cup {NoDir}]
      /\ cached \in [Publishers -> 0..Blocks] /\ durable \in [Publishers -> 0..Blocks]
      /\ parentPath \in Dirs \cup {NoDir}
  BY DEF TypeOK, WindowsType
<1> USE <1>f, PublishAssumption DEF Call
<1>h. NamedOnWindows(p) /\ PlacedOnWindows(p) /\ AnsweredOnWindows(p)
  BY DEF WindowsHolds
<1>1. CASE Begin(p)
  <2>1. /\ At(p, "idle") /\ UNCHANGED <<files, history>>
        /\ \/ call' = [call EXCEPT ![p].pc = "openParent", ![p].fds = {"root"}]
           \/ \E s \in Status \ {"none", "OK", "ALREADY_EXISTS"} : Return(p, s)
    BY <1>1 DEF Begin, Status
  <2>2. /\ \/ call'[p].pc = "openParent" /\ call'[p].result = call[p].result
           \/ /\ call'[p].pc = "done" /\ call'[p].fds = {}
              /\ call'[p].result \notin {"none", "OK", "ALREADY_EXISTS"}
        /\ call'[p].bound = call[p].bound /\ call'[p].published = call[p].published
        /\ call'[p].parent = call[p].parent /\ call'[p].eexist = call[p].eexist
    BY <2>1
  <2>3. NamedOnWindows(p)'
    BY <1>h, <2>1, <2>2, WindowsNamesKept
  <2>4. PlacedOnWindows(p)'
    BY <1>h, <2>1, <2>2 DEF PlacedOnWindows, Entering, Naming, Final
  <2>5. AnsweredOnWindows(p)'
    BY <1>h, <2>1, <2>2 DEF AnsweredOnWindows, NamedOnWindows, PlacedOnWindows, Entering, Naming, Final, files, history
  <2>6. QED
    BY <2>3, <2>4, <2>5 DEF WindowsHolds
<1>2. CASE Close(p)
  <2>1. PICK s \in Status : /\ Return(p, s) /\ s # "none"
                            /\ s \in {call[p].result, "IO_ERROR"}
    BY <1>2 DEF Close, Status
  <2>2. At(p, "close") /\ UNCHANGED <<files, history>>
    BY <1>2 DEF Close
  <2>3. /\ call'[p].pc = "done" /\ call'[p].fds = {} /\ call'[p].result = s
        /\ call'[p].bound = call[p].bound /\ call'[p].published = call[p].published
        /\ call'[p].parent = call[p].parent /\ call'[p].eexist = call[p].eexist
    BY <2>1
  <2>4. NamedOnWindows(p)'
    BY <1>h, <2>2, <2>3, WindowsNamesKept
  <2>5. PlacedOnWindows(p)'
    BY <1>h, <2>2, <2>3 DEF PlacedOnWindows, Entering, Naming, Final
  <2>6. AnsweredOnWindows(p)'
    BY <1>h, <2>1, <2>2, <2>3 DEF AnsweredOnWindows, Entering, Naming, Final, files, history
  <2>7. QED
    BY <2>4, <2>5, <2>6 DEF WindowsHolds
<1>3. CASE OpenAnchor(p)
  <2>1. /\ At(p, "openParent") /\ UNCHANGED <<files, history>>
        /\ \/ call' = [call EXCEPT ![p].pc = "create", ![p].fds = {"parent"}]
           \/ Return(p, "IO_ERROR")
    BY <1>3 DEF OpenAnchor
  <2>2. /\ \/ call'[p].pc = "create" /\ call'[p].result = call[p].result
           \/ /\ call'[p].pc = "done" /\ call'[p].fds = {}
              /\ call'[p].result = "IO_ERROR"
        /\ call'[p].bound = call[p].bound /\ call'[p].published = call[p].published
        /\ call'[p].parent = call[p].parent /\ call'[p].eexist = call[p].eexist
    BY <2>1
  <2>3. NamedOnWindows(p)'
    BY <1>h, <2>1, <2>2 DEF NamedOnWindows, Entering, Whole, files
  <2>4. PlacedOnWindows(p)'
    BY <1>h, <2>1, <2>2 DEF PlacedOnWindows, Entering, Naming, Final
  <2>5. AnsweredOnWindows(p)'
    BY <1>h, <2>1, <2>2 DEF AnsweredOnWindows, PlacedOnWindows, Entering, Naming, Final
  <2>6. QED
    BY <2>3, <2>4, <2>5 DEF WindowsHolds
<1>4. CASE CreateByPath(p)
  <2>1. /\ At(p, "create") /\ UNCHANGED <<entry, stable, cached, durable, history>>
        /\ \/ /\ call'[p].pc = "write" /\ call'[p].result = call[p].result
              /\ call'[p].parent \in Dirs /\ temp'[p] = p
           \/ /\ call'[p].pc = "done" /\ call'[p].fds = {} /\ temp' = temp
              /\ call'[p].result = "IO_ERROR" /\ call'[p].parent = call[p].parent
        /\ call'[p].bound = call[p].bound /\ call'[p].published = call[p].published
        /\ call'[p].eexist = call[p].eexist
    BY <1>4 DEF CreateByPath
  <2>2. ~call[p].published /\ ~call[p].eexist /\ call[p].result = "none"
    BY <1>h, <2>1 DEF PlacedOnWindows, AnsweredOnWindows, Entering
  <2>3. NamedOnWindows(p)'
    BY <1>h, <2>1, <2>2 DEF NamedOnWindows, Entering, Whole
  <2>4. PlacedOnWindows(p)'
    BY <1>h, <2>1, <2>2 DEF PlacedOnWindows, Entering, Naming, Final
  <2>5. AnsweredOnWindows(p)'
    BY <2>1, <2>2 DEF AnsweredOnWindows, Entering, Naming, Final
  <2>6. QED
    BY <2>3, <2>4, <2>5 DEF WindowsHolds
<1>5. CASE WriteThrough(p)
  <2>1. /\ At(p, "write") /\ cached[p] < Blocks
        /\ UNCHANGED <<entry, stable, temp, durable, history>>
        /\ call'[p].pc \in {"write", "recheckParent"}
        /\ call'[p].result = call[p].result /\ call'[p].parent = call[p].parent
        /\ call'[p].bound = call[p].bound /\ call'[p].published = call[p].published
        /\ call'[p].eexist = call[p].eexist
    BY <1>5 DEF WriteThrough, Failed
  <2>2. /\ ~call[p].published /\ ~call[p].eexist /\ call[p].result = "none"
        /\ ~call[p].bound
    BY <1>h, <2>1 DEF NamedOnWindows, PlacedOnWindows, AnsweredOnWindows, Entering, Naming, Whole
  <2>3. NamedOnWindows(p)'
    BY <1>h, <2>1, <2>2 DEF NamedOnWindows, Entering
  <2>4. PlacedOnWindows(p)'
    BY <1>h, <2>1, <2>2 DEF PlacedOnWindows, Entering, Naming, Final
  <2>5. AnsweredOnWindows(p)'
    BY <2>1, <2>2 DEF AnsweredOnWindows, Entering, Naming, Final
  <2>6. QED
    BY <2>3, <2>4, <2>5 DEF WindowsHolds
<1>6. CASE FlushWritten(p)
  <2>1. /\ At(p, "write") /\ cached[p] = Blocks
        /\ UNCHANGED <<entry, stable, temp, cached, history>>
        /\ \/ call'[p].pc = "recheckParent" /\ call'[p].bound = call[p].bound /\ durable' = durable
           \/ call'[p].pc = "publish" /\ durable'[p] = Blocks
        /\ call'[p].result = call[p].result /\ call'[p].parent = call[p].parent
        /\ call'[p].published = call[p].published /\ call'[p].eexist = call[p].eexist
    BY <1>6 DEF FlushWritten, Failed
  <2>b. call'[p].pc = "publish" => call'[p].bound
    BY <1>6 DEF FlushWritten, Failed
  <2>2. ~call[p].published /\ ~call[p].eexist /\ call[p].result = "none"
    BY <1>h, <2>1 DEF PlacedOnWindows, AnsweredOnWindows, Entering, Naming
  <2>3. NamedOnWindows(p)'
    BY <1>h, <2>1, <2>2, <2>b DEF NamedOnWindows, Entering, Whole
  <2>4. PlacedOnWindows(p)'
    BY <1>h, <2>1, <2>2 DEF PlacedOnWindows, Entering, Naming, Final
  <2>5. AnsweredOnWindows(p)'
    BY <2>1, <2>2 DEF AnsweredOnWindows, Entering, Naming, Final
  <2>6. QED
    BY <2>3, <2>4, <2>5 DEF WindowsHolds
<1>7. CASE RenameHeld(p)
  <2>1. /\ At(p, "publish") /\ ~call[p].published /\ ~call[p].eexist
        /\ call[p].result = "none" /\ call[p].bound /\ call[p].parent \in Dirs
    BY <1>h, <1>7 DEF RenameHeld, NamedOnWindows, PlacedOnWindows, AnsweredOnWindows,
                      Entering, Naming
  <2>2. UNCHANGED <<stable, cached, durable, history>>
    BY <1>7 DEF RenameHeld
  <2>3. /\ call'[p].pc = "recheckParent"
        /\ call'[p].result = call[p].result /\ call'[p].bound = call[p].bound
        /\ \/ /\ entry' = entry /\ temp' = temp
              /\ call'[p].published = call[p].published
              /\ call'[p].parent \in Dirs
              /\ call'[p].eexist = call[p].eexist \/ entry[call'[p].parent] # Absent
           \/ /\ call'[p].published /\ call'[p].eexist = call[p].eexist
              /\ call'[p].parent \in Dirs
              /\ entry' = [entry EXCEPT ![call'[p].parent] = p]
              /\ temp'[p] = Absent
    <3>1. CASE /\ parentPath # NoDir
               /\ entry' = [entry EXCEPT ![parentPath] = p]
               /\ temp' = [temp EXCEPT ![p] = Absent]
               /\ call' = [call EXCEPT ![p].pc = "recheckParent", ![p].published = TRUE,
                                       ![p].parent = parentPath]
      BY <3>1
    <3>2. CASE /\ parentPath # NoDir /\ entry[parentPath] # Absent
               /\ call' = [call EXCEPT ![p].pc = "recheckParent", ![p].eexist = TRUE,
                                       ![p].parent = parentPath]
               /\ UNCHANGED <<entry, temp>>
      BY <3>2
    <3>3. CASE Goto(p, "recheckParent") /\ UNCHANGED <<entry, temp>>
      BY <3>3, <2>1
    <3>4. QED
      BY <1>7, <3>1, <3>2, <3>3 DEF RenameHeld
  <2>4. NamedOnWindows(p)'
    BY <1>h, <2>1, <2>2, <2>3 DEF NamedOnWindows, Entering, Whole
  <2>5. PlacedOnWindows(p)'
    BY <2>1, <2>3 DEF PlacedOnWindows, Entering, Naming, Final
  <2>6. AnsweredOnWindows(p)'
    BY <2>1, <2>2, <2>3 DEF AnsweredOnWindows, Entering, Naming, Final, history
  <2>7. QED
    BY <2>4, <2>5, <2>6 DEF WindowsHolds
<1>8. CASE CompareParent(p)
  <2>1. At(p, "recheckParent") /\ UNCHANGED <<files, history>>
    BY <1>8 DEF CompareParent
  <2>2. PICK b \in BOOLEAN : call' = [call EXCEPT
               ![p].pc = IF call[p].published THEN "sync" ELSE "release",
               ![p].destBound = b,
               ![p].result = IF call[p].eexist /\ b THEN "ALREADY_EXISTS" ELSE @]
    BY <1>8 DEF CompareParent
  <2>3. /\ call'[p].pc = IF call[p].published THEN "sync" ELSE "release"
        /\ call'[p].result = IF call[p].eexist /\ b THEN "ALREADY_EXISTS" ELSE call[p].result
        /\ call'[p].parent = call[p].parent /\ call'[p].bound = call[p].bound
        /\ call'[p].published = call[p].published /\ call'[p].eexist = call[p].eexist
    BY <2>2
  <2>4. call[p].result = "none" /\ call[p].parent \in Dirs
    BY <1>h, <2>1 DEF AnsweredOnWindows, PlacedOnWindows, Naming
  <2>5. NamedOnWindows(p)'
    BY <1>h, <2>1, <2>3, WindowsNamesKept
  <2>6. PlacedOnWindows(p)'
    BY <1>h, <2>1, <2>3 DEF PlacedOnWindows, Entering, Naming, Final
  <2>7. AnsweredOnWindows(p)'
    BY <1>h, <2>1, <2>3, <2>4 DEF AnsweredOnWindows, PlacedOnWindows, Entering, Naming, Final,
       files, history
  <2>8. QED
    BY <2>5, <2>6, <2>7 DEF WindowsHolds
<1>9. CASE FlushRenamed(p)
  <2>1. /\ At(p, "sync") /\ UNCHANGED <<entry, temp, cached, durable, history>>
        /\ call'[p].pc \in {"checkNamed", "release"}
        /\ call'[p].result = call[p].result
        /\ call'[p].parent = call[p].parent /\ call'[p].bound = call[p].bound
        /\ call'[p].published = call[p].published /\ call'[p].eexist = call[p].eexist
    BY <1>9 DEF FlushRenamed, Failed
  <2>2. \/ stable' = stable /\ call'[p].pc = "release"
        \/ stable' = IF entry[call[p].parent] = p THEN [stable EXCEPT ![call[p].parent] = p]
                     ELSE stable
    BY <1>9 DEF FlushRenamed, Failed
  <2>3. call[p].published /\ call[p].result = "none" /\ call[p].parent \in Dirs
    BY <1>h, <2>1 DEF AnsweredOnWindows, PlacedOnWindows, Naming
  <2>4. NamedOnWindows(p)'
    BY <1>h, <2>1, <2>2, <2>3 DEF NamedOnWindows, Entering, Whole
  <2>5. PlacedOnWindows(p)'
    BY <1>h, <2>1, <2>3 DEF PlacedOnWindows, Entering, Naming, Final
  <2>6. AnsweredOnWindows(p)'
    BY <1>h, <2>1, <2>3 DEF AnsweredOnWindows, PlacedOnWindows, Entering, Naming, Final
  <2>7. QED
    BY <2>4, <2>5, <2>6 DEF WindowsHolds
<1>10. CASE MatchDestination(p)
  <2>1. /\ At(p, "checkNamed") /\ UNCHANGED <<files, history>>
        /\ \/ call'[p].pc = "close" /\ call'[p].result = "OK" /\ Leads(p)
           \/ call'[p].pc = "release" /\ call'[p].result = call[p].result
        /\ call'[p].parent = call[p].parent /\ call'[p].bound = call[p].bound
        /\ call'[p].published = call[p].published /\ call'[p].eexist = call[p].eexist
    BY <1>10 DEF MatchDestination
  <2>2. call[p].published /\ call[p].result = "none" /\ call[p].parent \in Dirs
    BY <1>h, <2>1 DEF AnsweredOnWindows, PlacedOnWindows, Naming
  <2>3. Leads(p) => entry[call[p].parent] = p /\ stable[call[p].parent] = p
    BY <1>h, <2>1 DEF Leads, NamedOnWindows
  <2>4. NamedOnWindows(p)'
    BY <1>h, <2>1, WindowsNamesKept
  <2>5. PlacedOnWindows(p)'
    BY <1>h, <2>1, <2>2 DEF PlacedOnWindows, Entering, Naming, Final
  <2>6. AnsweredOnWindows(p)'
    BY <1>h, <2>1, <2>2, <2>3 DEF AnsweredOnWindows, PlacedOnWindows, NamedOnWindows, Entering,
       Naming, Final, files, history
  <2>7. QED
    BY <2>4, <2>5, <2>6 DEF WindowsHolds
<1>11. CASE DeleteHeld(p)
  <2>1. At(p, "release") /\ UNCHANGED <<stable, cached, durable, crashes>>
    BY <1>11 DEF DeleteHeld, Withdrawn, files, history
  <2>2. /\ call'[p].pc = "close" /\ call'[p].result \in {"none", call[p].result}
        /\ call'[p].parent = call[p].parent /\ call'[p].bound = call[p].bound
        /\ call'[p].published = call[p].published /\ call'[p].eexist = call[p].eexist
    BY <1>11 DEF DeleteHeld, Withdrawn
  <2>3. /\ touched \subseteq touched'
        /\ temp'[p] \in {temp[p], Absent}
        /\ call'[p].result # "none" => temp'[p] # p
        /\ \A d \in Dirs : /\ entry'[d] = p => entry[d] = p
                           /\ entry'[d] = entry[d] \/ d \in touched'
    BY <1>11 DEF DeleteHeld, Withdrawn, files, history
  <2>4. call[p].result \in {"none", "ALREADY_EXISTS"}
    BY <1>h, <2>1 DEF AnsweredOnWindows
  <2>5. NamedOnWindows(p)'
    BY <1>h, <2>1, <2>2, <2>3 DEF NamedOnWindows, Entering, Whole
  <2>6. PlacedOnWindows(p)'
    BY <1>h, <2>1, <2>2 DEF PlacedOnWindows, Entering, Naming, Final
  <2>7. AnsweredOnWindows(p)'
    BY <1>h, <2>1, <2>2, <2>3, <2>4 DEF AnsweredOnWindows, PlacedOnWindows, Entering, Naming, Final
  <2>8. QED
    BY <2>5, <2>6, <2>7 DEF WindowsHolds
<1>12. QED
  BY <1>1, <1>2, <1>3, <1>4, <1>5, <1>6, <1>7, <1>8, <1>9, <1>10, <1>11
  DEF WindowsStep, WindowsHolds

(* So do other programs, and a power loss. *)
LEMMA EnvironmentOnWindows ==
  ASSUME TypeOK, WindowsType, Environment, NEW q \in Publishers, WindowsHolds(q)
  PROVE  WindowsHolds(q)'
<1>h. NamedOnWindows(q) /\ PlacedOnWindows(q) /\ AnsweredOnWindows(q)
  BY DEF WindowsHolds
<1>f. /\ call \in [Publishers -> Call] /\ call[q] \in Call
      /\ entry \in [Dirs -> Entry] /\ stable \in [Dirs -> Entry]
      /\ temp \in [Publishers -> Entry] /\ anchor \in [Publishers -> Dirs \cup {NoDir}]
      /\ cached \in [Publishers -> 0..Blocks] /\ durable \in [Publishers -> 0..Blocks]
      /\ parentPath \in Dirs \cup {NoDir}
  BY DEF TypeOK, WindowsType
<1> USE <1>h, <1>f, PublishAssumption
    DEF WindowsHolds, NamedOnWindows, PlacedOnWindows, AnsweredOnWindows, Whole
<1>2. CASE SwapParent
  BY <1>2 DEF SwapParent, files
<1>3. CASE DisturbDestination
  BY <1>3 DEF DisturbDestination
<1>4. CASE AliasDestination
  BY <1>4 DEF AliasDestination
<1>5. CASE DisturbTemporary
  BY <1>5 DEF DisturbTemporary
<1>6. CASE Crash
  <2>1. crashes' # 0
    <3>1. crashes \in 0..MaxCrashes /\ crashes' = crashes + 1
      BY <1>6 DEF Crash, TypeOK
    <3>2. QED
      BY <3>1
  <2>2. /\ \A d \in Dirs : entry'[d] \in {entry[d], stable[d]}
        /\ stable' = entry' /\ temp' = temp /\ touched' = touched
    BY <1>6 DEF Crash
  <2>3. \/ call'[q] = call[q] /\ call[q].pc \in {"idle", "done"}
        \/ call'[q] = [call[q] EXCEPT !.pc = "crashed", !.fds = {}]
           /\ call[q].pc \notin {"idle", "done"}
    BY <1>6 DEF Crash
  <2>4. /\ call'[q].parent = call[q].parent /\ call'[q].result = call[q].result
        /\ call'[q].published = call[q].published
        /\ call'[q].eexist = call[q].eexist /\ call'[q].bound = call[q].bound
        /\ \/ call'[q].pc = call[q].pc /\ call'[q].fds = call[q].fds
           \/ call'[q].pc = "crashed"
    <3> HIDE <1>h DEF NamedOnWindows, PlacedOnWindows, AnsweredOnWindows, WindowsHolds
    <3>1. CASE call'[q] = call[q]
      BY <3>1
    <3>2. CASE call'[q] = [call[q] EXCEPT !.pc = "crashed", !.fds = {}]
      BY <3>2 DEF Call
    <3>3. QED
      BY <2>3, <3>1, <3>2
  <2>5. Whole(q) => Whole(q)'
    <3>1. /\ durable[q] <= cached'[q] /\ cached'[q] <= cached[q]
          /\ cached'[q] \in 0..Blocks /\ durable' = cached'
      BY <1>6 DEF Crash
    <3>2. QED
      BY <3>1
  <2>p. call'[q].pc \in {"idle", "done", "crashed"}
    BY <2>3, <2>4 DEF Call
  <2>6. NamedOnWindows(q)'
    BY <2>2, <2>4, <2>5, <2>p DEF Entering
  <2>7. PlacedOnWindows(q)'
    BY <2>4, <2>p DEF Entering, Naming, Final
  <2>8. AnsweredOnWindows(q)'
    BY <2>1, <2>2, <2>4, <2>p DEF Entering, Naming, Final
  <2>9. QED
    BY <2>6, <2>7, <2>8 DEF WindowsHolds
<1>7. QED
  BY <1>2, <1>3, <1>4, <1>5, <1>6 DEF Environment
(* Whoever takes the step, everybody may rely on what he relied on. *)
LEMMA SharedStep == SharedInv /\ [SharedNext]_<<vars, windowsVars>> => SharedInv'
<1> SUFFICES ASSUME SharedInv, [SharedNext]_<<vars, windowsVars>> PROVE SharedInv'
  OBVIOUS
<1>1. TypeOK /\ WindowsType
  BY DEF SharedInv
<1>2. onWindows' = onWindows
  BY DEF SharedNext, windowsVars
<1>3. ASSUME NEW p \in Publishers \ onWindows, Step(p), UNCHANGED anchor
      PROVE  SharedInv'
  <2>1. CallHolds(p) /\ p \in Publishers
    BY <1>3 DEF SharedInv
  <2>2. TypeOK' /\ WindowsType'
    BY <1>1, <1>2, <1>3, StepType DEF WindowsType
  <2>3. CallHolds(p)'
    <3>1. CallInvariant(p) /\ LocalInvariant(p)
      BY <2>1 DEF CallHolds
    <3>2. CallInvariant(p)' /\ LocalInvariant(p)'
      BY <1>1, <1>3, <2>1, <3>1, StepInvariant, StepLocal
    <3>3. RefusalInvariant(p)' /\ ResidueInvariant(p)'
      BY <1>1, <1>3, <2>1, StepRefusal, StepResidue
    <3>4. QED
      BY <3>2, <3>3 DEF CallHolds, AnswerInvariant
  <2>4. ASSUME NEW q \in Publishers \ onWindows, q # p PROVE CallHolds(q)'
    <3>1. LeavesTo(q)
      BY <1>1, <1>3, <2>1, <2>4, PosixLeaves
    <3>2. QED
      BY <1>1, <2>4, <3>1, LeftAlone DEF SharedInv
  <2>5. ASSUME NEW q \in onWindows PROVE WindowsHolds(q)'
    <3>1. q \in Publishers /\ q # p
      BY <1>1, <1>3 DEF WindowsType
    <3>2. LeavesTo(q)
      BY <1>1, <1>3, <2>1, <3>1, PosixLeaves
    <3>3. QED
      BY <1>1, <2>5, <3>1, <3>2, LeftAlone DEF SharedInv
  <2>6. QED
    BY <1>2, <2>2, <2>3, <2>4, <2>5 DEF SharedInv
<1>4. ASSUME NEW p \in onWindows, WindowsStep(p)
      PROVE  SharedInv'
  <2>1. WindowsHolds(p) /\ p \in Publishers
    BY <1>1, <1>4 DEF SharedInv, WindowsType
  <2>2. TypeOK' /\ WindowsType'
    BY <1>1, <1>2, <1>4, <2>1, WindowsTypes
  <2>3. WindowsHolds(p)'
    BY <1>1, <1>4, <2>1, WindowsOwn
  <2>4. ASSUME NEW q \in Publishers, q # p
        PROVE  (CallHolds(q) => CallHolds(q)') /\ (WindowsHolds(q) => WindowsHolds(q)')
    <3>1. LeavesTo(q)
      BY <1>1, <1>4, <2>1, <2>4, WindowsLeaves
    <3>2. QED
      BY <1>1, <3>1, LeftAlone
  <2>5. QED
    BY <1>1, <1>2, <1>4, <2>2, <2>3, <2>4 DEF SharedInv, WindowsType
<1>5. ASSUME Environment, UNCHANGED anchor PROVE SharedInv'
  <2>1. TypeOK' /\ WindowsType'
    BY <1>1, <1>2, <1>5, EnvironmentType DEF WindowsType
  <2>2. ASSUME NEW q \in Publishers, CallHolds(q) PROVE CallHolds(q)'
    <3>1. CallInvariant(q) /\ LocalInvariant(q)
      BY <2>2 DEF CallHolds
    <3>2. CallInvariant(q)' /\ LocalInvariant(q)'
      BY <1>1, <1>5, <3>1, EnvironmentInvariant, EnvironmentLocal
    <3>3. QED
      BY <1>1, <1>5, <2>2, <3>2, EnvironmentAnswers DEF CallHolds
  <2>3. ASSUME NEW q \in onWindows PROVE WindowsHolds(q)'
    BY <1>1, <1>5, EnvironmentOnWindows DEF SharedInv, WindowsType
  <2>4. QED
    BY <1>2, <2>1, <2>2, <2>3 DEF SharedInv
<1>6. CASE UNCHANGED <<vars, windowsVars>>
  <2>1. TypeOK' /\ WindowsType' /\ onWindows' = onWindows
    BY <1>1, <1>6 DEF vars, files, history, windowsVars, TypeOK, WindowsType
  <2>2. ASSUME NEW q \in Publishers
        PROVE  (CallHolds(q) => CallHolds(q)') /\ (WindowsHolds(q) => WindowsHolds(q)')
    <3>1. LeavesTo(q)
      BY <1>6 DEF vars, files, history, LeavesTo
    <3>2. QED
      BY <1>1, <3>1, LeftAlone
  <2>3. QED
    BY <1>1, <2>1, <2>2 DEF SharedInv, WindowsType
<1>7. QED
  BY <1>1, <1>3, <1>4, <1>5, <1>6 DEF SharedNext

(* What every publisher relies on, whichever host it runs on and whichever
   hosts the others run on. *)
THEOREM SharedInvariant == SharedSpec => []SharedInv
  BY InitShared, SharedStep, PTL DEF SharedSpec

(* No host publishes a part of a payload. *)
THEOREM SharedNeverPartial == SharedSpec => []NeverPartial
<1>1. SharedInv => NeverPartial
  BY DEF SharedInv, CallHolds, CallInvariant, WindowsHolds, NamedOnWindows, NeverPartial
<1>2. QED
  BY SharedInvariant, <1>1, PTL

(* What was answered OK on any host is named and durable until somebody
   changes the directory: another program, or a publisher on Windows that
   takes its own file back. *)
THEOREM SharedOkSurvives == SharedSpec => []OkSurvives
<1>1. SharedInv => OkSurvives
  BY DEF SharedInv, CallHolds, CallInvariant, WindowsHolds, AnsweredOnWindows, OkSurvives
<1>2. QED
  BY SharedInvariant, <1>1, PTL

(* ALREADY_EXISTS is about somebody else's file on every host. *)
THEOREM SharedRefusalJustified == SharedSpec => []RefusalJustified
<1>1. SharedInv => RefusalJustified
  <2> SUFFICES ASSUME SharedInv, NEW p \in Publishers, call[p].result = "ALREADY_EXISTS"
               PROVE  /\ \A d \in Dirs : entry[d] # p /\ stable[d] # p
                      /\ call[p].parent \notin touched /\ crashes = 0 =>
                           entry[call[p].parent] # Absent
    BY DEF RefusalJustified
  <2>1. CASE p \in onWindows
    BY <2>1 DEF SharedInv, WindowsHolds, NamedOnWindows, PlacedOnWindows, AnsweredOnWindows
  <2>2. CASE p \notin onWindows
    BY <2>2 DEF SharedInv, CallHolds, AnswerInvariant, RefusalInvariant, Refused
  <2>3. QED
    BY <2>1, <2>2
<1>2. QED
  BY SharedInvariant, <1>1, PTL

(* And nothing but IO_ERROR leaves anything behind on any of them. *)
THEOREM SharedResidueOnlyOnIoError == SharedSpec => []ResidueOnlyOnIoError
<1>1. SharedInv => ResidueOnlyOnIoError
  <2> SUFFICES ASSUME SharedInv, NEW p \in Publishers, At(p, "done"),
                      call[p].result # "IO_ERROR"
               PROVE  /\ temp[p] # p
                      /\ call[p].fds = {}
                      /\ call[p].result # "OK" => \A d \in Dirs : entry[d] # p
    BY DEF ResidueOnlyOnIoError
  <2>1. CASE p \in onWindows
    BY <2>1 DEF SharedInv, WindowsHolds, NamedOnWindows, AnsweredOnWindows
  <2>2. CASE p \notin onWindows
    BY <2>2 DEF SharedInv, CallHolds, AnswerInvariant, RefusalInvariant, ResidueInvariant
  <2>3. QED
    BY <2>1, <2>2
<1>2. QED
  BY SharedInvariant, <1>1, PTL

(* A step on Windows fills a free name or takes back its own whole file,
   before an answer that could have promised it. *)
THEOREM WithdrawsOnlyItsOwnHolds == SharedSpec => WithdrawsOnlyItsOwn
<1>1. ASSUME SharedInv, NEW p \in onWindows, WindowsStep(p), NEW d \in Dirs,
             entry'[d] # entry[d]
      PROVE  \/ entry[d] = Absent /\ entry'[d] = p
             \/ /\ entry[d] = p /\ entry'[d] = Absent
                /\ Whole(p) /\ call[p].result \notin {"OK", "ALREADY_EXISTS"}
  <2>1. /\ entry \in [Dirs -> Entry] /\ WindowsHolds(p)
    BY <1>1 DEF SharedInv, TypeOK
  <2>2. CASE RenameHeld(p)
    BY <1>1, <2>1, <2>2 DEF RenameHeld
  <2>3. CASE DeleteHeld(p)
    <3>1. entry[d] = p /\ entry'[d] = Absent /\ At(p, "release")
      BY <1>1, <2>1, <2>3 DEF DeleteHeld, Withdrawn, files
    <3>2. call[p].published /\ Whole(p)
      BY <2>1, <3>1 DEF WindowsHolds, NamedOnWindows
    <3>3. call[p].result \notin {"OK", "ALREADY_EXISTS"}
      BY <2>1, <3>1, <3>2 DEF WindowsHolds, AnsweredOnWindows, PlacedOnWindows
    <3>4. QED
      BY <3>1, <3>2, <3>3
  <2>4. CASE ~RenameHeld(p) /\ ~DeleteHeld(p)
    BY <1>1, <2>4 DEF WindowsStep, Begin, Close, OpenAnchor, CreateByPath, WriteThrough,
       FlushWritten, CompareParent, FlushRenamed, MatchDestination, files
  <2>5. QED
    BY <2>2, <2>3, <2>4
<1>2. SharedInv /\ [SharedNext]_<<vars, windowsVars>> =>
        [\A p \in onWindows : WindowsStep(p) =>
           \A d \in Dirs : entry'[d] # entry[d] =>
             \/ entry[d] = Absent /\ entry'[d] = p
             \/ /\ entry[d] = p /\ entry'[d] = Absent
                /\ Whole(p) /\ call[p].result \notin {"OK", "ALREADY_EXISTS"}]_<<vars, windowsVars>>
  BY <1>1
<1>3. QED
  BY SharedInvariant, <1>2, PTL DEF SharedSpec, WithdrawsOnlyItsOwn
(* No step of the POSIX branches changes a taken name, with hosts of both
   kinds in the directory. *)
THEOREM SharedNeverOverwrites == SharedSpec => NeverOverwrites
<1>1. SharedInv => TypeOK
  BY DEF SharedInv
<1>2. TypeOK =>
        [(\E p \in Publishers : Step(p)) =>
           \A d \in Dirs : entry[d] # Absent => entry'[d] = entry[d]]_vars
  BY StepOverwritesNothing
<1>3. QED
  BY SharedInvariant, <1>1, <1>2, PTL DEF NeverOverwrites

(* A step on Windows is one of the write-once name: the rename fills it, the
   flush makes it durable, and a withdrawal is a disturbance of a name that
   nobody was told about. *)
LEMMA WindowsRefines ==
  ASSUME TypeOK, WindowsType, NEW p \in Publishers, WindowsHolds(p), WindowsStep(p)
  PROVE  \/ Abstract!Answer(p) \/ Abstract!Refuse(p) \/ Abstract!Commit(p)
         \/ \E d \in Dirs : Abstract!Place(p, d) \/ Abstract!Persist(d) \/ Abstract!Disturb(d)
         \/ UNCHANGED Abstract!vars
<1>1. /\ call \in [Publishers -> Call] /\ call[p] \in Call
      /\ entry \in [Dirs -> Entry] /\ parentPath \in Dirs \cup {NoDir}
  BY DEF TypeOK
<1>h. NamedOnWindows(p) /\ PlacedOnWindows(p) /\ AnsweredOnWindows(p)
  BY DEF WindowsHolds
<1>only. OnlyCall(p)
  BY WindowsLeaves DEF OnlyCall, LeavesTo
<1> USE DEF Call
<1>io. ASSUME Return(p, "IO_ERROR"), UNCHANGED <<entry, stable>>,
              call[p].pc \in Entering
       PROVE  Abstract!Answer(p)
  <2>1. Progress(p) = "pending"
    BY <1>h, <1>io DEF PlacedOnWindows, AnsweredOnWindows, Entering, Progress
  <2>2. Progress(p)' = "failed" /\ PlaceOf(p)' = PlaceOf(p)
    BY <1>1, <1>io, Returned DEF Status
  <2>3. QED
    BY <1>only, <1>io, <2>1, <2>2, AnswerRefines
<1>2. CASE Begin(p)
  <2>1. /\ At(p, "idle") /\ UNCHANGED <<entry, stable>>
        /\ \/ call' = [call EXCEPT ![p].pc = "openParent", ![p].fds = {"root"}]
           \/ \E s \in Status \ {"none", "OK", "ALREADY_EXISTS"} : Return(p, s)
    BY <1>2 DEF Begin, Status, files
  <2>2. CASE call' = [call EXCEPT ![p].pc = "openParent", ![p].fds = {"root"}]
    BY <1>1, <1>only, <2>1, <2>2, LocalRefines
  <2>3. ASSUME NEW s \in Status \ {"none", "OK", "ALREADY_EXISTS"}, Return(p, s)
        PROVE  Abstract!Answer(p)
    <3>1. Progress(p) = "pending"
      BY <1>h, <2>1 DEF PlacedOnWindows, AnsweredOnWindows, Entering, Progress
    <3>2. Progress(p)' = "failed" /\ PlaceOf(p)' = PlaceOf(p)
      BY <1>1, <2>3, Returned
    <3>3. QED
      BY <1>only, <2>1, <3>1, <3>2, AnswerRefines
  <2>4. QED
    BY <2>1, <2>2, <2>3
<1>3. CASE Close(p)
  <2>1. PICK s \in Status : /\ Return(p, s) /\ s # "none"
                            /\ s \in {call[p].result, "IO_ERROR"}
    BY <1>1, <1>3 DEF Close, Status
  <2>2. At(p, "close") /\ UNCHANGED <<entry, stable>>
    BY <1>3 DEF Close, files
  <2>3. call[p].result \in {"none", "OK", "ALREADY_EXISTS"}
    BY <1>h, <2>2 DEF AnsweredOnWindows
  <2>4. /\ Progress(p) \notin {"OK", "EXISTS", "failed"}
        /\ call[p].result = "OK" => Progress(p) = "committed"
        /\ call[p].result = "ALREADY_EXISTS" => Progress(p) = "refused"
    BY <1>h, <2>2, <2>3 DEF Progress, AnsweredOnWindows
  <2>5. /\ PlaceOf(p)' = PlaceOf(p)
        /\ Progress(p)' = IF s = "OK" THEN "OK"
                          ELSE IF s = "ALREADY_EXISTS" THEN "EXISTS" ELSE "failed"
    BY <1>1, <2>1, Returned
  <2>6. Abstract!Answer(p)
    BY <1>only, <2>1, <2>2, <2>3, <2>4, <2>5, AnswerRefines
  <2>7. QED
    BY <2>6
<1>4. CASE OpenAnchor(p)
  <2>1. /\ At(p, "openParent") /\ UNCHANGED <<entry, stable>>
        /\ \/ call' = [call EXCEPT ![p].pc = "create", ![p].fds = {"parent"}]
           \/ Return(p, "IO_ERROR")
    BY <1>4 DEF OpenAnchor, files
  <2>2. CASE call' = [call EXCEPT ![p].pc = "create", ![p].fds = {"parent"}]
    BY <1>1, <1>only, <2>1, <2>2, LocalRefines
  <2>3. QED
    BY <1>io, <2>1, <2>2 DEF Entering
<1>5. CASE CreateByPath(p)
  <2>1. At(p, "create") /\ UNCHANGED <<entry, stable>>
    BY <1>5 DEF CreateByPath
  <2>2. CASE Return(p, "IO_ERROR")
    BY <1>io, <2>1, <2>2 DEF Entering
  <2>3. CASE ~Return(p, "IO_ERROR")
    <3>1. /\ call'[p].pc = "write" /\ call'[p].result = call[p].result
          /\ call'[p].published = call[p].published /\ call'[p].eexist = call[p].eexist
      BY <1>1, <1>5, <2>3 DEF CreateByPath
    <3>2. ~call[p].published
      BY <1>h, <2>1 DEF PlacedOnWindows, Entering
    <3>3. Progress(p)' = Progress(p) /\ PlaceOf(p)' = PlaceOf(p)
      BY <2>1, <3>1, <3>2 DEF Progress, PlaceOf
    <3>4. QED
      BY <1>only, <2>1, <3>3, Silent
  <2>4. QED
    BY <2>2, <2>3
<1>6. CASE WriteThrough(p) \/ FlushWritten(p)
  <2>1. /\ At(p, "write") /\ UNCHANGED <<entry, stable>>
        /\ call'[p].pc \in {"write", "publish", "recheckParent"}
        /\ call'[p].result = call[p].result /\ call'[p].parent = call[p].parent
        /\ call'[p].published = call[p].published /\ call'[p].eexist = call[p].eexist
    BY <1>1, <1>6 DEF WriteThrough, FlushWritten, Failed
  <2>2. QED
    BY <1>only, <2>1, LocalRefines
<1>7. CASE RenameHeld(p)
  <2>1. /\ At(p, "publish") /\ ~call[p].published /\ ~call[p].eexist
        /\ call[p].result = "none" /\ stable' = stable
    BY <1>h, <1>7 DEF RenameHeld, PlacedOnWindows, AnsweredOnWindows, Naming
  <2>2. Progress(p) = "pending" /\ PlaceOf(p) = NoDir
    BY <2>1 DEF Progress, PlaceOf
  <2>3. CASE /\ parentPath # NoDir /\ entry[parentPath] = Absent
             /\ entry' = [entry EXCEPT ![parentPath] = p]
             /\ call' = [call EXCEPT ![p].pc = "recheckParent", ![p].published = TRUE,
                                     ![p].parent = parentPath]
    <3>1. Progress(p)' = "placed" /\ PlaceOf(p)' = parentPath
      BY <1>1, <2>1, <2>3 DEF Progress, PlaceOf
    <3>2. Abstract!Become(p, "placed")
      BY <1>only, <3>1, Shown
    <3>3. [q \in Publishers |-> IF call[q].published THEN call[q].parent ELSE NoDir]'
          = [[q \in Publishers |-> IF call[q].published THEN call[q].parent ELSE NoDir]
               EXCEPT ![p] = parentPath]
      BY <1>only, <3>1, StepMapsOthers DEF PlaceOf
    <3>4. PICK d \in Dirs : d = parentPath
      BY <1>1, <2>3
    <3>5. [q \in Publishers |-> Progress(q)][p] = "pending"
      BY <2>2
    <3>6. entry[d] = Absent /\ entry' = [entry EXCEPT ![d] = p]
      BY <2>3, <3>4
    <3>7. Abstract!Place(p, d)
      BY <2>1, <3>2, <3>3, <3>4, <3>5, <3>6 DEF Abstract!Place
    <3>8. QED
      BY <3>7
  <2>4. CASE /\ parentPath # NoDir /\ entry[parentPath] # Absent
             /\ call' = [call EXCEPT ![p].pc = "recheckParent", ![p].eexist = TRUE,
                                     ![p].parent = parentPath]
             /\ entry' = entry
    <3>1. Progress(p)' = "refused" /\ PlaceOf(p)' = PlaceOf(p)
      BY <1>1, <2>1, <2>4 DEF Progress, PlaceOf
    <3>2. QED
      BY <1>1, <1>only, <2>1, <2>2, <2>4, <3>1, RefuseRefines
  <2>5. CASE Goto(p, "recheckParent") /\ entry' = entry
    BY <1>1, <1>only, <2>1, <2>5, LocalRefines
  <2>6. QED
    BY <1>7, <2>3, <2>4, <2>5 DEF RenameHeld
<1>8. CASE CompareParent(p)
  <2>1. At(p, "recheckParent") /\ UNCHANGED <<entry, stable>>
    BY <1>8 DEF CompareParent, files
  <2>2. PICK b \in BOOLEAN : call' = [call EXCEPT
               ![p].pc = IF call[p].published THEN "sync" ELSE "release",
               ![p].destBound = b,
               ![p].result = IF call[p].eexist /\ b THEN "ALREADY_EXISTS" ELSE @]
    BY <1>8 DEF CompareParent
  <2>3. /\ call'[p].pc \in {"sync", "release"}
        /\ call'[p].result = IF call[p].eexist /\ b THEN "ALREADY_EXISTS" ELSE call[p].result
        /\ call'[p].parent = call[p].parent
        /\ call'[p].published = call[p].published /\ call'[p].eexist = call[p].eexist
    BY <1>1, <2>2
  <2>4. call[p].result = "none"
    BY <1>h, <2>1 DEF AnsweredOnWindows, Naming
  <2>5. Progress(p)' = Progress(p) /\ PlaceOf(p)' = PlaceOf(p)
    BY <2>1, <2>3, <2>4 DEF Progress, PlaceOf
  <2>6. QED
    BY <1>only, <2>1, <2>5, Silent
<1>9. CASE FlushRenamed(p)
  <2>1. /\ At(p, "sync") /\ entry' = entry
        /\ call'[p].pc \in {"checkNamed", "release"}
        /\ call'[p].result = call[p].result /\ call'[p].parent = call[p].parent
        /\ call'[p].published = call[p].published /\ call'[p].eexist = call[p].eexist
    BY <1>1, <1>9 DEF FlushRenamed, Failed
  <2>2. Progress(p)' = Progress(p) /\ PlaceOf(p)' = PlaceOf(p)
    BY <2>1 DEF Progress, PlaceOf
  <2>3. CASE stable' = stable
    BY <1>only, <2>1, <2>2, <2>3, Silent
  <2>4. CASE entry[call[p].parent] = p /\ stable' = [stable EXCEPT ![call[p].parent] = p]
    <3>1. call[p].parent \in Dirs
      BY <1>h, <2>1 DEF PlacedOnWindows, Naming
    <3>2. \A q \in Publishers : Progress(q)' = Progress(q)
      BY <1>only, <2>2, StepMapsOthers
    <3>3. stable' = [stable EXCEPT ![call[p].parent] = entry[call[p].parent]]
      BY <2>4
    <3>4. Abstract!Persist(call[p].parent)
      BY <1>only, <2>1, <2>2, <3>2, <3>3, Unmoved DEF Abstract!Persist
    <3>5. QED
      BY <3>1, <3>4
  <2>5. QED
    BY <1>9, <2>3, <2>4 DEF FlushRenamed
<1>10. CASE MatchDestination(p)
  <2>1. /\ At(p, "checkNamed") /\ UNCHANGED <<entry, stable>>
        /\ \/ call'[p].pc = "close" /\ call'[p].result = "OK" /\ Leads(p)
           \/ call'[p].pc = "release" /\ call'[p].result = call[p].result
        /\ call'[p].parent = call[p].parent
        /\ call'[p].published = call[p].published /\ call'[p].eexist = call[p].eexist
    BY <1>1, <1>10 DEF MatchDestination, files
  <2>2. call[p].published /\ call[p].result = "none" /\ call[p].parent \in Dirs
    BY <1>h, <2>1 DEF AnsweredOnWindows, PlacedOnWindows, Naming
  <2>3. CASE call'[p].pc = "close" /\ call'[p].result = "OK" /\ Leads(p)
    <3>1. entry[call[p].parent] = p /\ stable[call[p].parent] = p
      BY <1>h, <2>1, <2>3 DEF Leads, NamedOnWindows
    <3>2. Progress(p) = "placed" /\ Progress(p)' = "committed" /\ PlaceOf(p)' = PlaceOf(p)
      BY <2>1, <2>2, <2>3 DEF Progress, PlaceOf
    <3>3. [q \in Publishers |-> Progress(q)][p] = "placed"
      BY <3>2
    <3>4. [q \in Publishers |-> IF call[q].published THEN call[q].parent ELSE NoDir][p]
          = call[p].parent
      BY <2>2
    <3>5. Abstract!Become(p, "committed")
      BY <1>only, <3>2, Shown
    <3>6. Abstract!Commit(p)
      BY <1>only, <2>1, <3>1, <3>2, <3>3, <3>4, <3>5, Unmoved DEF Abstract!Commit
    <3>7. QED
      BY <3>6
  <2>4. CASE call'[p].pc = "release" /\ call'[p].result = call[p].result
    BY <1>only, <2>1, <2>4, LocalRefines
  <2>5. QED
    BY <2>1, <2>3, <2>4
<1>11. CASE DeleteHeld(p)
  <2>1. /\ At(p, "release") /\ stable' = stable
        /\ call'[p].pc = "close" /\ call'[p].result \in {"none", call[p].result}
        /\ call'[p].parent = call[p].parent
        /\ call'[p].published = call[p].published /\ call'[p].eexist = call[p].eexist
    BY <1>1, <1>11 DEF DeleteHeld, Withdrawn, files
  <2>2. /\ call[p].result \in {"none", "ALREADY_EXISTS"}
        /\ call[p].result = "ALREADY_EXISTS" => call[p].eexist /\ ~call[p].published
    BY <1>h, <2>1 DEF AnsweredOnWindows
  <2>3. Progress(p)' = Progress(p) /\ PlaceOf(p)' = PlaceOf(p)
    BY <2>1, <2>2 DEF Progress, PlaceOf
  <2>4. CASE entry' = entry
    BY <1>only, <2>1, <2>3, <2>4, Silent
  <2>5. CASE entry' # entry
    <3>1. entry' = [d \in Dirs |-> IF entry[d] = p THEN Absent ELSE entry[d]]
      BY <1>11, <2>5 DEF DeleteHeld, files
    <3>2. \A d \in Dirs : entry[d] = p => d = call[p].parent
      BY <1>h DEF NamedOnWindows
    <3>3. PICK d \in Dirs : entry[d] = p
      BY <1>1, <2>5, <3>1
    <3>4. entry' = [entry EXCEPT ![d] = Absent]
      BY <1>1, <3>1, <3>2, <3>3
    <3>5. \A q \in Publishers : Progress(q)' = Progress(q)
      BY <1>only, <2>3, StepMapsOthers
    <3>6. Abstract!Disturb(d)
      BY <1>only, <2>1, <2>3, <3>4, <3>5, Unmoved DEF Abstract!Disturb
    <3>7. QED
      BY <3>6
  <2>6. QED
    BY <2>4, <2>5
<1>12. QED
  BY <1>2, <1>3, <1>4, <1>5, <1>6, <1>7, <1>8, <1>9, <1>10, <1>11 DEF WindowsStep

(* "Publishes a new regular file atomically" for any mixture of hosts on one
   directory. *)
THEOREM SharedImplements == ASSUME ~Hostile PROVE SharedSpec => ImplementsWriteOnce
<1>1. SharedInit => Abstract!Init
  BY InitRefines DEF SharedInit
<1>2. SharedInv /\ [SharedNext]_<<vars, windowsVars>> => [Abstract!Next]_(Abstract!vars)
  <2> SUFFICES ASSUME SharedInv, [SharedNext]_<<vars, windowsVars>>
               PROVE  Abstract!Next \/ UNCHANGED Abstract!vars
    OBVIOUS
  <2>0. TypeOK /\ WindowsType
    BY DEF SharedInv
  <2>1. ASSUME NEW p \in Publishers \ onWindows, Step(p)
        PROVE  Abstract!Next \/ UNCHANGED Abstract!vars
    <3>1. LocalInvariant(p) /\ CallInvariant(p)
      BY <2>1 DEF SharedInv, CallHolds
    <3>2. QED
      BY <2>0, <2>1, <3>1, StepRefines
  <2>2. ASSUME NEW p \in onWindows, WindowsStep(p)
        PROVE  Abstract!Next \/ UNCHANGED Abstract!vars
    <3>1. p \in Publishers /\ WindowsHolds(p)
      BY <2>0, <2>2 DEF SharedInv, WindowsType
    <3>2. QED
      BY <2>0, <2>2, <3>1, WindowsRefines DEF Abstract!Next
  <2>3. CASE Environment
    <3>1. ASSUME NEW q \in Publishers, At(q, "idle")
          PROVE  ~call[q].published /\ ~call[q].eexist /\ call[q].result = "none"
      <4>1. CASE q \in onWindows
        BY <3>1, <4>1 DEF SharedInv, WindowsHolds, PlacedOnWindows, AnsweredOnWindows, Entering
      <4>2. CASE q \notin onWindows
        BY <3>1, <4>2 DEF SharedInv, CallHolds, LocalInvariant
      <4>3. QED
        BY <4>1, <4>2
    <3>2. QED
      BY <2>0, <2>3, <3>1, EnvironmentRefines DEF Abstract!Next
  <2>4. CASE UNCHANGED <<vars, windowsVars>>
    BY <2>4 DEF vars, files, Abstract!vars, Progress
  <2>5. QED
    BY <2>1, <2>2, <2>3, <2>4 DEF SharedNext
<1>3. QED
  BY <1>1, <1>2, SharedInvariant, PTL
  DEF SharedSpec, ImplementsWriteOnce, Abstract!Spec
=============================================================================

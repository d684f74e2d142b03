------------------------ MODULE OutputPublishProofs ------------------------
(***************************************************************************)
(* Theorems about OutputPublish for any callers, artifacts and bytes, and  *)
(* any number of changes by other programs and power losses: what a caller *)
(* is told is true and stays true, no run that knew of a collision wrote,  *)
(* runs that have the same bytes succeed, and all that callers do to the   *)
(* names is what the write-once name of AtomicPublish allows.              *)
(***************************************************************************)
EXTENDS OutputPublish, SequenceTheorems, TLAPS

Good == {"MISSING", "UNCHANGED"}
Done == {"EMITTED", "UNCHANGED"}
Preparing == {"idle", "preflight", "preflightClose"}
Publishing == {"write", "commit", "answer", "compare", "compareClose"}
Failing == {"residue", "residueClose"}
Viewing == {"preflightClose", "compareClose", "residueClose"}

Live(c) == caller[c].pc \notin {"idle", "done", "crashed"}

(* A file has the name its publisher put it under, if it has one, and was
   stored under no other; what was committed stays where nobody else acts. *)
Names ==
  /\ \A p \in Publishers, a \in Paths : p \in {entry[a], stable[a]} => p[2] = a /\ place[p] = a
  /\ \A p \in Publishers :
       /\ state[p] \in {"pending", "refused", "EXISTS"} => place[p] = NoDir
       /\ state[p] \in {"placed", "committed"} => place[p] = p[2]
       /\ state[p] \in {"committed", "OK"} /\ p[2] \notin disturbed =>
            entry[p[2]] = p /\ stable[p[2]] = p
  /\ \A a \in Paths \ disturbed :
       stable[a] \in {Absent, entry[a]} /\ (entry[a] = Foreign => stable[a] = Foreign)

(* How far a run has come with its members. *)
Stage(c) ==
  /\ At(c, "idle") => \A a \in Paths : caller[c].preflight[a] = "none"
  /\ caller[c].pc \in Preparing =>
       /\ \A a \in Paths : state[<<c, a>>] = "pending" /\ Report(c, a) = "none"
       /\ \A j \in 1..Len(Artifacts) :
            j < caller[c].i => caller[c].preflight[Artifacts[j]] \in Good
  /\ caller[c].pc \in Publishing \cup Failing =>
       \A a \in Paths : caller[c].preflight[a] \in Good
  /\ caller[c].pc \in Publishing =>
       \A j \in 1..Len(Artifacts) :
         /\ j < caller[c].i => Report(c, Artifacts[j]) \in Done
         /\ j > caller[c].i => state[<<c, Artifacts[j]>>] = "pending"
  /\ At(c, "write") => state[Me(c)] = "pending"
  /\ At(c, "commit") => state[Me(c)] = "placed"
  /\ At(c, "answer") => state[Me(c)] \in {"committed", "refused"}
  /\ caller[c].pc \in {"compare", "compareClose"} => state[Me(c)] = "EXISTS"

(* A view that is open shows what is under a name nobody else changed; the
   metadata, too, unless another publisher's file may be touched again. *)
Held(c) ==
  caller[c].pc \in Viewing =>
    /\ caller[c].view \in Samples
    /\ Path(c) \notin disturbed =>
         /\ caller[c].view[1] = entry[Path(c)] /\ caller[c].view[2] = Bytes(Path(c))
         /\ ~case.restamps \/ entry[Path(c)] = Me(c) => caller[c].view = Sample(Path(c))

(* What was found before anything was written. *)
Preflights(c) ==
  /\ \A a \in Paths \ disturbed :
       /\ caller[c].preflight[a] = "UNCHANGED" /\ Live(c) =>
            entry[a] # Absent /\ Bytes(a) = case.output[c][a]
       /\ caller[c].preflight[a] = "MISSING" => entry[a] # Foreign
  /\ \A b \in Paths : place[<<c, b>>] # NoDir =>
       /\ \A a \in Paths : caller[c].preflight[a] \in Good
       /\ b \notin disturbed => caller[c].preflight[b] = "MISSING"

(* What was answered. *)
Reports(c) ==
  /\ \A a \in Paths :
       /\ Report(c, a) = "EMITTED" => state[<<c, a>>] = "OK"
       /\ Report(c, a) = "COLLISION" =>
            /\ state[<<c, a>>] = "EXISTS"
            /\ a \notin disturbed => caller[c].preflight[a] = "MISSING"
       /\ Report(c, a) = "IO_ERROR" =>
            a = Path(c) /\ caller[c].pc \in Failing \cup {"done", "crashed"}
       /\ a \notin disturbed => ReportTrue(c, a)
  /\ caller[c].residue => caller[c].pc = "done"

CallerInv(c) == Stage(c) /\ Held(c) /\ Preflights(c) /\ Reports(c)

(* Runs with the same bytes, on hosts that do not touch a named file again. *)
Peaceful == SameBytes /\ Uncontradicted /\ ~case.restamps

Agrees(c) ==
  /\ \A a \in Paths : caller[c].preflight[a] \in Good \cup {"none"}
                      /\ Report(c, a) \in Done \cup {"none"}
  /\ caller[c].pc \notin Failing
  /\ At(c, "done") => \A a \in Paths : Report(c, a) # "none"
  /\ At(c, "commit") => entry[Path(c)] = Me(c)
  /\ At(c, "answer") /\ state[Me(c)] = "refused" => entry[Path(c)] # Absent
  /\ caller[c].pc \in {"compare", "compareClose"} => entry[Path(c)] # Absent

IInv ==
  /\ TypeOK
  /\ Names
  /\ \A c \in Callers : CallerInv(c)
  /\ Peaceful => \A c \in Callers : Agrees(c)

----------------------------------------------------------------------------
(* Members and locals. *)

Others(c) == \A d \in Callers : d # c => caller'[d] = caller[d]

Moved(c, r) == caller' = [caller EXCEPT ![c] = r]

(* The member at hand is one of the artifacts, and each is one member's. *)
LEMMA MemberFacts ==
  ASSUME TypeOK, NEW c \in Callers
  PROVE  /\ Len(Artifacts) \in Nat /\ Len(Artifacts) > 0
         /\ caller[c] \in Locals /\ caller[c].i \in 1..Len(Artifacts)
         /\ Path(c) \in Paths /\ Me(c) \in Publishers /\ Me(c)[2] = Path(c)
         /\ \A j \in 1..Len(Artifacts) : Artifacts[j] \in Paths
         /\ \A j \in 1..Len(Artifacts) : Artifacts[j] = Path(c) => j = caller[c].i
         /\ \A a \in Paths : <<c, a>> \in Publishers /\ \E j \in 1..Len(Artifacts) : a = Artifacts[j]
<1>1. Len(Artifacts) \in Nat /\ Len(Artifacts) > 0
  BY OutputAssumption
<1>2. caller[c] \in Locals /\ caller[c].i \in 1..Len(Artifacts)
  BY DEF TypeOK, Locals
<1>3. \A j \in 1..Len(Artifacts) : Artifacts[j] \in Paths
  BY DEF Paths
<1>4. \A a \in Paths : <<c, a>> \in Publishers /\ \E j \in 1..Len(Artifacts) : a = Artifacts[j]
  BY DEF Paths, Publishers
<1>5. Path(c) \in Paths
  BY <1>2, <1>3 DEF Path
<1>6. Me(c) \in Publishers /\ Me(c)[2] = Path(c)
  BY <1>4, <1>5 DEF Me
<1>7. \A j \in 1..Len(Artifacts) : Artifacts[j] = Path(c) => j = caller[c].i
  BY <1>2, OutputAssumption DEF Path
<1>8. QED
  BY <1>1, <1>2, <1>3, <1>4, <1>5, <1>6, <1>7

(* What a caller becomes, when its fields have their types. *)
LEMMA MovedFields ==
  ASSUME TypeOK, NEW c \in Callers, NEW r \in Locals, Moved(c, r)
  PROVE  caller' \in [Callers -> Locals] /\ caller'[c] = r /\ Others(c)
BY DEF Moved, Others, TypeOK

(* Goto changes the place only. *)
LEMMA GotoFields ==
  ASSUME TypeOK, NEW c \in Callers, NEW label \in Labels, Goto(c, label)
  PROVE  /\ caller' \in [Callers -> Locals] /\ Others(c)
         /\ caller'[c].pc = label /\ caller'[c].i = caller[c].i
         /\ caller'[c].view = caller[c].view
         /\ caller'[c].preflight = caller[c].preflight
         /\ caller'[c].report = caller[c].report /\ caller'[c].residue = caller[c].residue
<1> DEFINE r == [caller[c] EXCEPT !.pc = label]
<1>1. caller[c] \in Locals
  BY DEF TypeOK
<1>2. /\ r \in Locals /\ r.pc = label /\ r.i = caller[c].i /\ r.view = caller[c].view
      /\ r.preflight = caller[c].preflight /\ r.report = caller[c].report
      /\ r.residue = caller[c].residue
  BY <1>1 DEF Locals
<1>3. Moved(c, r)
  BY DEF Goto, Moved
<1> HIDE DEF r
<1>4. QED
  BY <1>2, <1>3, MovedFields

(* What a view samples: the file, its bytes and whether it may change. *)
LEMMA SampleFacts ==
  ASSUME TypeOK, NEW a \in Paths
  PROVE  /\ Bytes(a) \in Data
         /\ entry[a] # Absent => Sample(a) \in Samples
         /\ Sample(a)[1] = entry[a] /\ Sample(a)[2] = Bytes(a) /\ Sample(a)[3] = (entry[a] \in settled)
<1>1. entry[a] \in Publishers \cup {Absent, Foreign} /\ foreign[a] \in Data
  BY DEF TypeOK
<1>2. ASSUME entry[a] \in Publishers PROVE case.output[entry[a][1]][a] \in Data
  BY <1>2, OutputAssumption DEF TypeOK, Publishers
<1>3. Bytes(a) \in Data
  BY <1>1, <1>2 DEF Bytes
<1>4. (entry[a] \in settled) \in BOOLEAN
  OBVIOUS
<1>5. QED
  BY <1>1, <1>3, <1>4 DEF Sample, Samples

(* Opening a view samples what is there. *)
LEMMA ViewFields ==
  ASSUME TypeOK, NEW c \in Callers, NEW label \in Labels, ViewOpens(c, label)
  PROVE  /\ caller' \in [Callers -> Locals] /\ Others(c)
         /\ entry[Path(c)] # Absent
         /\ caller'[c].pc = label /\ caller'[c].i = caller[c].i
         /\ caller'[c].view = Sample(Path(c)) /\ caller'[c].view \in Samples
         /\ caller'[c].preflight = caller[c].preflight
         /\ caller'[c].report = caller[c].report /\ caller'[c].residue = caller[c].residue
<1> DEFINE v == Sample(Path(c))
           r == [caller[c] EXCEPT !.pc = label, !.view = v]
<1>1. caller[c] \in Locals /\ entry[Path(c)] # Absent /\ v \in Samples
  BY MemberFacts, SampleFacts DEF ViewOpens
<1>2. Moved(c, r)
  BY DEF ViewOpens, Moved
<1> HIDE DEF v
<1>3. /\ r \in Locals /\ r.pc = label /\ r.i = caller[c].i /\ r.view = v
      /\ r.preflight = caller[c].preflight /\ r.report = caller[c].report
      /\ r.residue = caller[c].residue
  BY <1>1 DEF Locals
<1> HIDE DEF r
<1>4. QED
  BY <1>1, <1>2, <1>3, MovedFields DEF v

(* The outcome of one preflight. *)
LEMMA PreflightedFields ==
  ASSUME TypeOK, NEW c \in Callers, NEW s \in Good \cup {"COLLISION", "IO_ERROR"}, Preflighted(c, s)
  PROVE  /\ caller' \in [Callers -> Locals] /\ Others(c)
         /\ caller'[c].preflight = [caller[c].preflight EXCEPT ![Path(c)] = s]
         /\ caller'[c].report = caller[c].report /\ caller'[c].residue = caller[c].residue
         /\ \/ s \notin Good /\ caller'[c].pc = "done" /\ caller'[c].i = caller[c].i
            \/ /\ s \in Good /\ caller[c].i < Len(Artifacts)
               /\ caller'[c].pc = "preflight" /\ caller'[c].i = caller[c].i + 1
            \/ /\ s \in Good /\ caller[c].i = Len(Artifacts)
               /\ caller'[c].pc = "write" /\ caller'[c].i = 1
<1> DEFINE n == IF s \in Good THEN IF caller[c].i < Len(Artifacts) THEN caller[c].i + 1 ELSE 1
                ELSE caller[c].i
           q == IF s \notin Good THEN "done"
                ELSE IF caller[c].i < Len(Artifacts) THEN "preflight" ELSE "write"
           f == [caller[c].preflight EXCEPT ![Path(c)] = s]
           r == [caller[c] EXCEPT !.preflight = f, !.view = <<>>, !.i = n, !.pc = q]
<1>1. caller[c] \in Locals /\ caller[c].i \in 1..Len(Artifacts) /\ Len(Artifacts) \in Nat /\ Path(c) \in Paths
  BY MemberFacts
<1>2. n \in 1..Len(Artifacts) /\ q \in Labels
  BY <1>1 DEF Labels
<1>3. f \in [Paths -> Status]
  BY <1>1 DEF Locals, Status, Good
<1>4. Moved(c, r)
  BY DEF Preflighted, Moved, Good
<1>5. \/ s \notin Good /\ q = "done" /\ n = caller[c].i
      \/ s \in Good /\ caller[c].i < Len(Artifacts) /\ q = "preflight" /\ n = caller[c].i + 1
      \/ s \in Good /\ caller[c].i = Len(Artifacts) /\ q = "write" /\ n = 1
  BY <1>1
<1> HIDE DEF n, q, f
<1>6. /\ r \in Locals /\ r.pc = q /\ r.i = n /\ r.preflight = f
      /\ r.report = caller[c].report /\ r.residue = caller[c].residue
  BY <1>1, <1>2, <1>3 DEF Locals
<1> HIDE DEF r
<1>7. caller' \in [Callers -> Locals] /\ caller'[c] = r /\ Others(c)
  BY <1>4, <1>6, MovedFields
<1>8. QED
  BY <1>5, <1>6, <1>7 DEF f

(* The outcome for one member. *)
LEMMA PublishedFields ==
  ASSUME TypeOK, NEW c \in Callers, NEW s \in Done \cup {"COLLISION", "IO_ERROR"}, Published(c, s)
  PROVE  /\ caller' \in [Callers -> Locals] /\ Others(c)
         /\ caller'[c].preflight = caller[c].preflight
         /\ caller'[c].report = [caller[c].report EXCEPT ![Path(c)] = s]
         /\ caller'[c].residue = caller[c].residue
         /\ \/ s = "IO_ERROR" /\ caller'[c].pc = "residue" /\ caller'[c].i = caller[c].i
            \/ s = "COLLISION" /\ caller'[c].pc = "done" /\ caller'[c].i = caller[c].i
            \/ /\ s \in Done /\ caller[c].i < Len(Artifacts)
               /\ caller'[c].pc = "write" /\ caller'[c].i = caller[c].i + 1
            \/ /\ s \in Done /\ caller[c].i = Len(Artifacts)
               /\ caller'[c].pc = "done" /\ caller'[c].i = caller[c].i
<1> DEFINE n == IF s \in Done /\ caller[c].i < Len(Artifacts) THEN caller[c].i + 1 ELSE caller[c].i
           q == IF s = "IO_ERROR" THEN "residue"
                ELSE IF s = "COLLISION" \/ caller[c].i = Len(Artifacts) THEN "done" ELSE "write"
           f == [caller[c].report EXCEPT ![Path(c)] = s]
           r == [caller[c] EXCEPT !.report = f, !.view = <<>>, !.i = n, !.pc = q]
<1>1. caller[c] \in Locals /\ caller[c].i \in 1..Len(Artifacts) /\ Len(Artifacts) \in Nat /\ Path(c) \in Paths
  BY MemberFacts
<1>2. n \in 1..Len(Artifacts) /\ q \in Labels
  BY <1>1 DEF Labels
<1>3. f \in [Paths -> Status]
  BY <1>1 DEF Locals, Status, Done
<1>4. Moved(c, r)
  BY DEF Published, Moved, Done
<1>5. \/ s = "IO_ERROR" /\ q = "residue" /\ n = caller[c].i
      \/ s = "COLLISION" /\ q = "done" /\ n = caller[c].i
      \/ s \in Done /\ caller[c].i < Len(Artifacts) /\ q = "write" /\ n = caller[c].i + 1
      \/ s \in Done /\ caller[c].i = Len(Artifacts) /\ q = "done" /\ n = caller[c].i
  BY <1>1 DEF Done
<1> HIDE DEF n, q, f
<1>6. /\ r \in Locals /\ r.pc = q /\ r.i = n /\ r.report = f
      /\ r.preflight = caller[c].preflight /\ r.residue = caller[c].residue
  BY <1>1, <1>2, <1>3 DEF Locals
<1> HIDE DEF r
<1>7. caller' \in [Callers -> Locals] /\ caller'[c] = r /\ Others(c)
  BY <1>4, <1>6, MovedFields
<1>8. QED
  BY <1>5, <1>6, <1>7 DEF f

(* The final answer about a failed member. *)
LEMMA ResidueFields ==
  ASSUME TypeOK, NEW c \in Callers, NEW answer \in BOOLEAN, Residue(c, answer)
  PROVE  /\ caller' \in [Callers -> Locals] /\ Others(c)
         /\ caller'[c].pc = "done" /\ caller'[c].i = caller[c].i
         /\ caller'[c].preflight = caller[c].preflight
         /\ caller'[c].report = caller[c].report /\ caller'[c].residue = answer
<1> DEFINE r == [caller[c] EXCEPT !.pc = "done", !.view = <<>>, !.residue = answer]
<1>1. caller[c] \in Locals /\ "done" \in Labels
  BY DEF TypeOK, Labels
<1>2. /\ r \in Locals /\ r.pc = "done" /\ r.i = caller[c].i
      /\ r.preflight = caller[c].preflight /\ r.report = caller[c].report
      /\ r.residue = answer
  BY <1>1 DEF Locals
<1>3. Moved(c, r)
  BY DEF Residue, Moved
<1> HIDE DEF r
<1>4. QED
  BY <1>2, <1>3, MovedFields

----------------------------------------------------------------------------
(* What other steps leave of what a caller relies on. *)

Onward(c) ==
  /\ caller'[c] = caller[c] /\ case' = case /\ crashes' = crashes
  /\ disturbed \subseteq disturbed'
  /\ \A a \in Paths :
       /\ state'[<<c, a>>] = state[<<c, a>>] /\ place'[<<c, a>>] = place[<<c, a>>]
       /\ <<c, a>> \in settled' <=> <<c, a>> \in settled
  /\ case.restamps \/ settled' = settled
  /\ \A a \in Paths \ disturbed' :
       /\ foreign'[a] = foreign[a]
       /\ \/ entry'[a] = entry[a]
          \/ entry[a] = Absent /\ entry'[a] \in Publishers \ {<<c, a>>}

(* Nobody's step but one's own, another program's on the name or a power loss
   takes anything away. *)
LEMMA OnwardKeeps ==
  ASSUME TypeOK, TypeOK', Names', NEW c \in Callers, CallerInv(c), Onward(c)
  PROVE  CallerInv(c)'
<1>1. /\ caller'[c] = caller[c] /\ case' = case /\ crashes' = crashes
      /\ disturbed \subseteq disturbed' /\ Path(c)' = Path(c) /\ Me(c)' = Me(c) /\ Mine(c)' = Mine(c)
      /\ \A a \in Paths : Report(c, a)' = Report(c, a)
  BY DEF Onward, Path, Me, Mine, Report
<1>2. \A a \in Paths : state'[<<c, a>>] = state[<<c, a>>] /\ place'[<<c, a>>] = place[<<c, a>>]
  BY DEF Onward
<1>3. Path(c) \in Paths /\ state'[Me(c)] = state[Me(c)] /\ \A j \in 1..Len(Artifacts) : Artifacts[j] \in Paths
  BY <1>2, MemberFacts DEF Me
<1>4. ASSUME NEW a \in Paths \ disturbed', entry[a] # Absent
      PROVE  entry'[a] = entry[a] /\ Bytes(a)' = Bytes(a)
  <2>1. entry'[a] = entry[a] /\ foreign'[a] = foreign[a]
    BY <1>4 DEF Onward
  <2>2. QED
    BY <1>1, <2>1 DEF Bytes
<1>5. ASSUME NEW a \in Paths \ disturbed'
      PROVE  /\ entry'[a] = Foreign => entry[a] = Foreign
             /\ entry'[a] = <<c, a>> => entry[a] = <<c, a>>
  BY OutputAssumption DEF Onward, Publishers
<1>6. Stage(c)'
  BY <1>1, <1>2, <1>3 DEF CallerInv, Stage, At
<1>7. Held(c)'
  <2> SUFFICES ASSUME caller[c].pc \in Viewing
               PROVE  Held(c)'
    BY <1>1 DEF Held
  <2>1. caller'[c].view \in Samples
    BY <1>1 DEF CallerInv, Held
  <2>2. ASSUME Path(c) \notin disturbed'
        PROVE  /\ caller[c].view[1] = entry'[Path(c)] /\ caller[c].view[2] = Bytes(Path(c))'
               /\ ~case.restamps \/ entry'[Path(c)] = Me(c) => caller[c].view = Sample(Path(c))'
    <3>1. /\ caller[c].view[1] = entry[Path(c)] /\ caller[c].view[2] = Bytes(Path(c))
          /\ ~case.restamps \/ entry[Path(c)] = Me(c) => caller[c].view = Sample(Path(c))
      BY <1>1, <2>2 DEF CallerInv, Held
    <3>2. caller[c].view[1] # Absent
      BY <1>1, <2>1, OutputAssumption DEF Samples, Publishers
    <3>3. entry'[Path(c)] = entry[Path(c)] /\ Bytes(Path(c))' = Bytes(Path(c))
      <4>1. Path(c) \in Paths \ disturbed' /\ entry[Path(c)] # Absent
        BY <1>3, <2>2, <3>1, <3>2
      <4>2. entry'[Path(c)] = entry[Path(c)]
        BY <4>1 DEF Onward
      <4>3. foreign'[Path(c)] = foreign[Path(c)]
        BY <4>1 DEF Onward
      <4>4. Bytes(Path(c))' = IF entry'[Path(c)] \in Publishers
                                THEN case'.output[entry'[Path(c)][1]][Path(c)]
                                ELSE foreign'[Path(c)]
        BY <1>1 DEF Bytes
      <4>5. QED
        BY <1>1, <4>2, <4>3, <4>4 DEF Bytes
    <3>4. ASSUME ~case.restamps \/ entry[Path(c)] = Me(c)
          PROVE  (entry[Path(c)] \in settled') <=> (entry[Path(c)] \in settled)
      BY <1>3, <3>4 DEF Onward, Me
    <3>5. Sample(Path(c))' = <<entry'[Path(c)], Bytes(Path(c))', entry'[Path(c)] \in settled'>>
      BY <1>1 DEF Sample
    <3>6. ASSUME ~case.restamps \/ entry[Path(c)] = Me(c)
          PROVE  caller[c].view = Sample(Path(c))'
      <4>1. caller[c].view = <<entry[Path(c)], Bytes(Path(c)), entry[Path(c)] \in settled>>
        BY <3>1, <3>6 DEF Sample
      <4>2. (entry'[Path(c)] \in settled') = (entry[Path(c)] \in settled)
        BY <3>3, <3>4, <3>6
      <4>3. QED
        BY <3>3, <3>5, <4>1, <4>2
    <3>7. QED
      BY <3>1, <3>3, <3>6
  <2>3. QED
    BY <1>1, <2>1, <2>2 DEF Held
<1>8. Preflights(c)'
  <2>1. \A a \in Paths \ disturbed' :
          /\ caller[c].preflight[a] = "UNCHANGED" /\ Live(c) =>
               entry'[a] # Absent /\ Bytes(a)' = case.output[c][a]
          /\ caller[c].preflight[a] = "MISSING" => entry'[a] # Foreign
    BY <1>1, <1>4, <1>5 DEF CallerInv, Preflights
  <2>2. \A b \in Paths : place'[<<c, b>>] # NoDir =>
          /\ \A a \in Paths : caller[c].preflight[a] \in Good
          /\ b \notin disturbed' => caller[c].preflight[b] = "MISSING"
    BY <1>1, <1>2 DEF CallerInv, Preflights
  <2>3. QED
    BY <1>1, <2>1, <2>2 DEF Preflights, Live
<1>9. Reports(c)'
  <2>1. ASSUME NEW a \in Paths, a \notin disturbed' PROVE ReportTrue(c, a)'
    <3>1. ReportTrue(c, a)
      BY <1>1, <2>1 DEF CallerInv, Reports
    <3>2. Report(c, a) = "EMITTED" => entry'[a] = <<c, a>> /\ stable'[a] = <<c, a>>
      <4>1. Report(c, a) = "EMITTED" => state'[<<c, a>>] = "OK"
        BY <1>2 DEF CallerInv, Reports
      <4>2. <<c, a>> \in Publishers
        BY MemberFacts
      <4>3. QED
        BY <2>1, <4>1, <4>2 DEF Names
    <3>3. QED
      BY <1>1, <1>4, <1>5, <2>1, <3>1, <3>2 DEF ReportTrue, At
  <2>2. QED
    BY <1>1, <1>2, <2>1 DEF CallerInv, Reports
<1>10. QED
  BY <1>6, <1>7, <1>8, <1>9 DEF CallerInv

(* A step that only a caller's own locals notice. *)
Quiet == UNCHANGED <<case, names, settled, env>>

LEMMA QuietFacts ==
  ASSUME TypeOK, Names, NEW c \in Callers, Quiet, Others(c), caller' \in [Callers -> Locals]
  PROVE  /\ TypeOK' /\ Names' /\ \A a \in Paths : Bytes(a)' = Bytes(a) /\ Sample(a)' = Sample(a)
         /\ \A d \in Callers : d # c => Onward(d)
<1>1. /\ UNCHANGED <<case, entry, stable, state, place, foreign, settled, disturbed, changes, crashes>>
  BY DEF Quiet, names, env
<1>2. TypeOK'
  BY <1>1 DEF TypeOK
<1>3. Names'
  BY <1>1 DEF Names
<1>4. \A a \in Paths : Bytes(a)' = Bytes(a) /\ Sample(a)' = Sample(a)
  BY <1>1 DEF Bytes, Sample
<1>5. \A d \in Callers : d # c => Onward(d)
  BY <1>1 DEF Onward, Others
<1>6. QED
  BY <1>2, <1>3, <1>4, <1>5

(* Nothing is put anywhere before the last preflight. *)
LEMMA NothingPlaced ==
  ASSUME TypeOK, Names, NEW c \in Callers, CallerInv(c), caller[c].pc \in Preparing
  PROVE  \A a \in Paths : state[<<c, a>>] = "pending" /\ place[<<c, a>>] = NoDir /\ Report(c, a) = "none"
BY MemberFacts DEF CallerInv, Stage, Names

(* The outcome of a preflight is what the next steps rely on. *)
LEMMA PreflightedKeeps ==
  ASSUME TypeOK, Names, NEW c \in Callers, CallerInv(c), Quiet,
         NEW s \in Good \cup {"COLLISION", "IO_ERROR"}, Preflighted(c, s),
         caller[c].pc \in {"preflight", "preflightClose"},
         Path(c) \notin disturbed =>
           /\ s = "UNCHANGED" => entry[Path(c)] # Absent /\ Bytes(Path(c)) = Mine(c)
           /\ s = "MISSING" => entry[Path(c)] = Absent
           /\ s = "COLLISION" => entry[Path(c)] # Absent /\ Bytes(Path(c)) # Mine(c)
  PROVE  CallerInv(c)'
<1> DEFINE n == Len(Artifacts)
           i == caller[c].i
           f == caller[c].preflight
           g == caller'[c].preflight
<1>1. /\ caller' \in [Callers -> Locals] /\ Others(c) /\ g = [f EXCEPT ![Path(c)] = s]
      /\ caller'[c].report = caller[c].report /\ caller'[c].residue = caller[c].residue
      /\ \/ s \notin Good /\ caller'[c].pc = "done" /\ caller'[c].i = i
         \/ s \in Good /\ i < n /\ caller'[c].pc = "preflight" /\ caller'[c].i = i + 1
         \/ s \in Good /\ i = n /\ caller'[c].pc = "write" /\ caller'[c].i = 1
  BY PreflightedFields
<1>2. /\ n \in Nat /\ n > 0 /\ i \in 1..n /\ Path(c) \in Paths /\ Path(c) = Artifacts[i]
      /\ f \in [Paths -> Status] /\ \A j \in 1..n : Artifacts[j] \in Paths
      /\ \A a \in Paths : \E j \in 1..n : a = Artifacts[j]
  BY MemberFacts DEF Locals, Path
<1>3. \A a \in Paths : g[a] = IF a = Path(c) THEN s ELSE f[a]
  BY <1>1, <1>2
<1>4. UNCHANGED <<case, entry, stable, state, place, foreign, disturbed, crashes>>
      /\ \A a \in Paths : Bytes(a)' = Bytes(a)
  BY <1>1, QuietFacts DEF Quiet, names, env
<1>5. \A a \in Paths : state'[<<c, a>>] = "pending" /\ place'[<<c, a>>] = NoDir /\ caller'[c].report[a] = "none"
  BY <1>1, <1>4, NothingPlaced DEF Preparing, Report
<1>6. \A j \in 1..n : j < i => f[Artifacts[j]] \in Good
  BY DEF CallerInv, Stage, Preparing
<1>7. ~caller'[c].residue
  BY <1>1 DEF CallerInv, Reports
<1> HIDE DEF n, i, f, g
<1>8. s \in Good => \A j \in 1..n : j <= i => g[Artifacts[j]] \in Good
  BY <1>2, <1>3, <1>6
<1>9. Stage(c)'
  <2>1. CASE s \notin Good
    BY <1>1, <2>1 DEF Stage, At, Preparing, Publishing, Failing
  <2>2. CASE s \in Good /\ i < n /\ caller'[c].pc = "preflight" /\ caller'[c].i = i + 1
    <3>1. \A j \in 1..n : j < caller'[c].i => g[Artifacts[j]] \in Good
      BY <1>2, <1>8, <2>2
    <3>2. QED
      BY <1>5, <2>2, <3>1 DEF Stage, At, Preparing, Publishing, Failing, Report, n, g
  <2>3. CASE s \in Good /\ i = n /\ caller'[c].pc = "write" /\ caller'[c].i = 1
    <3>1. \A a \in Paths : g[a] \in Good
      BY <1>2, <1>8, <2>3
    <3>2. \A j \in 1..n : /\ ~(j < caller'[c].i)
                          /\ state'[<<c, Artifacts[j]>>] = "pending"
      BY <1>2, <1>5, <2>3
    <3>3. Path(c)' \in Paths
      BY <1>2, <2>3 DEF Path
    <3>4. state'[Me(c)'] = "pending"
      BY <1>5, <3>3 DEF Me
    <3>5. QED
      BY <2>3, <3>1, <3>2, <3>4 DEF Stage, At, Preparing, Publishing, Failing, Report, n, g
  <2>4. QED
    BY <1>1, <2>1, <2>2, <2>3
<1>10. Held(c)'
  BY <1>1 DEF Held, Viewing
<1>11. Preflights(c)'
  <2>1. ASSUME NEW a \in Paths \ disturbed
        PROVE  /\ g[a] = "UNCHANGED" => entry[a] # Absent /\ Bytes(a) = case.output[c][a]
               /\ g[a] = "MISSING" => entry[a] # Foreign
    <3>1. CASE a = Path(c)
      BY <1>3, <3>1, OutputAssumption DEF Mine
    <3>2. CASE a # Path(c)
      BY <1>3, <3>2 DEF CallerInv, Preflights, Live, f
    <3>3. QED
      BY <3>1, <3>2
  <2>2. QED
    BY <1>4, <1>5, <2>1 DEF Preflights, g
<1>12. Reports(c)'
  <2>1. ASSUME NEW a \in Paths \ disturbed PROVE ReportTrue(c, a)'
    <3>1. g[a] = "COLLISION" /\ crashes = 0 => entry[a] # Absent /\ Bytes(a) # case.output[c][a]
      <4>1. CASE a = Path(c)
        BY <1>3, <4>1 DEF Mine
      <4>2. CASE a # Path(c)
        BY <1>3, <4>2 DEF CallerInv, Reports, ReportTrue, f
      <4>3. QED
        BY <4>1, <4>2
    <3>2. QED
      BY <1>4, <1>5, <1>7, <3>1 DEF ReportTrue, Report, g
  <2>2. QED
    BY <1>4, <1>5, <1>7, <2>1 DEF Reports, Report
<1>13. QED
  BY <1>9, <1>10, <1>11, <1>12 DEF CallerInv

(* So is the outcome for one member. *)
LEMMA PublishedKeeps ==
  ASSUME TypeOK, Names, Names', NEW c \in Callers, CallerInv(c),
         UNCHANGED <<case, entry, stable, place, settled, env>>,
         \A p \in Publishers : p # Me(c) => state'[p] = state[p],
         NEW s \in Done \cup {"COLLISION", "IO_ERROR"}, Published(c, s),
         caller[c].pc \in Publishing,
         s = "EMITTED" => state'[Me(c)] = "OK",
         s = "UNCHANGED" /\ Path(c) \notin disturbed => entry[Path(c)] # Absent /\ Bytes(Path(c)) = Mine(c),
         s = "COLLISION" =>
           /\ state'[Me(c)] = "EXISTS"
           /\ Path(c) \notin disturbed => entry[Path(c)] # Absent /\ Bytes(Path(c)) # Mine(c)
  PROVE  CallerInv(c)'
<1> DEFINE n == Len(Artifacts)
           i == caller[c].i
           f == caller[c].report
           g == caller'[c].report
<1>1. /\ caller' \in [Callers -> Locals] /\ Others(c) /\ g = [f EXCEPT ![Path(c)] = s]
      /\ caller'[c].preflight = caller[c].preflight /\ caller'[c].residue = caller[c].residue
      /\ \/ s = "IO_ERROR" /\ caller'[c].pc = "residue" /\ caller'[c].i = i
         \/ s = "COLLISION" /\ caller'[c].pc = "done" /\ caller'[c].i = i
         \/ s \in Done /\ i < n /\ caller'[c].pc = "write" /\ caller'[c].i = i + 1
         \/ s \in Done /\ i = n /\ caller'[c].pc = "done" /\ caller'[c].i = i
  BY PublishedFields
<1>2. /\ n \in Nat /\ n > 0 /\ i \in 1..n /\ Path(c) \in Paths /\ Path(c) = Artifacts[i]
      /\ f \in [Paths -> Status] /\ \A j \in 1..n : Artifacts[j] \in Paths
      /\ \A j \in 1..n : Artifacts[j] = Path(c) => j = i
      /\ \A a \in Paths : <<c, a>> \in Publishers
  BY MemberFacts DEF Locals, Path
<1>3. \A a \in Paths : g[a] = IF a = Path(c) THEN s ELSE f[a]
  BY <1>1, <1>2
<1>4. /\ UNCHANGED <<case, entry, stable, place, foreign, disturbed, crashes>>
      /\ \A a \in Paths : Bytes(a)' = Bytes(a)
      /\ \A a \in Paths : a # Path(c) => state'[<<c, a>>] = state[<<c, a>>]
  BY <1>2 DEF env, Bytes, Me
<1>5. ~caller'[c].residue
  BY <1>1 DEF CallerInv, Reports, Publishing
<1>6. /\ \A a \in Paths : caller[c].preflight[a] \in Good
      /\ \A j \in 1..n : /\ j < i => f[Artifacts[j]] \in Done
                         /\ j > i => state[<<c, Artifacts[j]>>] = "pending"
  BY DEF CallerInv, Stage, Report
<1>7. \A a \in Paths : f[a] # "IO_ERROR"
  BY DEF CallerInv, Reports, Publishing, Failing, Report
<1> HIDE DEF n, i, f, g
<1>8. Stage(c)'
  <2>1. CASE s = "IO_ERROR" /\ caller'[c].pc = "residue" /\ caller'[c].i = i
    BY <1>1, <1>6, <2>1 DEF Stage, At, Preparing, Publishing, Failing
  <2>2. CASE caller'[c].pc = "done"
    BY <2>2 DEF Stage, At, Preparing, Publishing, Failing
  <2>3. CASE s \in Done /\ i < n /\ caller'[c].pc = "write" /\ caller'[c].i = i + 1
    <3>1. ASSUME NEW j \in 1..n, j < i + 1 PROVE g[Artifacts[j]] \in Done
      <4>1. CASE j = i
        BY <1>2, <1>3, <2>3, <4>1
      <4>2. CASE j # i
        <5>1. j < i /\ Artifacts[j] # Path(c) /\ Artifacts[j] \in Paths
          BY <1>2, <3>1, <4>2
        <5>2. f[Artifacts[j]] \in Done
          BY <1>6, <5>1
        <5>3. QED
          BY <1>3, <5>1, <5>2
      <4>3. QED
        BY <4>1, <4>2
    <3>2. ASSUME NEW j \in 1..n, j > i PROVE state'[<<c, Artifacts[j]>>] = "pending"
      BY <1>2, <1>4, <1>6, <3>2
    <3>3. i + 1 \in 1..n /\ Me(c)' = <<c, Artifacts[i + 1]>>
      BY <1>2, <2>3 DEF Me, Path
    <3>4. state'[Me(c)'] = "pending"
      BY <1>2, <3>2, <3>3
    <3>5. \A j \in 1..n : /\ j < i + 1 => g[Artifacts[j]] \in Done
                          /\ j > i + 1 => state'[<<c, Artifacts[j]>>] = "pending"
      BY <1>2, <3>1, <3>2
    <3>6. ASSUME NEW j \in 1..Len(Artifacts)
          PROVE  /\ j < caller'[c].i => Report(c, Artifacts[j])' \in Done
                 /\ j > caller'[c].i => state'[<<c, Artifacts[j]>>] = "pending"
      <4>1. Report(c, Artifacts[j])' = g[Artifacts[j]] /\ j \in 1..n
        BY DEF Report, n, g
      <4>2. caller'[c].i = i + 1
        BY <2>3
      <4>3. /\ j < i + 1 => g[Artifacts[j]] \in Done
            /\ j > i + 1 => state'[<<c, Artifacts[j]>>] = "pending"
        BY <3>5, <4>1
      <4>4. QED
        BY <4>1, <4>2, <4>3
    <3>7. \A a \in Paths : caller'[c].preflight[a] \in Good
      BY <1>1, <1>6
    <3>8. QED
      BY <2>3, <3>4, <3>6, <3>7 DEF Stage, At, Preparing, Publishing, Failing
  <2>4. QED
    BY <1>1, <2>1, <2>2, <2>3
<1>9. Held(c)'
  BY <1>1 DEF Held, Viewing
<1>10. Preflights(c)'
  BY <1>1, <1>4 DEF CallerInv, Preflights, Live, Publishing
<1>11. ASSUME NEW a \in Paths \ disturbed PROVE ReportTrue(c, a)'
  <2>1. ReportTrue(c, a)
    BY DEF CallerInv, Reports
  <2>2. g[a] = "EMITTED" => entry[a] = <<c, a>> /\ stable[a] = <<c, a>>
    <3>1. CASE a # Path(c)
      BY <1>3, <2>1, <3>1 DEF ReportTrue, Report, f
    <3>2. CASE a = Path(c)
      <4>1. g[a] = "EMITTED" => state'[<<c, a>>] = "OK"
        BY <1>3, <3>2 DEF Me
      <4>2. <<c, a>> \in Publishers
        BY <1>2
      <4>3. QED
        BY <1>4, <4>1, <4>2 DEF Names
    <3>3. QED
      BY <3>1, <3>2
  <2>3. g[a] = "UNCHANGED" /\ crashes = 0 => entry[a] # Absent /\ Bytes(a) = case.output[c][a]
    BY <1>3, <2>1 DEF ReportTrue, Report, Mine, f
  <2>4. "COLLISION" \in {g[a], caller[c].preflight[a]} /\ crashes = 0 =>
          entry[a] # Absent /\ Bytes(a) # case.output[c][a]
    BY <1>3, <2>1 DEF ReportTrue, Report, Mine, f
  <2>5. caller'[c].pc = "done" => g[a] # "IO_ERROR"
    BY <1>1, <1>3, <1>7 DEF Done
  <2>6. QED
    BY <1>1, <1>4, <1>5, <2>2, <2>3, <2>4, <2>5 DEF ReportTrue, Report, At, g
<1>12. Reports(c)'
  <2>1. ASSUME NEW a \in Paths
        PROVE  /\ g[a] = "EMITTED" => state'[<<c, a>>] = "OK"
               /\ g[a] = "COLLISION" =>
                    /\ state'[<<c, a>>] = "EXISTS"
                    /\ a \notin disturbed => caller[c].preflight[a] = "MISSING"
               /\ g[a] = "IO_ERROR" => a = Path(c)' /\ caller'[c].pc = "residue"
    <3>1. CASE a = Path(c)
      <4>1. s = "COLLISION" /\ a \notin disturbed => caller[c].preflight[a] = "MISSING"
        <5>1. caller[c].preflight[a] \in Good
          BY <1>6
        <5>2. caller[c].preflight[a] = "UNCHANGED" /\ a \notin disturbed => Bytes(a) = Mine(c)
          BY <3>1 DEF CallerInv, Preflights, Live, Publishing, Mine
        <5>3. QED
          BY <3>1, <5>1, <5>2 DEF Good
      <4>2. s = "IO_ERROR" => a = Path(c)' /\ caller'[c].pc = "residue"
        BY <1>1, <3>1 DEF Path, Done, i
      <4>3. QED
        BY <1>3, <3>1, <4>1, <4>2 DEF Me
    <3>2. CASE a # Path(c)
      BY <1>3, <1>4, <1>7, <3>2 DEF CallerInv, Reports, Report, f
    <3>3. QED
      BY <3>1, <3>2
  <2>2. QED
    BY <1>1, <1>4, <1>5, <1>11, <2>1 DEF Reports, Report, Failing, g
<1>13. QED
  BY <1>8, <1>9, <1>10, <1>12 DEF CallerInv

----------------------------------------------------------------------------
(* The preflights. *)

(* The invariant before a step, and what the step has to leave. *)
Before(c) == TypeOK /\ Names /\ \A d \in Callers : CallerInv(d)
After(c) == TypeOK' /\ Names' /\ CallerInv(c)' /\ \A d \in Callers : d # c => Onward(d)

(* A caller that moves on without an outcome. *)
LEMMA MoveKeeps ==
  ASSUME NEW c \in Callers, Before(c), Quiet, Others(c), caller' \in [Callers -> Locals],
         <<caller[c].pc, caller'[c].pc>> \in
           {<<"idle", "preflight">>, <<"preflight", "preflightClose">>,
            <<"compare", "compareClose">>, <<"residue", "residueClose">>},
         caller'[c].i = caller[c].i, caller'[c].preflight = caller[c].preflight,
         caller'[c].report = caller[c].report, caller'[c].residue = caller[c].residue,
         caller'[c].pc \in Viewing =>
           entry[Path(c)] # Absent /\ caller'[c].view = Sample(Path(c))
  PROVE  After(c)
<1>1. TypeOK /\ Names /\ CallerInv(c)
  BY DEF Before
<1>2. /\ UNCHANGED <<case, entry, stable, state, place, foreign, settled, disturbed, crashes>>
      /\ TypeOK' /\ Names' /\ \A a \in Paths : Bytes(a)' = Bytes(a) /\ Sample(a)' = Sample(a)
      /\ \A d \in Callers : d # c => Onward(d)
  BY <1>1, QuietFacts DEF Quiet, names, env
<1>3. /\ Path(c)' = Path(c) /\ Me(c)' = Me(c) /\ Mine(c)' = Mine(c) /\ Path(c) \in Paths
      /\ \A a \in Paths : Report(c, a)' = Report(c, a)
  BY <1>1, <1>2, MemberFacts DEF Path, Me, Mine, Report
<1>4. \/ caller[c].pc = "idle" /\ caller'[c].pc = "preflight"
      \/ caller[c].pc = "preflight" /\ caller'[c].pc = "preflightClose"
      \/ caller[c].pc = "compare" /\ caller'[c].pc = "compareClose"
      \/ caller[c].pc = "residue" /\ caller'[c].pc = "residueClose"
  OBVIOUS
<1>5. Stage(c)'
  <2>1. Stage(c) /\ state' = state /\ caller'[c].i = caller[c].i
    BY <1>1, <1>2 DEF CallerInv
  <2>2. CASE caller[c].pc \in Preparing /\ caller'[c].pc \in Preparing \ {"idle"}
    BY <1>3, <2>1, <2>2 DEF Stage, At, Preparing, Publishing, Failing
  <2>3. CASE caller[c].pc = "compare" /\ caller'[c].pc = "compareClose"
    <3>1. /\ state[Me(c)] = "EXISTS"
          /\ \A a \in Paths : caller[c].preflight[a] \in Good
          /\ \A j \in 1..Len(Artifacts) :
               /\ j < caller[c].i => Report(c, Artifacts[j]) \in Done
               /\ j > caller[c].i => state[<<c, Artifacts[j]>>] = "pending"
      BY <2>1, <2>3 DEF Stage, At, Publishing
    <3>2. \A j \in 1..Len(Artifacts) : Report(c, Artifacts[j])' = Report(c, Artifacts[j])
      BY DEF Report
    <3>3. QED
      BY <1>3, <2>1, <2>3, <3>1, <3>2 DEF Stage, At, Preparing, Publishing, Failing
  <2>4. CASE caller[c].pc = "residue" /\ caller'[c].pc = "residueClose"
    BY <1>3, <2>1, <2>4 DEF Stage, At, Preparing, Publishing, Failing
  <2>5. QED
    BY <1>4, <2>2, <2>3, <2>4 DEF Preparing
<1>6. Held(c)'
  BY <1>1, <1>2, <1>3, SampleFacts DEF Held
<1>7. Preflights(c)'
  <2>1. CASE caller[c].pc = "idle"
    <3>1. \A a \in Paths \ disturbed : caller[c].preflight[a] # "UNCHANGED"
      BY <1>1, <2>1 DEF CallerInv, Stage, At
    <3>2. QED
      BY <1>1, <1>2, <3>1 DEF CallerInv, Preflights
  <2>2. CASE caller[c].pc # "idle"
    BY <1>1, <1>2, <1>4, <2>2 DEF CallerInv, Preflights, Live
  <2>3. QED
    BY <2>1, <2>2
<1>8. Reports(c)'
  <2>1. \A a \in Paths \ disturbed : ReportTrue(c, a)'
    BY <1>1, <1>2, <1>3, <1>4 DEF CallerInv, Reports, ReportTrue, At
  <2>2. QED
    BY <1>1, <1>2, <1>3, <1>4, <2>1 DEF CallerInv, Reports, Failing
<1>9. QED
  BY <1>2, <1>5, <1>6, <1>7, <1>8 DEF After, CallerInv

LEMMA BeginKeeps ==
  ASSUME NEW c \in Callers, Before(c), Begin(c)
  PROVE  After(c)
<1>1. TypeOK /\ Names /\ CallerInv(c) /\ Quiet /\ At(c, "idle") /\ Goto(c, "preflight")
  BY DEF Before, Begin, Quiet
<1>2. /\ caller' \in [Callers -> Locals] /\ Others(c)
      /\ caller'[c].pc = "preflight" /\ caller'[c].i = caller[c].i
      /\ caller'[c].preflight = caller[c].preflight
      /\ caller'[c].report = caller[c].report /\ caller'[c].residue = caller[c].residue
  BY <1>1, GotoFields DEF Labels
<1>3. QED
  BY <1>1, <1>2, MoveKeeps DEF At, Viewing

(* A view that opens; what it shows is what is there. *)
LEMMA OpenKeeps ==
  ASSUME NEW c \in Callers, Before(c), Quiet, NEW label, ViewOpens(c, label),
         <<caller[c].pc, label>> \in
           {<<"preflight", "preflightClose">>, <<"compare", "compareClose">>, <<"residue", "residueClose">>}
  PROVE  After(c)
<1>1. TypeOK /\ label \in Labels
  BY DEF Before, Labels
<1>2. /\ caller' \in [Callers -> Locals] /\ Others(c)
      /\ entry[Path(c)] # Absent
      /\ caller'[c].pc = label /\ caller'[c].i = caller[c].i
      /\ caller'[c].view = Sample(Path(c))
      /\ caller'[c].preflight = caller[c].preflight
      /\ caller'[c].report = caller[c].report /\ caller'[c].residue = caller[c].residue
  BY <1>1, ViewFields
<1>3. QED
  BY <1>2, MoveKeeps

(* A view that is intact when it closes is right about a file that is there. *)
LEMMA IntactView ==
  ASSUME NEW c \in Callers, Before(c), caller[c].pc \in Viewing, Path(c) \notin disturbed
  PROVE  /\ entry[Path(c)] # Absent
         /\ ViewEqual(c) <=> Bytes(Path(c)) = Mine(c)
<1>1. /\ caller[c].view \in Samples
      /\ caller[c].view[1] = entry[Path(c)] /\ caller[c].view[2] = Bytes(Path(c))
  BY DEF Before, CallerInv, Held
<1>2. entry[Path(c)] # Absent
  BY <1>1, OutputAssumption DEF Samples, Publishers
<1>3. QED
  BY <1>1, <1>2 DEF ViewEqual

LEMMA PreflightKeeps ==
  ASSUME NEW c \in Callers, Before(c), Preflight(c)
  PROVE  After(c)
<1>1. TypeOK /\ Names /\ CallerInv(c) /\ Quiet /\ caller[c].pc = "preflight"
  BY DEF Before, Preflight, Quiet, At
<1>2. CASE ViewOpens(c, "preflightClose")
  BY <1>1, <1>2, OpenKeeps
<1>3. ASSUME NEW s \in {"MISSING", "IO_ERROR"}, Preflighted(c, s),
             s = "MISSING" => entry[Path(c)] = Absent
      PROVE  After(c)
  <2>1. s \in Good \cup {"COLLISION", "IO_ERROR"} /\ s # "UNCHANGED" /\ s # "COLLISION"
    BY <1>3 DEF Good
  <2>2. CallerInv(c)'
    BY <1>1, <1>3, <2>1, PreflightedKeeps
  <2>3. caller' \in [Callers -> Locals] /\ Others(c)
    BY <1>1, <1>3, <2>1, PreflightedFields
  <2>4. QED
    BY <1>1, <2>2, <2>3, QuietFacts DEF After
<1>4. QED
  BY <1>2, <1>3 DEF Preflight

LEMMA PreflightCloseKeeps ==
  ASSUME NEW c \in Callers, Before(c), PreflightClose(c)
  PROVE  After(c)
<1>1. TypeOK /\ Names /\ CallerInv(c) /\ Quiet /\ caller[c].pc = "preflightClose"
  BY DEF Before, PreflightClose, Quiet, At
<1>2. PICK s \in {"UNCHANGED", "COLLISION", "IO_ERROR"} :
        /\ Preflighted(c, s)
        /\ s # "IO_ERROR" => (ViewEqual(c) <=> s = "UNCHANGED")
  BY DEF PreflightClose
<1>3. Path(c) \notin disturbed =>
        entry[Path(c)] # Absent /\ (ViewEqual(c) <=> Bytes(Path(c)) = Mine(c))
  BY <1>1, IntactView DEF Viewing
<1>4. s \in Good \cup {"COLLISION", "IO_ERROR"} /\ s # "MISSING"
  BY <1>2 DEF Good
<1>5. CallerInv(c)'
  BY <1>1, <1>2, <1>3, <1>4, PreflightedKeeps
<1>6. caller' \in [Callers -> Locals] /\ Others(c)
  BY <1>1, <1>2, <1>4, PreflightedFields
<1>7. QED
  BY <1>1, <1>5, <1>6, QuietFacts DEF After

----------------------------------------------------------------------------
(* The file that is there when a write finds the name taken. *)

(* An outcome without another step on the names. *)
LEMMA OutcomeKeeps ==
  ASSUME NEW c \in Callers, Before(c), Quiet, NEW s \in {"UNCHANGED", "COLLISION", "IO_ERROR"},
         Published(c, s), caller[c].pc \in {"compare", "compareClose"},
         s # "IO_ERROR" /\ Path(c) \notin disturbed =>
           /\ entry[Path(c)] # Absent
           /\ s = "UNCHANGED" <=> Bytes(Path(c)) = Mine(c)
  PROVE  After(c)
<1>1. TypeOK /\ Names /\ CallerInv(c) /\ caller[c].pc \in Publishing
  BY DEF Before, Publishing
<1>2. s \in Done \cup {"COLLISION", "IO_ERROR"} /\ s # "EMITTED"
  BY DEF Done
<1>3. caller' \in [Callers -> Locals] /\ Others(c)
  BY <1>1, <1>2, PublishedFields
<1>4. TypeOK' /\ Names' /\ \A d \in Callers : d # c => Onward(d)
  BY <1>1, <1>3, QuietFacts
<1>5. state' = state /\ UNCHANGED <<case, entry, stable, place, settled, env>>
  BY DEF Quiet, names
<1>6. state'[Me(c)] = "EXISTS"
  BY <1>1, <1>5 DEF CallerInv, Stage
<1>7. CallerInv(c)'
  BY <1>1, <1>2, <1>4, <1>5, <1>6, PublishedKeeps
<1>8. QED
  BY <1>4, <1>7 DEF After

LEMMA CompareKeeps ==
  ASSUME NEW c \in Callers, Before(c), Compare(c)
  PROVE  After(c)
<1>1. Quiet /\ caller[c].pc = "compare"
  BY DEF Compare, Quiet, At
<1>2. CASE ViewOpens(c, "compareClose")
  BY <1>1, <1>2, OpenKeeps
<1>3. CASE Published(c, "IO_ERROR")
  BY <1>1, <1>3, OutcomeKeeps
<1>4. QED
  BY <1>2, <1>3 DEF Compare

LEMMA CompareCloseKeeps ==
  ASSUME NEW c \in Callers, Before(c), CompareClose(c)
  PROVE  After(c)
<1>1. Quiet /\ caller[c].pc = "compareClose"
  BY DEF CompareClose, Quiet, At
<1>2. PICK s \in {"UNCHANGED", "COLLISION", "IO_ERROR"} :
        /\ Published(c, s)
        /\ s # "IO_ERROR" => (ViewEqual(c) <=> s = "UNCHANGED")
  BY DEF CompareClose
<1>3. Path(c) \notin disturbed =>
        entry[Path(c)] # Absent /\ (ViewEqual(c) <=> Bytes(Path(c)) = Mine(c))
  BY <1>1, IntactView DEF Viewing
<1>4. QED
  BY <1>1, <1>2, <1>3, OutcomeKeeps

----------------------------------------------------------------------------
(* The question whether a failed member left its file behind. *)

(* An answer that is right about this name ends the run. *)
LEMMA ResidueKeeps ==
  ASSUME NEW c \in Callers, Before(c), Quiet, NEW answer \in BOOLEAN, Residue(c, answer),
         caller[c].pc \in Failing,
         Path(c) \notin disturbed =>
           /\ answer => entry[Path(c)] # Absent /\ Bytes(Path(c)) = Mine(c)
           /\ entry[Path(c)] = Me(c) => answer \/ ViewFaults
  PROVE  After(c)
<1>1. TypeOK /\ Names /\ CallerInv(c)
  BY DEF Before
<1>2. /\ caller' \in [Callers -> Locals] /\ Others(c)
      /\ caller'[c].pc = "done" /\ caller'[c].i = caller[c].i
      /\ caller'[c].preflight = caller[c].preflight
      /\ caller'[c].report = caller[c].report /\ caller'[c].residue = answer
  BY <1>1, ResidueFields
<1>3. /\ UNCHANGED <<case, entry, stable, state, place, foreign, settled, disturbed, crashes>>
      /\ TypeOK' /\ Names' /\ \A a \in Paths : Bytes(a)' = Bytes(a)
      /\ \A d \in Callers : d # c => Onward(d)
  BY <1>1, <1>2, QuietFacts DEF Quiet, names, env
<1>4. /\ Path(c)' = Path(c) /\ Mine(c)' = Mine(c) /\ Path(c) \in Paths
      /\ \A a \in Paths : Report(c, a)' = Report(c, a)
  BY <1>1, <1>2, <1>3, MemberFacts DEF Path, Mine, Report
<1>5. Stage(c)' /\ Held(c)'
  BY <1>2 DEF Stage, Held, Viewing, At, Preparing, Publishing, Failing
<1>6. Preflights(c)'
  BY <1>1, <1>2, <1>3 DEF CallerInv, Preflights, Live
<1>7. \A a \in Paths : Report(c, a) = "IO_ERROR" => a = Path(c)
  BY <1>1 DEF CallerInv, Reports
<1>8. ASSUME NEW a \in Paths \ disturbed PROVE ReportTrue(c, a)'
  <2>1. ReportTrue(c, a)
    BY <1>1 DEF CallerInv, Reports
  <2>2. Report(c, a) = "IO_ERROR" /\ entry[a] = <<c, a>> => answer \/ ViewFaults
    BY <1>7 DEF Me
  <2>3. answer /\ a = Path(c) => entry[a] # Absent /\ Bytes(a) = Mine(c)
    OBVIOUS
  <2>4. QED
    BY <1>2, <1>3, <1>4, <2>1, <2>2, <2>3 DEF ReportTrue
<1>9. Reports(c)'
  BY <1>1, <1>2, <1>3, <1>4, <1>8 DEF CallerInv, Reports
<1>10. QED
  BY <1>3, <1>5, <1>6, <1>9 DEF After, CallerInv

LEMMA CheckResidueKeeps ==
  ASSUME NEW c \in Callers, Before(c), CheckResidue(c)
  PROVE  After(c)
<1>1. Quiet /\ caller[c].pc = "residue" /\ TypeOK /\ Names /\ CallerInv(c)
  BY DEF CheckResidue, Quiet, At, Before
<1>2. CASE ViewOpens(c, "residueClose")
  BY <1>1, <1>2, OpenKeeps
<1>3. CASE /\ \/ caller[c].preflight[Path(c)] # "MISSING"
              \/ entry[Path(c)] = Absent
              \/ ViewFaults
           /\ Residue(c, FALSE)
  <2>1. Me(c) \in Publishers /\ Path(c) \in Paths /\ Me(c) # Absent /\ Me(c) = <<c, Path(c)>>
    BY <1>1, MemberFacts, OutputAssumption DEF Publishers, Me
  <2>2. ASSUME Path(c) \notin disturbed, entry[Path(c)] = Me(c) PROVE ViewFaults
    <3>1. place[Me(c)] # NoDir
      BY <1>1, <2>1, <2>2, OutputAssumption DEF Names
    <3>2. caller[c].preflight[Path(c)] = "MISSING"
      BY <1>1, <2>1, <2>2, <3>1 DEF CallerInv, Preflights
    <3>3. QED
      BY <1>3, <2>1, <2>2, <3>2
  <2>3. QED
    BY <1>1, <1>3, <2>2, ResidueKeeps DEF Failing
<1>4. QED
  BY <1>2, <1>3 DEF CheckResidue

LEMMA ResidueCloseKeeps ==
  ASSUME NEW c \in Callers, Before(c), ResidueClose(c)
  PROVE  After(c)
<1>1. Quiet /\ caller[c].pc = "residueClose" /\ TypeOK /\ Names /\ CallerInv(c)
  BY DEF ResidueClose, Quiet, At, Before
<1>2. PICK answer \in BOOLEAN :
        /\ Residue(c, answer)
        /\ answer => ViewEqual(c)
        /\ ~answer => ViewFaults \/ ~(ViewIntact(c) /\ ViewEqual(c))
  <2>1. CASE Residue(c, ViewIntact(c) /\ ViewEqual(c))
    BY <2>1
  <2>2. CASE ViewFaults /\ Residue(c, FALSE)
    BY <2>2
  <2>3. QED
    BY <2>1, <2>2 DEF ResidueClose
<1>3. ASSUME Path(c) \notin disturbed
      PROVE  /\ answer => entry[Path(c)] # Absent /\ Bytes(Path(c)) = Mine(c)
             /\ entry[Path(c)] = Me(c) => answer \/ ViewFaults
  <2>1. entry[Path(c)] # Absent /\ (ViewEqual(c) <=> Bytes(Path(c)) = Mine(c))
    BY <1>1, <1>3, IntactView DEF Viewing
  <2>2. ASSUME entry[Path(c)] = Me(c) PROVE ViewIntact(c) /\ ViewEqual(c)
    <3>1. ViewIntact(c)
      BY <1>1, <1>3, <2>2 DEF CallerInv, Held, Viewing, ViewIntact
    <3>2. Me(c) \in Publishers /\ Me(c)[1] = c
      BY <1>1, MemberFacts DEF Me
    <3>3. Bytes(Path(c)) = Mine(c)
      BY <2>2, <3>2 DEF Bytes, Mine
    <3>4. QED
      BY <2>1, <3>1, <3>3
  <2>3. QED
    BY <1>2, <2>1, <2>2
<1>4. QED
  BY <1>1, <1>2, <1>3, ResidueKeeps DEF Failing

----------------------------------------------------------------------------
(* The write. *)

(* A call that gets further, its file staying where it is. *)
LEMMA BecomeFacts ==
  ASSUME NEW c \in Callers, Before(c), NEW t \in Name!State \ {"pending", "placed"},
         Name!Become(Me(c), t), UNCHANGED <<case, entry, stable, place, settled, env>>,
         Others(c), caller' \in [Callers -> Locals],
         t \in {"refused", "EXISTS"} => place[Me(c)] = NoDir,
         t = "committed" => place[Me(c)] = Path(c),
         t \in {"committed", "OK"} /\ Path(c) \notin disturbed =>
           entry[Path(c)] = Me(c) /\ stable[Path(c)] = Me(c)
  PROVE  /\ TypeOK' /\ Names' /\ \A d \in Callers : d # c => Onward(d)
         /\ state'[Me(c)] = t /\ \A p \in Publishers : p # Me(c) => state'[p] = state[p]
<1>1. TypeOK /\ Names /\ Me(c) \in Publishers /\ Me(c)[2] = Path(c) /\ Me(c)[1] = c
  BY MemberFacts DEF Before, Me
<1>2. UNCHANGED <<case, entry, stable, place, settled, foreign, disturbed, changes, crashes>>
  BY DEF env
<1>3. /\ state' \in [Publishers -> Name!State]
      /\ state'[Me(c)] = t /\ \A p \in Publishers : p # Me(c) => state'[p] = state[p]
  BY <1>1 DEF TypeOK, Name!Become
<1>4. TypeOK'
  BY <1>1, <1>2, <1>3 DEF TypeOK
<1>5. ASSUME NEW p \in Publishers
      PROVE  /\ state'[p] \in {"pending", "refused", "EXISTS"} => place[p] = NoDir
             /\ state'[p] \in {"placed", "committed"} => place[p] = p[2]
             /\ state'[p] \in {"committed", "OK"} /\ p[2] \notin disturbed =>
                  entry[p[2]] = p /\ stable[p[2]] = p
  <2>1. CASE p = Me(c)
    BY <1>1, <1>3, <2>1
  <2>2. CASE p # Me(c)
    BY <1>1, <1>3, <2>2 DEF Names
  <2>3. QED
    BY <2>1, <2>2
<1>6. Names'
  BY <1>1, <1>2, <1>5 DEF Names
<1>7. ASSUME NEW d \in Callers, d # c PROVE Onward(d)
  <2>1. \A a \in Paths : <<d, a>> \in Publishers /\ <<d, a>> # Me(c)
    BY <1>7 DEF Publishers, Me
  <2>2. QED
    BY <1>2, <1>3, <1>7, <2>1 DEF Onward, Others
<1>8. QED
  BY <1>3, <1>4, <1>6, <1>7

(* On to the next call, without an outcome yet. *)
LEMMA AdvanceKeeps ==
  ASSUME NEW c \in Callers, Before(c), NEW label, Goto(c, label),
         NEW t \in {"refused", "committed", "EXISTS"},
         \/ caller[c].pc = "write" /\ label = "answer" /\ t = "refused"
         \/ caller[c].pc = "commit" /\ label = "answer" /\ t = "committed"
         \/ caller[c].pc = "answer" /\ label = "compare" /\ t = "EXISTS",
         Name!Become(Me(c), t), UNCHANGED <<case, entry, stable, place, settled, env>>,
         t \in {"refused", "EXISTS"} => place[Me(c)] = NoDir,
         t = "committed" => place[Me(c)] = Path(c) /\ entry[Path(c)] = Me(c) /\ stable[Path(c)] = Me(c)
  PROVE  After(c)
<1>1. TypeOK /\ Names /\ CallerInv(c) /\ label \in Labels
  BY DEF Before, Labels
<1>2. /\ caller' \in [Callers -> Locals] /\ Others(c)
      /\ caller'[c].pc = label /\ caller'[c].i = caller[c].i
      /\ caller'[c].preflight = caller[c].preflight
      /\ caller'[c].report = caller[c].report /\ caller'[c].residue = caller[c].residue
  BY <1>1, GotoFields
<1>3. t \in Name!State \ {"pending", "placed"}
  BY DEF Name!State
<1>4. /\ TypeOK' /\ Names' /\ \A d \in Callers : d # c => Onward(d)
      /\ state'[Me(c)] = t /\ \A p \in Publishers : p # Me(c) => state'[p] = state[p]
  BY <1>1, <1>2, <1>3, BecomeFacts
<1>5. /\ UNCHANGED <<case, entry, stable, place, foreign, disturbed, crashes>>
      /\ \A a \in Paths : Bytes(a)' = Bytes(a)
  BY DEF env, Bytes
<1>6. /\ Path(c)' = Path(c) /\ Me(c)' = Me(c) /\ Mine(c)' = Mine(c) /\ Path(c) \in Paths
      /\ \A a \in Paths : Report(c, a)' = Report(c, a)
      /\ \A a \in Paths : a # Path(c) => state'[<<c, a>>] = state[<<c, a>>]
  BY <1>1, <1>2, <1>4, <1>5, MemberFacts DEF Path, Me, Mine, Report
<1>7. caller[c].pc \in {"write", "commit", "answer"} /\ label \in {"answer", "compare"}
  OBVIOUS
<1>8. state[Me(c)] \notin {"OK", "EXISTS"}
  BY <1>1, <1>7 DEF CallerInv, Stage, At
<1>9. Stage(c)'
  <2>1. /\ \A a \in Paths : caller[c].preflight[a] \in Good
        /\ \A j \in 1..Len(Artifacts) :
             /\ j < caller[c].i => Report(c, Artifacts[j]) \in Done
             /\ j > caller[c].i => state[<<c, Artifacts[j]>>] = "pending"
    BY <1>1, <1>7 DEF CallerInv, Stage, Publishing
  <2>2. ASSUME NEW j \in 1..Len(Artifacts)
        PROVE  /\ j < caller[c].i => Report(c, Artifacts[j])' \in Done
               /\ j > caller[c].i => state'[<<c, Artifacts[j]>>] = "pending"
    <3>1. Artifacts[j] \in Paths /\ (Artifacts[j] = Path(c) => j = caller[c].i)
      BY <1>1, MemberFacts
    <3>2. caller[c].i \in Nat /\ j \in Nat
      BY <1>1, MemberFacts
    <3>3. QED
      BY <1>6, <2>1, <3>1, <3>2
  <2>3. \/ caller'[c].pc = "answer" /\ t \in {"refused", "committed"}
        \/ caller'[c].pc = "compare" /\ t = "EXISTS"
    <3>1. \/ label = "answer" /\ t # "EXISTS"
          \/ label = "compare" /\ t = "EXISTS"
      OBVIOUS
    <3>2. QED
      BY <1>2, <3>1
  <2>4. QED
    BY <1>2, <1>4, <1>6, <2>1, <2>2, <2>3 DEF Stage, At, Preparing, Publishing, Failing
<1>10. Held(c)'
  BY <1>2, <1>7 DEF Held, Viewing
<1>11. Preflights(c)'
  BY <1>1, <1>2, <1>5, <1>7 DEF CallerInv, Preflights, Live
<1>12. Reports(c)'
  <2>1. \A a \in Paths \ disturbed : ReportTrue(c, a)'
    <3>1. ASSUME NEW a \in Paths, ReportTrue(c, a)
          PROVE  ReportTrue(c, a)'
      <4>1. caller'[c].pc # "done"
        BY <1>2, <1>7
      <4>2. Report(c, a)' = Report(c, a) /\ Bytes(a)' = Bytes(a)
        BY <1>5, <1>6
      <4>3. QED
        BY <1>2, <1>5, <3>1, <4>1, <4>2 DEF ReportTrue, At
    <3>2. \A a \in Paths \ disturbed : ReportTrue(c, a)
      BY <1>1 DEF CallerInv, Reports
    <3>3. QED
      BY <3>1, <3>2
  <2>2. \A a \in Paths : Report(c, a) \in {"EMITTED", "COLLISION"} => a # Path(c)
    BY <1>1, <1>8 DEF CallerInv, Reports, Me
  <2>3. \A a \in Paths : Report(c, a) # "IO_ERROR"
    BY <1>1, <1>7 DEF CallerInv, Reports, Failing
  <2>4. ~caller[c].residue
    BY <1>1, <1>7 DEF CallerInv, Reports
  <2>5. QED
    BY <1>1, <1>2, <1>5, <1>6, <2>1, <2>2, <2>3, <2>4 DEF CallerInv, Reports
<1>13. QED
  BY <1>4, <1>9, <1>10, <1>11, <1>12 DEF After, CallerInv

(* A failure, or the answer OK. *)
LEMMA EndsKeeps ==
  ASSUME NEW c \in Callers, Before(c), caller[c].pc \in {"write", "commit", "answer"},
         NEW t, NEW s, <<t, s>> \in {<<"failed", "IO_ERROR">>, <<"OK", "EMITTED">>},
         t = "OK" => state[Me(c)] = "committed",
         Name!Become(Me(c), t), Published(c, s), UNCHANGED <<case, entry, stable, place, settled, env>>
  PROVE  After(c)
<1>1. TypeOK /\ Names /\ CallerInv(c) /\ caller[c].pc \in Publishing
  BY DEF Before, Publishing
<1>2. /\ s \in Done \cup {"COLLISION", "IO_ERROR"} /\ s # "UNCHANGED" /\ s # "COLLISION"
      /\ t \in Name!State \ {"pending", "placed"} /\ t \in {"failed", "OK"}
      /\ s = "EMITTED" => t = "OK"
  BY DEF Done, Name!State
<1>3. caller' \in [Callers -> Locals] /\ Others(c)
  BY <1>1, <1>2, PublishedFields
<1>4. t = "OK" /\ Path(c) \notin disturbed => entry[Path(c)] = Me(c) /\ stable[Path(c)] = Me(c)
  BY <1>1, MemberFacts DEF Names
<1>5. /\ TypeOK' /\ Names' /\ \A d \in Callers : d # c => Onward(d)
      /\ state'[Me(c)] = t /\ \A p \in Publishers : p # Me(c) => state'[p] = state[p]
  BY <1>1, <1>2, <1>3, <1>4, BecomeFacts
<1>6. CallerInv(c)'
  BY <1>1, <1>2, <1>5, PublishedKeeps
<1>7. QED
  BY <1>5, <1>6 DEF After

(* The file appears under a free name. *)
LEMMA PlaceFacts ==
  ASSUME NEW c \in Callers, Before(c), Name!Place(Me(c), Path(c)), UNCHANGED <<case, settled, env>>,
         state[Me(c)] = "pending", Others(c), caller' \in [Callers -> Locals]
  PROVE  /\ TypeOK' /\ Names' /\ \A d \in Callers : d # c => Onward(d)
         /\ entry[Path(c)] = Absent /\ entry'[Path(c)] = Me(c) /\ state'[Me(c)] = "placed"
         /\ \A p \in Publishers : p # Me(c) => state'[p] = state[p] /\ place'[p] = place[p]
         /\ \A a \in Paths : a # Path(c) => entry'[a] = entry[a]
         /\ stable' = stable
<1>1. TypeOK /\ Names /\ Me(c) \in Publishers /\ Path(c) \in Paths /\ Me(c)[2] = Path(c) /\ Me(c)[1] = c
      /\ Me(c) # Absent /\ Me(c) # Foreign
  BY MemberFacts, OutputAssumption DEF Before, Me, Publishers
<1>2. UNCHANGED <<case, stable, settled, foreign, disturbed, changes, crashes>>
  BY DEF env, Name!Place
<1>3. /\ state' \in [Publishers -> Name!State]
      /\ state'[Me(c)] = "placed" /\ \A p \in Publishers : p # Me(c) => state'[p] = state[p]
  BY <1>1 DEF TypeOK, Name!Place, Name!Become, Name!State
<1>4. /\ place' \in [Publishers -> Paths \cup {NoDir}]
      /\ place'[Me(c)] = Path(c) /\ \A p \in Publishers : p # Me(c) => place'[p] = place[p]
  BY <1>1 DEF TypeOK, Name!Place
<1>5. /\ entry' \in [Paths -> Publishers \cup {Absent, Foreign}] /\ entry[Path(c)] = Absent
      /\ entry'[Path(c)] = Me(c) /\ \A a \in Paths : a # Path(c) => entry'[a] = entry[a]
  BY <1>1 DEF TypeOK, Name!Place
<1>6. TypeOK'
  BY <1>1, <1>2, <1>3, <1>4, <1>5 DEF TypeOK
<1>7. place[Me(c)] = NoDir /\ \A a \in Paths : Me(c) \notin {entry[a], stable[a]}
  <2>1. place[Me(c)] = NoDir
    BY <1>1 DEF Names
  <2>2. QED
    BY <1>1, <2>1, OutputAssumption DEF Names
<1>8. ASSUME NEW p \in Publishers, NEW a \in Paths, p \in {entry'[a], stable'[a]}
      PROVE  p[2] = a /\ place'[p] = a
  <2>1. CASE p = Me(c)
    <3>1. a = Path(c)
      BY <1>2, <1>5, <1>7, <1>8, <2>1
    <3>2. QED
      BY <1>1, <1>4, <2>1, <3>1
  <2>2. CASE p # Me(c)
    <3>1. p \in {entry[a], stable[a]}
      BY <1>2, <1>5, <1>8, <2>2
    <3>2. QED
      BY <1>1, <1>4, <2>2, <3>1 DEF Names
  <2>3. QED
    BY <2>1, <2>2
<1>9. ASSUME NEW p \in Publishers
      PROVE  /\ state'[p] \in {"pending", "refused", "EXISTS"} => place'[p] = NoDir
             /\ state'[p] \in {"placed", "committed"} => place'[p] = p[2]
             /\ state'[p] \in {"committed", "OK"} /\ p[2] \notin disturbed =>
                  entry'[p[2]] = p /\ stable[p[2]] = p
  <2>1. CASE p = Me(c)
    BY <1>1, <1>3, <1>4, <2>1
  <2>2. CASE p # Me(c)
    <3>1. /\ state'[p] = state[p] /\ place'[p] = place[p]
          /\ state[p] \in {"pending", "refused", "EXISTS"} => place[p] = NoDir
          /\ state[p] \in {"placed", "committed"} => place[p] = p[2]
      BY <1>1, <1>3, <1>4, <2>2 DEF Names
    <3>2. ASSUME state[p] \in {"committed", "OK"}, p[2] \notin disturbed
          PROVE  entry'[p[2]] = p /\ stable[p[2]] = p
      <4>1. entry[p[2]] = p /\ stable[p[2]] = p /\ p[2] \in Paths /\ p # Absent
        BY <1>1, <3>2, OutputAssumption DEF Names, Publishers
      <4>2. QED
        BY <1>5, <4>1
    <3>3. QED
      BY <3>1, <3>2
  <2>3. QED
    BY <2>1, <2>2
<1>10. ASSUME NEW a \in Paths \ disturbed
       PROVE  stable[a] \in {Absent, entry'[a]} /\ (entry'[a] = Foreign => stable[a] = Foreign)
  <2>1. stable[a] \in {Absent, entry[a]} /\ (entry[a] = Foreign => stable[a] = Foreign)
    BY <1>1 DEF Names
  <2>2. QED
    BY <1>1, <1>5, <2>1
<1>11. Names'
  BY <1>2, <1>8, <1>9, <1>10 DEF Names
<1>12. ASSUME NEW d \in Callers, d # c PROVE Onward(d)
  <2>1. \A a \in Paths : <<d, a>> \in Publishers /\ <<d, a>> # Me(c)
    BY <1>12 DEF Publishers, Me
  <2>2. \A a \in Paths :
          entry'[a] = entry[a] \/ (entry[a] = Absent /\ entry'[a] \in Publishers \ {<<d, a>>})
    BY <1>1, <1>5, <2>1
  <2>3. QED
    BY <1>2, <1>3, <1>4, <1>12, <2>1, <2>2 DEF Onward, Others
<1>13. QED
  BY <1>2, <1>3, <1>4, <1>5, <1>6, <1>11, <1>12

(* The name was free although no other program freed it: nothing had been
   found under it, and nothing been answered about it. *)
LEMMA FreeName ==
  ASSUME NEW c \in Callers, Before(c), caller[c].pc = "write", entry[Path(c)] = Absent, Path(c) \notin disturbed
  PROVE  /\ caller[c].preflight[Path(c)] = "MISSING"
         /\ Report(c, Path(c)) # "EMITTED"
         /\ crashes = 0 => Report(c, Path(c)) \notin {"UNCHANGED", "COLLISION"}
<1>1. /\ TypeOK /\ CallerInv(c) /\ Path(c) \in Paths
  BY MemberFacts DEF Before
<1>2. caller[c].preflight[Path(c)] \in Good /\ Live(c)
  BY <1>1 DEF CallerInv, Stage, Publishing, Live
<1>3. caller[c].preflight[Path(c)] # "UNCHANGED"
  BY <1>1, <1>2 DEF CallerInv, Preflights
<1>4. ReportTrue(c, Path(c)) /\ <<c, Path(c)>> # Absent
  <2>1. <<c, Path(c)>> \in Callers \X Paths
    BY <1>1
  <2>2. QED
    BY <1>1, <2>1, OutputAssumption DEF CallerInv, Reports
<1>5. QED
  BY <1>2, <1>3, <1>4 DEF Good, ReportTrue

LEMMA PlaceKeeps ==
  ASSUME NEW c \in Callers, Before(c), caller[c].pc = "write",
         Name!Place(Me(c), Path(c)), Goto(c, "commit"), UNCHANGED <<case, settled, env>>
  PROVE  After(c)
<1>1. TypeOK /\ Names /\ CallerInv(c) /\ "commit" \in Labels
  BY DEF Before, Labels
<1>2. /\ caller' \in [Callers -> Locals] /\ Others(c)
      /\ caller'[c].pc = "commit" /\ caller'[c].i = caller[c].i
      /\ caller'[c].preflight = caller[c].preflight
      /\ caller'[c].report = caller[c].report /\ caller'[c].residue = caller[c].residue
  BY <1>1, GotoFields
<1>3. state[Me(c)] = "pending"
  BY <1>1 DEF CallerInv, Stage, At
<1>4. /\ TypeOK' /\ Names' /\ \A d \in Callers : d # c => Onward(d)
      /\ entry[Path(c)] = Absent /\ entry'[Path(c)] = Me(c) /\ state'[Me(c)] = "placed"
      /\ \A p \in Publishers : p # Me(c) => state'[p] = state[p] /\ place'[p] = place[p]
      /\ \A a \in Paths : a # Path(c) => entry'[a] = entry[a]
      /\ stable' = stable
  BY <1>1, <1>2, <1>3, PlaceFacts
<1>5. /\ UNCHANGED <<case, foreign, disturbed, crashes>>
      /\ \A a \in Paths : a # Path(c) => Bytes(a)' = Bytes(a)
  BY <1>4 DEF env, Bytes
<1>6. /\ Path(c)' = Path(c) /\ Me(c)' = Me(c) /\ Path(c) \in Paths
      /\ \A a \in Paths : Report(c, a)' = Report(c, a)
      /\ \A a \in Paths : a # Path(c) =>
           state'[<<c, a>>] = state[<<c, a>>] /\ place'[<<c, a>>] = place[<<c, a>>]
  BY <1>1, <1>2, <1>4, <1>5, MemberFacts DEF Path, Me, Report
<1>7. /\ \A a \in Paths : caller[c].preflight[a] \in Good
      /\ \A j \in 1..Len(Artifacts) :
           /\ j < caller[c].i => Report(c, Artifacts[j]) \in Done
           /\ j > caller[c].i => state[<<c, Artifacts[j]>>] = "pending"
  BY <1>1 DEF CallerInv, Stage, Publishing
<1>8. Stage(c)'
  <2>1. ASSUME NEW j \in 1..Len(Artifacts)
        PROVE  /\ j < caller[c].i => Report(c, Artifacts[j])' \in Done
               /\ j > caller[c].i => state'[<<c, Artifacts[j]>>] = "pending"
    <3>1. Artifacts[j] \in Paths /\ (Artifacts[j] = Path(c) => j = caller[c].i)
      BY <1>1, MemberFacts
    <3>2. caller[c].i \in Nat /\ j \in Nat
      BY <1>1, MemberFacts
    <3>3. QED
      BY <1>6, <1>7, <3>1, <3>2
  <2>2. QED
    BY <1>2, <1>4, <1>6, <1>7, <2>1 DEF Stage, At, Preparing, Publishing, Failing
<1>9. Held(c)'
  BY <1>2 DEF Held, Viewing
<1>10. Path(c) \notin disturbed => caller[c].preflight[Path(c)] = "MISSING"
  BY <1>4, FreeName
<1>11. Preflights(c)'
  <2>1. ASSUME NEW a \in Paths \ disturbed
        PROVE  /\ caller[c].preflight[a] = "UNCHANGED" =>
                    entry'[a] # Absent /\ Bytes(a)' = case.output[c][a]
               /\ caller[c].preflight[a] = "MISSING" => entry'[a] # Foreign
    <3>1. CASE a = Path(c)
      <4>1. Me(c) # Foreign
        BY <1>1, MemberFacts, OutputAssumption DEF Publishers
      <4>2. QED
        BY <1>4, <1>10, <3>1, <4>1
    <3>2. CASE a # Path(c)
      BY <1>1, <1>4, <1>5, <3>2 DEF CallerInv, Preflights, Live
    <3>3. QED
      BY <3>1, <3>2
  <2>2. ASSUME NEW b \in Paths, place'[<<c, b>>] # NoDir
        PROVE  b \notin disturbed => caller[c].preflight[b] = "MISSING"
    <3>1. CASE b = Path(c)
      BY <1>10, <3>1
    <3>2. CASE b # Path(c)
      BY <1>1, <1>6, <2>2, <3>2 DEF CallerInv, Preflights
    <3>3. QED
      BY <3>1, <3>2
  <2>3. QED
    BY <1>2, <1>5, <1>7, <2>1, <2>2 DEF Preflights
<1>12. ~caller[c].residue /\ \A a \in Paths : Report(c, a) # "IO_ERROR"
  BY <1>1 DEF CallerInv, Reports, Failing
<1>13. ASSUME NEW a \in Paths \ disturbed PROVE ReportTrue(c, a)'
  <2>1. ReportTrue(c, a)
    BY <1>1 DEF CallerInv, Reports
  <2>2. CASE a = Path(c)
    <3>1. /\ Report(c, a) # "EMITTED" /\ caller[c].preflight[a] = "MISSING"
          /\ crashes = 0 => Report(c, a) \notin {"UNCHANGED", "COLLISION"}
      BY <1>4, <2>2, FreeName
    <3>2. QED
      BY <1>2, <1>5, <1>6, <3>1 DEF ReportTrue, At
  <2>3. CASE a # Path(c)
    BY <1>2, <1>4, <1>5, <1>6, <2>1, <2>3 DEF ReportTrue, At
  <2>4. QED
    BY <2>2, <2>3
<1>14. Reports(c)'
  <2>1. \A a \in Paths : Report(c, a) \in {"EMITTED", "COLLISION"} => a # Path(c)
    BY <1>1, <1>3 DEF CallerInv, Reports, Me
  <2>2. QED
    BY <1>1, <1>2, <1>5, <1>6, <1>12, <1>13, <2>1 DEF CallerInv, Reports
<1>15. QED
  BY <1>4, <1>8, <1>9, <1>11, <1>14 DEF After, CallerInv

LEMMA WriteKeeps ==
  ASSUME NEW c \in Callers, Before(c), Write(c)
  PROVE  After(c)
<1>1. caller[c].pc = "write" /\ UNCHANGED <<case, settled, env>> /\ Names /\ TypeOK /\ CallerInv(c)
  BY DEF Write, At, Before
<1>2. CASE Name!Place(Me(c), Path(c)) /\ Goto(c, "commit")
  BY <1>1, <1>2, PlaceKeeps
<1>3. CASE Name!Refuse(Me(c)) /\ Goto(c, "answer")
  <2>1. Name!Become(Me(c), "refused") /\ UNCHANGED <<entry, stable, place>> /\ state[Me(c)] = "pending"
    BY <1>3 DEF Name!Refuse
  <2>2. place[Me(c)] = NoDir
    BY <1>1, <2>1, MemberFacts DEF Names
  <2>3. QED
    BY <1>1, <1>3, <2>1, <2>2, AdvanceKeeps
<1>4. CASE Name!Become(Me(c), "failed") /\ Published(c, "IO_ERROR") /\ UNCHANGED <<entry, stable, place>>
  BY <1>1, <1>4, EndsKeeps
<1>5. QED
  BY <1>2, <1>3, <1>4 DEF Write

----------------------------------------------------------------------------
(* The way to the answer. *)

(* A host that drops the temporary name touches the file. *)
LEMMA SettleKeeps ==
  ASSUME NEW c \in Callers, Before(c), Settle(c)
  PROVE  After(c)
<1>1. /\ TypeOK /\ Names /\ CallerInv(c) /\ case.restamps /\ caller[c].pc = "commit"
      /\ settled' = settled \cup {Me(c)} /\ Me(c) \in Publishers
      /\ UNCHANGED <<case, entry, stable, state, place, caller, foreign, disturbed, changes, crashes>>
  BY MemberFacts DEF Before, Settle, At, names, env
<1>2. TypeOK' /\ Names'
  BY <1>1 DEF TypeOK, Names
<1>3. ASSUME NEW d \in Callers, d # c PROVE Onward(d)
  <2>1. \A a \in Paths : <<d, a>> # Me(c)
    BY <1>3 DEF Me
  <2>2. QED
    BY <1>1, <2>1 DEF Onward
<1>4. CallerInv(c)'
  <2>1. /\ Path(c)' = Path(c) /\ Me(c)' = Me(c) /\ Mine(c)' = Mine(c)
        /\ \A a \in Paths : Report(c, a)' = Report(c, a) /\ Bytes(a)' = Bytes(a)
        /\ \A j \in 1..Len(Artifacts) : Artifacts[j] \in Paths
    BY <1>1, MemberFacts DEF Path, Me, Mine, Report, Bytes
  <2>2. Stage(c)'
    BY <1>1, <2>1 DEF CallerInv, Stage, At
  <2>3. Held(c)'
    BY <1>1 DEF Held, Viewing
  <2>4. Preflights(c)'
    BY <1>1, <2>1 DEF CallerInv, Preflights, Live
  <2>5. Reports(c)'
    BY <1>1, <2>1 DEF CallerInv, Reports, ReportTrue, At
  <2>6. QED
    BY <2>2, <2>3, <2>4, <2>5 DEF CallerInv
<1>5. QED
  BY <1>2, <1>3, <1>4 DEF After

LEMMA PersistKeeps ==
  ASSUME NEW c \in Callers, Before(c), Persist(c)
  PROVE  After(c)
<1>1. /\ TypeOK /\ Names /\ CallerInv(c) /\ Path(c) \in Paths
      /\ stable' = [stable EXCEPT ![Path(c)] = entry[Path(c)]]
      /\ UNCHANGED <<case, entry, state, place, settled, caller, foreign, disturbed, changes, crashes>>
  BY MemberFacts DEF Before, Persist, Name!Persist, env
<1>2. \A a \in Paths : stable'[a] = IF a = Path(c) THEN entry[a] ELSE stable[a]
  BY <1>1 DEF TypeOK
<1>3. TypeOK'
  BY <1>1 DEF TypeOK
<1>4. ASSUME NEW p \in Publishers, state[p] \in {"committed", "OK"}, p[2] \notin disturbed
      PROVE  entry[p[2]] = p /\ stable'[p[2]] = p
  <2>1. entry[p[2]] = p /\ stable[p[2]] = p /\ p[2] \in Paths
    BY <1>1, <1>4 DEF Names, Publishers
  <2>2. QED
    BY <1>2, <2>1
<1>5. Names'
  BY <1>1, <1>2, <1>4 DEF Names
<1>6. \A d \in Callers : Onward(d)
  BY <1>1 DEF Onward
<1>7. CallerInv(c)'
  BY <1>1, <1>3, <1>5, <1>6, OnwardKeeps
<1>8. QED
  BY <1>3, <1>5, <1>6, <1>7 DEF After

LEMMA CommitKeeps ==
  ASSUME NEW c \in Callers, Before(c), Commit(c)
  PROVE  After(c)
<1>1. /\ TypeOK /\ Names /\ caller[c].pc = "commit" /\ Goto(c, "answer")
      /\ Name!Become(Me(c), "committed") /\ UNCHANGED <<case, entry, stable, place, settled, env>>
      /\ state[Me(c)] = "placed" /\ entry[place[Me(c)]] = Me(c) /\ stable[place[Me(c)]] = Me(c)
  BY DEF Before, Commit, Name!Commit, At
<1>2. place[Me(c)] = Path(c)
  BY <1>1, MemberFacts DEF Names
<1>3. QED
  BY <1>1, <1>2, AdvanceKeeps

LEMMA AnswerKeeps ==
  ASSUME NEW c \in Callers, Before(c), Answer(c)
  PROVE  After(c)
<1>1. TypeOK /\ Names /\ caller[c].pc = "answer" /\ UNCHANGED <<case, entry, stable, place, settled, env>>
  BY DEF Before, Answer, At
<1>2. CASE state[Me(c)] = "committed" /\ Name!Become(Me(c), "OK") /\ Published(c, "EMITTED")
  BY <1>1, <1>2, EndsKeeps
<1>3. CASE state[Me(c)] = "refused" /\ Name!Become(Me(c), "EXISTS") /\ Goto(c, "compare")
  <2>1. place[Me(c)] = NoDir
    BY <1>1, <1>3, MemberFacts DEF Names
  <2>2. QED
    BY <1>1, <1>3, <2>1, AdvanceKeeps
<1>4. CASE Name!Become(Me(c), "failed") /\ Published(c, "IO_ERROR")
  BY <1>1, <1>4, EndsKeeps
<1>5. QED
  BY <1>2, <1>3, <1>4 DEF Answer

LEMMA CommitFailsKeeps ==
  ASSUME NEW c \in Callers, Before(c), CommitFails(c)
  PROVE  After(c)
<1>1. /\ caller[c].pc = "commit" /\ UNCHANGED <<case, entry, stable, place, settled, env>>
      /\ Name!Become(Me(c), "failed") /\ Published(c, "IO_ERROR")
  BY DEF CommitFails, At
<1>2. QED
  BY <1>1, EndsKeeps

LEMMA StepKeeps ==
  ASSUME NEW c \in Callers, Before(c), Step(c)
  PROVE  After(c)
BY BeginKeeps, PreflightKeeps, PreflightCloseKeeps, WriteKeeps, SettleKeeps, PersistKeeps,
   CommitKeeps, CommitFailsKeeps, AnswerKeeps, CompareKeeps, CompareCloseKeeps,
   CheckResidueKeeps, ResidueCloseKeeps DEF Step

----------------------------------------------------------------------------
(* Other programs and power losses. *)

LEMMA DisturbKeeps ==
  ASSUME TypeOK, Names, Disturb
  PROVE  TypeOK' /\ Names' /\ \A c \in Callers : Onward(c)
<1>1. PICK a \in Paths :
        /\ Name!Disturb(a)
        /\ \E d \in Data : foreign' = [foreign EXCEPT ![a] = d]
        /\ disturbed' = disturbed \cup {a}
  BY DEF Disturb
<1>2. /\ UNCHANGED <<case, settled, caller, crashes, stable, state, place>>
      /\ changes < MaxDisturb /\ changes' = changes + 1
  BY <1>1 DEF Disturb, Name!Disturb
<1>3. PICK f \in {Absent, Foreign} : entry' = [entry EXCEPT ![a] = f]
  BY <1>1 DEF Name!Disturb
<1>4. PICK d \in Data : foreign' = [foreign EXCEPT ![a] = d]
  BY <1>1
<1>5. \A b \in Paths : b # a => entry'[b] = entry[b] /\ foreign'[b] = foreign[b]
  BY <1>3, <1>4 DEF TypeOK
<1>6. entry'[a] = f /\ f \notin Publishers
  BY <1>3, OutputAssumption DEF TypeOK, Publishers
<1>7. TypeOK'
  <2>1. entry' \in [Paths -> Publishers \cup {Absent, Foreign}] /\ foreign' \in [Paths -> Data]
    BY <1>3, <1>4 DEF TypeOK
  <2>2. disturbed' \subseteq Paths
    BY <1>1 DEF TypeOK
  <2>3. changes' \in 0..MaxDisturb
    BY <1>2, OutputAssumption DEF TypeOK
  <2>4. QED
    BY <1>2, <2>1, <2>2, <2>3 DEF TypeOK
<1>8. Names'
  <2>1. ASSUME NEW p \in Publishers, NEW b \in Paths, p \in {entry'[b], stable'[b]}
        PROVE  p[2] = b /\ place'[p] = b
    <3>1. p \in {entry[b], stable[b]}
      BY <1>2, <1>5, <1>6, <2>1
    <3>2. QED
      BY <1>2, <3>1 DEF Names
  <2>2. ASSUME NEW p \in Publishers
        PROVE  /\ state[p] \in {"pending", "refused", "EXISTS"} => place[p] = NoDir
               /\ state[p] \in {"placed", "committed"} => place[p] = p[2]
               /\ state[p] \in {"committed", "OK"} /\ p[2] \notin disturbed' =>
                    entry'[p[2]] = p /\ stable[p[2]] = p
    BY <1>1, <1>5 DEF Names, Publishers
  <2>3. ASSUME NEW b \in Paths \ disturbed'
        PROVE  stable[b] \in {Absent, entry'[b]} /\ (entry'[b] = Foreign => stable[b] = Foreign)
    BY <1>1, <1>5 DEF Names
  <2>4. QED
    BY <1>2, <2>1, <2>2, <2>3 DEF Names
<1>9. \A c \in Callers : Onward(c)
  BY <1>1, <1>2, <1>5 DEF Onward
<1>10. QED
  BY <1>7, <1>8, <1>9

LEMMA StutterKeeps ==
  ASSUME TypeOK, Names, UNCHANGED vars
  PROVE  TypeOK' /\ Names' /\ \A c \in Callers : Onward(c)
<1>1. UNCHANGED <<case, entry, stable, state, place, foreign, settled, caller, disturbed, changes, crashes>>
  BY DEF vars, names, env
<1>2. QED
  BY <1>1 DEF TypeOK, Names, Onward

(* What a power loss leaves of the names and of a caller. *)
LEMMA CrashFacts ==
  ASSUME TypeOK, Names, Crash
  PROVE  /\ UNCHANGED <<case, place, foreign, disturbed, changes>> /\ crashes' = crashes + 1
         /\ TypeOK' /\ Names'
         /\ \A a \in Paths \ disturbed :
              /\ entry'[a] \in {entry[a], Absent} /\ (entry[a] = Foreign => entry'[a] = Foreign)
         /\ \A c \in Callers :
              IF caller[c].pc \in {"idle", "done"} THEN caller'[c] = caller[c]
              ELSE /\ caller'[c].pc = "crashed" /\ caller'[c].i = caller[c].i
                   /\ caller'[c].preflight = caller[c].preflight
                   /\ caller'[c].report = caller[c].report
                   /\ caller'[c].residue = caller[c].residue
         /\ \A p \in Publishers :
              /\ state[p] \in {"OK", "EXISTS"} => state'[p] = state[p]
              /\ caller[p[1]].pc = "idle" => state'[p] = state[p]
<1>1. /\ UNCHANGED <<case, place, foreign, disturbed, changes>> /\ crashes' = crashes + 1
      /\ crashes < MaxCrashes /\ stable' = entry' /\ settled' = Publishers
      /\ entry' \in [Paths -> Publishers \cup {Foreign, Absent}]
      /\ \A a \in Paths : entry'[a] \in {entry[a], stable[a]}
  BY DEF Crash
<1>2. \A p \in Publishers :
        state'[p] = IF state[p] \in {"OK", "EXISTS", "failed"} \/ caller[p[1]].pc = "idle"
                    THEN state[p] ELSE "failed"
  BY DEF Crash, Name!Answered
<1>3. state' \in [Publishers -> Name!State]
  BY DEF Crash, Name!Answered, Name!State, TypeOK
<1>4. ASSUME NEW c \in Callers
      PROVE  /\ caller'[c] \in Locals
             /\ IF caller[c].pc \in {"idle", "done"} THEN caller'[c] = caller[c]
                ELSE /\ caller'[c].pc = "crashed" /\ caller'[c].i = caller[c].i
                     /\ caller'[c].preflight = caller[c].preflight
                     /\ caller'[c].report = caller[c].report
                     /\ caller'[c].residue = caller[c].residue
  <2>1. caller[c] \in Locals
    BY DEF TypeOK
  <2>2. CASE caller[c].pc \in {"idle", "done"}
    BY <2>1, <2>2 DEF Crash
  <2>3. CASE caller[c].pc \notin {"idle", "done"}
    <3>1. caller'[c] = [caller[c] EXCEPT !.pc = "crashed", !.view = <<>>]
      BY <2>3 DEF Crash
    <3>2. QED
      BY <2>1, <2>3, <3>1 DEF Locals, Labels
  <2>4. QED
    BY <2>2, <2>3
<1>5. caller' \in [Callers -> Locals]
  BY <1>4 DEF Crash
<1>6. TypeOK'
  <2>1. crashes' \in 0..MaxCrashes
    BY <1>1, OutputAssumption DEF TypeOK
  <2>2. QED
    BY <1>1, <1>3, <1>5, <2>1 DEF TypeOK
<1>7. ASSUME NEW a \in Paths \ disturbed
      PROVE  /\ entry'[a] \in {entry[a], Absent} /\ (entry[a] = Foreign => entry'[a] = Foreign)
  <2>1. stable[a] \in {Absent, entry[a]} /\ (entry[a] = Foreign => stable[a] = Foreign)
    BY DEF Names
  <2>2. QED
    BY <1>1, <2>1
<1>8. ASSUME NEW p \in Publishers
      PROVE  /\ state'[p] \in {"pending", "refused", "EXISTS"} => place[p] = NoDir
             /\ state'[p] \in {"placed", "committed"} => place[p] = p[2]
             /\ state'[p] \in {"committed", "OK"} /\ p[2] \notin disturbed =>
                  entry'[p[2]] = p /\ stable'[p[2]] = p
  <2>1. state'[p] \in {state[p], "failed"}
    BY <1>2
  <2>2. p[2] \in Paths
    BY DEF Publishers
  <2>3. QED
    BY <1>1, <2>1, <2>2 DEF Names
<1>9. Names'
  BY <1>1, <1>7, <1>8 DEF Names
<1>10. QED
  BY <1>1, <1>2, <1>4, <1>6, <1>7, <1>9

LEMMA CrashKeeps ==
  ASSUME TypeOK, Names, NEW c \in Callers, CallerInv(c), Crash
  PROVE  CallerInv(c)'
<1>1. /\ UNCHANGED <<case, place, foreign, disturbed>> /\ crashes' = crashes + 1 /\ crashes \in Nat
      /\ \A a \in Paths \ disturbed :
           /\ entry'[a] \in {entry[a], Absent} /\ (entry[a] = Foreign => entry'[a] = Foreign)
      /\ \A a \in Paths : <<c, a>> \in Publishers /\ <<c, a>> # Absent /\ Absent # Foreign
  BY CrashFacts, MemberFacts, OutputAssumption DEF TypeOK, Publishers
<1>2. /\ caller'[c].i = caller[c].i /\ caller'[c].preflight = caller[c].preflight
      /\ caller'[c].report = caller[c].report /\ caller'[c].residue = caller[c].residue
      /\ \/ caller[c].pc \in {"idle", "done"} /\ caller'[c].pc = caller[c].pc
         \/ caller[c].pc \notin {"idle", "done"} /\ caller'[c].pc = "crashed"
  BY CrashFacts
<1>3. \A a \in Paths :
        /\ state[<<c, a>>] \in {"OK", "EXISTS"} => state'[<<c, a>>] = state[<<c, a>>]
        /\ caller[c].pc = "idle" => state'[<<c, a>>] = state[<<c, a>>]
  BY <1>1, CrashFacts
<1>4. Path(c)' = Path(c) /\ \A a \in Paths : Report(c, a)' = Report(c, a)
  BY <1>2 DEF Path, Report
<1>5. Stage(c)'
  <2>1. CASE caller[c].pc = "idle"
    BY <1>2, <1>3, <1>4, <2>1 DEF CallerInv, Stage, At, Preparing, Publishing, Failing
  <2>2. CASE caller[c].pc # "idle"
    BY <1>2, <2>2 DEF Stage, At, Preparing, Publishing, Failing
  <2>3. QED
    BY <2>1, <2>2
<1>6. Held(c)'
  BY <1>2 DEF Held, Viewing
<1>7. Preflights(c)'
  BY <1>1, <1>2 DEF CallerInv, Preflights, Live
<1>8. ASSUME NEW a \in Paths \ disturbed PROVE ReportTrue(c, a)'
  <2>1. ReportTrue(c, a) /\ crashes' # 0
    <3>1. ReportTrue(c, a)
      BY DEF CallerInv, Reports
    <3>2. crashes' # 0
      BY <1>1
    <3>3. QED
      BY <3>1, <3>2
  <2>2. Report(c, a) = "EMITTED" => entry'[a] = <<c, a>> /\ stable'[a] = <<c, a>>
    <3>1. Report(c, a) = "EMITTED" => state'[<<c, a>>] = "OK"
      BY <1>3 DEF CallerInv, Reports
    <3>2. QED
      BY <1>1, <3>1, CrashFacts DEF Names
  <2>3. entry'[a] = <<c, a>> => entry[a] = <<c, a>>
    BY <1>1
  <2>4. QED
    BY <1>2, <1>4, <2>1, <2>2, <2>3 DEF ReportTrue, At
<1>9. Reports(c)'
  BY <1>1, <1>2, <1>3, <1>4, <1>8 DEF CallerInv, Reports
<1>10. QED
  BY <1>5, <1>6, <1>7, <1>9 DEF CallerInv

----------------------------------------------------------------------------
(* Runs with the same bytes. *)

(* Whatever is under a name has the bytes that everybody wants there. *)
LEMMA SameBytesThere ==
  ASSUME TypeOK, Peaceful, NEW c \in Callers, NEW a \in Paths, entry[a] # Absent
  PROVE  Bytes(a) = case.output[c][a]
<1>1. entry[a] \in Publishers \cup {Foreign}
  BY DEF TypeOK
<1>2. CASE entry[a] \in Publishers
  <2>1. entry[a][1] \in Callers
    BY <1>2 DEF Publishers
  <2>2. case.output[entry[a][1]] = case.output[c]
    BY <2>1 DEF Peaceful, SameBytes
  <2>3. QED
    BY <1>2, <2>2 DEF Bytes
<1>3. CASE entry[a] = Foreign
  <2>1. entry[a] \notin Publishers
    BY <1>3, OutputAssumption DEF Publishers
  <2>2. QED
    BY <1>3, <2>1 DEF Bytes, Peaceful, Uncontradicted
<1>4. QED
  BY <1>1, <1>2, <1>3

(* What is peaceful has been so all along. *)
LEMMA WasPeaceful ==
  ASSUME TypeOK, Peaceful', case' = case, disturbed \subseteq disturbed',
         \A a \in Paths \ disturbed' :
           foreign'[a] = foreign[a] /\ (entry[a] = Foreign => entry'[a] = Foreign)
  PROVE  Peaceful /\ disturbed' = {} /\ disturbed = {}
<1>1. disturbed' = {} /\ disturbed = {}
  BY DEF Peaceful, Uncontradicted
<1>2. SameBytes /\ ~case.restamps
  BY DEF Peaceful, SameBytes
<1>3. \A a \in Paths : entry[a] = Foreign => \A c \in Callers : foreign[a] = case.output[c][a]
  BY <1>1 DEF Peaceful, Uncontradicted
<1>4. QED
  BY <1>1, <1>2, <1>3 DEF Peaceful, Uncontradicted

(* No step of another takes an agreement back. *)
LEMMA OnwardAgrees ==
  ASSUME TypeOK, NEW c \in Callers, CallerInv(c), Agrees(c), Onward(c), disturbed' = {}
  PROVE  Agrees(c)'
<1>1. /\ caller'[c] = caller[c] /\ Path(c)' = Path(c) /\ Me(c)' = Me(c)
      /\ Path(c) \in Paths /\ Me(c) # Absent /\ state'[Me(c)] = state[Me(c)]
      /\ \A a \in Paths : Report(c, a)' = Report(c, a)
  BY MemberFacts, OutputAssumption DEF Onward, Path, Me, Report, Publishers
<1>2. entry[Path(c)] # Absent => entry'[Path(c)] = entry[Path(c)]
  BY <1>1 DEF Onward
<1>3. QED
  BY <1>1, <1>2 DEF Agrees, At

(* An open view closes intact, on the bytes that everybody wants. *)
LEMMA PeacefulView ==
  ASSUME NEW c \in Callers, Before(c), Peaceful, caller[c].pc \in Viewing
  PROVE  ViewIntact(c) /\ ViewEqual(c) /\ ~ViewFaults
<1>1. disturbed = {} /\ ~case.restamps /\ ~ViewFaults /\ Path(c) \in Paths /\ TypeOK /\ CallerInv(c)
  BY MemberFacts DEF Peaceful, Uncontradicted, SameBytes, Before
<1>2. ViewIntact(c)
  BY <1>1 DEF CallerInv, Held, ViewIntact
<1>3. entry[Path(c)] # Absent /\ (ViewEqual(c) <=> Bytes(Path(c)) = Mine(c))
  BY <1>1, IntactView
<1>4. QED
  BY <1>1, <1>2, <1>3, SameBytesThere DEF Mine

(* Each step of a caller keeps to what the others have written. *)
LEMMA StepAgrees ==
  ASSUME NEW c \in Callers, Before(c), Peaceful, Agrees(c), Step(c)
  PROVE  Agrees(c)'
<1>1. /\ TypeOK /\ Names /\ CallerInv(c) /\ disturbed = {} /\ ~case.faulty /\ ~ViewFaults /\ ~case.restamps
      /\ Path(c) \in Paths /\ Me(c) \in Publishers /\ Me(c) # Absent /\ Me(c) = <<c, Path(c)>>
  BY MemberFacts, OutputAssumption DEF Peaceful, Uncontradicted, SameBytes, Before, Publishers, Me
<1>2. ASSUME NEW s \in Good, Preflighted(c, s), caller[c].pc \in {"preflight", "preflightClose"} PROVE Agrees(c)'
  <2>1. s \in Good \cup {"COLLISION", "IO_ERROR"}
    OBVIOUS
  <2>2. /\ caller'[c].preflight = [caller[c].preflight EXCEPT ![Path(c)] = s]
        /\ caller'[c].report = caller[c].report
        /\ caller'[c].pc \in {"preflight", "write"}
    BY <1>1, <1>2, <2>1, PreflightedFields
  <2>3. caller[c].preflight \in [Paths -> Status]
    BY <1>1, MemberFacts DEF Locals
  <2>4. QED
    BY <1>1, <2>2, <2>3 DEF Agrees, At, Report, Failing
<1>3. ASSUME NEW s \in Done, Published(c, s), caller[c].pc \in Publishing PROVE Agrees(c)'
  <2>1. s \in Done \cup {"COLLISION", "IO_ERROR"} /\ s # "IO_ERROR" /\ s # "COLLISION"
    BY DEF Done
  <2>2. /\ caller'[c].preflight = caller[c].preflight
        /\ caller'[c].report = [caller[c].report EXCEPT ![Path(c)] = s]
        /\ \/ caller'[c].pc = "write"
           \/ caller[c].i = Len(Artifacts) /\ caller'[c].pc = "done"
    BY <1>1, <1>3, <2>1, PublishedFields
  <2>3. caller[c].report \in [Paths -> Status]
    BY <1>1, MemberFacts DEF Locals
  <2>4. ASSUME NEW a \in Paths PROVE caller'[c].report[a] \in Done \cup {"none"}
    BY <1>1, <1>3, <2>2, <2>3, <2>4 DEF Agrees, Report
  <2>5. ASSUME caller'[c].pc = "done", NEW a \in Paths PROVE caller'[c].report[a] # "none"
    <3>1. PICK j \in 1..Len(Artifacts) : a = Artifacts[j]
      BY <1>1, MemberFacts
    <3>2. CASE a = Path(c)
      BY <2>1, <2>2, <2>3, <3>2 DEF Done
    <3>3. CASE a # Path(c)
      <4>1. caller[c].i = Len(Artifacts) /\ j # caller[c].i /\ Len(Artifacts) \in Nat
        BY <1>1, <2>2, <2>5, <3>1, <3>3, MemberFacts DEF Path
      <4>2. j < caller[c].i
        BY <4>1
      <4>3. Report(c, a) \in Done
        BY <1>1, <1>3, <3>1, <4>2 DEF CallerInv, Stage
      <4>4. QED
        BY <2>2, <2>3, <3>3, <4>3 DEF Report, Done
    <3>4. QED
      BY <3>2, <3>3
  <2>6. QED
    BY <2>2, <2>4, <2>5 DEF Agrees, At, Report, Failing
<1>4. ASSUME NEW label \in Labels \ (Failing \cup {"done"}), Goto(c, label),
             label = "commit" => entry'[Path(c)] = Me(c),
             label \in {"answer", "compare", "compareClose"} => entry'[Path(c)] # Absent
      PROVE  Agrees(c)'
  <2>1. /\ caller'[c].pc = label /\ caller'[c].i = caller[c].i
        /\ caller'[c].preflight = caller[c].preflight /\ caller'[c].report = caller[c].report
    BY <1>1, <1>4, GotoFields
  <2>2. Path(c)' = Path(c) /\ Me(c)' = Me(c)
    BY <2>1 DEF Path, Me
  <2>3. QED
    BY <1>4, <2>1, <2>2 DEF Agrees, At, Report
<1>5. ASSUME NEW label \in {"preflightClose", "compareClose"}, ViewOpens(c, label), entry' = entry
      PROVE  Agrees(c)'
  <2>1. label \in Labels
    BY DEF Labels
  <2>2. /\ entry[Path(c)] # Absent /\ caller'[c].pc = label /\ caller'[c].i = caller[c].i
        /\ caller'[c].preflight = caller[c].preflight /\ caller'[c].report = caller[c].report
    BY <1>1, <1>5, <2>1, ViewFields
  <2>3. Path(c)' = Path(c)
    BY <2>2 DEF Path
  <2>4. QED
    BY <1>5, <2>2, <2>3 DEF Agrees, At, Report, Failing
<1>6. CASE Begin(c)
  BY <1>4, <1>6 DEF Begin, Labels, Failing
<1>7. CASE Preflight(c)
  <2>1. caller[c].pc = "preflight" /\ entry' = entry
    BY <1>7 DEF Preflight, At, names
  <2>2. QED
    BY <1>1, <1>2, <1>5, <1>7, <2>1 DEF Preflight, Good
<1>8. CASE PreflightClose(c)
  <2>1. caller[c].pc = "preflightClose"
    BY <1>8 DEF PreflightClose, At
  <2>2. ViewIntact(c) /\ ViewEqual(c)
    BY <2>1, PeacefulView DEF Viewing
  <2>3. Preflighted(c, "UNCHANGED")
    BY <1>1, <1>8, <2>2 DEF PreflightClose
  <2>4. QED
    BY <1>2, <2>1, <2>3 DEF Good
<1>9. CASE Write(c)
  <2>1. CASE Name!Place(Me(c), Path(c)) /\ Goto(c, "commit")
    <3>1. entry'[Path(c)] = Me(c)
      BY <1>1, <2>1 DEF Name!Place, TypeOK
    <3>2. QED
      BY <1>4, <2>1, <3>1 DEF Labels, Failing
  <2>2. CASE entry[Path(c)] # Absent /\ Name!Refuse(Me(c)) /\ Goto(c, "answer")
    <3>1. entry' = entry
      BY <2>2 DEF Name!Refuse
    <3>2. QED
      BY <1>4, <2>2, <3>1 DEF Labels, Failing
  <2>3. QED
    BY <1>1, <1>9, <2>1, <2>2 DEF Write
<1>10. CASE Settle(c)
  BY <1>1, <1>10 DEF Settle
<1>11. CASE Persist(c)
  BY <1>11 DEF Persist, Name!Persist, Agrees, At, Report, Path, Me
<1>12. CASE Commit(c)
  <2>1. entry' = entry /\ entry[Path(c)] = Me(c)
    BY <1>12 DEF Commit, Name!Commit, Agrees
  <2>2. QED
    BY <1>1, <1>4, <1>12, <2>1 DEF Commit, Labels, Failing
<1>13. CASE CommitFails(c)
  BY <1>1, <1>13 DEF CommitFails, Agrees
<1>14. CASE Answer(c)
  <2>1. caller[c].pc = "answer" /\ entry' = entry
    BY <1>14 DEF Answer, At
  <2>2. CASE Published(c, "EMITTED")
    BY <1>3, <2>1, <2>2 DEF Publishing, Done
  <2>3. CASE state[Me(c)] = "refused" /\ Goto(c, "compare")
    BY <1>4, <2>1, <2>3 DEF Agrees, At, Labels, Failing
  <2>4. QED
    BY <1>1, <1>14, <2>2, <2>3 DEF Answer
<1>15. CASE Compare(c)
  <2>1. caller[c].pc = "compare" /\ entry' = entry /\ entry[Path(c)] # Absent
    BY <1>15 DEF Compare, At, names, Agrees
  <2>2. QED
    BY <1>1, <1>5, <1>15, <2>1 DEF Compare
<1>16. CASE CompareClose(c)
  <2>1. caller[c].pc = "compareClose"
    BY <1>16 DEF CompareClose, At
  <2>2. ViewIntact(c) /\ ViewEqual(c)
    BY <2>1, PeacefulView DEF Viewing
  <2>3. Published(c, "UNCHANGED")
    BY <1>1, <1>16, <2>2 DEF CompareClose
  <2>4. QED
    BY <1>3, <2>1, <2>3 DEF Publishing, Done
<1>17. CASE CheckResidue(c) \/ ResidueClose(c)
  BY <1>17 DEF CheckResidue, ResidueClose, Agrees, At, Failing
<1>18. QED
  BY <1>6, <1>7, <1>8, <1>9, <1>10, <1>11, <1>12, <1>13, <1>14, <1>15, <1>16, <1>17 DEF Step

----------------------------------------------------------------------------
(* The theorems. *)

LEMMA InitiallyHolds == Init => IInv
<1> SUFFICES ASSUME Init PROVE IInv
  OBVIOUS
<1>1. /\ case \in Cases /\ entry \in [Paths -> {Absent, Foreign}] /\ stable = entry
      /\ state = [p \in Publishers |-> "pending"] /\ place = [p \in Publishers |-> NoDir]
      /\ foreign \in [Paths -> Data] /\ settled = {} /\ caller = [c \in Callers |-> Start]
      /\ disturbed = {} /\ changes = 0 /\ crashes = 0
  BY DEF Init, Name!Init
<1>2. Len(Artifacts) \in Nat /\ 1 \in 1..Len(Artifacts)
  BY OutputAssumption
<1>3. Start \in Locals
  BY <1>2 DEF Start, Locals, Labels, Status
<1>4. TypeOK
  <2>1. /\ entry \in [Paths -> Publishers \cup {Absent, Foreign}]
        /\ state \in [Publishers -> Name!State] /\ place \in [Publishers -> Paths \cup {NoDir}]
    BY <1>1 DEF Name!State
  <2>2. 0 \in 0..MaxDisturb /\ 0 \in 0..MaxCrashes
    BY OutputAssumption
  <2>3. QED
    BY <1>1, <1>3, <2>1, <2>2 DEF TypeOK
<1>5. Names
  <2>1. \A a \in Paths : entry[a] \in {Absent, Foreign} /\ stable[a] = entry[a] /\ entry[a] \notin Publishers
    BY <1>1, OutputAssumption DEF Publishers
  <2>2. QED
    BY <1>1, <2>1 DEF Names
<1>6. ASSUME NEW c \in Callers PROVE CallerInv(c) /\ Agrees(c)
  <2>1. /\ caller[c].pc = "idle" /\ caller[c].i = 1 /\ ~caller[c].residue
        /\ \A a \in Paths : caller[c].preflight[a] = "none" /\ Report(c, a) = "none"
    BY <1>1 DEF Start, Report
  <2>2. \A a \in Paths : state[<<c, a>>] = "pending" /\ place[<<c, a>>] = NoDir
    BY <1>1 DEF Publishers
  <2>3. \A a \in Paths : ReportTrue(c, a)
    BY <2>1 DEF ReportTrue, At
  <2>4. Stage(c) /\ Held(c)
    BY <2>1, <2>2 DEF Stage, Held, At, Preparing, Publishing, Failing, Viewing
  <2>5. Preflights(c) /\ Reports(c)
    BY <2>1, <2>2, <2>3 DEF Preflights, Reports
  <2>6. Agrees(c)
    BY <2>1 DEF Agrees, At, Failing
  <2>7. QED
    BY <2>4, <2>5, <2>6 DEF CallerInv
<1>7. QED
  BY <1>4, <1>5, <1>6 DEF IInv

(* What a step of a caller does to the names is its own write. *)
LEMMA StepNames ==
  ASSUME TypeOK, NEW c \in Callers, Step(c)
  PROVE  /\ UNCHANGED <<case, foreign, disturbed>>
         /\ \A a \in Paths : entry[a] = Foreign => entry'[a] = Foreign
<1>1. UNCHANGED <<case, foreign, disturbed>>
  BY DEF Step, Begin, Preflight, PreflightClose, Write, Settle, Persist, Commit, CommitFails, Answer,
         Compare, CompareClose, CheckResidue, ResidueClose, env
<1>2. entry' = entry \/ Name!Place(Me(c), Path(c))
  BY DEF Step, Begin, Preflight, PreflightClose, Write, Settle, Persist, Commit, CommitFails, Answer,
         Compare, CompareClose, CheckResidue, ResidueClose, names,
         Name!Refuse, Name!Persist, Name!Commit
<1>3. ASSUME Name!Place(Me(c), Path(c)), NEW a \in Paths, entry[a] = Foreign PROVE entry'[a] = Foreign
  BY <1>3, OutputAssumption DEF Name!Place, TypeOK
<1>4. QED
  BY <1>1, <1>2, <1>3

LEMMA NextKeeps == IInv /\ [Next]_vars => IInv'
<1> SUFFICES ASSUME IInv, [Next]_vars PROVE IInv'
  OBVIOUS
<1>1. TypeOK /\ Names /\ \A c \in Callers : CallerInv(c) /\ (Peaceful => Agrees(c)) /\ Before(c)
  BY DEF IInv, Before
<1>2. ASSUME NEW c \in Callers, Step(c) PROVE IInv'
  <2>1. TypeOK' /\ Names' /\ CallerInv(c)' /\ \A d \in Callers : d # c => Onward(d)
    BY <1>1, <1>2, StepKeeps DEF After
  <2>2. ASSUME NEW d \in Callers PROVE CallerInv(d)'
    <3>1. CASE d = c
      BY <2>1, <3>1
    <3>2. CASE d # c
      BY <1>1, <2>1, <3>2, OnwardKeeps
    <3>3. QED
      BY <3>1, <3>2
  <2>3. ASSUME Peaceful', NEW d \in Callers PROVE Agrees(d)'
    <3>1. Peaceful /\ disturbed' = {}
      BY <1>1, <1>2, <2>3, StepNames, WasPeaceful
    <3>2. CASE d = c
      BY <1>1, <1>2, <3>1, <3>2, StepAgrees
    <3>3. CASE d # c
      BY <1>1, <2>1, <3>1, <3>3, OnwardAgrees
    <3>4. QED
      BY <3>2, <3>3
  <2>4. QED
    BY <2>1, <2>2, <2>3 DEF IInv
<1>3. ASSUME Disturb PROVE IInv'
  <2>1. TypeOK' /\ Names' /\ \A c \in Callers : Onward(c)
    BY <1>1, <1>3, DisturbKeeps
  <2>2. \A c \in Callers : CallerInv(c)'
    BY <1>1, <2>1, OnwardKeeps
  <2>3. ~Peaceful'
    <3>1. disturbed' # {}
      BY <1>3 DEF Disturb
    <3>2. QED
      BY <3>1 DEF Peaceful, Uncontradicted
  <2>4. QED
    BY <2>1, <2>2, <2>3 DEF IInv
<1>4. ASSUME Crash PROVE IInv'
  <2>1. TypeOK' /\ Names' /\ UNCHANGED <<case, foreign, disturbed>>
        /\ \A a \in Paths \ disturbed : entry[a] = Foreign => entry'[a] = Foreign
    BY <1>1, <1>4, CrashFacts
  <2>2. \A c \in Callers : CallerInv(c)'
    BY <1>1, <1>4, CrashKeeps
  <2>3. ASSUME Peaceful', NEW c \in Callers PROVE Agrees(c)'
    <3>1. Peaceful
      BY <1>1, <2>1, <2>3, WasPeaceful
    <3>2. Agrees(c)
      BY <1>1, <3>1
    <3>3. /\ caller'[c].preflight = caller[c].preflight /\ caller'[c].report = caller[c].report
          /\ \/ caller[c].pc \in {"idle", "done"} /\ caller'[c].pc = caller[c].pc
             \/ caller'[c].pc = "crashed"
      BY <1>1, <1>4, CrashFacts
    <3>4. QED
      BY <3>2, <3>3 DEF Agrees, At, Report, Failing
  <2>4. QED
    BY <2>1, <2>2, <2>3 DEF IInv
<1>5. ASSUME UNCHANGED vars PROVE IInv'
  <2>1. TypeOK' /\ Names' /\ \A c \in Callers : Onward(c)
    BY <1>1, <1>5, StutterKeeps
  <2>2. \A c \in Callers : CallerInv(c)'
    BY <1>1, <2>1, OnwardKeeps
  <2>3. ASSUME Peaceful', NEW c \in Callers PROVE Agrees(c)'
    <3>1. case' = case /\ foreign' = foreign /\ disturbed' = disturbed /\ entry' = entry
      BY <1>5 DEF vars, names, env
    <3>2. Peaceful /\ disturbed' = {}
      BY <1>1, <2>3, <3>1, WasPeaceful
    <3>3. QED
      BY <1>1, <2>1, <3>2, OnwardAgrees
  <2>4. QED
    BY <2>1, <2>2, <2>3 DEF IInv
<1>6. QED
  BY <1>2, <1>3, <1>4, <1>5 DEF Next

(* What every caller relies on at each point of its run holds throughout. *)
THEOREM OutputInvariant == Spec => []IInv
<1>1. QED
  BY InitiallyHolds, NextKeeps, PTL DEF Spec

(* "reports byte-identical pre-existence as unchanged, and rejects differing
   pre-existing bytes as a collision": no verdict says the opposite of the
   bytes that are there, what was emitted stays, residue is told of where it
   is and nowhere else, and runs with the same bytes all succeed. *)
THEOREM VerdictsTrueHolds == Spec => []VerdictsTrue
<1>1. IInv => ReportsTrue
  BY DEF IInv, CallerInv, Reports, ReportsTrue
<1>2. IInv => SameBytesSucceed
  <2> SUFFICES ASSUME IInv, SameBytes, Uncontradicted, ~case.restamps, NEW c \in Callers, At(c, "done"),
                      NEW a \in Paths
               PROVE  Report(c, a) \in {"EMITTED", "UNCHANGED"}
    BY DEF SameBytesSucceed
  <2>1. Agrees(c)
    BY DEF IInv, Peaceful
  <2>2. QED
    BY <2>1 DEF Agrees, Done
<1>3. QED
  BY <1>1, <1>2, OutputInvariant, PTL DEF VerdictsTrue

(* "preventing a known later collision from leaving a partial set on disk": a
   run that knew of a collision wrote nothing, and a collision that is met
   while publishing is with a racing caller's file or another program's. *)
THEOREM NoKnownPartialSetHolds == Spec => []NoKnownPartialSet
<1>1. IInv => NoKnownPartialSet
  <2> SUFFICES ASSUME IInv, NEW c \in Callers, NEW a \in Paths
               PROVE  /\ caller[c].preflight[a] = "COLLISION" =>
                           \A b \in Paths : place[<<c, b>>] = NoDir
                      /\ Report(c, a) = "COLLISION" /\ a \notin disturbed /\ entry[a] # Absent =>
                           caller[c].preflight[a] = "MISSING" /\ entry[a][1] \in Callers \ {c}
    BY DEF NoKnownPartialSet
  <2>1. TypeOK /\ Names /\ Preflights(c) /\ Reports(c)
    BY DEF IInv, CallerInv
  <2>2. caller[c].preflight[a] = "COLLISION" => \A b \in Paths : place[<<c, b>>] = NoDir
    BY <2>1 DEF Preflights, Good
  <2>3. ASSUME Report(c, a) = "COLLISION", a \notin disturbed, entry[a] # Absent
        PROVE  caller[c].preflight[a] = "MISSING" /\ entry[a][1] \in Callers \ {c}
    <3>1. caller[c].preflight[a] = "MISSING" /\ state[<<c, a>>] = "EXISTS"
      BY <2>1, <2>3 DEF Reports
    <3>2. entry[a] # Foreign
      BY <2>1, <2>3, <3>1 DEF Preflights
    <3>3. entry[a] \in Publishers
      BY <2>1, <2>3, <3>2 DEF TypeOK
    <3>4. <<c, a>> \in Publishers
      BY <2>1, MemberFacts
    <3>5. place[<<c, a>>] = NoDir
      BY <2>1, <3>1, <3>4 DEF Names
    <3>6. entry[a] # <<c, a>>
      BY <2>1, <3>4, <3>5, OutputAssumption DEF Names
    <3>7. entry[a][2] = a
      BY <2>1, <3>3 DEF Names
    <3>8. QED
      BY <3>1, <3>3, <3>6, <3>7 DEF Publishers
  <2>4. QED
    BY <2>2, <2>3
<1>2. QED
  BY <1>1, OutputInvariant, PTL

(* Whatever runs do to the names of their artifacts, together with other
   programs and power losses, is what the write-once name allows: the answers of
   common_file_write_new_atomic are used as they are meant. *)
THEOREM NamesAreWriteOnce == Spec => Name!Spec
<1>1. Init => Name!Init
  BY DEF Init
<1>2. ASSUME IInv, NEW c \in Callers, Step(c)
      PROVE  Name!Next \/ UNCHANGED names
  <2>1. /\ Me(c) \in Publishers /\ Path(c) \in Paths
        /\ caller[c].pc = "write" => state[Me(c)] = "pending"
        /\ caller[c].pc = "commit" => state[Me(c)] = "placed"
        /\ caller[c].pc = "answer" => state[Me(c)] \in {"committed", "refused"}
    BY <1>2, MemberFacts DEF IInv, CallerInv, Stage, At
  <2>2. ASSUME Write(c) PROVE Name!Next
    <3>1. CASE Name!Place(Me(c), Path(c))
      BY <2>1, <3>1 DEF Name!Next
    <3>2. CASE Name!Refuse(Me(c))
      BY <2>1, <3>2 DEF Name!Next
    <3>3. CASE Name!Become(Me(c), "failed") /\ UNCHANGED <<entry, stable, place>>
      <4>1. state[Me(c)] \notin Name!Answered
        BY <2>1, <2>2 DEF Write, At, Name!Answered
      <4>2. Name!Answer(Me(c))
        BY <3>3, <4>1 DEF Name!Answer
      <4>3. QED
        BY <2>1, <4>2 DEF Name!Next
    <3>4. QED
      BY <2>2, <3>1, <3>2, <3>3 DEF Write
  <2>3. ASSUME Answer(c) \/ CommitFails(c) PROVE Name!Next
    <3>1. state[Me(c)] \notin Name!Answered
      BY <2>1, <2>3 DEF Answer, CommitFails, At, Name!Answered
    <3>2. Name!Answer(Me(c))
      BY <2>3, <3>1 DEF Answer, CommitFails, Name!Answer
    <3>3. QED
      BY <2>1, <3>2 DEF Name!Next
  <2>4. ASSUME Persist(c) PROVE Name!Next
    BY <2>1, <2>4 DEF Persist, Name!Next
  <2>5. ASSUME Commit(c) PROVE Name!Next
    BY <2>1, <2>5 DEF Commit, Name!Next
  <2>6. ASSUME \/ Begin(c) \/ Preflight(c) \/ PreflightClose(c) \/ Settle(c) \/ Compare(c)
               \/ CompareClose(c) \/ CheckResidue(c) \/ ResidueClose(c)
        PROVE  UNCHANGED names
    BY <2>6 DEF Begin, Preflight, PreflightClose, Settle, Compare, CompareClose, CheckResidue,
                ResidueClose
  <2>7. QED
    BY <1>2, <2>2, <2>3, <2>4, <2>5, <2>6 DEF Step
<1>3. ASSUME Disturb PROVE Name!Next
  BY <1>3 DEF Disturb, Name!Next
<1>4. ASSUME IInv, Crash PROVE Name!Next
  <2>1. TypeOK
    BY <1>4 DEF IInv
  <2>2. \A a \in Paths : entry'[a] \in {entry[a], stable[a]}
    BY <1>4 DEF Crash
  <2>3. /\ entry' \in [Paths -> Publishers \cup {Foreign, Absent}]
        /\ stable' = entry' /\ UNCHANGED place
    BY <1>4 DEF Crash
  <2>4. \A p \in Publishers : state'[p] = IF state[p] \in Name!Answered \/ caller[p[1]].pc = "idle"
                                         THEN state[p] ELSE "failed"
    BY <1>4 DEF Crash
  <2>5. ASSUME NEW p \in Publishers, state[p] \notin Name!Answered, state[p] # "pending"
        PROVE  state'[p] = "failed"
    <3>1. caller[p[1]].pc # "idle"
      <4>1. p[1] \in Callers /\ p[2] \in Paths /\ p = <<p[1], p[2]>>
        BY DEF Publishers
      <4>2. caller[p[1]].pc = "idle" => state[p] = "pending"
        BY <1>4, <4>1 DEF IInv, CallerInv, Stage, Preparing
      <4>3. QED
        BY <2>5, <4>2
    <3>2. QED
      BY <2>4, <2>5, <3>1
  <2>6. \A p \in Publishers :
          state'[p] \in IF state[p] \in Name!Answered THEN {state[p]}
                        ELSE IF state[p] = "pending" THEN {"pending", "failed"} ELSE {"failed"}
    BY <2>4, <2>5
  <2>7. state' \in [Publishers -> Name!State]
    <3>1. state' = [p \in Publishers |-> state'[p]]
      BY <1>4 DEF Crash
    <3>2. \A p \in Publishers : state'[p] \in Name!State
      BY <2>1, <2>4 DEF TypeOK, Name!State
    <3>3. QED
      BY <3>1, <3>2
  <2>8. Name!Crash
    BY <2>2, <2>3, <2>6, <2>7 DEF Name!Crash
  <2>9. QED
    BY <2>8 DEF Name!Next
<1>5. IInv /\ [Next]_vars => [Name!Next]_(Name!vars)
  <2>1. UNCHANGED vars => UNCHANGED names
    BY DEF vars
  <2>2. UNCHANGED names <=> UNCHANGED Name!vars
    BY DEF names, Name!vars
  <2>3. QED
    BY <1>2, <1>3, <1>4, <2>1, <2>2 DEF Next
<1>6. QED
  BY <1>1, <1>5, OutputInvariant, PTL DEF Spec, Name!Spec
=============================================================================

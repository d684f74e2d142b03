-------------------------- MODULE ProcessRunProofs --------------------------
(***************************************************************************)
(* Theorems about ProcessRun for all argument lists and limits, any number *)
(* of descendants and any mix of timed and untimed calls: which lists get  *)
(* as far as fork, which processes a kill may reach, what a timed call     *)
(* leaves behind and what its answer means.                                *)
(***************************************************************************)
EXTENDS ProcessRun, NumberLemmas

----------------------------------------------------------------------------
(* Argument lists: what the checks count, and what they let through. *)

(* What an argument list consists of. *)
LEMMA ArgumentsTyped ==
  ASSUME NEW a \in Seq(Argument)
  PROVE  /\ Len(a) \in Nat
         /\ \A i \in 1..Len(a) : a[i].length \in Nat /\ a[i].utf8 \in BOOLEAN
<1>1. Len(a) \in Nat /\ \A i \in 1..Len(a) : a[i] \in Argument
  OBVIOUS
<1>2. \A r \in Argument : r.length \in Nat /\ r.utf8 \in BOOLEAN
  BY DEF Argument
<1>3. QED
  BY <1>1, <1>2

Seen == [status : {"OK", "LIMIT_EXCEEDED", "INVALID_ARGUMENT"}, count : Nat,
         bytes : Nat]

(* The counts are what Take makes of them, argument by argument. *)
LEMMA CountedDefined ==
  ASSUME NEW a \in Seq(Argument)
  PROVE  /\ Counted(a) \in [0..Len(a) -> Seen]
         /\ Counted(a)[0] = [status |-> "OK", count |-> 0, bytes |-> 0]
         /\ \A i \in 1..Len(a) : Counted(a)[i] = Take(Counted(a)[i-1], a[i])
<1> DEFINE start == [status |-> "OK", count |-> 0, bytes |-> 0]
           step == [i \in 1..Len(a) |-> [s \in Seen |-> Take(s, a[i])]]
           Is(f) == f = [i \in 0..Len(a) |->
                           IF i = 0 THEN start ELSE Take(f[i-1], a[i])]
<1>1. start \in Seen
  BY DEF Seen
<1>0. Len(a) \in Nat
  OBVIOUS
<1>2. ASSUME NEW s \in Seen, NEW i \in 1..Len(a) PROVE Take(s, a[i]) \in Seen
  <2>1. a[i].length \in Nat
    BY ArgumentsTyped
  <2>2. /\ [s EXCEPT !.status = "LIMIT_EXCEEDED"] \in Seen
        /\ [s EXCEPT !.status = "INVALID_ARGUMENT"] \in Seen
    BY DEF Seen
  <2>3. [status |-> "OK", count |-> s.count + 1,
         bytes |-> s.bytes + a[i].length + 1] \in Seen
    BY <2>1 DEF Seen
  <2>4. QED
    BY <2>2, <2>3 DEF Take
<1>3. step \in [1..Len(a) -> [Seen -> Seen]]
  BY <1>2
<1>4. PICK f : Iterates(f, Len(a), Seen, start, step)
  <2> HIDE DEF start, step
  <2>1. QED
    BY <1>0, <1>1, <1>3, RecursionUpTo, Zenon
<1>5. ASSUME NEW i \in 1..Len(a) PROVE f[i] = Take(f[i-1], a[i])
  <2>1. f[i-1] \in Seen /\ f[i] = step[i][f[i-1]]
    <3> HIDE DEF step, start, Is
    <3>1. i - 1 \in 0..Len(a)
      BY <1>0
    <3>2. QED
      BY <1>4, <3>1 DEF Iterates
  <2>2. QED
    BY <2>1
<1>6. Is(f)
  <2> HIDE DEF start, step
  <2>1. \A i \in 0..Len(a) : i # 0 => i \in 1..Len(a)
    OBVIOUS
  <2>2. QED
    BY <1>4, <1>5, <2>1 DEF Iterates
<1>7. Counted(a) = CHOOSE g : Is(g)
  BY DEF Counted
<1>8. Is(Counted(a))
  <2> HIDE DEF Is
  <2>1. QED
    BY <1>6, <1>7
<1>9. Counted(a) = [i \in 0..Len(a) |-> IF i = 0 THEN start ELSE Take(Counted(a)[i-1], a[i])]
  BY <1>8
<1>11. /\ Counted(a)[0] = start
       /\ \A i \in 1..Len(a) : Counted(a)[i] = Take(Counted(a)[i-1], a[i])
  BY <1>9, <1>0
<1>12. \A i \in 0..Len(a) : Counted(a)[i] \in Seen
  <2> DEFINE T == {i \in 0..Len(a) : Counted(a)[i] \in Seen}
  <2>1. 0 \in T
    BY <1>1, <1>0, <1>11
  <2>2. ASSUME NEW i \in 1..Len(a), i - 1 \in T PROVE i \in T
    BY <1>2, <1>11, <2>2
  <2>3. \A i \in 0..Len(a) : i \in T
    <3> HIDE DEF T
    <3>1. QED
      BY <1>0, <2>1, <2>2, InductionUpTo
  <2>4. QED
    BY <2>3
<1>13. QED
  BY <1>9, <1>11, <1>12
(* The total is that of the lengths and the terminators. *)
LEMMA BytesDefined ==
  ASSUME NEW a \in Seq(Argument)
  PROVE  /\ Bytes(a) \in [0..Len(a) -> Nat] /\ Bytes(a)[0] = 0
         /\ \A i \in 1..Len(a) : Bytes(a)[i] = Bytes(a)[i-1] + a[i].length + 1
<1> DEFINE step == [i \in 1..Len(a) |-> [n \in Nat |-> n + a[i].length + 1]]
           Is(f) == f = [i \in 0..Len(a) |->
                           IF i = 0 THEN 0 ELSE f[i-1] + a[i].length + 1]
<1>1. Len(a) \in Nat /\ \A i \in 1..Len(a) : a[i].length \in Nat
  BY ArgumentsTyped
<1>2. step \in [1..Len(a) -> [Nat -> Nat]]
  BY <1>1
<1>3. PICK f : Iterates(f, Len(a), Nat, 0, step)
  <2> HIDE DEF step
  <2>1. 0 \in Nat
    OBVIOUS
  <2>2. QED
    BY <1>1, <1>2, <2>1, RecursionUpTo, Zenon
<1>4. ASSUME NEW i \in 1..Len(a) PROVE f[i] = f[i-1] + a[i].length + 1
  <2>1. i - 1 \in 0..Len(a)
    BY <1>1
  <2>2. f[i-1] \in Nat
    BY <1>3, <2>1 DEF Iterates
  <2>3. f[i] = step[i][f[i-1]]
    <3> HIDE DEF step
    <3>1. QED
      BY <1>3 DEF Iterates
  <2>4. QED
    BY <2>2, <2>3
<1>5. Is(f)
  <2> HIDE DEF step
  <2>1. \A i \in 0..Len(a) : i # 0 => i \in 1..Len(a)
    BY <1>1
  <2>2. QED
    BY <1>3, <1>4, <2>1 DEF Iterates
<1>6. Bytes(a) = CHOOSE g : Is(g)
  BY DEF Bytes
<1>7. Is(Bytes(a))
  <2> HIDE DEF Is
  <2>1. QED
    BY <1>5, <1>6
<1>8. Bytes(a) = [i \in 0..Len(a) |->
                    IF i = 0 THEN 0 ELSE Bytes(a)[i-1] + a[i].length + 1]
  BY <1>7
<1>9. /\ Bytes(a)[0] = 0
      /\ \A i \in 1..Len(a) : Bytes(a)[i] = Bytes(a)[i-1] + a[i].length + 1
  BY <1>1, <1>8
<1>10. \A i \in 0..Len(a) : Bytes(a)[i] \in Nat
  <2> DEFINE T == {i \in 0..Len(a) : Bytes(a)[i] \in Nat}
  <2>1. 0 \in T
    BY <1>1, <1>9
  <2>2. ASSUME NEW i \in 1..Len(a), i - 1 \in T PROVE i \in T
    <3>1. Bytes(a)[i-1] \in Nat /\ i \in 0..Len(a)
      BY <1>1, <2>2
    <3>2. Bytes(a)[i-1] + a[i].length + 1 \in Nat
      BY <1>1, <3>1
    <3> HIDE DEF step, Is
    <3>3. QED
      BY <1>9, <3>1, <3>2
  <2>3. \A i \in 0..Len(a) : i \in T
    <3> HIDE DEF T
    <3>1. QED
      BY <1>1, <2>1, <2>2, InductionUpTo
  <2>4. QED
    BY <2>3
<1>11. QED
  BY <1>8, <1>9, <1>10

(* The checks let a list through exactly if it is legal: the counts are right
   up to the first argument that is refused, and a refusal is for ever. *)
LEMMA AdmissionExact ==
  ASSUME NEW a \in Seq(Argument)
  PROVE  /\ Admission(a) \in {"OK", "LIMIT_EXCEEDED", "INVALID_ARGUMENT"}
         /\ Admission(a) = "OK" <=> Legal(a)
<1> USE ProcessAssumption
<1> DEFINE c == Counted(a)
           b == Bytes(a)
           Fits(i) == /\ i <= MaxArguments /\ b[i] <= MaxBytes
                      /\ \A j \in 1..i : a[j].utf8
           Right(i) == /\ c[i].status = "OK" <=> Fits(i)
                       /\ c[i].status = "OK" => c[i].count = i /\ c[i].bytes = b[i]
           T == {i \in 0..Len(a) : Right(i)}
<1>1. Len(a) \in Nat /\ \A i \in 1..Len(a) : a[i].length \in Nat /\ a[i].utf8 \in BOOLEAN
  BY ArgumentsTyped
<1>2. /\ c[0] = [status |-> "OK", count |-> 0, bytes |-> 0]
      /\ \A i \in 0..Len(a) : c[i] \in Seen
      /\ \A i \in 1..Len(a) : c[i] = Take(c[i-1], a[i])
  BY CountedDefined
<1>3. /\ b[0] = 0 /\ \A i \in 0..Len(a) : b[i] \in Nat
      /\ \A i \in 1..Len(a) : b[i] = b[i-1] + a[i].length + 1
  BY BytesDefined
<1> HIDE DEF c, b
<1>4. 0 \in T
  BY <1>1, <1>2, <1>3
<1>5. ASSUME NEW i \in 1..Len(a), i - 1 \in T PROVE i \in T
  <2>1. i \in 0..Len(a) /\ i - 1 \in 0..Len(a)
    BY <1>1
  <2>2. Right(i-1)
    BY <1>5
  <2>3. /\ c[i-1] \in Seen /\ c[i] = Take(c[i-1], a[i])
        /\ b[i-1] \in Nat /\ b[i] = b[i-1] + a[i].length + 1
        /\ a[i].length \in Nat /\ a[i].utf8 \in BOOLEAN
    BY <1>1, <1>2, <1>3, <2>1
  <2>4. Fits(i) <=> /\ Fits(i-1) /\ i - 1 # MaxArguments
                    /\ a[i].length < MaxBytes - b[i-1] /\ a[i].utf8
    <3>1. (\A j \in 1..i : a[j].utf8) <=> (\A j \in 1..(i-1) : a[j].utf8) /\ a[i].utf8
      BY <1>1
    <3>2. QED
      BY <1>1, <2>3, <3>1
  <2>5. CASE c[i-1].status # "OK"
    BY <2>1, <2>2, <2>3, <2>4, <2>5 DEF Take
  <2>6. CASE c[i-1].status = "OK"
    <3>1. c[i-1].count = i - 1 /\ c[i-1].bytes = b[i-1] /\ Fits(i-1)
      BY <2>2, <2>6
    <3> HIDE DEF Fits
    <3>2. CASE i - 1 = MaxArguments \/ a[i].length >= MaxBytes - b[i-1]
      <4>1. c[i].status = "LIMIT_EXCEEDED"
        BY <2>3, <2>6, <3>1, <3>2 DEF Take, Seen
      <4>2. ~Fits(i)
        BY <1>1, <2>3, <2>4, <3>2
      <4>3. QED
        BY <2>1, <4>1, <4>2
    <3>3. CASE ~(i - 1 = MaxArguments \/ a[i].length >= MaxBytes - b[i-1])
      <4>1. CASE a[i].utf8
        <5>1. c[i] = [status |-> "OK", count |-> i, bytes |-> b[i]]
          BY <2>3, <2>6, <3>1, <3>3, <4>1 DEF Take, Seen
        <5>2. Fits(i)
          BY <1>1, <2>3, <2>4, <3>1, <3>3, <4>1
        <5>3. QED
          BY <2>1, <5>1, <5>2
      <4>2. CASE ~a[i].utf8
        <5>1. c[i].status = "INVALID_ARGUMENT"
          BY <2>3, <2>6, <3>1, <3>3, <4>2 DEF Take, Seen
        <5>2. ~Fits(i)
          BY <2>4, <4>2
        <5>3. QED
          BY <2>1, <5>1, <5>2
      <4>3. QED
        BY <4>1, <4>2
    <3>4. QED
      BY <3>2, <3>3
  <2>7. QED
    BY <2>5, <2>6
<1>6. \A i \in 0..Len(a) : i \in T
  <2> HIDE DEF T
  <2>1. QED
    BY <1>1, <1>4, <1>5, InductionUpTo
<1>7. c[Len(a)] \in Seen /\ (c[Len(a)].status = "OK" <=> Fits(Len(a)))
  BY <1>1, <1>2, <1>6
<1>8. Head(a) = a[1]
  OBVIOUS
<1>9. a = <<>> <=> Len(a) = 0
  OBVIOUS
<1>10. QED
  BY <1>1, <1>7, <1>8, <1>9 DEF Admission, Legal, Seen, c, b

----------------------------------------------------------------------------
(* The inductive invariant. *)

ChildStates == {"none", "forked", "ready", "running", "doomed", "zombie", "reaped"}
Stopping == {"stopGroup", "stopChild", "stopWait"}
Verdicts == {"LAUNCH_FAILED", "WAIT_FAILED", "TIMED_OUT"}
Parents == [pc : Labels, arguments : ArgumentLists \cup {<<>>}, timed : BOOLEAN,
            ignoring : BOOLEAN, status : Status, exit : Exits, verdict : Status]

(* TypeOK, with the records as wholes. *)
Typed ==
  /\ parent \in Parents /\ parent.timed \in Timed /\ parent.ignoring \in Ignoring
  /\ child \in [state : ChildStates, grouped : BOOLEAN, exit : Exits]
  /\ desc \in [Descendants -> {"none", "running", "doomed", "dead"}]
  /\ escaped \subseteq Descendants /\ due \in BOOLEAN
  /\ stranger \in {"none", "alive", "hit"}

(* What each point of the call knows of itself and of the child. *)
CallInvariant ==
  /\ parent.pc \in {"call", "fork"} => child.state = "none"
  /\ parent.pc \notin {"call", "fork", "returned"} => child.state # "none"
  /\ parent.pc \in {"setpgid", "killGroup", "reap", "clock"} => parent.timed
  /\ parent.pc \in {"killGroup", "reap"} => child.state = "zombie"
  /\ parent.pc \in Stopping => parent.verdict \in Verdicts
  /\ parent.status # "none" <=> At("returned")
  /\ parent.exit # "none" <=> parent.status = "OK"

(* The caller's SIGKILL reaches a child only after the last poll, so an exit
   status that the poll has seen is the child's own. *)
ExitInvariant ==
  /\ IF child.state \in {"zombie", "reaped"}
     THEN child.exit \in Codes \cup {"127", "killed"} ELSE child.exit = "none"
  /\ parent.pc \notin {"stopChild", "stopWait", "returned"} =>
       child.state # "doomed" /\ child.exit # "killed"
  /\ parent.status = "OK" => /\ child.state = "reaped" /\ parent.exit = child.exit
                             /\ parent.exit \in Codes \cup {"127"}

(* The child keeps its id until the call's last kill is over. *)
OwnInvariant ==
  ~parent.ignoring =>
    /\ child.state = "reaped" => At("returned")
    /\ stranger # "none" => child.state = "reaped"
    /\ stranger # "hit"

Quiet == \A d \in Descendants \ escaped : desc[d] # "running"
(* Once setpgid has answered, a child is in the group before it can exec. *)
Joined == \/ parent.pc \in {"poll", "clock", "killGroup", "reap"}
          \/ parent.pc \in Stopping /\ parent.verdict # "LAUNCH_FAILED"

(* A timed call's child starts nothing before it is in the group, *)
Grouped ==
  parent.timed =>
    /\ child.state \in {"ready", "running"} => child.grouped
    /\ ~child.grouped => \A d \in Descendants : desc[d] = "none"
JoinedInvariant ==
  parent.timed /\ Joined => child.grouped \/ child.state # "forked"
(* and after the group was killed nobody is left in it to start anything. *)
QuietInvariant ==
  parent.timed =>
    /\ At("reap") => Quiet
    /\ parent.pc \in {"stopChild", "stopWait"} /\ parent.verdict # "LAUNCH_FAILED" =>
         Quiet /\ child.state \in {"doomed", "zombie", "reaped"}
    /\ Contained

GroupInvariant == Grouped /\ JoinedInvariant /\ QuietInvariant

IInv == /\ Typed /\ CallInvariant /\ ExitInvariant /\ OwnInvariant
        /\ GroupInvariant /\ LimitsExact

(* The initial states satisfy the invariant. *)
LEMMA InitInv == Init => IInv
<1> SUFFICES ASSUME Init PROVE IInv
  OBVIOUS
<1> USE ProcessAssumption
<1>1. PICK a \in ArgumentLists, t \in Timed, i \in Ignoring :
        parent = [pc |-> "call", arguments |-> a, timed |-> t, ignoring |-> i,
                  status |-> "none", exit |-> "none", verdict |-> "none"]
  BY DEF Init
<1>2. Typed
  BY <1>1 DEF Init, Typed, Parents, Labels, Status, Exits, ChildStates
<1>3. CallInvariant /\ ExitInvariant /\ OwnInvariant /\ GroupInvariant /\ LimitsExact
  BY <1>1 DEF Init, CallInvariant, ExitInvariant, OwnInvariant, GroupInvariant, Grouped,
         JoinedInvariant, QuietInvariant, Contained,
              Joined, Stopping, LimitsExact, At
<1>4. QED
  BY <1>2, <1>3 DEF IInv

(* Nothing changes when no variable does. *)
LEMMA StutterInv == IInv /\ UNCHANGED vars => IInv'
  BY DEF vars, IInv, Typed, CallInvariant, ExitInvariant, OwnInvariant, GroupInvariant,
         Grouped, JoinedInvariant, QuietInvariant,
         Contained, Joined, Quiet, LimitsExact, At

(* What the caller's three kinds of steps do to its record. *)
LEMMA GotoFields ==
  ASSUME parent \in Parents, NEW label \in Labels, Goto(label)
  PROVE  /\ parent' \in Parents /\ parent'.pc = label
         /\ UNCHANGED <<parent.arguments, parent.timed, parent.ignoring, parent.status,
                        parent.exit, parent.verdict>>
  BY DEF Goto, Parents

(* Return answers the call and touches nothing else of it. *)
LEMMA ReturnFields ==
  ASSUME parent \in Parents, NEW status \in Status, Return(status)
  PROVE  /\ parent' \in Parents /\ parent'.pc = "returned" /\ parent'.status = status
         /\ UNCHANGED <<parent.arguments, parent.timed, parent.ignoring, parent.exit,
                        parent.verdict>>
<1>1. "returned" \in Labels
  BY DEF Labels
<1>2. QED
  BY <1>1 DEF Return, Parents

(* Stop keeps the answer for when the child has been stopped. *)
LEMMA StopFields ==
  ASSUME parent \in Parents, NEW status \in Status, Stop(status)
  PROVE  /\ parent' \in Parents /\ parent'.pc = "stopGroup" /\ parent'.verdict = status
         /\ UNCHANGED <<parent.arguments, parent.timed, parent.ignoring, parent.status,
                        parent.exit>>
<1>1. "stopGroup" \in Labels
  BY DEF Labels
<1>2. QED
  BY <1>1 DEF Stop, Parents

(* The caller's own record keeps its type. *)
LEMMA ParentTyped ==
  ASSUME Typed, Next
  PROVE  parent' \in Parents /\ UNCHANGED <<parent.timed, parent.ignoring>>
<1>1. parent \in Parents /\ parent.verdict \in Status
  BY DEF Typed, Parents
<1>2. SUFFICES \/ parent' = parent
               \/ \E label \in Labels : Goto(label)
               \/ \E status \in Status : Return(status) \/ Stop(status)
               \/ parent' \in Parents /\ UNCHANGED <<parent.timed, parent.ignoring>>
  BY <1>1, GotoFields, ReturnFields, StopFields
<1> USE <1>1 DEF Labels, Status
<1>3. CASE Call
  <2>1. parent.arguments \in Seq(Argument)
    <3>1. <<>> \in Seq(Argument)
      OBVIOUS
    <3>2. QED
      BY <3>1, ProcessAssumption DEF Parents
  <2>2. Admission(parent.arguments) \in {"OK", "LIMIT_EXCEEDED", "INVALID_ARGUMENT"}
    BY <2>1, AdmissionExact
  <2>3. Goto("fork") \/ Return(Admission(parent.arguments))
    BY <1>3 DEF Call
  <2>4. QED
    BY <2>2, <2>3
<1>4. CASE Fork
  <2>1. CASE parent' = [parent EXCEPT !.arguments = <<>>,
                         !.pc = IF parent.timed THEN "setpgid" ELSE "poll"]
    <3> DEFINE emptied == [parent EXCEPT !.arguments = <<>>]
    <3>1. emptied \in Parents /\ emptied.timed = parent.timed
                              /\ emptied.ignoring = parent.ignoring
      BY DEF Parents
    <3>2. parent' = [emptied EXCEPT !.pc = IF parent.timed THEN "setpgid" ELSE "poll"]
      BY <2>1
    <3> HIDE DEF emptied
    <3>3. QED
      BY <3>1, <3>2 DEF Parents
  <2>2. QED
    BY <1>4, <2>1 DEF Fork
<1>5. CASE Setpgid
  BY <1>5 DEF Setpgid
<1>6. CASE PollTimed
  BY <1>6 DEF PollTimed, Polled
<1>7. CASE KillGroup \/ StopGroup \/ StopChild
  BY <1>7 DEF KillGroup, StopGroup, StopChild
<1>8. CASE Reap
  <2>1. child.exit \in Exits
    BY DEF Typed
  <2>2. CASE parent' = [parent EXCEPT !.pc = "returned", !.status = "OK",
                                      !.exit = child.exit]
    <3> DEFINE left == [parent EXCEPT !.pc = "returned", !.status = "OK"]
    <3>1. left \in Parents /\ left.timed = parent.timed /\ left.ignoring = parent.ignoring
      BY DEF Parents
    <3>2. parent' = [left EXCEPT !.exit = child.exit]
      BY <2>2
    <3> HIDE DEF left
    <3>3. QED
      BY <2>1, <3>1, <3>2 DEF Parents
  <2>3. QED
    BY <1>8, <2>2 DEF Reap
<1>9. CASE Clock
  BY <1>9 DEF Clock
<1>10. CASE StopWait
  BY <1>10 DEF StopWait
<1>11. CASE Kernel
  BY <1>11 DEF Kernel, ChildSetpgid, ChildExec, ChildExits, ChildDies, Recycle,
               DeadlinePasses, Spawn, Escape, Ends
<1>12. QED
  BY <1>3, <1>4, <1>5, <1>6, <1>7, <1>8, <1>9, <1>10, <1>11 DEF Next, Parent

Children == [state : ChildStates, grouped : BOOLEAN, exit : Exits]

(* So does the child's. *)
LEMMA ChildTyped ==
  ASSUME Typed, Next
  PROVE  child' \in Children
<1> USE DEF Typed, Children, ChildStates
<1>1. KilledChild \in Children
  BY DEF KilledChild
<1>2. ASSUME NEW code \in Exits, Exit(code) PROVE child' \in Children
  BY <1>2 DEF Exit
<1>3. "127" \in Exits /\ "killed" \in Exits /\ Codes \subseteq Exits
  BY DEF Exits
<1>4. CASE Call \/ PollTimed \/ Clock
  BY <1>4 DEF Call, PollTimed, Clock
<1>5. CASE Fork \/ Reap \/ StopWait
  BY <1>5 DEF Fork, Reap, StopWait
<1>6. CASE Setpgid
  <2>1. child' = child \/ \E g \in BOOLEAN : child' = [child EXCEPT !.grouped = g]
    BY <1>6 DEF Setpgid
  <2>2. QED
    BY <2>1
<1>7. CASE KillGroup \/ StopGroup \/ StopChild
  BY <1>1, <1>7 DEF KillGroup, StopGroup, StopChild, KillTheGroup
<1>8. CASE ChildSetpgid
  <2>1. child' = [child EXCEPT !.state = "ready", !.grouped = TRUE] \/ Exit("127")
    BY <1>8 DEF ChildSetpgid
  <2>2. QED
    BY <1>2, <1>3, <2>1
<1>9. CASE ChildExec
  <2>1. child' = [child EXCEPT !.state = "running"] \/ Exit("127")
    BY <1>9 DEF ChildExec
  <2>2. QED
    BY <1>2, <1>3, <2>1
<1>10. CASE ChildExits \/ ChildDies
  BY <1>2, <1>3, <1>10 DEF ChildExits, ChildDies
<1>11. CASE Recycle \/ DeadlinePasses \/ \E d \in Descendants : Spawn(d) \/ Escape(d) \/ Ends(d)
  BY <1>11 DEF Recycle, DeadlinePasses, Spawn, Escape, Ends
<1>12. QED
  BY <1>4, <1>5, <1>6, <1>7, <1>8, <1>9, <1>10, <1>11 DEF Next, Parent, Kernel

(* The same for the steps that only move on, stop or return. *)
Kept == UNCHANGED <<child, desc, escaped, stranger, parent.timed, parent.ignoring,
                    parent.exit>>
Moves(label) == parent'.pc = label /\ UNCHANGED <<parent.arguments, parent.status>>
Stops(verdict) == Moves("stopGroup") /\ parent'.verdict = verdict
Returns(statuses) == parent'.pc = "returned" /\ parent'.status \in statuses
                     /\ UNCHANGED parent.arguments

(* Call goes on exactly with a legal list. *)
LEMMA CallDoes ==
  ASSUME Typed, Call
  PROVE  /\ At("call") /\ Kept /\ UNCHANGED parent.verdict
         /\ \/ Legal(parent.arguments) /\ Moves("fork")
            \/ /\ ~Legal(parent.arguments)
               /\ Returns({"LIMIT_EXCEEDED", "INVALID_ARGUMENT"})
<1>1. parent.arguments \in Seq(Argument)
  <2>1. <<>> \in Seq(Argument)
    OBVIOUS
  <2>2. QED
    BY <2>1, ProcessAssumption DEF Typed, Parents
<1>2. /\ Admission(parent.arguments) \in {"OK", "LIMIT_EXCEEDED", "INVALID_ARGUMENT"}
      /\ Admission(parent.arguments) = "OK" <=> Legal(parent.arguments)
  BY <1>1, AdmissionExact
<1>3. At("call") /\ UNCHANGED <<child, desc, escaped, stranger>>
  BY DEF Call
<1>4. CASE Admission(parent.arguments) = "OK"
  <2>1. Goto("fork")
    BY <1>4 DEF Call
  <2>2. QED
    BY <1>2, <1>3, <1>4, <2>1, GotoFields DEF Typed, Labels, Kept, Moves
<1>5. CASE Admission(parent.arguments) # "OK"
  <2>1. Return(Admission(parent.arguments))
    BY <1>5 DEF Call
  <2>2. QED
    BY <1>2, <1>3, <1>5, <2>1, ReturnFields DEF Typed, Status, Kept, Returns
<1>6. QED
  BY <1>4, <1>5

(* The parent's setpgid, if it answers, moves a child that has not called exec. *)
LEMMA SetpgidDoes ==
  ASSUME Typed, Setpgid
  PROVE  /\ At("setpgid")
         /\ \/ Moves("poll") /\ (child.state \in {"forked", "ready"} => child'.grouped)
            \/ Stops("LAUNCH_FAILED")
         /\ child'.state = child.state /\ child'.exit = child.exit
         /\ child.grouped => child'.grouped
         /\ UNCHANGED <<desc, escaped, stranger, parent.timed, parent.ignoring, parent.exit>>
<1>1. At("setpgid") /\ UNCHANGED <<desc, escaped, stranger>>
  BY DEF Setpgid
<1>2. CASE Goto("poll") /\ child' = [child EXCEPT !.grouped =
                               @ \/ child.state \in {"forked", "ready"}]
  <2>1. /\ child'.state = child.state /\ child'.exit = child.exit
        /\ child.grouped => child'.grouped
        /\ child.state \in {"forked", "ready"} => child'.grouped
    BY <1>2 DEF Typed
  <2>2. QED
    BY <1>1, <1>2, <2>1, GotoFields DEF Typed, Labels, Moves
<1>3. CASE Stop("LAUNCH_FAILED") /\ UNCHANGED child
  BY <1>1, <1>3, StopFields DEF Typed, Status, Moves, Stops
<1>4. QED
  BY <1>2, <1>3 DEF Setpgid

(* A poll goes on to the kill only over a zombie. *)
LEMMA PollDoes ==
  ASSUME Typed, PollTimed
  PROVE  /\ At("poll") /\ parent.timed /\ Kept
         /\ \/ child.state = "zombie" /\ Moves("killGroup")
            \/ child.state = "reaped" /\ Returns({"WAIT_FAILED"})
            \/ Moves("clock")
            \/ Stops("WAIT_FAILED")
<1>1. \/ child.state = "zombie" /\ Goto("killGroup")
      \/ child.state = "reaped" /\ Return("WAIT_FAILED")
      \/ Goto("clock")
      \/ Stop("WAIT_FAILED")
  BY Zenon DEF PollTimed, Polled
<1>2. At("poll") /\ parent.timed /\ UNCHANGED <<child, desc, escaped, stranger>>
  BY DEF PollTimed
<1>3. QED
  BY <1>1, <1>2, GotoFields, ReturnFields, StopFields
  DEF Typed, Labels, Status, Kept, Moves, Returns, Stops

(* The clock leads to the next poll or to stop_child. *)
LEMMA ClockDoes ==
  ASSUME Typed, Clock
  PROVE  /\ At("clock") /\ Kept
         /\ Moves("poll") \/ Stops("TIMED_OUT") \/ Stops("WAIT_FAILED")
<1>1. Goto("poll") \/ Stop("TIMED_OUT") \/ Stop("WAIT_FAILED")
  BY Zenon DEF Clock
<1>2. At("clock") /\ UNCHANGED <<child, desc, escaped, stranger>>
  BY DEF Clock
<1>3. QED
  BY <1>1, <1>2, GotoFields, StopFields
  DEF Typed, Labels, Status, Kept, Moves, Stops

(* Exec runs the program or ends the child with 127. *)
LEMMA ExecDoes ==
  ASSUME Typed, ChildExec
  PROVE  /\ UNCHANGED <<parent, desc, escaped, stranger, child.grouped>>
         /\ child.state = IF parent.timed THEN "ready" ELSE "forked"
         /\ \/ child'.state = "running" /\ child'.exit = child.exit
            \/ child'.state \in {"zombie", "reaped"} /\ child'.exit = "127"
               /\ (child'.state = "reaped" => parent.ignoring)
<1>1. CASE child' = [child EXCEPT !.state = "running"]
  BY <1>1 DEF ChildExec, Typed
<1>2. CASE Exit("127")
  BY <1>2 DEF ChildExec, Exit, Typed
<1>3. QED
  BY <1>1, <1>2 DEF ChildExec

(* Fork makes a child or ends the call. *)
LEMMA ForkDoes ==
  ASSUME Typed, Fork
  PROVE  /\ At("fork")
         /\ UNCHANGED <<desc, escaped, stranger, child.grouped, child.exit, parent.timed,
                        parent.ignoring, parent.exit, parent.verdict>>
         /\ \/ /\ parent'.pc = IF parent.timed THEN "setpgid" ELSE "poll"
               /\ UNCHANGED parent.status /\ child'.state = "forked"
            \/ Returns({"WAIT_FAILED", "LAUNCH_FAILED"}) /\ UNCHANGED child
<1>1. At("fork") /\ UNCHANGED <<desc, escaped, stranger>>
  BY DEF Fork
<1>2. CASE /\ parent' = [parent EXCEPT !.arguments = <<>>,
                          !.pc = IF parent.timed THEN "setpgid" ELSE "poll"]
           /\ child' = [child EXCEPT !.state = "forked"]
  <2>1. /\ parent'.pc = IF parent.timed THEN "setpgid" ELSE "poll"
        /\ UNCHANGED <<parent.timed, parent.ignoring, parent.exit, parent.verdict,
                       parent.status>>
    BY <1>2 DEF Typed, Parents
  <2>2. child'.state = "forked" /\ UNCHANGED <<child.grouped, child.exit>>
    BY <1>2 DEF Typed
  <2>3. QED
    BY <1>1, <2>1, <2>2
<1>3. CASE (Return("WAIT_FAILED") \/ Return("LAUNCH_FAILED")) /\ UNCHANGED child
  BY <1>1, <1>3, ReturnFields DEF Typed, Status, Returns
<1>4. QED
  BY <1>2, <1>3 DEF Fork

(* The child joins the group before it may exec. *)
LEMMA ChildSetpgidDoes ==
  ASSUME Typed, ChildSetpgid
  PROVE  /\ UNCHANGED <<parent, desc, escaped, stranger>>
         /\ parent.timed /\ child.state = "forked"
         /\ child.grouped => child'.grouped
         /\ \/ child'.state = "ready" /\ child'.grouped /\ child'.exit = child.exit
            \/ child'.state \in {"zombie", "reaped"} /\ child'.exit = "127"
               /\ (child'.state = "reaped" => parent.ignoring)
<1>1. CASE child' = [child EXCEPT !.state = "ready", !.grouped = TRUE]
  BY <1>1 DEF ChildSetpgid, Typed
<1>2. CASE Exit("127")
  BY <1>2 DEF ChildSetpgid, Exit, Typed
<1>3. QED
  BY <1>1, <1>2 DEF ChildSetpgid

(* What is known of exit codes. *)
LEMMA ExitStep ==
  ASSUME Typed, CallInvariant, ExitInvariant, Next
  PROVE  ExitInvariant'
<1> USE ProcessAssumption, ParentTyped, ChildTyped
    DEF Typed, Parents, Children, Labels, Status, Exits, ChildStates, Stopping, Verdicts,
        At, Goto, Return, Stop, CallInvariant, ExitInvariant
<1>1. CASE Call
  BY <1>1, CallDoes DEF Kept, Moves, Returns
<1>2. CASE Fork
  BY <1>2, ForkDoes DEF Returns
<1>3. CASE Setpgid
  BY <1>3, SetpgidDoes DEF Moves, Stops
<1>4. CASE PollTimed
  BY <1>4, PollDoes DEF Kept, Moves, Returns, Stops
<1>5. CASE KillGroup
  BY <1>5 DEF KillGroup, KillTheGroup, KilledChild, DoomedIn, StrangerHit,
     ChildLives
<1>6. CASE Reap
  <2>1. CASE child.state = "zombie" /\ child' = [child EXCEPT !.state = "reaped"]
               /\ parent' = [parent EXCEPT !.pc = "returned", !.status = "OK",
                                           !.exit = child.exit]
    BY <1>6, <2>1 DEF Reap
  <2>2. CASE child.state = "reaped" /\ Return("WAIT_FAILED") /\ UNCHANGED child
    BY <1>6, <2>2 DEF Reap
  <2>3. CASE Stop("WAIT_FAILED") /\ UNCHANGED child
    BY <1>6, <2>3 DEF Reap
  <2>4. QED
    BY <1>6, <2>1, <2>2, <2>3 DEF Reap
<1>7. CASE Clock
  BY <1>7, ClockDoes DEF Kept, Moves, Stops
<1>8. CASE StopGroup
  BY <1>8 DEF StopGroup, KillTheGroup, KilledChild, DoomedIn, StrangerHit,
     ChildLives
<1>9. CASE StopChild
  BY <1>9 DEF StopChild, KilledChild, StrangerHit, ChildLives
<1>10. CASE StopWait
  BY <1>10 DEF StopWait
<1>11. CASE ChildSetpgid
  BY <1>11, ChildSetpgidDoes
<1>12. CASE ChildExec
  BY <1>12, ExecDoes
<1>13. CASE ChildExits
  BY <1>13 DEF ChildExits, Exit
<1>14. CASE ChildDies
  BY <1>14 DEF ChildDies, Exit
<1>15. CASE Recycle
  BY <1>15 DEF Recycle
<1>16. CASE DeadlinePasses
  BY <1>16 DEF DeadlinePasses
<1>17. ASSUME NEW d \in Descendants, Spawn(d) \/ Escape(d) \/ Ends(d) PROVE ExitInvariant'
  BY <1>17 DEF Spawn, Escape, Ends
<1>18. QED
  BY <1>1, <1>2, <1>3, <1>4, <1>5, <1>6, <1>7, <1>8, <1>9, <1>10,
     <1>11, <1>12, <1>13, <1>14, <1>15, <1>16, <1>17
     DEF Next, Parent, Kernel

(* What the call knows of itself. *)
LEMMA CallStep ==
  ASSUME Typed, CallInvariant, ExitInvariant, Next
  PROVE  CallInvariant'
<1> USE ProcessAssumption, ParentTyped, ChildTyped
    DEF Typed, Parents, Children, Labels, Status, Exits, ChildStates, Stopping, Verdicts,
        At, Goto, Return, Stop, CallInvariant, ExitInvariant
<1>1. CASE Call
  BY <1>1, CallDoes DEF Kept, Moves, Returns
<1>2. CASE Fork
  BY <1>2, ForkDoes DEF Returns
<1>3. CASE Setpgid
  BY <1>3, SetpgidDoes DEF Moves, Stops
<1>4. CASE PollTimed
  BY <1>4, PollDoes DEF Kept, Moves, Returns, Stops
<1>5. CASE KillGroup
  BY <1>5 DEF KillGroup, KillTheGroup, KilledChild, DoomedIn, StrangerHit,
     ChildLives
<1>6. CASE Reap
  <2>1. CASE child.state = "zombie" /\ child' = [child EXCEPT !.state = "reaped"]
               /\ parent' = [parent EXCEPT !.pc = "returned", !.status = "OK",
                                           !.exit = child.exit]
    BY <1>6, <2>1 DEF Reap
  <2>2. CASE child.state = "reaped" /\ Return("WAIT_FAILED") /\ UNCHANGED child
    BY <1>6, <2>2 DEF Reap
  <2>3. CASE Stop("WAIT_FAILED") /\ UNCHANGED child
    BY <1>6, <2>3 DEF Reap
  <2>4. QED
    BY <1>6, <2>1, <2>2, <2>3 DEF Reap
<1>7. CASE Clock
  BY <1>7, ClockDoes DEF Kept, Moves, Stops
<1>8. CASE StopGroup
  BY <1>8 DEF StopGroup, KillTheGroup, KilledChild, DoomedIn, StrangerHit,
     ChildLives
<1>9. CASE StopChild
  BY <1>9 DEF StopChild, KilledChild, StrangerHit, ChildLives
<1>10. CASE StopWait
  BY <1>10 DEF StopWait
<1>11. CASE ChildSetpgid
  BY <1>11, ChildSetpgidDoes
<1>12. CASE ChildExec
  BY <1>12, ExecDoes
<1>13. CASE ChildExits
  BY <1>13 DEF ChildExits, Exit
<1>14. CASE ChildDies
  BY <1>14 DEF ChildDies, Exit
<1>15. CASE Recycle
  BY <1>15 DEF Recycle
<1>16. CASE DeadlinePasses
  BY <1>16 DEF DeadlinePasses
<1>17. ASSUME NEW d \in Descendants, Spawn(d) \/ Escape(d) \/ Ends(d) PROVE CallInvariant'
  BY <1>17 DEF Spawn, Escape, Ends
<1>18. QED
  BY <1>1, <1>2, <1>3, <1>4, <1>5, <1>6, <1>7, <1>8, <1>9, <1>10,
     <1>11, <1>12, <1>13, <1>14, <1>15, <1>16, <1>17
     DEF Next, Parent, Kernel

(* The id stays the child's until the call is over. *)
LEMMA OwnStep ==
  ASSUME Typed, CallInvariant, OwnInvariant, Next
  PROVE  OwnInvariant'
<1> USE ProcessAssumption, ParentTyped, ChildTyped
    DEF Typed, Parents, Children, Labels, Status, Exits, ChildStates, Stopping, Verdicts,
        At, Goto, Return, Stop, CallInvariant, OwnInvariant
<1>1. CASE Call
  BY <1>1, CallDoes DEF Kept, Moves, Returns
<1>2. CASE Fork
  BY <1>2, ForkDoes DEF Returns
<1>3. CASE Setpgid
  BY <1>3, SetpgidDoes DEF Moves, Stops
<1>4. CASE PollTimed
  BY <1>4, PollDoes DEF Kept, Moves, Returns, Stops
<1>5. CASE KillGroup
  BY <1>5 DEF KillGroup, KillTheGroup, KilledChild, DoomedIn, StrangerHit,
     ChildLives
<1>6. CASE Reap
  <2>1. CASE child.state = "zombie" /\ child' = [child EXCEPT !.state = "reaped"]
               /\ parent' = [parent EXCEPT !.pc = "returned", !.status = "OK",
                                           !.exit = child.exit]
    BY <1>6, <2>1 DEF Reap
  <2>2. CASE child.state = "reaped" /\ Return("WAIT_FAILED") /\ UNCHANGED child
    BY <1>6, <2>2 DEF Reap
  <2>3. CASE Stop("WAIT_FAILED") /\ UNCHANGED child
    BY <1>6, <2>3 DEF Reap
  <2>4. QED
    BY <1>6, <2>1, <2>2, <2>3 DEF Reap
<1>7. CASE Clock
  BY <1>7, ClockDoes DEF Kept, Moves, Stops
<1>8. CASE StopGroup
  BY <1>8 DEF StopGroup, KillTheGroup, KilledChild, DoomedIn, StrangerHit,
     ChildLives
<1>9. CASE StopChild
  BY <1>9 DEF StopChild, KilledChild, StrangerHit, ChildLives
<1>10. CASE StopWait
  BY <1>10 DEF StopWait
<1>11. CASE ChildSetpgid
  BY <1>11, ChildSetpgidDoes
<1>12. CASE ChildExec
  BY <1>12, ExecDoes
<1>13. CASE ChildExits
  BY <1>13 DEF ChildExits, Exit
<1>14. CASE ChildDies
  BY <1>14 DEF ChildDies, Exit
<1>15. CASE Recycle
  BY <1>15 DEF Recycle
<1>16. CASE DeadlinePasses
  BY <1>16 DEF DeadlinePasses
<1>17. ASSUME NEW d \in Descendants, Spawn(d) \/ Escape(d) \/ Ends(d) PROVE OwnInvariant'
  BY <1>17 DEF Spawn, Escape, Ends
<1>18. QED
  BY <1>1, <1>2, <1>3, <1>4, <1>5, <1>6, <1>7, <1>8, <1>9, <1>10,
     <1>11, <1>12, <1>13, <1>14, <1>15, <1>16, <1>17
     DEF Next, Parent, Kernel

(* A child that can start something is in the group. *)
LEMMA GroupedStep ==
  ASSUME Typed, CallInvariant, Grouped, Next
  PROVE  Grouped'
<1>1. UNCHANGED parent.timed
  BY ParentTyped
<1>2. SUFFICES /\ child.grouped => child'.grouped
               /\ parent.timed /\ child'.state \in {"ready", "running"} => child'.grouped
               /\ parent.timed /\ ~child.grouped =>
                    \A d \in Descendants : desc'[d] = "none" \/ child'.grouped
  BY <1>1 DEF Grouped
<1> USE DEF Typed, Grouped
<1>3. CASE Call \/ PollTimed \/ Clock
  BY <1>3, CallDoes, PollDoes, ClockDoes DEF Kept
<1>4. CASE Setpgid
  BY <1>4, SetpgidDoes
<1>5. CASE Fork \/ Reap \/ StopWait
  BY <1>5 DEF Fork, Reap, StopWait
<1>6. CASE KillGroup \/ StopGroup \/ StopChild
  <2>1. child' = child \/ child' = KilledChild
    BY <1>6 DEF KillGroup, StopGroup, StopChild, KillTheGroup
  <2>2. desc' = desc \/ desc' = DoomedIn(Descendants \ escaped)
    BY <1>6 DEF KillGroup, StopGroup, StopChild, KillTheGroup
  <2>3. /\ child'.grouped = child.grouped
        /\ child'.state \in {"ready", "running"} => child'.state = child.state
    BY <2>1 DEF KilledChild, ChildLives
  <2>4. \A d \in Descendants : desc[d] = "none" => desc'[d] = "none"
    BY <2>2 DEF DoomedIn
  <2>5. QED
    BY <2>3, <2>4
<1>7. CASE ChildSetpgid
  BY <1>7, ChildSetpgidDoes
<1>8. CASE ChildExec
  BY <1>8, ExecDoes
<1>9. CASE ChildExits \/ ChildDies
  BY <1>9 DEF ChildExits, ChildDies, Exit
<1>10. CASE Recycle \/ DeadlinePasses
  BY <1>10 DEF Recycle, DeadlinePasses
<1>11. ASSUME NEW d \in Descendants, Spawn(d) \/ Escape(d) \/ Ends(d)
       PROVE  child' = child /\ (parent.timed /\ ~child.grouped => desc' = desc)
  BY <1>11 DEF Spawn, Escape, Ends
<1>12. QED
  BY <1>3, <1>4, <1>5, <1>6, <1>7, <1>8, <1>9, <1>10, <1>11 DEF Next, Parent, Kernel

(* After setpgid the child is in the group, or has ended. *)
LEMMA JoinedStep ==
  ASSUME Typed, CallInvariant, JoinedInvariant, Next
  PROVE  JoinedInvariant'
<1> USE ProcessAssumption, ParentTyped, ChildTyped
    DEF Typed, Parents, Children, Labels, Status, Exits, ChildStates, Stopping, Verdicts,
        At, Goto, Return, Stop, CallInvariant, JoinedInvariant, Joined
<1>1. CASE Call
  BY <1>1, CallDoes DEF Kept, Moves, Returns
<1>2. CASE Fork
  BY <1>2, ForkDoes DEF Returns
<1>3. CASE Setpgid
  BY <1>3, SetpgidDoes DEF Moves, Stops
<1>4. CASE PollTimed
  BY <1>4, PollDoes DEF Kept, Moves, Returns, Stops
<1>5. CASE KillGroup
  BY <1>5 DEF KillGroup, KillTheGroup, KilledChild, DoomedIn, StrangerHit,
     ChildLives
<1>6. CASE Reap
  <2>1. CASE child.state = "zombie" /\ child' = [child EXCEPT !.state = "reaped"]
               /\ parent' = [parent EXCEPT !.pc = "returned", !.status = "OK",
                                           !.exit = child.exit]
    BY <1>6, <2>1 DEF Reap
  <2>2. CASE child.state = "reaped" /\ Return("WAIT_FAILED") /\ UNCHANGED child
    BY <1>6, <2>2 DEF Reap
  <2>3. CASE Stop("WAIT_FAILED") /\ UNCHANGED child
    BY <1>6, <2>3 DEF Reap
  <2>4. QED
    BY <1>6, <2>1, <2>2, <2>3 DEF Reap
<1>7. CASE Clock
  BY <1>7, ClockDoes DEF Kept, Moves, Stops
<1>8. CASE StopGroup
  BY <1>8 DEF StopGroup, KillTheGroup, KilledChild, DoomedIn, StrangerHit,
     ChildLives
<1>9. CASE StopChild
  BY <1>9 DEF StopChild, KilledChild, StrangerHit, ChildLives
<1>10. CASE StopWait
  BY <1>10 DEF StopWait
<1>11. CASE ChildSetpgid
  BY <1>11, ChildSetpgidDoes
<1>12. CASE ChildExec
  BY <1>12, ExecDoes
<1>13. CASE ChildExits
  BY <1>13 DEF ChildExits, Exit
<1>14. CASE ChildDies
  BY <1>14 DEF ChildDies, Exit
<1>15. CASE Recycle
  BY <1>15 DEF Recycle
<1>16. CASE DeadlinePasses
  BY <1>16 DEF DeadlinePasses
<1>17. ASSUME NEW d \in Descendants, Spawn(d) \/ Escape(d) \/ Ends(d) PROVE JoinedInvariant'
  BY <1>17 DEF Spawn, Escape, Ends
<1>18. QED
  BY <1>1, <1>2, <1>3, <1>4, <1>5, <1>6, <1>7, <1>8, <1>9, <1>10,
     <1>11, <1>12, <1>13, <1>14, <1>15, <1>16, <1>17
     DEF Next, Parent, Kernel

(* After the kill nobody in the group runs. *)
LEMMA QuietStep ==
  ASSUME Typed, CallInvariant, OwnInvariant, Grouped, JoinedInvariant, QuietInvariant, Next
  PROVE  QuietInvariant'
<1> USE ProcessAssumption, ParentTyped, ChildTyped
    DEF Typed, Parents, Children, Labels, Status, Exits, ChildStates, Stopping, Verdicts,
        At, Goto, Return, Stop, CallInvariant, OwnInvariant, Grouped, JoinedInvariant, Joined,
        QuietInvariant, Quiet, Contained
<1>1. CASE Call
  BY <1>1, CallDoes DEF Kept, Moves, Returns
<1>2. CASE Fork
  BY <1>2, ForkDoes DEF Returns
<1>3. CASE Setpgid
  BY <1>3, SetpgidDoes DEF Moves, Stops
<1>4. CASE PollTimed
  BY <1>4, PollDoes DEF Kept, Moves, Returns, Stops
<1>5. CASE KillGroup
  BY <1>5 DEF KillGroup, KillTheGroup, KilledChild, DoomedIn, StrangerHit,
     ChildLives
<1>6. CASE Reap
  <2>1. CASE child.state = "zombie" /\ child' = [child EXCEPT !.state = "reaped"]
               /\ parent' = [parent EXCEPT !.pc = "returned", !.status = "OK",
                                           !.exit = child.exit]
    BY <1>6, <2>1 DEF Reap
  <2>2. CASE child.state = "reaped" /\ Return("WAIT_FAILED") /\ UNCHANGED child
    BY <1>6, <2>2 DEF Reap
  <2>3. CASE Stop("WAIT_FAILED") /\ UNCHANGED child
    BY <1>6, <2>3 DEF Reap
  <2>4. QED
    BY <1>6, <2>1, <2>2, <2>3 DEF Reap
<1>7. CASE Clock
  BY <1>7, ClockDoes DEF Kept, Moves, Stops
<1>8. CASE StopGroup
  BY <1>8 DEF StopGroup, KillTheGroup, KilledChild, DoomedIn, StrangerHit,
     ChildLives
<1>9. CASE StopChild
  BY <1>9 DEF StopChild, KilledChild, StrangerHit, ChildLives
<1>10. CASE StopWait
  BY <1>10 DEF StopWait
<1>11. CASE ChildSetpgid
  BY <1>11, ChildSetpgidDoes
<1>12. CASE ChildExec
  BY <1>12, ExecDoes
<1>13. CASE ChildExits
  BY <1>13 DEF ChildExits, Exit
<1>14. CASE ChildDies
  BY <1>14 DEF ChildDies, Exit
<1>15. CASE Recycle
  BY <1>15 DEF Recycle
<1>16. CASE DeadlinePasses
  BY <1>16 DEF DeadlinePasses
<1>17. ASSUME NEW d \in Descendants, Spawn(d) \/ Escape(d) \/ Ends(d) PROVE QuietInvariant'
  BY <1>17 DEF Spawn, Escape, Ends
<1>18. QED
  BY <1>1, <1>2, <1>3, <1>4, <1>5, <1>6, <1>7, <1>8, <1>9, <1>10,
     <1>11, <1>12, <1>13, <1>14, <1>15, <1>16, <1>17
     DEF Next, Parent, Kernel

(* Who is refused, or reaches fork, was or was not within the limits. *)
LEMMA LimitsStep ==
  ASSUME Typed, CallInvariant, LimitsExact, Next
  PROVE  LimitsExact'
<1> USE ProcessAssumption
    DEF Typed, Parents, Children, Labels, Status, Exits, ChildStates, Stopping, Verdicts,
        CallInvariant, LimitsExact, At
<1>1. CASE Call
  BY <1>1, CallDoes DEF Kept, Moves, Returns
<1>2. CASE Fork
  BY <1>2, ForkDoes DEF Returns
<1>3. CASE Setpgid
  BY <1>3, SetpgidDoes DEF Moves, Stops
<1>4. CASE PollTimed
  BY <1>4, PollDoes DEF Kept, Moves, Returns, Stops
<1>5. CASE KillGroup
  BY <1>5, GotoFields DEF KillGroup
<1>6. CASE Reap
  <2>1. CASE parent' = [parent EXCEPT !.pc = "returned", !.status = "OK",
                                      !.exit = child.exit]
    BY <2>1
  <2>2. CASE Return("WAIT_FAILED") \/ Stop("WAIT_FAILED")
    BY <1>6, <2>2, ReturnFields, StopFields DEF Reap
  <2>3. QED
    BY <1>6, <2>1, <2>2 DEF Reap
<1>7. CASE Clock
  BY <1>7, ClockDoes DEF Kept, Moves, Stops
<1>8. CASE StopGroup \/ StopChild
  BY <1>8, GotoFields DEF StopGroup, StopChild
<1>9. CASE StopWait
  BY <1>9, ReturnFields DEF StopWait
<1>10. CASE Kernel
  BY <1>10 DEF Kernel, ChildSetpgid, ChildExec, ChildExits, ChildDies, Recycle,
               DeadlinePasses, Spawn, Escape, Ends
<1>11. QED
  BY <1>1, <1>2, <1>3, <1>4, <1>5, <1>6, <1>7, <1>8, <1>9, <1>10 DEF Next, Parent

(* The descendants, the clock and the stranger keep their types, too. *)
LEMMA TypedStep ==
  ASSUME Typed, CallInvariant, Next
  PROVE  Typed'
<1> USE DEF Typed
<1>1. /\ parent' \in Parents /\ parent'.timed \in Timed /\ parent'.ignoring \in Ignoring
      /\ child' \in [state : ChildStates, grouped : BOOLEAN, exit : Exits]
  BY ParentTyped, ChildTyped DEF Children
<1>2. desc' \in [Descendants -> {"none", "running", "doomed", "dead"}]
  <2>1. CASE Parent
    BY <2>1 DEF Parent, Call, Fork, Setpgid, PollTimed, KillGroup, Reap, Clock, StopGroup,
                StopChild, StopWait, KillTheGroup, DoomedIn
  <2>2. CASE Kernel
    BY <2>2 DEF Kernel, ChildSetpgid, ChildExec, ChildExits, ChildDies, Recycle,
                DeadlinePasses, Spawn, Escape, Ends
  <2>3. QED
    BY <2>1, <2>2 DEF Next
<1>3. escaped' \subseteq Descendants /\ due' \in BOOLEAN
  BY DEF Next, Parent, Kernel, Call, Fork, Setpgid, PollTimed, KillGroup, Reap, Clock,
         StopGroup, StopChild, StopWait, ChildSetpgid, ChildExec, ChildExits, ChildDies,
         Recycle, DeadlinePasses, Spawn, Escape, Ends
<1>4. stranger' \in {"none", "alive", "hit"}
  BY DEF Next, Parent, Kernel, Call, Fork, Setpgid, PollTimed, KillGroup, Reap, Clock,
         StopGroup, StopChild, StopWait, KillTheGroup, StrangerHit, ChildSetpgid, ChildExec,
         ChildExits, ChildDies, Recycle, DeadlinePasses, Spawn, Escape, Ends
<1>5. QED
  BY <1>1, <1>2, <1>3, <1>4

----------------------------------------------------------------------------
(* The theorems. *)

(* What each point of a call relies on holds throughout. *)
THEOREM ProcessInvariant == Spec => []IInv
<1>1. Init => IInv
  BY InitInv
<1>2. IInv /\ [Next]_vars => IInv'
  <2>1. CASE Next
    BY <2>1, TypedStep, CallStep, ExitStep, OwnStep, GroupedStep, JoinedStep, QuietStep,
       LimitsStep DEF IInv, GroupInvariant
  <2>2. CASE UNCHANGED vars
    BY <2>2, StutterInv
  <2>3. QED
    BY <2>1, <2>2
<1>3. QED
  BY <1>1, <1>2, PTL DEF Spec

(* No kill of the call hits a process that merely got the child's id after it
   was freed, unless the program lets the kernel reap its children. *)
THEOREM KillsOnlyOwnHolds == Spec => []KillsOnlyOwn
<1>1. IInv => KillsOnlyOwn
  BY DEF IInv, OwnInvariant, KillsOnlyOwn
<1>2. QED
  BY <1>1, ProcessInvariant, PTL

(* A timed call that has answered anything but LAUNCH_FAILED has reaped its
   child, and no descendant that stayed in the group runs on. *)
THEOREM ContainedHolds == Spec => []Contained
<1>1. IInv => Contained
  BY DEF IInv, GroupInvariant, QuietInvariant, Contained
<1>2. QED
  BY <1>1, ProcessInvariant, PTL

(* OK reports how the child ended by itself, never the call's own SIGKILL; and
   exactly the argument lists within the limits get as far as fork. *)
THEOREM OkIsTheChildsHolds == Spec => []OkIsTheChilds
<1>1. IInv => OkIsTheChilds
  <2>1. ASSUME IInv PROVE TypeOK
    BY <2>1 DEF IInv, Typed, Parents, ChildStates, CallInvariant, TypeOK
  <2>2. QED
    BY <2>1 DEF IInv, ExitInvariant, OkIsTheChilds
<1>2. QED
  BY <1>1, ProcessInvariant, PTL
=============================================================================

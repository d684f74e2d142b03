----------------------------- MODULE ProcessRun -----------------------------
(***************************************************************************)
(* src/src/common/process.c: one call of common_process_run on POSIX, from *)
(* the argument checks through fork, wait, timeout and kill to the answer, *)
(* beside what the kernel does with the child, its descendants and process *)
(* ids.  Every system call of the caller is a step of its own.             *)
(*                                                                         *)
(* The child's id also names the process group of a timed call.  The id is *)
(* free again once the child is reaped and the group is empty; a stranger  *)
(* may then get it, and a kill that comes later hits the stranger.         *)
(***************************************************************************)
EXTENDS Naturals, Sequences

CONSTANTS
  ArgumentLists, \* what a caller may pass: sequences of [length, utf8]
  MaxArguments,  \* 256 in the code
  MaxBytes,      \* 65536 in the code, every terminator counted
  Timed,         \* subset of BOOLEAN: is there a timeout?
  Ignoring,      \* subset of BOOLEAN: does the program ignore SIGCHLD?
  Codes,         \* how a child may end by itself
  Descendants,   \* processes the child and its descendants may start
  Faults         \* may system calls fail for reasons of their own?

Argument == [length : Nat, utf8 : BOOLEAN]

ASSUME ProcessAssumption ==
  /\ ArgumentLists \subseteq Seq(Argument)
  /\ MaxArguments \in Nat /\ MaxBytes \in Nat
  /\ Timed \subseteq BOOLEAN /\ Ignoring \subseteq BOOLEAN
  /\ Faults \in BOOLEAN
  /\ {"none", "killed", "127"} \cap Codes = {}

VARIABLES
  parent,    \* the call: pc, arguments, timed, ignoring, status, exit, verdict
  child,     \* the direct child: state, group membership, exit status
  desc,      \* state of each descendant
  escaped,   \* descendants that left the group on purpose
  due,       \* has the timeout passed?
  stranger   \* the process that got the child's id after it was freed

vars == <<parent, child, desc, escaped, due, stranger>>

Labels == {"call", "fork", "setpgid", "poll", "killGroup", "reap", "clock",
           "stopGroup", "stopChild", "stopWait", "returned"}
Status == {"none", "OK", "INVALID_ARGUMENT", "LIMIT_EXCEEDED",
           "LAUNCH_FAILED", "WAIT_FAILED", "TIMED_OUT"}
Exits == Codes \cup {"none", "killed", "127"}

Init ==
  /\ parent \in [pc : {"call"}, arguments : ArgumentLists, timed : Timed,
                 ignoring : Ignoring, status : {"none"}, exit : {"none"},
                 verdict : {"none"}]
  /\ child = [state |-> "none", grouped |-> FALSE, exit |-> "none"]
  /\ desc = [d \in Descendants |-> "none"]
  /\ escaped = {} /\ due = FALSE /\ stranger = "none"

At(label) == parent.pc = label
Goto(label) == parent' = [parent EXCEPT !.pc = label]
Return(status) == parent' = [parent EXCEPT !.pc = "returned", !.status = status]
(* stop_child first; the verdict is returned when it is done. *)
Stop(verdict) ==
  parent' = [parent EXCEPT !.pc = "stopGroup", !.verdict = verdict]

ChildLives == child.state \in {"forked", "ready", "running", "doomed"}
GroupLives == \/ child.grouped /\ (ChildLives \/ child.state = "zombie")
              \/ \E d \in Descendants \ escaped : desc[d] \in {"running", "doomed"}

----------------------------------------------------------------------------
(* common_process_run: the argument checks. *)

(* Mutant of Take: the terminator is not counted. *)
TakeUnterminated(seen, a) ==
  IF seen.status # "OK" THEN seen
  ELSE IF seen.count = MaxArguments \/ a.length > MaxBytes - seen.bytes
  THEN [seen EXCEPT !.status = "LIMIT_EXCEEDED"]
  ELSE IF ~a.utf8 THEN [seen EXCEPT !.status = "INVALID_ARGUMENT"]
  ELSE [seen EXCEPT !.count = @ + 1, !.bytes = @ + a.length]

(* One argument after those already counted. *)
Take(seen, a) ==
  IF seen.status # "OK" THEN seen
  ELSE IF seen.count = MaxArguments \/ a.length >= MaxBytes - seen.bytes
  THEN [seen EXCEPT !.status = "LIMIT_EXCEEDED"]
  ELSE IF ~a.utf8 THEN [seen EXCEPT !.status = "INVALID_ARGUMENT"]
  ELSE [status |-> "OK", count |-> seen.count + 1,
        bytes |-> seen.bytes + a.length + 1]

(* What has been counted after each of the arguments. *)
Counted(arguments) ==
  LET seen[i \in 0..Len(arguments)] ==
        IF i = 0 THEN [status |-> "OK", count |-> 0, bytes |-> 0]
        ELSE Take(seen[i-1], arguments[i])
  IN seen

Admission(arguments) ==
  IF arguments = <<>> \/ Head(arguments).length = 0 THEN "INVALID_ARGUMENT"
  ELSE Counted(arguments)[Len(arguments)].status

Call ==
  /\ At("call")
  /\ LET status == Admission(parent.arguments)
     IN IF status = "OK" THEN Goto("fork") ELSE Return(status)
  /\ UNCHANGED <<child, desc, escaped, due, stranger>>

----------------------------------------------------------------------------
(* run_process: the caller. *)

Fork ==
  /\ At("fork")
  /\ \/ /\ parent' = [parent EXCEPT !.arguments = <<>>,
                        !.pc = IF parent.timed THEN "setpgid" ELSE "poll"]
        /\ child' = [child EXCEPT !.state = "forked"]
     \/ /\ Faults
        /\ \/ parent.timed /\ Return("WAIT_FAILED")   \* no start time
           \/ Return("LAUNCH_FAILED")
        /\ UNCHANGED child
  /\ UNCHANGED <<desc, escaped, due, stranger>>

(* The parent's setpgid moves a child that has not called exec; EACCES and
   ESRCH are ignored. *)
Setpgid ==
  /\ At("setpgid")
  /\ \/ /\ child' = [child EXCEPT !.grouped = @ \/ child.state \in {"forked", "ready"}]
        /\ Goto("poll")
     \/ Faults /\ Stop("LAUNCH_FAILED") /\ UNCHANGED child
  /\ UNCHANGED <<desc, escaped, due, stranger>>

(* Mutant of Polled: a child that has not exited is taken for one that has. *)
PolledBlindly == Goto("killGroup")
(* waitid(WEXITED | WNOHANG | WNOWAIT). *)
Polled == IF child.state = "zombie" THEN Goto("killGroup") ELSE Goto("clock")

PollTimed ==
  /\ At("poll") /\ parent.timed
  /\ \/ child.state # "reaped" /\ Polled
     \/ child.state = "reaped" /\ Return("WAIT_FAILED")   \* ECHILD
     \/ Faults /\ Goto("clock")                           \* EINTR
     \/ Faults /\ Stop("WAIT_FAILED")
  /\ UNCHANGED <<child, desc, escaped, due, stranger>>

(* kill(-id): every member of the group at once.  A process with a pending
   SIGKILL does nothing but die. *)
DoomedIn(group) ==
  [d \in Descendants |->
     IF d \in group /\ desc[d] = "running" THEN "doomed" ELSE desc[d]]
KilledChild == [child EXCEPT !.state = IF ChildLives THEN "doomed" ELSE @]
StrangerHit == IF stranger = "alive" THEN "hit" ELSE stranger

KillTheGroup ==
  /\ child' = IF child.grouped THEN KilledChild ELSE child
  /\ desc' = IF child.grouped THEN DoomedIn(Descendants \ escaped) ELSE desc
  /\ stranger' = StrangerHit

(* Mutant of KillGroup: the child is reaped first and the group killed then. *)
KillGroupLate ==
  /\ At("killGroup")
  /\ \/ child.state = "zombie" /\ child' = [child EXCEPT !.state = "reaped"]
        /\ UNCHANGED <<parent, desc, stranger>>
     \/ /\ child.state = "reaped" /\ KillTheGroup
        /\ parent' = [parent EXCEPT !.pc = "returned", !.status = "OK",
                                    !.exit = child.exit]
  /\ UNCHANGED <<escaped, due>>

KillGroup ==
  /\ At("killGroup")
  /\ KillTheGroup
  /\ Goto("reap")
  /\ UNCHANGED <<escaped, due>>

(* waitpid(child, &status, 0): after the kill of a timed call, or the blocking
   wait of an untimed one; the status answers the call. *)
Reap ==
  /\ At("reap") \/ (At("poll") /\ ~parent.timed)
  /\ \/ /\ child.state = "zombie"
        /\ child' = [child EXCEPT !.state = "reaped"]
        /\ parent' = [parent EXCEPT !.pc = "returned", !.status = "OK",
                                    !.exit = child.exit]
     \/ child.state = "reaped" /\ Return("WAIT_FAILED") /\ UNCHANGED child
     \/ Faults /\ Stop("WAIT_FAILED") /\ UNCHANGED child
  /\ UNCHANGED <<desc, escaped, due, stranger>>

(* Mutant of Clock: the loop goes on for ever. *)
ClockUnread ==
  /\ At("clock")
  /\ Goto("poll")
  /\ UNCHANGED <<child, desc, escaped, due, stranger>>

(* The deadline, and the pause before the next poll. *)
Clock ==
  /\ At("clock")
  /\ \/ due /\ Stop("TIMED_OUT")
     \/ ~due /\ Goto("poll")
     \/ Faults /\ Stop("WAIT_FAILED")
  /\ UNCHANGED <<child, desc, escaped, due, stranger>>

(* stop_child. *)
(* Mutant of StopGroup: only the direct child. *)
StopGroupAlone ==
  /\ At("stopGroup")
  /\ child' = KilledChild
  /\ stranger' = StrangerHit
  /\ Goto("stopChild")
  /\ UNCHANGED <<desc, escaped, due>>

StopGroup ==
  /\ At("stopGroup")
  /\ \/ parent.timed /\ KillTheGroup
     \/ ~parent.timed /\ child' = KilledChild /\ stranger' = StrangerHit
        /\ UNCHANGED desc
  /\ Goto("stopChild")
  /\ UNCHANGED <<escaped, due>>

StopChild ==
  /\ At("stopChild")
  /\ child' = KilledChild
  /\ stranger' = StrangerHit
  /\ Goto("stopWait")
  /\ UNCHANGED <<desc, escaped, due>>

StopWait ==
  /\ At("stopWait")
  /\ child.state \in {"zombie", "reaped"}
  /\ child' = [child EXCEPT !.state = "reaped"]
  /\ Return(parent.verdict)
  /\ UNCHANGED <<desc, escaped, due, stranger>>

Parent == \/ Call \/ Fork \/ Setpgid \/ PollTimed \/ KillGroup \/ Reap
          \/ Clock \/ StopGroup \/ StopChild \/ StopWait

----------------------------------------------------------------------------
(* run_process: the child, up to exec. *)

(* An exited child stays a zombie, unless the program ignores SIGCHLD. *)
Exit(code) ==
  child' = [child EXCEPT !.exit = code,
              !.state = IF parent.ignoring THEN "reaped" ELSE "zombie"]

ChildSetpgid ==
  /\ child.state = "forked" /\ parent.timed
  /\ \/ child' = [child EXCEPT !.state = "ready", !.grouped = TRUE]
     \/ Faults /\ Exit("127")
  /\ UNCHANGED <<parent, desc, escaped, due, stranger>>

ChildExec ==
  /\ child.state = IF parent.timed THEN "ready" ELSE "forked"
  /\ child' = [child EXCEPT !.state = "running"] \/ Exit("127")
  /\ UNCHANGED <<parent, desc, escaped, due, stranger>>

(* The kernel and the program that was run. *)
ChildExits ==
  /\ child.state = "running"
  /\ \E code \in Codes : Exit(code)
  /\ UNCHANGED <<parent, desc, escaped, due, stranger>>

Spawn(d) ==
  /\ desc[d] = "none"
  /\ \/ child.state = "running"
     \/ \E e \in Descendants \ escaped : desc[e] = "running"
  /\ desc' = [desc EXCEPT ![d] = "running"]
  /\ UNCHANGED <<parent, child, escaped, due, stranger>>

Escape(d) ==
  /\ desc[d] = "running" /\ d \notin escaped
  /\ escaped' = escaped \cup {d}
  /\ UNCHANGED <<parent, child, desc, due, stranger>>

Ends(d) ==
  /\ desc[d] \in {"running", "doomed"}
  /\ desc' = [desc EXCEPT ![d] = "dead"]
  /\ UNCHANGED <<parent, child, escaped, due, stranger>>

ChildDies ==
  /\ child.state = "doomed"
  /\ Exit("killed")
  /\ UNCHANGED <<parent, desc, escaped, due, stranger>>

(* The id of a reaped child whose group is empty goes to somebody else. *)
Recycle ==
  /\ child.state = "reaped" /\ ~GroupLives
  /\ stranger = "none"
  /\ stranger' = "alive"
  /\ UNCHANGED <<parent, child, desc, escaped, due>>

DeadlinePasses ==
  /\ ~due /\ child.state # "none"
  /\ due' = TRUE
  /\ UNCHANGED <<parent, child, desc, escaped, stranger>>

Kernel == \/ ChildSetpgid \/ ChildExec \/ ChildExits \/ ChildDies \/ Recycle
          \/ DeadlinePasses
          \/ \E d \in Descendants : Spawn(d) \/ Escape(d) \/ Ends(d)

Next == Parent \/ Kernel
Spec == Init /\ [][Next]_vars

(* The caller is scheduled, a killed process dies and time passes; what was
   started need not ever end. *)
FairSpec == Spec /\ WF_vars(Parent) /\ WF_vars(ChildDies) /\ WF_vars(DeadlinePasses)

----------------------------------------------------------------------------
(* Properties. *)

(* Every variable keeps its type, and a status comes with an exit code
   exactly when it is OK. *)
TypeOK ==
  /\ parent.pc \in Labels
  /\ parent.arguments \in ArgumentLists \cup {<<>>}
  /\ parent.timed \in Timed /\ parent.ignoring \in Ignoring
  /\ parent.status \in Status /\ parent.verdict \in Status
  /\ parent.exit \in Exits /\ (parent.exit # "none" <=> parent.status = "OK")
  /\ (parent.status # "none" <=> At("returned"))
  /\ child.state \in {"none", "forked", "ready", "running", "doomed",
                      "zombie", "reaped"}
  /\ child.grouped \in BOOLEAN /\ child.exit \in Exits
  /\ desc \in [Descendants -> {"none", "running", "doomed", "dead"}]
  /\ escaped \subseteq Descendants /\ due \in BOOLEAN
  /\ stranger \in {"none", "alive", "hit"}

(* "at most 256 entries and 65536 total bytes": exactly such argument lists,
   in UTF-8 and with an executable, get as far as fork. *)
Bytes(arguments) ==
  LET total[i \in 0..Len(arguments)] ==
        IF i = 0 THEN 0 ELSE total[i-1] + arguments[i].length + 1
  IN total
Legal(arguments) ==
  /\ Len(arguments) \in 1..MaxArguments
  /\ Bytes(arguments)[Len(arguments)] <= MaxBytes
  /\ Head(arguments).length > 0
  /\ \A i \in 1..Len(arguments) : arguments[i].utf8
LimitsExact ==
  /\ At("fork") => Legal(parent.arguments)
  /\ parent.status \in {"INVALID_ARGUMENT", "LIMIT_EXCEEDED"} =>
       ~Legal(parent.arguments)

(* "Keep the direct child unreaped while using its group ID, so PID reuse
   cannot redirect descendant cleanup": no kill of the call hits a process
   that merely got the child's id later.  A program that ignores SIGCHLD lets
   the kernel reap the child, and gives this up. *)
KillsOnlyOwn == ~parent.ignoring => stranger # "hit"

(* "background descendants cannot outlive a completed bounded operation": when
   a timed call has answered anything but LAUNCH_FAILED, its child is reaped
   and each descendant that did not leave the group is dead or about to be. *)
Contained ==
  At("returned") /\ parent.timed /\ ~parent.ignoring /\ child.state # "none"
    /\ parent.status # "LAUNCH_FAILED" =>
      /\ child.state = "reaped"
      /\ \A d \in Descendants \ escaped : desc[d] # "running"

(* OK reports how the child ended by itself: the call never takes its own
   SIGKILL for the child's end, and leaves no zombie.  A call that is refused,
   or reaches fork, was or was not within the limits. *)
OkIsTheChilds ==
  /\ TypeOK /\ LimitsExact
  /\ parent.status = "OK" => /\ child.state = "reaped" /\ parent.exit = child.exit
                             /\ parent.exit \in Codes \cup {"127"}

(* A timed call returns whatever its child does, and an untimed one when its
   child ends, even if the program ignores SIGCHLD. *)
CallReturns ==
  child.state # "none" /\ (parent.timed \/ child.state \in {"zombie", "reaped"})
    ~> At("returned")
=============================================================================

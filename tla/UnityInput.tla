----------------------------- MODULE UnityInput -----------------------------
(***************************************************************************)
(* src/src/io/unity_input.c on POSIX hosts: a snapshot of an input file    *)
(* that is visited, unmapped, mapped again and closed, while other         *)
(* programs write to the file and rename it.  One action per system call;  *)
(* opening and closing a file view are steps that FileView justifies: what *)
(* a view holds is what its file held at one moment.                       *)
(*                                                                         *)
(* A file is a sequence of chunks, the first of them its header.  SHA-256  *)
(* is taken to be injective: a digest is the content.                      *)
(***************************************************************************)
EXTENDS Integers, SequencesExt

CONSTANTS
  InputFiles, NoFile,  \* regular files; the pathname leads to none of them
  Given,               \* what the pathname may lead to, and the files hold
  Rewrites,            \* what a file may be changed to
  Archives,            \* content |-> {} or {the members of this archive}
  InputFaults,         \* may system calls fail of their own?
  MaxChanges           \* bound on what other programs do

ASSUME InputAssumption ==
  /\ NoFile \notin InputFiles /\ MaxChanges \in Nat /\ InputFaults \in BOOLEAN
  /\ \A c \in DOMAIN Archives :
       \A s \in {c} \cup Archives[c] : s \in Seq({s[i] : i \in DOMAIN s})
  /\ \A g \in Given : /\ g.name \in InputFiles \cup {NoFile}
                      /\ g.content \in [InputFiles -> DOMAIN Archives]
  /\ Rewrites \subseteq DOMAIN Archives

VARIABLES
  tree,       \* what the pathname leads to, and what the files hold
  snapshot,   \* the caller's UnityInputSnapshot
  call,       \* the call under way, or the last one
  past        \* the file and its size, what was captured of it, and what has
              \* been the case of both since the call began

inputVars == <<tree, snapshot, call, past>>

(* struct stat, as far as stat_file_unchanged compares it. *)
NoSample == [file |-> NoFile, size |-> 0, stamp |-> 0]
StatOf(f) == IF f = NoFile THEN NoSample
           ELSE [file |-> f, size |-> Len(tree.content[f]), stamp |-> tree.stamp[f]]

NoView == [open |-> FALSE, before |-> NoSample, data |-> <<>>]
NoSnapshot == [state |-> "none", before |-> NoSample, capture |-> <<>>,
               kind |-> "UNRELATED", view |-> NoView, members |-> <<>>]

NoSources == [serialized |-> 0, resource |-> 0, directory |-> 0, deleted |-> 0]
NoCall == [op |-> "none", pc |-> "done", for |-> "none", held |-> NoSample, path |-> NoSample,
           ok |-> TRUE, read |-> <<>>, stable |-> TRUE, status |-> "OK", next |-> 1,
           sources |-> <<>>, stats |-> NoSources]

NoTree == [name |-> NoFile, content |-> [f \in InputFiles |-> <<>>],
           stamp |-> [f \in InputFiles |-> 0], changes |-> 0]

NoHistory == [file |-> NoFile, size |-> 0, capture |-> <<>>, seen |-> {}]

SnapshotInit ==
  /\ tree = NoTree
  /\ snapshot = NoSnapshot
  /\ call = NoCall
  /\ past = NoHistory

Doing(pc) == call.pc = pc
Validates(purpose) == Doing("validated") /\ call.for = purpose

(* identity_anchor_validate, to be continued at "validated". *)
Validate(c, purpose) ==
  [c EXCEPT !.pc = "held", !.for = purpose, !.ok = TRUE, !.read = <<>>]
Answer(status) == [call EXCEPT !.pc = "done", !.status = status]

----------------------------------------------------------------------------
(* What a file is (unity_input_probe_bytes). *)

ProbeBytes(data) ==
  LET header == Head(data)
  IN CASE data = <<>> -> "UNRELATED"
       [] data # <<>> /\ header.magic = "UnityFS" -> "UNITYFS"
       [] data # <<>> /\ header.magic = "UnityRaw" -> "UNSUPPORTED"
       [] data # <<>> /\ header.magic = "serialized" ->
            IF header.version = 22 /\ header.size = Len(data) THEN "SERIALIZED_FILE_V22"
            ELSE "UNSUPPORTED"
       [] OTHER -> "UNRELATED"

(* bundle_member_classify. *)
Classify(member) ==
  CASE "UNKNOWN" \in member.flags -> "INVALID"
    [] member.flags = {"SERIALIZED"} -> "SERIALIZED"
    [] member.flags = {"DIRECTORY"} -> "DIRECTORY"
    [] member.flags = {"DELETED"} -> "DELETED"
    [] member.flags = {} /\ member.resource -> "RESOURCE"
    [] OTHER -> "INVALID"

----------------------------------------------------------------------------
(* The identity anchor: a descriptor and what was captured of its file. *)

Lstat ==
  /\ Doing("lstat")
  /\ \/ tree.name # NoFile /\ call' = [call EXCEPT !.pc = "open", !.path = StatOf(tree.name)]
     \/ (InputFaults \/ tree.name = NoFile) /\ call' = Answer("FILE_ERROR")
  /\ UNCHANGED <<tree, snapshot, past>>

OpenAnchor ==
  /\ Doing("open")
  /\ \/ tree.name # NoFile /\ call' = [call EXCEPT !.pc = "fstat", !.held.file = tree.name]
     \/ (InputFaults \/ tree.name = NoFile) /\ call' = Answer("FILE_ERROR")
  /\ UNCHANGED <<tree, snapshot, past>>

Seen(t, f) == [content |-> t.content[f], led |-> t.name = f]

Fstat ==
  /\ Doing("fstat")
  /\ LET held == StatOf(call.held.file)
     IN IF held = call.path
        THEN /\ snapshot' = [NoSnapshot EXCEPT !.state = "opening", !.before = held]
             /\ call' = [call EXCEPT !.pc = "capture"]
             /\ past' = [NoHistory EXCEPT !.file = held.file, !.size = held.size,
                                         !.seen = {Seen(tree, held.file)}]
        ELSE call' = Answer("FILE_ERROR") /\ UNCHANGED <<snapshot, past>>
  /\ UNCHANGED tree

ValidateHeld ==
  /\ Doing("held")
  /\ call' = [call EXCEPT !.pc = "path", !.held = StatOf(snapshot.before.file)]
  /\ UNCHANGED <<tree, snapshot, past>>

ValidatePath ==
  /\ Doing("path")
  /\ call' = [call EXCEPT !.pc = "digest", !.path = StatOf(tree.name)]
  /\ UNCHANGED <<tree, snapshot, past>>

(* posix_digest_exact: as many bytes as were captured, chunk by chunk. *)
ValidateDigest ==
  LET held == tree.content[snapshot.before.file]
      n == Len(call.read) + 1
  IN /\ Doing("digest")
     /\ \/ /\ n <= Len(snapshot.capture) /\ n <= Len(held)
           /\ call' = [call EXCEPT !.read = Append(@, held[n])]
        \/ /\ n <= Len(snapshot.capture) /\ (InputFaults \/ n > Len(held))
           /\ call' = [call EXCEPT !.pc = "validated", !.ok = FALSE]
        \/ n > Len(snapshot.capture) /\ call' = [call EXCEPT !.pc = "validated"]
     /\ UNCHANGED <<tree, snapshot, past>>

Valid ==
  /\ call.ok /\ call.read = snapshot.capture
  /\ call.held = snapshot.before /\ call.path = call.held

----------------------------------------------------------------------------
(* File views. *)

Viewed == [open |-> TRUE, before |-> StatOf(tree.name), data |-> tree.content[tree.name]]

Intact(view) ==
  /\ tree.name = view.before.file /\ StatOf(tree.name) = view.before
  /\ tree.content[tree.name] = view.data

----------------------------------------------------------------------------
(* unity_input_snapshot_open, after the anchor. *)

(* dispose_snapshot_implementation: the view and then the anchor; anything
   that is not as it was makes the answer FILE_ERROR. *)
Dispose(status) == [call EXCEPT !.pc = "dispose", !.status = status, !.stable = TRUE]

DisposeView ==
  /\ Doing("dispose")
  /\ \E closed \in BOOLEAN :
       /\ snapshot.view.open /\ closed => Intact(snapshot.view)
       /\ call' = [Validate(call, "dispose") EXCEPT
                     !.stable = ~snapshot.view.open \/ closed]
  /\ snapshot' = [snapshot EXCEPT !.view = NoView, !.members = <<>>]
  /\ UNCHANGED <<tree, past>>

DisposeAnchor ==
  /\ Validates("dispose")
  /\ \E closed \in BOOLEAN :
       /\ ~closed => InputFaults
       /\ call' = Answer(IF call.stable /\ Valid /\ closed THEN call.status ELSE "FILE_ERROR")
  /\ snapshot' = NoSnapshot
  /\ UNCHANGED <<tree, past>>

(* The view is what is captured. *)
Capture ==
  /\ Doing("capture")
  /\ \/ /\ tree.name # NoFile
        /\ snapshot' = [snapshot EXCEPT !.view = Viewed, !.capture = Viewed.data]
        /\ past' = [past EXCEPT !.capture = Viewed.data]
        /\ call' = Validate(call, "bind")
     \/ call' = Dispose("FILE_ERROR") /\ UNCHANGED <<snapshot, past>>
  /\ UNCHANGED tree

EnterVisit(c) == Validate(c, "enter")

Opened ==
  /\ Validates("bind")
  /\ LET kind == ProbeBytes(snapshot.view.data)
         members == Archives[snapshot.view.data]
     IN \/ /\ Valid /\ kind \in {"SERIALIZED_FILE_V22", "UNITYFS"}
           /\ kind = "UNITYFS" => members # {}
           /\ snapshot' = [snapshot EXCEPT
                 !.state = "open", !.kind = kind,
                 !.members = IF kind = "UNITYFS" THEN CHOOSE m \in members : TRUE ELSE <<>>]
           /\ call' = IF call.op = "once" THEN EnterVisit(call) ELSE Answer("OK")
        \/ /\ ~Valid /\ call' = Dispose("FILE_ERROR")
           /\ UNCHANGED snapshot
        \/ /\ Valid /\ kind \in {"UNSUPPORTED", "UNRELATED"} /\ call' = Dispose(kind)
           /\ UNCHANGED snapshot
        \/ /\ Valid /\ kind = "UNITYFS" /\ (InputFaults \/ members = {})
           /\ call' = Dispose("CONTAINER_INVALID")
           /\ UNCHANGED snapshot
  /\ UNCHANGED <<tree, past>>

----------------------------------------------------------------------------
(* unity_input_snapshot_visit; unity_input_visit_serialized goes on to
   close the snapshot. *)

VisitEnds(c, status) ==
  IF c.op = "once" THEN [c EXCEPT !.pc = "dispose", !.status = status, !.stable = TRUE]
  ELSE [c EXCEPT !.pc = "done", !.status = status]

(* A bundle was unpacked when it was opened, a file must be mapped. *)
Enter ==
  /\ Validates("enter")
  /\ call' = IF ~Valid THEN VisitEnds(call, "FILE_ERROR")
             ELSE IF snapshot.kind = "UNITYFS" THEN [call EXCEPT !.pc = "member", !.next = 1]
             ELSE IF snapshot.view.open THEN Validate(call, "map")
             ELSE [call EXCEPT !.pc = "remap"]
  /\ UNCHANGED <<tree, snapshot, past>>

(* ensure_snapshot_mapping. *)
Remap ==
  /\ Doing("remap")
  /\ \/ /\ tree.name # NoFile
        /\ snapshot' = [snapshot EXCEPT !.view = Viewed]
        /\ call' = Validate(call, "map")
     \/ call' = VisitEnds(call, "FILE_ERROR") /\ UNCHANGED snapshot
  /\ UNCHANGED <<tree, past>>

(* Mutant of Mapped: the anchor is trusted to speak for the mapping. *)
MappedUnmatched == Valid

Mapped == /\ Valid /\ snapshot.view.data = snapshot.capture
          /\ ProbeBytes(snapshot.view.data) = snapshot.kind

Deliver(c, member, data) ==
  [c EXCEPT !.sources = Append(@, [member |-> member, data |-> data])]

VisitFile ==
  /\ Validates("map")
  /\ \/ /\ Mapped
        /\ LET visited == Deliver(call, 0, snapshot.view.data)
           IN \/ call' = VisitEnds([visited EXCEPT !.stats.serialized = 1], "OK")
              \/ call' = VisitEnds(visited, "VISITOR_FAILED")
        /\ UNCHANGED snapshot
     \/ /\ ~Mapped
        /\ snapshot' = [snapshot EXCEPT !.view = NoView]
        /\ call' = VisitEnds(call, "FILE_ERROR")
  /\ UNCHANGED <<tree, past>>

(* visit_bundle: one member. *)
Counted(kind, member) ==
  LET counted == [call EXCEPT !.stats[kind] = @ + 1]
  IN IF kind # "resource" /\ member.data # <<>> THEN VisitEnds(counted, "MEMBER_INVALID")
     ELSE [counted EXCEPT !.next = @ + 1]

VisitMember ==
  /\ Doing("member") /\ call.next <= Len(snapshot.members)
  /\ LET member == snapshot.members[call.next]
         kind == Classify(member)
         probe == ProbeBytes(member.data)
         visited == Deliver(call, call.next, member.data)
     IN CASE kind = "RESOURCE" -> call' = Counted("resource", member)
          [] kind = "DIRECTORY" -> call' = Counted("directory", member)
          [] kind = "DELETED" -> call' = Counted("deleted", member)
          [] kind = "SERIALIZED" /\ probe = "SERIALIZED_FILE_V22" ->
               \/ call' = [visited EXCEPT !.stats.serialized = @ + 1, !.next = @ + 1]
               \/ call' = VisitEnds(visited, "VISITOR_FAILED")
          [] OTHER ->
               call' = VisitEnds(call, IF kind = "SERIALIZED" /\ probe = "UNSUPPORTED"
                                       THEN "UNSUPPORTED" ELSE "MEMBER_INVALID")
  /\ UNCHANGED <<tree, snapshot, past>>

VisitedAll ==
  /\ Doing("member") /\ call.next > Len(snapshot.members)
  /\ call' = VisitEnds(call, "OK")
  /\ UNCHANGED <<tree, snapshot, past>>

----------------------------------------------------------------------------
(* unity_input_snapshot_suspend_mapping and unity_input_snapshot_digest. *)

Suspend ==
  /\ Doing("suspend")
  /\ \/ /\ snapshot.view.open => Intact(snapshot.view)
        /\ call' = Validate(call, "suspend")
     \/ snapshot.view.open /\ call' = Answer("FILE_ERROR")
  /\ snapshot' = [snapshot EXCEPT !.view = NoView]
  /\ UNCHANGED <<tree, past>>

AnswerValid ==
  /\ Validates("suspend") \/ Validates("digest")
  /\ call' = Answer(IF Valid THEN "OK" ELSE "FILE_ERROR")
  /\ UNCHANGED <<tree, snapshot, past>>

----------------------------------------------------------------------------
(* A caller, and the other programs. *)

Call(op) ==
  LET c == [NoCall EXCEPT !.op = op]
  IN CASE op \in {"open", "once"} -> [c EXCEPT !.pc = "lstat"]
       [] op = "visit" -> EnterVisit(c)
       [] op = "suspend" -> [c EXCEPT !.pc = "suspend"]
       [] op = "digest" -> Validate(c, "digest")
       [] op = "close" -> [c EXCEPT !.pc = "dispose"]

SnapshotCall(op) ==
  /\ Doing("done") /\ tree # NoTree
  /\ snapshot.state = IF op \in {"open", "once"} THEN "none" ELSE "open"
  /\ call' = Call(op)
  /\ past' = IF snapshot.state = "none"
                THEN NoHistory
                ELSE [past EXCEPT !.seen = {Seen(tree, past.file)}]
  /\ UNCHANGED <<tree, snapshot>>

(* The files that the tool is given. *)
Give ==
  /\ tree = NoTree /\ call.op = "none"
  /\ \E g \in Given : tree' = [NoTree EXCEPT !.name = g.name, !.content = g.content]
  /\ UNCHANGED <<snapshot, call, past>>

(* Another program writes to a file, or changes what the pathname leads to;
   the clock may be too coarse for it to show. *)
Change ==
  /\ tree # NoTree /\ tree.changes < MaxChanges
  /\ \E f \in InputFiles, tick \in 0..1 :
       LET touched == [tree EXCEPT !.stamp[f] = @ + tick, !.changes = @ + 1]
       IN \/ \E c \in Rewrites \ {tree.content[f]} :
               tree' = [touched EXCEPT !.content[f] = c]
          \/ \E n \in (InputFiles \cup {NoFile}) \ {tree.name} :
               f \in {n, tree.name} /\ tree' = [touched EXCEPT !.name = n]
  /\ past' = IF past.file = NoFile THEN past
                ELSE [past EXCEPT !.seen = @ \cup {Seen(tree', past.file)}]
  /\ UNCHANGED <<snapshot, call>>

SnapshotNext ==
  \/ Give
  \/ \E op \in {"open", "once", "visit", "suspend", "digest", "close"} : SnapshotCall(op)
  \/ Lstat \/ OpenAnchor \/ Fstat \/ Capture \/ Opened
  \/ ValidateHeld \/ ValidatePath \/ ValidateDigest
  \/ Enter \/ Remap \/ VisitFile \/ VisitMember \/ VisitedAll
  \/ Suspend \/ AnswerValid \/ DisposeView \/ DisposeAnchor
  \/ Change

SnapshotSpec == SnapshotInit /\ [][SnapshotNext]_inputVars

----------------------------------------------------------------------------
(* Properties. *)

(* Throughout a call the pathname led elsewhere, or the file held one and the
   same other content. *)
PersistentlyChanged ==
  \/ \A s \in past.seen : ~s.led
  \/ \E s \in past.seen : /\ s.content # past.capture
                          /\ \A t \in past.seen : t.content = s.content

(* What is due to a visitor: the captured file, or each serialized member of
   the captured archive, in order. *)
MemberSource(members, i) == [member |-> i, data |-> members[i].data]

DueOf(members) ==
  LET due[n \in 0..Len(members)] ==
        IF n = 0 THEN <<>>
        ELSE IF "SERIALIZED" \in members[n].flags
        THEN Append(due[n-1], MemberSource(members, n)) ELSE due[n-1]
  IN due

Captured == CHOOSE m \in Archives[past.capture] : TRUE

Due == IF ProbeBytes(past.capture) = "UNITYFS" THEN DueOf(Captured)[Len(Captured)]
       ELSE <<[member |-> 0, data |-> past.capture]>>

AnsweredOK == Doing("done") /\ call.status = "OK" /\ call.op # "none"

(* "read-only bytes may be unmapped between visits and are remapped only when
   their digest matches the initial captured image": whatever other programs do
   between and during the calls, every visitor gets the sources of the one
   content that was captured, in order, all of them if the answer is OK; and no
   call answers OK about a file that was something else all the while, if as
   much was captured as the file had. *)
SnapshotFaithful ==
  /\ call.sources # <<>> => IsPrefix(call.sources, Due)
  /\ AnsweredOK /\ call.op \in {"visit", "once"} => call.sources = Due
  /\ AnsweredOK /\ past.size = Len(past.capture) => ~PersistentlyChanged

(* "SHA-256 of the complete captured outer file [...], after revalidating its
   held file identity, content and pathname": no digest is given out of a file
   that held other content all the while. *)
DigestIsTheFiles == AnsweredOK /\ call.op = "digest" => ~PersistentlyChanged
=============================================================================

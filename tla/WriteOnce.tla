----------------------------- MODULE WriteOnce -----------------------------
(***************************************************************************)
(* What common_file_write_new_atomic promises, without its system calls: a *)
(* destination name per directory that a call may fill once with its whole *)
(* payload, an answer that is given only after the name was seen to be the *)
(* caller's and was made durable, and power losses that take back nothing  *)
(* that was answered OK.                                                   *)
(***************************************************************************)
CONSTANTS Publishers, Dirs, Absent, Foreign, NoDir

VARIABLES
  entry,    \* what the name denotes in each directory
  stable,   \* what it denotes on storage
  state,    \* how far each call is
  place     \* the directory in which a call put its file

State == {"pending", "placed", "refused", "committed", "OK", "EXISTS",
          "failed"}
Answered == {"OK", "EXISTS", "failed"}

Init ==
  /\ entry \in [Dirs -> {Absent, Foreign}]
  /\ stable = entry
  /\ state = [p \in Publishers |-> "pending"]
  /\ place = [p \in Publishers |-> NoDir]

Become(p, s) == state' = [state EXCEPT ![p] = s]

(* The file appears under a free name, in one step and as a whole. *)
Place(p, d) ==
  /\ state[p] = "pending"
  /\ entry[d] = Absent
  /\ entry' = [entry EXCEPT ![d] = p]
  /\ place' = [place EXCEPT ![p] = d]
  /\ Become(p, "placed")
  /\ UNCHANGED stable

(* The name was taken. *)
Refuse(p) ==
  /\ state[p] = "pending"
  /\ \E d \in Dirs : entry[d] # Absent
  /\ Become(p, "refused")
  /\ UNCHANGED <<entry, stable, place>>

Persist(d) ==
  /\ stable' = [stable EXCEPT ![d] = entry[d]]
  /\ UNCHANGED <<entry, state, place>>

(* The caller's file is under the name and stays there across a crash. *)
Commit(p) ==
  /\ state[p] = "placed"
  /\ entry[place[p]] = p
  /\ stable[place[p]] = p
  /\ Become(p, "committed")
  /\ UNCHANGED <<entry, stable, place>>

Answer(p) ==
  /\ \/ state[p] = "committed" /\ Become(p, "OK")
     \/ state[p] = "refused" /\ Become(p, "EXISTS")
     \/ state[p] \notin Answered /\ Become(p, "failed")
  /\ UNCHANGED <<entry, stable, place>>

(* Somebody else changes the name. *)
Disturb(d) ==
  /\ \E f \in {Absent, Foreign} : entry' = [entry EXCEPT ![d] = f]
  /\ UNCHANGED <<stable, state, place>>

(* Unanswered calls are lost; each name is what it was or what is stored. *)
Crash ==
  /\ \A d \in Dirs : entry'[d] \in {entry[d], stable[d]}
  /\ entry' \in [Dirs -> Publishers \cup {Foreign, Absent}]
  /\ stable' = entry'
  /\ \A p \in Publishers :
       state'[p] \in IF state[p] \in Answered THEN {state[p]}
                     ELSE IF state[p] = "pending" THEN {"pending", "failed"}
                     ELSE {"failed"}
  /\ state' \in [Publishers -> State]
  /\ UNCHANGED place

Next ==
  \/ \E p \in Publishers : Refuse(p) \/ Commit(p) \/ Answer(p)
                           \/ \E d \in Dirs : Place(p, d)
  \/ \E d \in Dirs : Persist(d) \/ Disturb(d)
  \/ Crash

vars == <<entry, stable, state, place>>

Spec == Init /\ [][Next]_vars
=============================================================================

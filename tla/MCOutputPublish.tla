--------------------------- MODULE MCOutputPublish ---------------------------
(* Small instances of OutputPublish for TLC: two callers that agree on the
   first artifact and differ on the second, or agree on both. *)
EXTENDS OutputPublish, TLC

CONSTANTS c1, c2, a1, a2, x, y

MCArtifacts == <<a1, a2>>
MixedOutput == (c1 :> (a1 :> x @@ a2 :> x)) @@ (c2 :> (a1 :> x @@ a2 :> y))
EqualOutput == [c \in {c1, c2} |-> (a1 :> x @@ a2 :> y)]

EveryCase == {[output |-> MixedOutput, restamps |-> TRUE, faulty |-> TRUE],
              [output |-> EqualOutput, restamps |-> FALSE, faulty |-> FALSE]}
RestampedCase == {[output |-> EqualOutput, restamps |-> TRUE, faulty |-> FALSE]}

(* What the file of another program would hold does not matter before there is
   one. *)
MCInit == Init /\ \A a \in Paths : entry[a] = Absent => foreign[a] = x

MCSpec ==
  /\ MCInit
  /\ [][Next]_vars
  /\ \A c \in Callers : WF_vars(Step(c))
=============================================================================

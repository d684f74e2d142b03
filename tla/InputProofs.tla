---------------------------- MODULE InputProofs -----------------------------
(***************************************************************************)
(* Theorems about how input is read, for files of any size and any number  *)
(* of files and of changes by other programs.                              *)
(*                                                                         *)
(* FileView: where changes are timestamped, what a reader delivers is what *)
(* the file held all along, and the close of a view misses no change that  *)
(* is still there when it samples the file.  UnityInput: visitors get what *)
(* was captured, and no call answers OK about a file that was something    *)
(* else all the while.                                                     *)
(***************************************************************************)
EXTENDS FileView, UnityInput, NumberLemmas, SequenceTheorems

----------------------------------------------------------------------------
(* File views. *)

Sizes == 0..MaxChunks
StatRecord == [id : Objects, size : Sizes, mode : Modes, ctime : 0..MaxMutations]

(* From the open on the file is held; from its first fstat on there is a
   sample, and from the next one there are two. *)
Holding == {"fstat", "copy", "probe", "sampleFile", "samplePath", "digest", "compare",
            "held", "close"}
Sampled1 == Holding \ {"fstat"}
Sampled2 == {"samplePath", "digest", "compare", "held", "close"}
Agreed == {"held", "close"}

(* s is read from the beginning of c. *)
Begins(s, c) == Len(s) <= Len(c) /\ \A i \in 1..Len(s) : s[i] = c[i]

Watched == fine /\ ~mapped

(* What is delivered once the samples agree. *)
Exact ==
  \E c \in sampled :
    /\ sampled = {c}
    /\ reader.image = IF reader.kind = "prefix" /\ Capacity < Len(c)
                      THEN SubSeq(c, 1, Capacity) ELSE c

(* Timestamps never run ahead of the clock, nor samples ahead of them. *)
InTime ==
  /\ clock <= mutations
  /\ \A o \in Objects : ctime[o] <= clock
  /\ reader.pc \in Holding => reader.held \in Objects
  /\ reader.pc \in Sampled1 =>
       reader.before \in StatRecord /\ reader.before.ctime <= ctime[reader.held]
  /\ reader.pc \in Sampled2 => reader.after \in StatRecord

(* What has been read, and when all of it has. *)
ReadSoFar ==
  /\ reader.pc \notin Sampled1 \cup {"done"} => reader.image = <<>>
  /\ reader.pc = "copy" => Len(reader.image) <= Wanted
  /\ reader.pc \in Sampled1 \ {"copy"} => Len(reader.image) = Wanted
  /\ reader.pc \in Agreed => reader.before = reader.after
  /\ reader.pc # "done" => reader.result # "OK"

(* While the timestamp is that of the first sample, nothing has changed. *)
FirstSample ==
  Watched /\ reader.pc \in Sampled1 /\ ctime[reader.held] = reader.before.ctime =>
    /\ seen = {content[reader.held]}
    /\ Len(content[reader.held]) = reader.before.size
    /\ Begins(reader.image, content[reader.held])

(* And had not at the second one, if its timestamp is the same. *)
SecondSample ==
  Watched /\ reader.pc \in Sampled2 /\ reader.after.ctime = reader.before.ctime =>
    \E c \in sampled :
      sampled = {c} /\ Len(c) = reader.before.size /\ Begins(reader.image, c)

(* The second pass of a view reads the file as it has been since the last
   sample, if it has not changed since. *)
SecondPass ==
  reader.kind = "view" =>
    /\ reader.pc \in {"samplePath", "digest", "compare"} =>
         /\ content[reader.held] \in since
         /\ \A c \in since : since = {c} =>
              Len(c) = reader.after.size /\ Begins(reader.second, c)
         /\ reader.pc = "samplePath" => reader.second = <<>>
         /\ reader.pc = "compare" => Len(reader.second) = reader.before.size
         /\ Len(reader.second) <= reader.before.size
    /\ reader.pc \in Agreed => content[reader.held] \in since
    /\ reader.pc \in Agreed \/ reader.result = "OK" =>
         \A c \in since : since = {c} => reader.image = c

IInv ==
  /\ TypeOK /\ InTime /\ ReadSoFar /\ FirstSample /\ SecondSample /\ SecondPass
  /\ Watched /\ reader.result = "OK" => Exact

----------------------------------------------------------------------------
(* What files hold. *)

LEMMA ContentsAre ==
  ASSUME NEW c
  PROVE  c \in Contents <=> c \in Seq(Values) /\ Len(c) \in Sizes
<1>1. MaxChunks \in Nat
  BY ViewAssumption
<1>2. ASSUME c \in Contents PROVE c \in Seq(Values) /\ Len(c) \in Sizes
  <2>1. PICK n \in Sizes : c \in [1..n -> Values]
    BY <1>2 DEF Contents, Sizes
  <2>2. n \in Nat /\ c \in Seq(Values) /\ Len(c) = n
    BY <1>1, <2>1 DEF Sizes
  <2>3. QED
    BY <2>2
<1>3. ASSUME c \in Seq(Values), Len(c) \in Sizes PROVE c \in Contents
  <2>1. c \in [1..Len(c) -> Values]
    BY <1>3
  <2>2. QED
    BY <1>3, <2>1 DEF Contents, Sizes
<1>4. QED
  BY <1>2, <1>3

(* One chunk more of c is read. *)
LEMMA NextChunk ==
  ASSUME NEW s \in Contents, NEW c \in Contents, Len(s) < Len(c)
  PROVE  /\ Append(s, c[Len(s) + 1]) \in Contents
         /\ Len(Append(s, c[Len(s) + 1])) = Len(s) + 1
         /\ Begins(s, c) => Begins(Append(s, c[Len(s) + 1]), c)
<1>1. /\ s \in Seq(Values) /\ Len(s) \in Nat /\ c \in Seq(Values)
      /\ Len(c) \in Nat /\ Len(c) <= MaxChunks /\ MaxChunks \in Nat
  BY ContentsAre, ViewAssumption DEF Sizes
<1> DEFINE v == c[Len(s) + 1]
           t == Append(s, v)
<1>2. v \in Values
  BY <1>1
<1>3. /\ t \in Seq(Values) /\ Len(t) = Len(s) + 1 /\ t[Len(s) + 1] = v
      /\ \A i \in 1..Len(s) : t[i] = s[i]
  BY <1>1, <1>2, AppendProperties
<1> HIDE DEF t
<1>4. Len(t) \in Sizes
  BY <1>1, <1>3 DEF Sizes
<1>5. Begins(s, c) => Begins(t, c)
  <2> SUFFICES ASSUME Begins(s, c), NEW i \in 1..Len(t) PROVE t[i] = c[i]
    BY <1>1, <1>3 DEF Begins
  <2>1. i \in 1..Len(s) \/ i = Len(s) + 1
    BY <1>1, <1>3
  <2>2. QED
    BY <1>3, <2>1 DEF Begins
<1>6. QED
  BY <1>3, <1>4, <1>5, ContentsAre DEF t

(* All of c, or its first n chunks. *)
LEMMA BeginsAll ==
  ASSUME NEW s \in Contents, NEW c \in Contents, Begins(s, c)
  PROVE  s = IF Len(s) < Len(c) THEN SubSeq(c, 1, Len(s)) ELSE c
<1>1. /\ s \in Seq(Values) /\ Len(s) \in Nat /\ c \in Seq(Values)
      /\ Len(c) \in Nat /\ Len(s) <= Len(c)
  BY ContentsAre, ViewAssumption DEF Sizes, Begins
<1>2. CASE Len(s) < Len(c)
  <2> DEFINE t == SubSeq(c, 1, Len(s))
  <2>1. 1 \in Int /\ Len(s) \in Int /\ \A i \in 1..Len(s) : c[i] \in Values
    BY <1>1
  <2>2. /\ t \in Seq(Values) /\ Len(t) = (IF 1 <= Len(s) THEN Len(s) - 1 + 1 ELSE 0)
        /\ \A i \in 1..Len(s) - 1 + 1 : t[i] = c[1 + i - 1]
    BY <2>1, SubSeqProperties
  <2> HIDE DEF t
  <2>3. Len(t) = Len(s) /\ \A i \in 1..Len(s) : t[i] = s[i]
    BY <1>1, <2>2 DEF Begins
  <2>4. s = t
    BY <1>1, <2>2, <2>3, SeqEqual
  <2>5. QED
    BY <1>2, <2>4 DEF t
<1>3. CASE Len(s) = Len(c)
  <2>1. s = c
    BY <1>1, <1>3, SeqEqual DEF Begins
  <2>2. QED
    BY <1>3, <2>1
<1>4. QED
  BY <1>1, <1>2, <1>3

LEMMA BeginsEmpty ==
  ASSUME NEW c \in Contents
  PROVE  <<>> \in Contents /\ Begins(<<>>, c)
<1> DEFINE e == <<>>
<1>1. e \in Seq(Values) /\ Len(e) = 0
  OBVIOUS
<1>2. 0 \in Sizes /\ Len(c) \in Nat
  BY ContentsAre, ViewAssumption DEF Sizes
<1> HIDE DEF e
<1>3. e \in Contents
  BY <1>1, <1>2, ContentsAre
<1>4. Begins(e, c)
  BY <1>1, <1>2 DEF Begins
<1>5. QED
  BY <1>3, <1>4 DEF e

----------------------------------------------------------------------------
(* The call's variables. *)

(* A failure. *)
LEMMA FailFields ==
  ASSUME reader \in Locals, NEW status \in Results, Fail(status)
  PROVE  /\ reader' \in Locals /\ reader'.pc = "done" /\ reader'.result = status
         /\ reader'.kind = reader.kind
BY DEF Fail, Locals, Labels

(* Goto changes the place only. *)
LEMMA GotoFields ==
  ASSUME reader \in Locals, NEW label \in Labels, Goto(label)
  PROVE  /\ reader' \in Locals /\ reader'.pc = label
         /\ reader'.kind = reader.kind /\ reader'.held = reader.held
         /\ reader'.before = reader.before /\ reader'.after = reader.after
         /\ reader'.image = reader.image /\ reader'.second = reader.second
         /\ reader'.result = reader.result
BY DEF Goto, Locals

(* What the invariant says of the files and of what was read. *)
LEMMA Typed ==
  ASSUME IInv
  PROVE  /\ reader \in Locals /\ reader.image \in Contents /\ reader.second \in Contents
         /\ Len(reader.image) \in Nat /\ Len(reader.second) \in Nat
         /\ Len(<<>>) = 0
         /\ \A o \in Objects : /\ content[o] \in Contents /\ Stat(o) \in StatRecord
                                /\ Len(content[o]) \in Nat /\ Len(content[o]) \in Sizes
                                /\ ctime[o] \in Nat
         /\ reader.pc \in Sampled1 => Wanted \in Nat /\ reader.before.size \in Nat
<1>1. reader \in Locals /\ TypeOK /\ MaxChunks \in Nat /\ MaxMutations \in Nat
  BY ViewAssumption DEF IInv, TypeOK
<1>2. reader.image \in Contents /\ reader.second \in Contents
  BY <1>1 DEF Locals
<1>3. \A o \in Objects : content[o] \in Contents /\ mode[o] \in Modes /\ ctime[o] \in 0..MaxMutations
  BY <1>1 DEF TypeOK
<1>4. \A c \in Contents : Len(c) \in Sizes /\ Len(c) \in Nat
  BY <1>1, ContentsAre DEF Sizes
<1>5. \A o \in Objects : Stat(o) \in StatRecord
  BY <1>3, <1>4 DEF Stat, StatRecord
<1>6. reader.pc \in Sampled1 => Wanted \in Nat /\ reader.before.size \in Nat
  BY <1>1, ViewAssumption DEF IInv, InTime, StatRecord, Sizes, Wanted
<1>7. QED
  BY <1>1, <1>2, <1>3, <1>4, <1>5, <1>6

LEMMA FailKeeps ==
  ASSUME IInv, NEW status \in Results \ {"OK"}, Fail(status), UNCHANGED disk,
         seen' \subseteq Contents, sampled' \subseteq Contents, since' \subseteq Contents
  PROVE  IInv'
<1>1. /\ reader' \in Locals /\ reader'.pc = "done" /\ reader'.result # "OK"
  BY FailFields, Typed
<1>2. TypeOK'
  BY <1>1 DEF IInv, TypeOK, disk, host
<1>3. InTime'
  BY <1>1 DEF IInv, InTime, disk, Holding, Sampled1, Sampled2
<1>4. ReadSoFar' /\ FirstSample' /\ SecondSample' /\ SecondPass'
  BY <1>1 DEF ReadSoFar, FirstSample, SecondSample, SecondPass, Holding, Sampled1, Sampled2, Agreed
<1>5. QED
  BY <1>1, <1>2, <1>3, <1>4 DEF IInv

LEMMA OpeningKeeps ==
  ASSUME IInv, Begin \/ LstatBefore \/ Open
  PROVE  IInv'
<1>1. UNCHANGED <<disk, history>> /\ reader.pc \in {"idle", "lstat", "open"}
  BY DEF Begin, LstatBefore, Open, At
<1>2. /\ reader \in Locals /\ reader.image = <<>> /\ reader.result # "OK" /\ TypeOK /\ InTime
  BY <1>1, Typed DEF IInv, ReadSoFar, Sampled1, Holding
<1>3. CASE \E status \in Results \ {"OK"} : Fail(status)
  BY <1>1, <1>2, <1>3, FailKeeps DEF history, TypeOK
<1>4. CASE /\ reader' \in Locals /\ reader'.pc \in {"lstat", "open", "fstat"}
           /\ reader'.pc = "fstat" => reader'.held \in Objects
           /\ reader'.image = <<>> /\ reader'.result # "OK"
  <2>1. TypeOK'
    BY <1>1, <1>2, <1>4 DEF TypeOK, disk, host, history
  <2>2. InTime'
    BY <1>1, <1>2, <1>4 DEF InTime, disk, Holding, Sampled1, Sampled2
  <2>3. ReadSoFar' /\ FirstSample' /\ SecondSample' /\ SecondPass'
    BY <1>4 DEF ReadSoFar, FirstSample, SecondSample, SecondPass, Holding, Sampled1, Sampled2, Agreed
  <2>4. QED
    BY <1>4, <2>1, <2>2, <2>3 DEF IInv
<1>5. CASE Begin
  <2>1. \/ \E status \in Results \ {"OK"} : Fail(status)
        \/ \E k \in Kinds, limit \in Limits :
             reader' = [reader EXCEPT !.pc = "lstat", !.kind = k, !.limit = limit]
    BY <1>5 DEF Begin, Results
  <2>2. ASSUME NEW k \in Kinds, NEW limit \in Limits,
               reader' = [reader EXCEPT !.pc = "lstat", !.kind = k, !.limit = limit]
        PROVE  /\ reader' \in Locals /\ reader'.pc = "lstat"
               /\ reader'.image = <<>> /\ reader'.result # "OK"
    BY <1>2, <2>2 DEF Locals, Labels
  <2>3. QED
    BY <1>3, <1>4, <2>1, <2>2
<1>6. CASE LstatBefore
  <2>1. \/ \E status \in Results \ {"OK"} : Fail(status)
        \/ name \in Objects /\ reader' = [reader EXCEPT !.pc = "open", !.pathBefore = Stat(name)]
    BY <1>6 DEF LstatBefore, Results
  <2>2. ASSUME name \in Objects, reader' = [reader EXCEPT !.pc = "open", !.pathBefore = Stat(name)]
        PROVE  /\ reader' \in Locals /\ reader'.pc = "open"
               /\ reader'.image = <<>> /\ reader'.result # "OK"
    <3>1. Stat(name) \in Stats
      BY <2>2, Typed DEF Stats, StatRecord, Sizes
    <3>2. QED
      BY <1>2, <2>2, <3>1 DEF Locals, Labels
  <2>3. QED
    BY <1>3, <1>4, <2>1, <2>2
<1>7. CASE Open
  <2>1. \/ \E status \in Results \ {"OK"} : Fail(status)
        \/ name \in Objects /\ reader' = [reader EXCEPT !.pc = "fstat", !.held = name]
    BY <1>7 DEF Open, Results
  <2>2. ASSUME name \in Objects, reader' = [reader EXCEPT !.pc = "fstat", !.held = name]
        PROVE  /\ reader' \in Locals /\ reader'.pc = "fstat" /\ reader'.held \in Objects
               /\ reader'.image = <<>> /\ reader'.result # "OK"
    BY <1>2, <2>2 DEF Locals, Labels
  <2>3. QED
    BY <1>3, <1>4, <2>1, <2>2
<1>8. QED
  BY <1>5, <1>6, <1>7

(* The first fstat: the history of the file begins. *)
LEMMA FstatKeeps ==
  ASSUME IInv, FstatBefore
  PROVE  IInv'
<1>1. /\ UNCHANGED <<disk, sampled, since>> /\ reader.pc = "fstat" /\ reader \in Locals
      /\ reader.held \in Objects /\ reader.image = <<>> /\ reader.result # "OK"
      /\ TypeOK /\ InTime
  BY Typed DEF FstatBefore, At, IInv, InTime, ReadSoFar, Holding, Sampled1
<1>2. CASE (\E status \in Results \ {"OK"} : Fail(status)) /\ UNCHANGED seen
  BY <1>1, <1>2, FailKeeps DEF TypeOK
<1>3. CASE /\ reader' = [reader EXCEPT !.pc = "copy", !.before = Stat(reader.held)]
           /\ seen' = {content[reader.held]}
  <2> DEFINE c == content[reader.held]
  <2>1. /\ Stat(reader.held) \in StatRecord /\ c \in Contents /\ Len(c) \in Nat
        /\ ctime[reader.held] \in Nat /\ Stat(reader.held) \in Stats
    BY <1>1, Typed DEF Stats, StatRecord, Sizes
  <2>2. /\ reader' \in Locals /\ reader'.pc = "copy" /\ reader'.before = Stat(reader.held)
        /\ reader'.held = reader.held /\ reader'.image = <<>> /\ reader'.result # "OK"
        /\ reader'.kind = reader.kind
    BY <1>1, <1>3, <2>1 DEF Locals, Labels
  <2>3. /\ reader'.before.size = Len(c) /\ reader'.before.ctime = ctime[reader.held]
        /\ reader'.before \in StatRecord
    BY <2>1, <2>2 DEF Stat
  <2>4. TypeOK'
    BY <1>1, <1>3, <2>1, <2>2 DEF TypeOK, disk, host
  <2>5. InTime'
    BY <1>1, <2>1, <2>2, <2>3 DEF InTime, disk, Holding, Sampled1, Sampled2
  <2>6. ReadSoFar'
    <3>1. Wanted' \in Nat /\ Len(<<>>) = 0
      BY <2>1, <2>3, ViewAssumption DEF Wanted
    <3>2. QED
      BY <2>2, <3>1 DEF ReadSoFar, Sampled1, Holding, Agreed
  <2>7. FirstSample'
    <3>1. Begins(<<>>, c)
      BY <2>1, BeginsEmpty
    <3>2. QED
      BY <1>1, <1>3, <2>2, <2>3, <3>1 DEF FirstSample, disk
  <2>8. SecondSample' /\ SecondPass'
    BY <2>2 DEF SecondSample, SecondPass, Sampled2, Agreed
  <2>9. QED
    BY <2>2, <2>4, <2>5, <2>6, <2>7, <2>8 DEF IInv
<1>4. QED
  BY <1>2, <1>3 DEF FstatBefore, Results

(* A step that leaves the samples and what was copied as they are. *)
LEMMA MoveKeeps ==
  ASSUME IInv, UNCHANGED <<disk, history>>, reader' \in Locals,
         reader'.kind = reader.kind, reader'.held = reader.held,
         reader'.before = reader.before, reader'.after = reader.after,
         reader'.image = reader.image, reader'.result = reader.result,
         reader.pc \in Sampled1, reader'.pc \in Sampled1 \ {"copy"},
         reader'.pc \in Sampled2 => reader.pc \in Sampled2,
         Len(reader.image) = Wanted,
         reader'.pc \in Agreed => reader.before = reader.after,
         SecondPass'
  PROVE  IInv'
<1>1. TypeOK /\ InTime /\ ReadSoFar /\ FirstSample /\ SecondSample
  BY DEF IInv
<1>2. reader.result # "OK" /\ reader.held \in Objects /\ Holding # {}
  BY <1>1 DEF ReadSoFar, InTime, Sampled1, Holding
<1>3. TypeOK'
  BY <1>1 DEF TypeOK, disk, host, history
<1>4. InTime'
  BY <1>1, <1>2 DEF InTime, disk, Sampled1
<1>5. ReadSoFar'
  <2>1. Wanted' = Wanted
    BY DEF Wanted
  <2>2. QED
    BY <1>2, <2>1 DEF ReadSoFar, Sampled1, Holding
<1>6. FirstSample'
  BY <1>1 DEF FirstSample, disk, host, history, Watched
<1>7. SecondSample'
  BY <1>1 DEF SecondSample, disk, host, history, Watched
<1>8. QED
  BY <1>2, <1>3, <1>4, <1>5, <1>6, <1>7 DEF IInv

LEMMA CopyKeeps ==
  ASSUME IInv, Copy
  PROVE  IInv'
<1>1. /\ UNCHANGED <<disk, history>> /\ reader.pc = "copy" /\ reader \in Locals
      /\ reader.held \in Objects /\ reader.result # "OK" /\ TypeOK /\ InTime
      /\ Len(reader.image) <= Wanted /\ FirstSample
  BY Typed DEF Copy, At, IInv, InTime, ReadSoFar, Holding, Sampled1
<1>2. CASE Len(reader.image) = Wanted /\ Goto(IF reader.kind = "read" THEN "probe" ELSE "sampleFile")
  <2>1. PICK label \in {"probe", "sampleFile"} : Goto(label)
    BY <1>2
  <2>2. label \in Labels
    BY DEF Labels
  <2>3. /\ reader' \in Locals /\ reader'.pc = label
        /\ reader'.kind = reader.kind /\ reader'.held = reader.held
        /\ reader'.before = reader.before /\ reader'.after = reader.after
        /\ reader'.image = reader.image /\ reader'.result = reader.result
    BY <1>1, <2>1, <2>2, GotoFields
  <2>4. SecondPass'
    BY <1>1, <2>3 DEF SecondPass, Agreed
  <2>5. /\ reader.pc \in Sampled1 /\ label \in Sampled1 \ {"copy"} /\ label \notin Sampled2
        /\ label \notin Agreed
    BY <1>1 DEF Sampled1, Holding, Sampled2, Agreed
  <2>6. QED
    BY <1>1, <1>2, <2>3, <2>4, <2>5, MoveKeeps
<1>3. CASE /\ Len(reader.image) < Wanted /\ Len(reader.image) < Len(content[reader.held])
           /\ reader' = [reader EXCEPT !.image = Append(@, content[reader.held][Len(@) + 1])]
  <2> DEFINE c == content[reader.held]
             s == Append(reader.image, c[Len(reader.image) + 1])
  <2>1. /\ c \in Contents /\ reader.image \in Contents /\ Wanted \in Nat /\ Len(reader.image) \in Nat
    BY <1>1, Typed DEF Sampled1, Holding
  <2>2. /\ s \in Contents /\ Len(s) = Len(reader.image) + 1
        /\ Begins(reader.image, c) => Begins(s, c)
    BY <1>3, <2>1, NextChunk
  <2>3. reader' = [reader EXCEPT !.image = s]
    BY <1>3
  <2> HIDE DEF s
  <2>4. /\ reader' \in Locals /\ reader'.pc = "copy" /\ reader'.before = reader.before
        /\ reader'.held = reader.held /\ reader'.image = s /\ reader'.result = reader.result
        /\ reader'.kind = reader.kind
    BY <1>1, <2>2, <2>3 DEF Locals
  <2>5. TypeOK'
    BY <1>1, <2>4 DEF TypeOK, disk, host, history
  <2>6. InTime'
    BY <1>1, <2>4 DEF InTime, disk, Holding, Sampled1, Sampled2
  <2>7. ReadSoFar'
    <3>1. Wanted' = Wanted
      BY <2>4 DEF Wanted
    <3>2. QED
      BY <1>1, <1>3, <2>1, <2>2, <2>4, <3>1 DEF ReadSoFar, Sampled1, Holding, Agreed
  <2>8. FirstSample'
    BY <1>1, <2>2, <2>4 DEF FirstSample, disk, host, history, Watched
  <2>9. SecondSample' /\ SecondPass'
    BY <1>1, <2>4 DEF SecondSample, SecondPass, Sampled2, Agreed
  <2>10. QED
    BY <1>1, <2>4, <2>5, <2>6, <2>7, <2>8, <2>9 DEF IInv
<1>4. CASE Fail("IO_ERROR")
  BY <1>1, <1>4, FailKeeps DEF history, TypeOK, Results
<1>5. QED
  BY <1>2, <1>3, <1>4 DEF Copy

LEMMA ProbeKeeps ==
  ASSUME IInv, Probe
  PROVE  IInv'
<1>1. /\ UNCHANGED <<disk, history>> /\ reader.pc = "probe" /\ reader \in Locals
      /\ TypeOK /\ Len(reader.image) = Wanted /\ reader.result # "OK"
  BY Typed DEF Probe, At, IInv, ReadSoFar, Holding, Sampled1
<1>2. CASE Goto("sampleFile")
  <2>1. "sampleFile" \in Labels
    BY DEF Labels
  <2>2. /\ reader' \in Locals /\ reader'.pc = "sampleFile"
        /\ reader'.kind = reader.kind /\ reader'.held = reader.held
        /\ reader'.before = reader.before /\ reader'.after = reader.after
        /\ reader'.image = reader.image /\ reader'.result = reader.result
    BY <1>1, <1>2, <2>1, GotoFields
  <2>3. SecondPass'
    BY <1>1, <2>2 DEF SecondPass, Agreed
  <2>4. QED
    BY <1>1, <2>2, <2>3, MoveKeeps DEF Sampled1, Holding, Sampled2, Agreed
<1>3. CASE Fail("IO_ERROR")
  BY <1>1, <1>3, FailKeeps DEF history, TypeOK, Results
<1>4. QED
  BY <1>2, <1>3 DEF Probe

(* A later fstat: what was seen so far is what it samples. *)
LEMMA SampleKeeps ==
  ASSUME IInv, SampleFile
  PROVE  IInv'
<1>1. /\ UNCHANGED <<disk, seen>> /\ reader.pc \in {"sampleFile", "held"} /\ reader \in Locals
      /\ reader.held \in Objects /\ reader.result # "OK" /\ TypeOK /\ InTime
      /\ Len(reader.image) = Wanted /\ FirstSample /\ reader.before \in StatRecord
  BY Typed DEF SampleFile, At, IInv, InTime, ReadSoFar, Holding, Sampled1
<1>2. CASE Fail("IO_ERROR") /\ UNCHANGED <<sampled, since>>
  BY <1>1, <1>2, FailKeeps DEF TypeOK, Results
<1>3. CASE /\ reader' = [reader EXCEPT !.pc = "samplePath",
                                    !.phase = IF At("held") THEN "close" ELSE @,
                                    !.second = <<>>, !.after = Stat(reader.held)]
           /\ sampled' = seen /\ since' = {content[reader.held]}
  <2> DEFINE c == content[reader.held]
  <2>1. /\ Stat(reader.held) \in StatRecord /\ c \in Contents /\ Len(c) \in Nat
        /\ Stat(reader.held) \in Stats /\ <<>> \in Contents /\ Begins(<<>>, c) /\ Len(<<>>) = 0
    BY <1>1, Typed, BeginsEmpty DEF Stats, StatRecord, Sizes
  <2>2. /\ reader' \in Locals /\ reader'.pc = "samplePath" /\ reader'.after = Stat(reader.held)
        /\ reader'.held = reader.held /\ reader'.image = reader.image
        /\ reader'.result = reader.result /\ reader'.before = reader.before
        /\ reader'.kind = reader.kind /\ reader'.second = <<>>
    BY <1>1, <1>3, <2>1 DEF Locals, Labels
  <2>3. /\ reader'.after.size = Len(c) /\ reader'.after.ctime = ctime[reader.held]
        /\ reader'.after \in StatRecord
    BY <2>1, <2>2 DEF Stat
  <2>4. TypeOK'
    BY <1>1, <1>3, <2>1, <2>2 DEF TypeOK, disk, host
  <2>5. InTime'
    BY <1>1, <2>2, <2>3 DEF InTime, disk, Holding, Sampled1, Sampled2
  <2>6. ReadSoFar'
    <3>1. Wanted' = Wanted
      BY <2>2 DEF Wanted
    <3>2. QED
      BY <1>1, <2>2, <3>1 DEF ReadSoFar, Sampled1, Holding, Agreed
  <2>7. FirstSample'
    BY <1>1, <2>2 DEF FirstSample, disk, host, Watched, Sampled1, Holding
  <2>8. SecondSample'
    <3>1. SUFFICES ASSUME Watched, ctime[reader.held] = reader.before.ctime
                   PROVE  sampled' = {c} /\ Len(c) = reader.before.size /\ Begins(reader.image, c)
      BY <1>1, <2>2, <2>3 DEF SecondSample, disk, host, Watched
    <3>2. QED
      BY <1>1, <1>3, <3>1 DEF FirstSample, Sampled1, Holding
  <2>9. SecondPass'
    <3>1. /\ since' = {c} /\ content' = content /\ 0 <= reader.before.size
      BY <1>1, <1>3, ViewAssumption DEF disk, StatRecord, Sizes
    <3>2. QED
      BY <1>1, <2>1, <2>2, <2>3, <3>1 DEF SecondPass, Agreed
  <2>10. QED
    BY <1>1, <2>2, <2>4, <2>5, <2>6, <2>7, <2>8, <2>9 DEF IInv
<1>4. QED
  BY <1>2, <1>3 DEF SampleFile

LEMMA SamplePathKeeps ==
  ASSUME IInv, SamplePath
  PROVE  IInv'
<1>1. /\ UNCHANGED <<disk, history>> /\ reader.pc = "samplePath" /\ reader \in Locals
      /\ TypeOK /\ Len(reader.image) = Wanted /\ reader.result # "OK" /\ SecondPass
  BY Typed DEF SamplePath, At, IInv, ReadSoFar, Holding, Sampled1
<1>2. CASE /\ name \in Objects
           /\ reader' = [reader EXCEPT !.pc = IF reader.kind = "view" THEN "digest" ELSE "compare",
                                       !.pathAfter = Stat(name)]
  <2>1. Stat(name) \in Stats
    BY <1>2, Typed DEF Stats, StatRecord, Sizes
  <2>2. /\ reader' \in Locals
        /\ reader'.pc = IF reader.kind = "view" THEN "digest" ELSE "compare"
        /\ reader'.kind = reader.kind /\ reader'.held = reader.held
        /\ reader'.before = reader.before /\ reader'.after = reader.after
        /\ reader'.image = reader.image /\ reader'.result = reader.result
        /\ reader'.second = reader.second
    BY <1>1, <1>2, <2>1 DEF Locals, Labels
  <2>3. SecondPass'
    BY <1>1, <2>2 DEF SecondPass, Agreed, disk, history
  <2>4. QED
    BY <1>1, <2>2, <2>3, MoveKeeps DEF Sampled1, Holding, Sampled2, Agreed
<1>3. CASE Fail("IO_ERROR")
  BY <1>1, <1>3, FailKeeps DEF history, TypeOK, Results
<1>4. QED
  BY <1>2, <1>3 DEF SamplePath

LEMMA DigestKeeps ==
  ASSUME IInv, Digest
  PROVE  IInv'
<1>1. /\ UNCHANGED <<disk, history>> /\ reader.pc = "digest" /\ reader \in Locals
      /\ reader.held \in Objects /\ TypeOK /\ Len(reader.image) = Wanted
      /\ reader.result # "OK" /\ SecondPass /\ reader.before.size \in Nat
  BY Typed DEF Digest, At, IInv, ReadSoFar, InTime, Holding, Sampled1
<1>2. CASE Len(reader.second) = reader.before.size /\ Goto("compare")
  <2>1. "compare" \in Labels
    BY DEF Labels
  <2>2. /\ reader' \in Locals /\ reader'.pc = "compare"
        /\ reader'.kind = reader.kind /\ reader'.held = reader.held
        /\ reader'.before = reader.before /\ reader'.after = reader.after
        /\ reader'.image = reader.image /\ reader'.result = reader.result
        /\ reader'.second = reader.second
    BY <1>1, <1>2, <2>1, GotoFields
  <2>3. SecondPass'
    BY <1>1, <1>2, <2>2 DEF SecondPass, Agreed, disk, history
  <2>4. QED
    BY <1>1, <2>2, <2>3, MoveKeeps DEF Sampled1, Holding, Sampled2, Agreed
<1>3. CASE /\ Len(reader.second) < reader.before.size
           /\ Len(reader.second) < Len(content[reader.held])
           /\ reader' = [reader EXCEPT !.second = Append(@, content[reader.held][Len(@) + 1])]
  <2> DEFINE c == content[reader.held]
             s == Append(reader.second, c[Len(reader.second) + 1])
  <2>1. c \in Contents /\ reader.second \in Contents /\ Len(reader.second) \in Nat
    BY <1>1, Typed
  <2>2. /\ s \in Contents /\ Len(s) = Len(reader.second) + 1
        /\ Begins(reader.second, c) => Begins(s, c)
    BY <1>3, <2>1, NextChunk
  <2>3. reader' = [reader EXCEPT !.second = s]
    BY <1>3
  <2> HIDE DEF s
  <2>4. /\ reader' \in Locals /\ reader'.pc = "digest" /\ reader'.second = s
        /\ reader'.kind = reader.kind /\ reader'.held = reader.held
        /\ reader'.before = reader.before /\ reader'.after = reader.after
        /\ reader'.image = reader.image /\ reader'.result = reader.result
    BY <1>1, <2>2, <2>3 DEF Locals
  <2>5. SecondPass'
    <3>1. content' = content /\ since' = since
      BY <1>1 DEF disk, history
    <3>2. Len(s) <= reader.before.size
      BY <1>1, <1>3, <2>1, <2>2
    <3>3. ASSUME reader.kind = "view", NEW d \in since, since = {d}
          PROVE  Len(d) = reader.after.size /\ Begins(s, d)
      <4>1. c = d /\ Len(d) = reader.after.size /\ Begins(reader.second, d)
        BY <1>1, <3>3 DEF SecondPass
      <4>2. QED
        BY <2>2, <4>1
    <3>4. reader.kind = "view" => c \in since
      BY <1>1 DEF SecondPass
    <3>5. QED
      BY <1>1, <2>4, <3>1, <3>2, <3>3, <3>4 DEF SecondPass, Agreed
  <2>6. QED
    BY <1>1, <2>4, <2>5, MoveKeeps DEF Sampled1, Holding, Sampled2, Agreed
<1>4. CASE Fail("IO_ERROR")
  BY <1>1, <1>4, FailKeeps DEF history, TypeOK, Results
<1>5. QED
  BY <1>2, <1>3, <1>4 DEF Digest

(* What the second pass found, when both samples agree. *)
LEMMA CompareKeeps ==
  ASSUME IInv, Compare
  PROVE  IInv'
<1>1. /\ UNCHANGED <<disk, history>> /\ reader.pc = "compare" /\ reader \in Locals
      /\ TypeOK /\ Len(reader.image) = Wanted /\ reader.result # "OK" /\ SecondPass
  BY Typed DEF Compare, At, IInv, ReadSoFar, Holding, Sampled1
<1>2. CASE /\ Agrees
           /\ reader' = IF reader.kind = "view" /\ reader.phase = "open"
                        THEN [reader EXCEPT !.pc = "held", !.exposed = TRUE, !.opened = "OK"]
                        ELSE [reader EXCEPT !.pc = "close"]
  <2>1. /\ reader' \in Locals /\ reader'.pc \in {"held", "close"}
        /\ reader'.kind = reader.kind /\ reader'.held = reader.held
        /\ reader'.before = reader.before /\ reader'.after = reader.after
        /\ reader'.image = reader.image /\ reader'.result = reader.result
    <3>1. "held" \in Labels /\ "close" \in Labels /\ "OK" \in Results
      BY DEF Labels, Results
    <3>2. CASE reader' = [reader EXCEPT !.pc = "held", !.exposed = TRUE, !.opened = "OK"]
      BY <1>1, <3>1, <3>2 DEF Locals
    <3>3. CASE reader' = [reader EXCEPT !.pc = "close"]
      BY <1>1, <3>1, <3>3 DEF Locals
    <3>4. QED
      BY <1>2, <3>2, <3>3
  <2>2. reader.before = reader.after
    BY <1>2 DEF Agrees, Unchanged
  <2>3. ASSUME reader.kind = "view", NEW c \in since, since = {c}
        PROVE  reader.image = c
    <3>1. /\ reader.second = reader.image /\ Len(reader.second) = reader.before.size
          /\ Len(c) = reader.after.size /\ Begins(reader.second, c)
      BY <1>1, <1>2, <2>3 DEF Agrees, SecondPass
    <3>2. c \in Contents /\ reader.second \in Contents /\ Len(c) \in Nat
      BY <1>1, Typed, ContentsAre, ViewAssumption DEF TypeOK, Sizes
    <3>3. reader.second = c
      BY <2>2, <3>1, <3>2, BeginsAll
    <3>4. QED
      BY <3>1, <3>3
  <2>4. SecondPass'
    BY <1>1, <2>1, <2>3 DEF SecondPass, Agreed, disk, history
  <2>5. QED
    BY <1>1, <2>1, <2>2, <2>4, MoveKeeps DEF Sampled1, Holding, Sampled2, Agreed
<1>3. CASE Fail("IO_ERROR")
  BY <1>1, <1>3, FailKeeps DEF history, TypeOK, Results
<1>4. QED
  BY <1>2, <1>3 DEF Compare

(* Agreeing samples: the file was the same all along. *)
LEMMA AgreedExact ==
  ASSUME IInv, reader.pc \in Agreed, Watched
  PROVE  Exact
<1>1. /\ reader.before = reader.after /\ Len(reader.image) = Wanted /\ reader.image \in Contents
      /\ sampled \subseteq Contents /\ Wanted \in Nat /\ reader.before.size \in Nat
  BY Typed DEF IInv, ReadSoFar, TypeOK, Agreed, Sampled1, Holding
<1>2. PICK c \in sampled : sampled = {c} /\ Len(c) = reader.before.size /\ Begins(reader.image, c)
  BY <1>1 DEF IInv, SecondSample, Sampled2, Agreed
<1>3. reader.image = IF Len(reader.image) < Len(c) THEN SubSeq(c, 1, Len(reader.image)) ELSE c
  BY <1>1, <1>2, BeginsAll
<1>4. Len(reader.image) = IF reader.kind = "prefix" /\ Capacity < Len(c) THEN Capacity ELSE Len(c)
  BY <1>1, <1>2 DEF Wanted
<1>5. Len(c) \in Nat /\ Capacity \in Nat
  BY <1>1, <1>2, ViewAssumption
<1>6. reader.image = IF reader.kind = "prefix" /\ Capacity < Len(c) THEN SubSeq(c, 1, Capacity) ELSE c
  BY <1>3, <1>4, <1>5
<1>7. QED
  BY <1>2, <1>6 DEF Exact

LEMMA CloseKeeps ==
  ASSUME IInv, Close
  PROVE  IInv'
<1>1. /\ UNCHANGED <<disk, history>> /\ reader.pc = "close" /\ reader \in Locals
      /\ TypeOK /\ InTime /\ SecondPass
  BY Typed DEF Close, At, IInv
<1>2. CASE reader' = [reader EXCEPT !.pc = "done", !.held = Absent,
                                   !.exposed = FALSE, !.result = "OK"]
  <2>1. /\ reader' \in Locals /\ reader'.pc = "done" /\ reader'.kind = reader.kind
        /\ reader'.image = reader.image
    BY <1>1, <1>2 DEF Locals, Labels, Results
  <2>2. TypeOK'
    BY <1>1, <2>1 DEF TypeOK, disk, host, history
  <2>3. InTime'
    BY <1>1, <2>1 DEF InTime, disk, Holding, Sampled1, Sampled2
  <2>4. ReadSoFar' /\ FirstSample' /\ SecondSample'
    BY <2>1 DEF ReadSoFar, FirstSample, SecondSample, Holding, Sampled1, Sampled2, Agreed
  <2>5. SecondPass'
    BY <1>1, <2>1 DEF SecondPass, Agreed, history
  <2>6. Watched' => Exact'
    <3>1. Watched => Exact
      BY <1>1, AgreedExact DEF Agreed
    <3>2. QED
      BY <1>1, <2>1, <3>1 DEF Exact, Watched, disk, host, history
  <2>7. QED
    BY <2>2, <2>3, <2>4, <2>5, <2>6 DEF IInv
<1>3. CASE Fail("IO_ERROR")
  BY <1>1, <1>3, FailKeeps DEF history, TypeOK, Results
<1>4. QED
  BY <1>2, <1>3 DEF Close

----------------------------------------------------------------------------
(* Other programs. *)

(* Every edit leaves a file that fits. *)
LEMMA EditedFits ==
  ASSUME NEW c \in Contents
  PROVE  Edited(c) \subseteq Contents
<1>1. c \in Seq(Values) /\ Len(c) \in Nat /\ Len(c) \in Sizes /\ MaxChunks \in Nat
  BY ContentsAre, ViewAssumption DEF Sizes
<1>2. ASSUME NEW i \in 1..Len(c), NEW v \in Values PROVE [c EXCEPT ![i] = v] \in Contents
  <2>1. [c EXCEPT ![i] = v] \in Seq(Values) /\ Len([c EXCEPT ![i] = v]) = Len(c)
    BY <1>1
  <2>2. QED
    BY <1>1, <2>1, ContentsAre
<1>3. ASSUME Len(c) < MaxChunks, NEW v \in Values PROVE Append(c, v) \in Contents
  <2>1. Append(c, v) \in Seq(Values) /\ Len(Append(c, v)) = Len(c) + 1
    BY <1>1, AppendProperties
  <2>2. Len(Append(c, v)) \in Sizes
    BY <1>1, <1>3, <2>1 DEF Sizes
  <2>3. QED
    BY <2>1, <2>2, ContentsAre
<1>4. ASSUME Len(c) > 0 PROVE SubSeq(c, 1, Len(c) - 1) \in Contents
  <2> DEFINE n == Len(c) - 1
             t == SubSeq(c, 1, n)
  <2>1. 1 \in Int /\ n \in Int /\ n >= 0 /\ \A i \in 1..n : c[i] \in Values
    BY <1>1, <1>4
  <2>2. t \in Seq(Values) /\ Len(t) = (IF 1 <= n THEN n - 1 + 1 ELSE 0)
    BY <2>1, SubSeqProperties
  <2> HIDE DEF t
  <2>3. Len(t) \in Sizes
    BY <1>1, <1>4, <2>2 DEF Sizes
  <2>4. QED
    BY <2>2, <2>3, ContentsAre DEF t
<1>5. SUFFICES ASSUME NEW x \in Edited(c) PROVE x \in Contents
  OBVIOUS
<1> DEFINE Overwritten == {[c EXCEPT ![i] = v] : i \in 1..Len(c), v \in Values}
           Longer == IF Len(c) < MaxChunks THEN {Append(c, v) : v \in Values} ELSE {}
           Shorter == IF Len(c) > 0 THEN {SubSeq(c, 1, Len(c) - 1)} ELSE {}
<1>6. x \in Overwritten \/ x \in Longer \/ x \in Shorter
  BY <1>5 DEF Edited
<1>7. CASE x \in Overwritten
  BY <1>2, <1>7
<1>8. CASE x \in Longer
  <2>1. Len(c) < MaxChunks
    BY <1>8
  <2>2. PICK v \in Values : x = Append(c, v)
    BY <1>8, <2>1
  <2>3. QED
    BY <1>3, <2>1, <2>2
<1>9. CASE x \in Shorter
  <2>1. Len(c) > 0 /\ x = SubSeq(c, 1, Len(c) - 1)
    BY <1>9
  <2>2. QED
    BY <1>4, <2>1
<1>10. QED
  BY <1>6, <1>7, <1>8, <1>9

(* A change of the held file is seen, and where changes are timestamped it
   moves the timestamp past every sample. *)
Changed ==
  \/ UNCHANGED history /\ (reader.held \in Objects => content'[reader.held] = content[reader.held])
  \/ /\ reader.held \in Objects /\ sampled' = sampled
     /\ seen' = seen \cup {content'[reader.held]} /\ since' = since \cup {content'[reader.held]}
     /\ Watched => ctime'[reader.held] > clock

Ticking ==
  /\ clock' \in Nat /\ clock <= clock' /\ clock' <= clock + 1
  /\ ctime' \in [Objects -> Nat]
  /\ \A o \in Objects : ctime[o] <= ctime'[o] /\ ctime'[o] <= clock'

LEMMA OthersKeep ==
  ASSUME IInv, Mutate, UNCHANGED <<reader, host>>, Ticking, Changed,
         name' \in Objects \cup {Absent, NotRegular},
         content' \in [Objects -> Contents], mode' \in [Objects -> Modes]
  PROVE  IInv'
<1>1. /\ TypeOK /\ InTime /\ ReadSoFar /\ FirstSample /\ SecondSample /\ SecondPass
      /\ reader.pc # "done"
  BY DEF IInv, Mutate, At
<1>2. /\ mutations \in Nat /\ mutations' = mutations + 1 /\ mutations' \in 0..MaxMutations
      /\ clock \in Nat /\ clock <= mutations /\ MaxMutations \in Nat
      /\ clock' \in 0..MaxMutations /\ clock' <= mutations'
  <2>1. /\ mutations \in 0..MaxMutations /\ clock \in 0..MaxMutations /\ MaxMutations \in Nat
        /\ mutations < MaxMutations /\ mutations' = mutations + 1 /\ clock <= mutations
    BY <1>1, ViewAssumption DEF Mutate, TypeOK, InTime
  <2>2. QED
    BY <2>1 DEF Ticking
<1>3. ctime' \in [Objects -> 0..MaxMutations]
  <2>1. \A o \in Objects : ctime'[o] \in 0..MaxMutations
    BY <1>2 DEF Ticking
  <2>2. QED
    BY <2>1 DEF Ticking
<1>4. TypeOK'
  <2>1. seen' \subseteq Contents /\ sampled' \subseteq Contents /\ since' \subseteq Contents
    BY <1>1 DEF Changed, history, TypeOK
  <2>2. QED
    BY <1>1, <1>2, <1>3, <2>1 DEF TypeOK, host
<1>5. \A o \in Objects : ctime[o] \in Nat /\ ctime'[o] \in Nat
  BY <1>1, ViewAssumption DEF TypeOK, Ticking
<1>6. reader.pc \in Sampled1 =>
        /\ reader.held \in Objects /\ reader.before.ctime \in Nat
        /\ reader.before.ctime <= ctime[reader.held] /\ ctime[reader.held] <= clock
        /\ ctime[reader.held] <= ctime'[reader.held]
  BY <1>1, ViewAssumption DEF InTime, Sampled1, StatRecord, Ticking
<1>7. InTime'
  <2>1. \A o \in Objects : ctime'[o] <= clock'
    BY DEF Ticking
  <2>2. reader.pc \in Sampled1 => reader.before.ctime <= ctime'[reader.held]
    BY <1>5, <1>6
  <2>3. QED
    BY <1>1, <1>2, <2>1, <2>2 DEF InTime
<1>8. ReadSoFar' /\ reader'.result # "OK"
  <2>1. Wanted' = Wanted
    BY DEF Wanted
  <2>2. QED
    BY <1>1, <2>1 DEF ReadSoFar
<1>9. FirstSample'
  <2>1. SUFFICES ASSUME Watched, reader.pc \in Sampled1, ctime'[reader.held] = reader.before.ctime
                 PROVE  /\ seen' = {content'[reader.held]}
                        /\ Len(content'[reader.held]) = reader.before.size
                        /\ Begins(reader.image, content'[reader.held])
    BY DEF FirstSample, Watched, host
  <2>2. ctime[reader.held] = reader.before.ctime /\ ~(ctime'[reader.held] > clock)
    BY <1>2, <1>5, <1>6, <2>1
  <2>3. content'[reader.held] = content[reader.held] /\ seen' = seen
    BY <1>6, <2>1, <2>2 DEF Changed, history
  <2>4. QED
    BY <1>1, <2>1, <2>2, <2>3 DEF FirstSample
<1>10. SecondSample'
  BY <1>1 DEF SecondSample, Changed, history, Watched, host
<1>11. SecondPass'
  <2>1. CASE UNCHANGED history /\ (reader.held \in Objects => content'[reader.held] = content[reader.held])
    <3>1. reader.pc \in {"samplePath", "digest", "compare"} \cup Agreed => reader.held \in Objects
      BY <1>1 DEF InTime, Holding, Agreed
    <3>2. QED
      BY <1>1, <1>8, <2>1, <3>1 DEF SecondPass, history
  <2>2. CASE since' = since \cup {content'[reader.held]}
    <3>1. ASSUME content[reader.held] \in since, NEW c, since' = {c}
          PROVE  since = {c} /\ c \in since
      BY <2>2, <3>1
    <3>2. content'[reader.held] \in since'
      BY <2>2
    <3>3. QED
      BY <1>1, <1>8, <3>1, <3>2 DEF SecondPass
  <2>3. QED
    BY <2>1, <2>2 DEF Changed
<1>12. QED
  BY <1>4, <1>7, <1>8, <1>9, <1>10, <1>11 DEF IInv

(* A change of one file and its timestamp. *)
LEMMA StampTicks ==
  ASSUME IInv, NEW o \in Objects, Stamp(o)
  PROVE  Ticking /\ (fine => ctime'[o] > clock)
<1>1. /\ clock \in Nat /\ ctime \in [Objects -> Nat] /\ \A q \in Objects : ctime[q] <= clock
  <2>1. clock \in 0..MaxMutations /\ ctime \in [Objects -> 0..MaxMutations] /\ MaxMutations \in Nat
    BY ViewAssumption DEF IInv, TypeOK
  <2>2. QED
    BY <2>1 DEF IInv, InTime
<1>2. clock' \in {clock, clock + 1} /\ (fine => clock' = clock + 1)
  BY DEF Stamp
<1>3. ctime' = [ctime EXCEPT ![o] = clock']
  BY DEF Stamp
<1>4. ctime'[o] = clock' /\ \A q \in Objects : q # o => ctime'[q] = ctime[q]
  BY <1>1, <1>3
<1>5. clock' \in Nat /\ clock <= clock' /\ clock' <= clock + 1
  BY <1>1, <1>2
<1>6. \A q \in Objects : ctime[q] <= ctime'[q] /\ ctime'[q] <= clock'
  BY <1>1, <1>4, <1>5
<1>7. ctime' \in [Objects -> Nat]
  BY <1>1, <1>3, <1>5
<1>8. QED
  BY <1>1, <1>2, <1>4, <1>5, <1>6, <1>7 DEF Ticking

LEMMA StillTicks ==
  ASSUME IInv, UNCHANGED <<ctime, clock>>
  PROVE  Ticking
<1>1. clock \in 0..MaxMutations /\ ctime \in [Objects -> 0..MaxMutations] /\ MaxMutations \in Nat
  BY ViewAssumption DEF IInv, TypeOK
<1>2. \A o \in Objects : ctime[o] \in Nat /\ ctime[o] <= clock
  BY <1>1 DEF IInv, InTime
<1>3. QED
  BY <1>1, <1>2 DEF Ticking

LEMMA OtherStepKeeps ==
  ASSUME IInv, OtherStep
  PROVE  IInv'
<1>1. /\ name \in Objects \cup {Absent, NotRegular} /\ content \in [Objects -> Contents]
      /\ mode \in [Objects -> Modes]
  BY DEF IInv, TypeOK
<1>2. ASSUME NEW o \in Objects, NEW c \in Edited(content[o]), Rewrite(o, c),
             Watched => ctime'[o] > clock
      PROVE  content' \in [Objects -> Contents] /\ Changed
  <2>1. c \in Contents
    BY <1>1, EditedFits
  <2>2. content' \in [Objects -> Contents] /\ content'[o] = c
    BY <1>1, <1>2, <2>1 DEF Rewrite
  <2>3. Changed
    <3>1. CASE o = reader.held
      BY <1>2, <2>2, <3>1 DEF Rewrite, Changed
    <3>2. CASE o # reader.held
      BY <1>1, <1>2, <3>2 DEF Rewrite, Changed, history
    <3>3. QED
      BY <3>1, <3>2
  <2>4. QED
    BY <2>2, <2>3
<1>3. CASE WriteFile
  <2>0. PICK o \in Objects : \E c \in Edited(content[o]) : Rewrite(o, c) /\ Stamp(o)
    BY <1>3 DEF WriteFile
  <2>1. PICK c \in Edited(content[o]) : Rewrite(o, c) /\ Stamp(o)
    BY <2>0
  <2>2. Ticking /\ (fine => ctime'[o] > clock)
    BY <2>1, StampTicks
  <2>3. content' \in [Objects -> Contents] /\ Changed
    BY <1>2, <2>1, <2>2 DEF Watched
  <2>4. QED
    BY <1>1, <1>3, <2>2, <2>3, OthersKeep DEF WriteFile
<1>4. CASE StoreMapped
  <2>0. PICK o \in Objects : \E c \in Edited(content[o]) : Rewrite(o, c)
    BY <1>4 DEF StoreMapped
  <2>1. PICK c \in Edited(content[o]) : Rewrite(o, c)
    BY <2>0
  <2>2. Ticking /\ ~Watched
    BY <1>4, StillTicks DEF StoreMapped, Watched
  <2>3. content' \in [Objects -> Contents] /\ Changed
    BY <1>2, <2>1, <2>2
  <2>4. QED
    BY <1>1, <1>4, <2>2, <2>3, OthersKeep DEF StoreMapped
<1>5. CASE Chmod
  <2>1. PICK o \in Objects, m \in Modes : mode' = [mode EXCEPT ![o] = m] /\ Stamp(o)
    BY <1>5 DEF Chmod
  <2>2. Ticking /\ mode' \in [Objects -> Modes]
    BY <1>1, <2>1, StampTicks
  <2>3. Changed
    BY <1>5 DEF Chmod, Changed
  <2>4. QED
    BY <1>1, <1>5, <2>2, <2>3, OthersKeep DEF Chmod
<1>6. CASE Rename
  <2>1. Ticking /\ Changed
    BY <1>6, StillTicks DEF Rename, Changed
  <2>2. QED
    BY <1>1, <1>6, <2>1, OthersKeep DEF Rename
<1>7. QED
  BY <1>3, <1>4, <1>5, <1>6 DEF OtherStep

----------------------------------------------------------------------------
(* The theorems. *)

LEMMA InitIInv ==
  ASSUME Init
  PROVE  IInv
<1>1. /\ reader = Idle /\ seen = {} /\ sampled = {} /\ since = {}
      /\ clock = 0 /\ mutations = 0 /\ ctime = [o \in Objects |-> 0]
  BY DEF Init
<1>2. <<>> \in Contents
  <2>1. <<>> \in Seq(Values) /\ Len(<<>>) = 0 /\ 0 \in Sizes
    BY ViewAssumption DEF Sizes
  <2>2. QED
    BY <2>1, ContentsAre
<1>3. Idle \in Locals
  BY <1>2 DEF Idle, Locals, Labels, Kinds, Results, Stats
<1>4. TypeOK
  BY <1>1, <1>3, ViewAssumption DEF Init, TypeOK
<1>5. reader.pc = "idle" /\ reader.image = <<>> /\ reader.result = "none"
  BY <1>1 DEF Idle
<1>6. InTime
  BY <1>1, <1>5 DEF InTime, Holding, Sampled1, Sampled2
<1>7. ReadSoFar /\ FirstSample /\ SecondSample /\ SecondPass
  BY <1>5 DEF ReadSoFar, FirstSample, SecondSample, SecondPass, Holding, Sampled1, Sampled2, Agreed
<1>8. QED
  BY <1>4, <1>5, <1>6, <1>7 DEF IInv

LEMMA StutterKeeps ==
  ASSUME IInv, UNCHANGED vars
  PROVE  IInv'
<1>1. /\ UNCHANGED <<name, content, mode, ctime, clock, mutations, fine, mapped>>
      /\ UNCHANGED <<reader, seen, sampled, since>>
  BY DEF vars, disk, host, history
<1>2. TypeOK' /\ InTime'
  BY <1>1 DEF IInv, TypeOK, InTime
<1>3. ReadSoFar' /\ FirstSample' /\ SecondSample' /\ SecondPass'
  BY <1>1 DEF IInv, ReadSoFar, FirstSample, SecondSample, SecondPass, Watched, Wanted
<1>4. Watched' /\ reader'.result = "OK" => Exact'
  BY <1>1 DEF IInv, Watched, Exact
<1>5. QED
  BY <1>2, <1>3, <1>4 DEF IInv

(* What the samples, the bytes read so far and the history of the held file
   have to do with each other. *)
THEOREM ViewInvariant == Spec => []IInv
<1>1. IInv /\ [Next]_vars => IInv'
  BY OpeningKeeps, FstatKeeps, CopyKeeps, ProbeKeeps, SampleKeeps, SamplePathKeeps, DigestKeeps,
     CompareKeeps, CloseKeeps, OtherStepKeeps, StutterKeeps DEF Next, ReaderStep
<1>2. Init => IInv
  BY InitIInv
<1>3. QED
  BY <1>1, <1>2, PTL DEF Spec

(* "Observed metadata/content races fail closed": where every change is
   timestamped, each of the three readers delivers the one content the file
   had from its first sample to its last. *)
THEOREM StableReadHolds == Spec => []StableRead
<1>1. IInv => StableRead
  <2> SUFFICES ASSUME IInv PROVE StableRead
    OBVIOUS
  <2>1. TypeOK
    BY DEF IInv
  <2>2. Delivered /\ Watched => Exact
    BY AgreedExact DEF Delivered, At, Agreed, IInv
  <2>3. QED
    BY <2>1, <2>2 DEF StableRead, Exact, Watched
<1>2. QED
  BY <1>1, ViewInvariant, PTL

(* The close of a view re-reads the file it holds: whatever the clock, a
   change that stays from its sample on is noticed. *)
THEOREM CloseRehashesHolds == Spec => []CloseRehashes
<1>1. IInv => CloseRehashes
  BY DEF IInv, SecondPass, CloseRehashes
<1>2. QED
  BY <1>1, ViewInvariant, PTL

----------------------------------------------------------------------------
(* Snapshots of an input file. *)

HeldContents == DOMAIN Archives \cup {<<>>}
Chunks == UNION {{c[i] : i \in DOMAIN c} : c \in HeldContents}
MembersOf == (UNION {Archives[c] : c \in DOMAIN Archives}) \cup {<<>>}
Sources ==
  [member : Nat,
   data : HeldContents \cup (UNION {{m[i].data : i \in DOMAIN m} : m \in MembersOf})]

LedTo == InputFiles \cup {NoFile}
Sample == [file : LedTo, size : Nat, stamp : Nat]

Ops == {"none", "open", "once", "visit", "suspend", "digest", "close"}
Anchoring == {"lstat", "open", "fstat"}
Validating == {"held", "path", "digest", "validated"}
CallPlaces == {"done", "capture", "dispose", "remap", "member", "suspend"}
          \cup Anchoring \cup Validating
Purposes == {"none", "bind", "dispose", "enter", "map", "suspend", "digest"}
Answers == {"OK", "FILE_ERROR", "UNSUPPORTED", "UNRELATED", "CONTAINER_INVALID",
            "VISITOR_FAILED", "MEMBER_INVALID"}
ProbeKinds == {"UNRELATED", "UNITYFS", "UNSUPPORTED", "SERIALIZED_FILE_V22"}

TreeType == [name : LedTo, content : [InputFiles -> HeldContents],
             stamp : [InputFiles -> Nat], changes : Nat]
SnapshotType ==
  [state : {"none", "opening", "open"}, before : Sample, capture : HeldContents,
   kind : ProbeKinds, members : MembersOf,
   view : [open : BOOLEAN, before : Sample, data : HeldContents]]
CallType ==
  [op : Ops, pc : CallPlaces, for : Purposes, held : Sample, path : Sample,
   ok : BOOLEAN, read : Seq(Chunks), stable : BOOLEAN, status : Answers,
   next : Nat, sources : Seq(Sources),
   stats : [serialized : Nat, resource : Nat, directory : Nat, deleted : Nat]]
HistoryType ==
  [file : LedTo, size : Nat, capture : HeldContents,
   seen : SUBSET [content : HeldContents, led : BOOLEAN]]

SnapshotTypeOK ==
  /\ tree \in TreeType /\ snapshot \in SnapshotType
  /\ call \in CallType /\ past \in HistoryType

(* The call validates the anchor for the sake of purpose. *)
ValidatesFor(purpose) == call.pc \in Validating /\ call.for = purpose
Disposing == Doing("dispose") \/ ValidatesFor("dispose")

(* Where a call may be while there is no snapshot, while one is opened, and
   once it is open; and that its anchor is the file the past is of. *)
Lifecycle ==
  /\ snapshot.state = "none" =>
       snapshot = NoSnapshot /\ call.pc \in Anchoring \cup {"done"}
  /\ snapshot.state = "opening" =>
       Doing("capture") \/ ValidatesFor("bind") \/ Disposing
  /\ snapshot.state = "open" =>
       \/ call.pc \in {"done", "remap", "member", "suspend"} \/ Disposing
       \/ \E p \in {"enter", "map", "suspend", "digest"} : ValidatesFor(p)
  /\ snapshot.state # "none" =>
       /\ past.file = snapshot.before.file /\ past.file \in InputFiles
       /\ past.size = snapshot.before.size
       /\ snapshot.capture = past.capture
  /\ call.pc \in Anchoring \cup {"capture"} \/ ValidatesFor("bind") =>
       call.op \in {"open", "once"}
  /\ Doing("suspend") \/ ValidatesFor("suspend") \/ ValidatesFor("digest") =>
       call.op \in {"suspend", "digest"}
  /\ call.op = "none" => Doing("done") /\ past.file = NoFile
  /\ Doing("fstat") => call.held.file \in InputFiles

(* What is mapped and unpacked is what was captured. *)
UnpackedIsCaptured ==
  /\ ValidatesFor("bind") => snapshot.view.data = past.capture
  /\ snapshot.state = "open" => snapshot.kind = ProbeBytes(past.capture)
  /\ snapshot.state = "open" /\ snapshot.kind = "UNITYFS" =>
       /\ past.capture \in DOMAIN Archives /\ Archives[past.capture] # {}
       /\ ~ValidatesFor("dispose") => snapshot.members = Captured

(* What the visitor has got. *)
Visited ==
  /\ ~(Disposing \/ call.pc \in {"member", "done"}) => call.sources = <<>>
  /\ Doing("remap") \/ ValidatesFor("map") => snapshot.kind # "UNITYFS"
  /\ Doing("member") =>
       /\ snapshot.state = "open" /\ snapshot.kind = "UNITYFS"
       /\ call.next \in 1..Len(Captured) + 1
       /\ call.sources = DueOf(Captured)[call.next - 1]
  /\ call.sources # <<>> => IsPrefix(call.sources, Due)
  /\ (Disposing \/ Doing("done")) /\ call.status = "OK" /\ call.op \in {"visit", "once"} =>
       call.sources = Due

NotChanged == past.size = Len(past.capture) => ~PersistentlyChanged

(* What the validation has seen of the anchored file. *)
Judged ==
  /\ past.file # NoFile => Seen(tree, past.file) \in past.seen
  /\ call.pc \in {"held", "path"} => call.read = <<>>
  /\ call.pc \in {"path", "digest", "validated"} =>
       \E s \in past.seen : call.held.size = Len(s.content)
  /\ call.pc \in {"digest", "validated"} =>
       /\ call.path.file = past.file => \E s \in past.seen : s.led
       /\ \A s \in past.seen : (\A t \in past.seen : t.content = s.content) =>
            /\ Len(call.read) <= Len(s.content)
            /\ \A i \in 1..Len(call.read) : call.read[i] = s.content[i]
  /\ Doing("member") \/ AnsweredOK => NotChanged

SnapshotIInv == SnapshotTypeOK /\ Lifecycle /\ UnpackedIsCaptured /\ Visited /\ Judged

----------------------------------------------------------------------------
(* Files, archives and their members. *)

LEMMA HeldSequences ==
  ASSUME NEW c \in HeldContents
  PROVE  c \in Seq(Chunks) /\ Len(c) \in Nat /\ \A i \in 1..Len(c) : c[i] \in Chunks
<1> DEFINE S == {c[i] : i \in DOMAIN c}
<1>1. S \subseteq Chunks
  BY DEF Chunks
<1>2. c \in Seq(S)
  <2>1. CASE c = <<>>
    BY <2>1
  <2>2. CASE c \in DOMAIN Archives
    <3>1. c \in {c} \cup Archives[c]
      OBVIOUS
    <3>2. QED
      BY <2>2, <3>1, InputAssumption, Zenon
  <2>3. QED
    BY <2>1, <2>2 DEF HeldContents
<1> HIDE DEF S
<1>3. c \in Seq(Chunks)
  BY <1>1, <1>2
<1>4. QED
  BY <1>3

LEMMA MemberSequences ==
  ASSUME NEW m \in MembersOf
  PROVE  /\ Len(m) \in Nat /\ DOMAIN m = 1..Len(m)
         /\ \A i \in 1..Len(m) : MemberSource(m, i) \in Sources
<1> DEFINE S == {m[i] : i \in DOMAIN m}
<1>1. m \in Seq(S)
  <2>1. CASE m = <<>>
    BY <2>1
  <2>2. CASE m # <<>>
    <3>0. m \in UNION {Archives[c] : c \in DOMAIN Archives}
      <4> DEFINE A == UNION {Archives[c] : c \in DOMAIN Archives}
      <4>1. m \in A \cup {<<>>}
        BY DEF MembersOf
      <4> HIDE DEF A
      <4>2. m \in A
        BY <2>2, <4>1
      <4>3. QED
        BY <4>2 DEF A
    <3>1. PICK c \in DOMAIN Archives : m \in Archives[c]
      BY <3>0, Zenon
    <3>2. m \in {c} \cup Archives[c]
      BY <3>1
    <3>3. QED
      BY <3>2, InputAssumption, Zenon
  <2>3. QED
    BY <2>1, <2>2
<1> HIDE DEF S
<1>2. Len(m) \in Nat /\ DOMAIN m = 1..Len(m)
  BY <1>1
<1>3. QED
  BY <1>2 DEF MemberSource, Sources

LEMMA StatSamples ==
  ASSUME tree \in TreeType, NEW f \in LedTo
  PROVE  /\ StatOf(f) \in Sample /\ StatOf(f).file = f
         /\ f # NoFile => /\ f \in InputFiles /\ tree.content[f] \in HeldContents
                           /\ StatOf(f).size = Len(tree.content[f])
<1>1. CASE f = NoFile
  BY <1>1 DEF StatOf, NoSample, Sample, LedTo
<1>2. CASE f # NoFile
  <2>1. f \in InputFiles /\ tree.content[f] \in HeldContents /\ tree.stamp[f] \in Nat
    BY <1>2 DEF TreeType, LedTo
  <2>2. QED
    BY <1>2, <2>1, HeldSequences DEF StatOf, Sample
<1>3. QED
  BY <1>1, <1>2

LEMMA ProbeKnown ==
  ASSUME NEW d
  PROVE  /\ ProbeBytes(d) \in ProbeKinds
         /\ d = <<>> => ProbeBytes(d) = "UNRELATED"
BY DEF ProbeBytes, ProbeKinds

LEMMA SerializedOnly ==
  ASSUME NEW m
  PROVE  /\ Classify(m) = "SERIALIZED" => "SERIALIZED" \in m.flags
         /\ Classify(m) \in {"RESOURCE", "DIRECTORY", "DELETED"} => "SERIALIZED" \notin m.flags
BY DEF Classify

(* DueOf is what its definition says: member after member, those that are
   serialized. *)
LEMMA DueSteps ==
  ASSUME NEW m \in MembersOf
  PROVE  /\ DueOf(m) \in [0..Len(m) -> Seq(Sources)]
         /\ DueOf(m)[0] = <<>>
         /\ \A n \in 1..Len(m) :
              DueOf(m)[n] = IF "SERIALIZED" \in m[n].flags
                            THEN Append(DueOf(m)[n-1], MemberSource(m, n)) ELSE DueOf(m)[n-1]
<1> DEFINE N == Len(m)
           S == Seq(Sources)
           With(s, n) == IF "SERIALIZED" \in m[n].flags THEN Append(s, MemberSource(m, n)) ELSE s
           Is(h) == h = [n \in 0..N |-> IF n = 0 THEN <<>> ELSE With(h[n-1], n)]
           step == [n \in 1..N |-> [s \in S |-> With(s, n)]]
<1>1. N \in Nat /\ <<>> \in S
  BY MemberSequences
<1>2. ASSUME NEW n \in 1..N, NEW s \in S PROVE With(s, n) \in S
  BY MemberSequences
<1>3. DueOf(m) = CHOOSE h : Is(h)
  BY DEF DueOf
<1> HIDE DEF S, N, With
<1>4. step \in [1..N -> [S -> S]]
  BY <1>2
<1>5. PICK g : Iterates(g, N, S, <<>>, step)
  <2> HIDE DEF step
  <2>1. QED
    BY <1>1, <1>4, RecursionUpTo, Zenon
<1>6. g \in [0..N -> S] /\ g[0] = <<>> /\ \A n \in 1..N : g[n] = step[n][g[n-1]]
  <2> HIDE DEF step
  <2>1. QED
    BY <1>5 DEF Iterates
<1>7. ASSUME NEW n \in 1..N PROVE g[n] = With(g[n-1], n)
  <2>1. g[n-1] \in S
    BY <1>1, <1>6
  <2>2. step[n][g[n-1]] = With(g[n-1], n)
    BY <2>1
  <2>3. QED
    BY <1>6, <2>2
<1>8. Is(g)
  <2>1. \A n \in 0..N : n # 0 => n \in 1..N
    BY <1>1
  <2>2. QED
    BY <1>6, <1>7, <2>1
<1> DEFINE h == DueOf(m)
<1>9. Is(h)
  <2> HIDE DEF Is
  <2>1. QED
    BY <1>3, <1>8
<1>10. h[0] = <<>> /\ DOMAIN h = 0..N /\ \A n \in 1..N : h[n] = With(h[n-1], n)
  <2>1. 0 \in 0..N /\ \A n \in 1..N : n \in 0..N /\ n # 0
    BY <1>1
  <2> HIDE DEF h
  <2>2. QED
    BY <1>9, <2>1
<1>11. \A n \in 0..N : h[n] \in S
  <2> DEFINE T == {n \in 0..N : h[n] \in S}
  <2>1. 0 \in T
    BY <1>1, <1>10
  <2>2. \A n \in 1..N : n - 1 \in T => n \in T
    BY <1>1, <1>2, <1>10
  <2> HIDE DEF T
  <2>3. \A n \in 0..N : n \in T
    BY <1>1, <2>1, <2>2, InductionUpTo
  <2>4. QED
    BY <2>3 DEF T
<1>12. h \in [0..N -> S]
  <2>1. h = [n \in 0..N |-> h[n]]
    BY <1>9
  <2> HIDE DEF h
  <2>2. QED
    BY <1>11, <2>1
<1>13. QED
  BY <1>10, <1>12 DEF With, N, S

LEMMA PrefixAppend ==
  ASSUME NEW S, NEW s \in Seq(S), NEW t \in Seq(S), NEW e \in S, IsPrefix(s, t)
  PROVE  IsPrefix(s, Append(t, e))
BY DEF IsPrefix

(* What is due up to a member begins what is due up to a later one. *)
LEMMA DuePrefix ==
  ASSUME NEW m \in MembersOf, NEW k \in 0..Len(m)
  PROVE  IsPrefix(DueOf(m)[k], DueOf(m)[Len(m)])
<1> DEFINE N == Len(m)
           due == DueOf(m)
           T == {d \in 0..(N - k) : IsPrefix(due[k], due[k + d])}
<1>1. N \in Nat /\ k \in Nat /\ N - k \in Nat
  BY MemberSequences
<1>2. due \in [0..N -> Seq(Sources)]
  BY DueSteps
<1>3. \A n \in 1..N : due[n] = due[n-1] \/ due[n] = Append(due[n-1], MemberSource(m, n))
  BY DueSteps
<1>4. \A n \in 1..N : MemberSource(m, n) \in Sources
  BY MemberSequences
<1> HIDE DEF N, due
<1>5. 0 \in T
  <2>1. due[k] \in Seq(Sources) /\ k + 0 = k
    BY <1>1, <1>2 DEF N
  <2>2. QED
    BY <1>1, <2>1 DEF IsPrefix
<1>6. ASSUME NEW d \in 1..(N - k), d - 1 \in T PROVE d \in T
  <2> DEFINE n == k + d
  <2>1. n \in 1..N /\ n - 1 \in 0..N /\ k + (d - 1) = n - 1 /\ k \in 0..N
    BY <1>1
  <2>2. IsPrefix(due[k], due[n-1])
    BY <1>6, <2>1
  <2> HIDE DEF n
  <2>3. due[k] \in Seq(Sources) /\ due[n-1] \in Seq(Sources)
    BY <1>2, <2>1
  <2>4. IsPrefix(due[k], due[n])
    BY <1>3, <1>4, <2>1, <2>2, <2>3, PrefixAppend
  <2>5. QED
    BY <2>4 DEF n
<1>7. N - k \in T
  <2> HIDE DEF T
  <2>1. \A d \in 0..(N - k) : d \in T
    BY <1>1, <1>5, <1>6, InductionUpTo
  <2>2. QED
    BY <1>1, <2>1
<1>8. QED
  BY <1>1, <1>7 DEF N, due

----------------------------------------------------------------------------
(* What depends only on the past of the call. *)
LEMMA PastFrame ==
  ASSUME past' = past
  PROVE  Due' = Due /\ Captured' = Captured /\ NotChanged' = NotChanged
BY DEF Due, Captured, NotChanged, PersistentlyChanged

----------------------------------------------------------------------------
(* How a call goes on: what becomes of the parts of it that matter. *)

LEMMA ValidateFields ==
  ASSUME NEW c \in CallType, NEW p \in Purposes, NEW d, d = Validate(c, p)
  PROVE  /\ d \in CallType /\ d.pc = "held" /\ d.for = p /\ d.read = <<>>
         /\ d.op = c.op /\ d.sources = c.sources /\ d.status = c.status
<1>1. <<>> \in Seq(Chunks)
  OBVIOUS
<1>2. QED
  BY <1>1 DEF Validate, CallType, CallPlaces, Validating

LEMMA AnswerFields ==
  ASSUME call \in CallType, NEW status \in Answers, NEW d, d = Answer(status)
  PROVE  /\ d \in CallType /\ d.pc = "done" /\ d.status = status
         /\ d.op = call.op /\ d.sources = call.sources
BY DEF Answer, CallType, CallPlaces

LEMMA DisposeFields ==
  ASSUME call \in CallType, NEW status \in Answers, NEW d, d = Dispose(status)
  PROVE  /\ d \in CallType /\ d.pc = "dispose" /\ d.status = status
         /\ d.op = call.op /\ d.sources = call.sources
BY DEF Dispose, CallType, CallPlaces

LEMMA VisitEndsFields ==
  ASSUME NEW c \in CallType, NEW status \in Answers, NEW d, d = VisitEnds(c, status)
  PROVE  /\ d \in CallType /\ d.pc = (IF c.op = "once" THEN "dispose" ELSE "done")
         /\ d.status = status /\ d.op = c.op /\ d.sources = c.sources
<1>1. CASE c.op = "once"
  BY <1>1 DEF VisitEnds, CallType, CallPlaces
<1>2. CASE c.op # "once"
  BY <1>2 DEF VisitEnds, CallType, CallPlaces
<1>3. QED
  BY <1>1, <1>2

LEMMA DeliverFields ==
  ASSUME NEW c \in CallType, NEW n, NEW data, [member |-> n, data |-> data] \in Sources,
         NEW d, d = Deliver(c, n, data)
  PROVE  /\ d \in CallType /\ d.pc = c.pc /\ d.op = c.op /\ d.next = c.next
         /\ d.sources = Append(c.sources, [member |-> n, data |-> data])
<1> DEFINE source == [member |-> n, data |-> data]
<1>1. c.sources \in Seq(Sources)
  BY DEF CallType
<1> HIDE DEF source
<1>2. Append(c.sources, source) \in Seq(Sources)
  <2>1. source \in Sources
    BY DEF source
  <2>2. QED
    BY <1>1, <2>1
<1>3. d = [c EXCEPT !.sources = Append(c.sources, source)]
  BY DEF Deliver, source
<1>4. QED
  BY <1>2, <1>3 DEF CallType, source

(* A call that is not validating is judged by its answer only. *)
LEMMA JudgedQuiet ==
  ASSUME Judged, past' = past, tree' = tree, call'.pc \notin Validating,
         Doing("member")' \/ AnsweredOK' => NotChanged
  PROVE  Judged'
<1>1. NotChanged' = NotChanged
  BY PastFrame
<1>2. past'.file # NoFile => Seen(tree', past'.file) \in past'.seen
  BY DEF Judged, Seen
<1>3. QED
  BY <1>1, <1>2 DEF Judged, Validating, Seen

LEMMA JudgedHeld ==
  ASSUME Judged, past' = past, tree' = tree, call'.pc = "held", call'.read = <<>>
  PROVE  Judged'
BY DEF Judged, Doing, AnsweredOK, Seen

(* A file that was the same other thing all the while is not found valid. *)
LEMMA ValidIsNotChanged ==
  ASSUME SnapshotTypeOK, Lifecycle, Judged, Doing("validated"), Valid
  PROVE  NotChanged
<1>1. snapshot.state # "none"
  BY DEF Lifecycle, Doing, Anchoring, Validating
<1>2. past.file = snapshot.before.file /\ past.size = snapshot.before.size
      /\ past.file \in InputFiles /\ snapshot.capture = past.capture
  BY <1>1 DEF Lifecycle
<1>3. call.read = past.capture /\ call.held = snapshot.before /\ call.path = call.held
  BY <1>2 DEF Valid
<1>4. SUFFICES ASSUME past.size = Len(past.capture), PersistentlyChanged
              PROVE  FALSE
  BY DEF NotChanged
<1>5. PICK l \in past.seen : l.led
  BY <1>2, <1>3 DEF Judged, Doing
<1>6. PICK s \in past.seen : s.content # past.capture
                              /\ \A t \in past.seen : t.content = s.content
  BY <1>4, <1>5 DEF PersistentlyChanged
<1>7. PICK t \in past.seen : call.held.size = Len(t.content)
  BY DEF Judged, Doing
<1>8. Len(s.content) = Len(past.capture)
  BY <1>2, <1>3, <1>4, <1>6, <1>7
<1>9. \A i \in 1..Len(call.read) : call.read[i] = s.content[i]
  BY <1>6 DEF Judged, Doing
<1>10. s.content \in Seq(Chunks) /\ past.capture \in Seq(Chunks)
  <2>1. s.content \in HeldContents /\ past.capture \in HeldContents
    BY <1>6 DEF SnapshotTypeOK, HistoryType
  <2>2. QED
    BY <2>1, HeldSequences
<1>11. QED
  BY <1>3, <1>6, <1>8, <1>9, <1>10

----------------------------------------------------------------------------
(* The anchor is opened. *)

LEMMA AnchoringFails ==
  ASSUME SnapshotIInv, call.pc \in Anchoring, UNCHANGED <<tree, snapshot, past>>,
         call' \in CallType, call'.op = call.op, call'.sources = call.sources,
         \/ call'.pc = "open"
         \/ call'.pc = "fstat" /\ call'.held.file \in InputFiles
         \/ call'.pc = "done" /\ call'.status = "FILE_ERROR"
  PROVE  SnapshotIInv'
<1> USE DEF SnapshotIInv, Doing, ValidatesFor, Disposing, Anchoring, Validating
<1>1. SnapshotTypeOK'
  BY DEF SnapshotTypeOK
<1>2. snapshot.state = "none" /\ call.sources = <<>>
  BY DEF Lifecycle, Visited, SnapshotTypeOK, SnapshotType
<1>3. Lifecycle'
  BY <1>2 DEF Lifecycle
<1>4. UnpackedIsCaptured'
  BY <1>2 DEF UnpackedIsCaptured
<1>5. Visited'
  BY <1>2 DEF Visited
<1>6. Judged'
  BY JudgedQuiet DEF AnsweredOK
<1>7. QED
  BY <1>1, <1>3, <1>4, <1>5, <1>6

LEMMA LstatKeeps == SnapshotIInv /\ Lstat => SnapshotIInv'
<1> SUFFICES ASSUME SnapshotIInv, Lstat PROVE SnapshotIInv'
  OBVIOUS
<1>1. tree \in TreeType /\ call \in CallType
  BY DEF SnapshotIInv, SnapshotTypeOK
<1>2. call.pc \in Anchoring
  BY DEF Lstat, Doing, Anchoring
<1>3. CASE tree.name # NoFile /\ call' = [call EXCEPT !.pc = "open", !.path = StatOf(tree.name)]
  <2>1. StatOf(tree.name) \in Sample
    BY <1>1, StatSamples DEF TreeType
  <2>2. /\ call' \in CallType /\ call'.pc = "open" /\ call'.op = call.op
        /\ call'.sources = call.sources
    BY <1>1, <1>3, <2>1 DEF CallType, CallPlaces, Anchoring
  <2>3. QED
    BY <1>2, <2>2, AnchoringFails DEF Lstat
<1>4. CASE call' = Answer("FILE_ERROR")
  BY <1>1, <1>2, <1>4, AnswerFields, AnchoringFails DEF Lstat, Answers
<1>5. QED
  BY <1>3, <1>4 DEF Lstat

LEMMA OpenAnchorKeeps == SnapshotIInv /\ OpenAnchor => SnapshotIInv'
<1> SUFFICES ASSUME SnapshotIInv, OpenAnchor PROVE SnapshotIInv'
  OBVIOUS
<1>1. tree \in TreeType /\ call \in CallType
  BY DEF SnapshotIInv, SnapshotTypeOK
<1>2. call.pc \in Anchoring
  BY DEF OpenAnchor, Doing, Anchoring
<1>3. CASE tree.name # NoFile /\ call' = [call EXCEPT !.pc = "fstat", !.held.file = tree.name]
  <2>1. tree.name \in InputFiles /\ tree.name \in LedTo
    BY <1>1, <1>3 DEF TreeType, LedTo
  <2>2. [call.held EXCEPT !.file = tree.name] \in Sample
    BY <1>1, <2>1 DEF CallType, Sample
  <2>3. /\ call' \in CallType /\ call'.pc = "fstat" /\ call'.op = call.op
        /\ call'.sources = call.sources /\ call'.held.file = tree.name
    BY <1>1, <1>3, <2>2 DEF CallType, CallPlaces, Anchoring, Sample
  <2>4. QED
    BY <1>2, <2>1, <2>3, AnchoringFails DEF OpenAnchor
<1>4. CASE call' = Answer("FILE_ERROR")
  BY <1>1, <1>2, <1>4, AnswerFields, AnchoringFails DEF OpenAnchor, Answers
<1>5. QED
  BY <1>3, <1>4 DEF OpenAnchor

LEMMA HeldFstatKeeps == SnapshotIInv /\ Fstat => SnapshotIInv'
<1> SUFFICES ASSUME SnapshotIInv, Fstat PROVE SnapshotIInv'
  OBVIOUS
<1> DEFINE held == StatOf(call.held.file)
           file == call.held.file
<1>1. tree \in TreeType /\ call \in CallType /\ snapshot \in SnapshotType
  BY DEF SnapshotIInv, SnapshotTypeOK
<1>2. call.pc \in Anchoring /\ file \in InputFiles /\ call.sources = <<>>
      /\ call.op \in {"open", "once"}
  BY DEF SnapshotIInv, Lifecycle, Visited, Fstat, Doing, Anchoring, Disposing,
         ValidatesFor, Validating
<1>3. file \in LedTo /\ file # NoFile /\ tree.content[file] \in HeldContents
      /\ held \in Sample /\ held.file = file /\ held.size = Len(tree.content[file])
  BY <1>1, <1>2, StatSamples, InputAssumption DEF LedTo
<1>4. CASE held # call.path
  BY <1>1, <1>2, <1>4, AnswerFields, AnchoringFails DEF Fstat, Answers
<1>5. CASE held = call.path
  <2>1. /\ tree' = tree /\ call' = [call EXCEPT !.pc = "capture"]
        /\ snapshot' = [NoSnapshot EXCEPT !.state = "opening", !.before = held]
        /\ past' = [NoHistory EXCEPT !.file = held.file, !.size = held.size,
                                     !.seen = {Seen(tree, held.file)}]
    BY <1>5 DEF Fstat
  <2> HIDE DEF held, file
  <2>2. call' \in CallType /\ call'.pc = "capture" /\ call'.sources = <<>>
        /\ call'.op = call.op
    BY <1>1, <1>2, <2>1 DEF CallType, CallPlaces
  <2>3. /\ snapshot' \in SnapshotType /\ snapshot'.state = "opening"
        /\ snapshot'.before = held /\ snapshot'.capture = <<>>
    <3>1. <<>> \in HeldContents /\ <<>> \in MembersOf /\ NoSample \in Sample
      BY DEF HeldContents, MembersOf, NoSample, Sample, LedTo
    <3>2. QED
      BY <1>3, <2>1, <3>1 DEF SnapshotType, NoSnapshot, NoView, ProbeKinds
  <2>4. /\ past'.file = held.file /\ past'.size = held.size /\ past'.capture = <<>>
        /\ past'.seen = {Seen(tree, held.file)} /\ past' \in HistoryType
    <3>1. <<>> \in HeldContents
      BY DEF HeldContents
    <3>2. Seen(tree, held.file) \in [content : HeldContents, led : BOOLEAN]
      BY <1>3 DEF Seen
    <3>3. QED
      BY <1>3, <2>1, <3>1, <3>2 DEF NoHistory, HistoryType, Sample
  <2>5. SnapshotTypeOK'
    BY <1>1, <2>1, <2>2, <2>3, <2>4 DEF SnapshotTypeOK
  <2>6. Lifecycle'
    BY <1>2, <1>3, <2>2, <2>3, <2>4
       DEF Lifecycle, Doing, Anchoring, ValidatesFor, Validating, file
  <2>7. UnpackedIsCaptured' /\ Visited'
    BY <2>2, <2>3 DEF UnpackedIsCaptured, Visited, Doing, Disposing, ValidatesFor, Validating
  <2>8. Judged'
    BY <2>1, <2>2, <2>4 DEF Judged, Doing, AnsweredOK
  <2>9. QED
    BY <2>5, <2>6, <2>7, <2>8 DEF SnapshotIInv
<1>6. QED
  BY <1>4, <1>5

----------------------------------------------------------------------------
(* The anchor is validated. *)

LEMMA ValidatingOn ==
  ASSUME SnapshotIInv, call.pc \in Validating, UNCHANGED <<tree, snapshot, past>>,
         call' \in CallType, call'.pc \in Validating, call'.for = call.for,
         call'.op = call.op, call'.sources = call.sources, call'.status = call.status,
         Judged'
  PROVE  SnapshotIInv'
<1> USE DEF SnapshotIInv, Doing, ValidatesFor, Disposing, Anchoring, Validating
<1>1. SnapshotTypeOK'
  BY DEF SnapshotTypeOK
<1>2. Lifecycle'
  BY DEF Lifecycle
<1>3. UnpackedIsCaptured'
  BY PastFrame DEF UnpackedIsCaptured
<1>4. Visited'
  BY PastFrame DEF Visited
<1>5. QED
  BY <1>1, <1>2, <1>3, <1>4

(* While there is an anchor, its file is as it was last seen. *)
LEMMA AnchoredFile ==
  ASSUME SnapshotIInv, call.pc \in Validating
  PROVE  /\ snapshot.state # "none" /\ snapshot.before.file = past.file
         /\ past.file \in InputFiles /\ past.file \in LedTo /\ past.file # NoFile
         /\ tree.content[past.file] \in HeldContents
         /\ Seen(tree, past.file) \in past.seen
         /\ snapshot.capture \in HeldContents
<1>1. snapshot.state # "none"
  BY DEF SnapshotIInv, Lifecycle, Anchoring, Validating
<1>2. past.file \in InputFiles /\ snapshot.before.file = past.file
  BY <1>1 DEF SnapshotIInv, Lifecycle
<1>3. past.file # NoFile /\ past.file \in LedTo
  BY <1>2, InputAssumption DEF LedTo
<1>4. QED
  BY <1>1, <1>2, <1>3, StatSamples
     DEF SnapshotIInv, Judged, SnapshotTypeOK, SnapshotType

LEMMA ValidateHeldKeeps == SnapshotIInv /\ ValidateHeld => SnapshotIInv'
<1> SUFFICES ASSUME SnapshotIInv, ValidateHeld PROVE SnapshotIInv'
  OBVIOUS
<1>1. tree \in TreeType /\ call \in CallType /\ call.pc \in Validating
  BY DEF SnapshotIInv, SnapshotTypeOK, ValidateHeld, Doing, Validating
<1>2. /\ UNCHANGED <<tree, snapshot, past>>
      /\ call' = [call EXCEPT !.pc = "path", !.held = StatOf(past.file)]
  BY <1>1, AnchoredFile DEF ValidateHeld
<1>3. StatOf(past.file) \in Sample /\ StatOf(past.file).size = Len(tree.content[past.file])
  BY <1>1, AnchoredFile, StatSamples
<1>4. /\ call' \in CallType /\ call'.pc = "path" /\ call'.for = call.for
      /\ call'.op = call.op /\ call'.sources = call.sources /\ call'.status = call.status
      /\ call'.held = StatOf(past.file) /\ call'.read = call.read
  BY <1>1, <1>2, <1>3 DEF CallType, CallPlaces, Validating
<1>5. call.read = <<>>
  BY DEF SnapshotIInv, Judged, ValidateHeld, Doing
<1>6. Judged'
  <2>1. \E s \in past.seen : call'.held.size = Len(s.content)
    BY <1>1, <1>3, <1>4, AnchoredFile DEF Seen
  <2>2. QED
    BY <1>2, <1>4, <1>5, <2>1 DEF SnapshotIInv, Judged, Doing, AnsweredOK, Seen
<1>7. QED
  BY <1>1, <1>2, <1>4, <1>6, ValidatingOn DEF Validating

LEMMA ValidatePathKeeps == SnapshotIInv /\ ValidatePath => SnapshotIInv'
<1> SUFFICES ASSUME SnapshotIInv, ValidatePath PROVE SnapshotIInv'
  OBVIOUS
<1>1. tree \in TreeType /\ call \in CallType /\ call.pc \in Validating /\ past \in HistoryType
  BY DEF SnapshotIInv, SnapshotTypeOK, ValidatePath, Doing, Validating
<1>2. /\ UNCHANGED <<tree, snapshot, past>>
      /\ call' = [call EXCEPT !.pc = "digest", !.path = StatOf(tree.name)]
  BY DEF ValidatePath
<1>3. StatOf(tree.name) \in Sample /\ StatOf(tree.name).file = tree.name
  BY <1>1, StatSamples DEF TreeType
<1>4. /\ call' \in CallType /\ call'.pc = "digest" /\ call'.for = call.for
      /\ call'.op = call.op /\ call'.sources = call.sources /\ call'.status = call.status
      /\ call'.held = call.held /\ call'.read = call.read /\ call'.path.file = tree.name
  BY <1>1, <1>2, <1>3 DEF CallType, CallPlaces, Validating
<1>5. call.read = <<>> /\ \E s \in past.seen : call.held.size = Len(s.content)
  BY DEF SnapshotIInv, Judged, ValidatePath, Doing
<1>6. Judged'
  <2>1. tree.name = past.file => \E s \in past.seen : s.led
    BY <1>1, AnchoredFile DEF Seen
  <2>2. \A s \in past.seen : Len(call.read) <= Len(s.content)
    <3>1. ASSUME NEW s \in past.seen PROVE Len(call.read) <= Len(s.content)
      <4>1. s.content \in HeldContents
        BY <1>1 DEF HistoryType
      <4>2. QED
        BY <1>5, <4>1, HeldSequences
    <3>2. QED
      BY <3>1
  <2>3. Len(call.read) = 0
    BY <1>5
  <2>4. QED
    BY <1>2, <1>4, <1>5, <2>1, <2>2, <2>3 DEF SnapshotIInv, Judged, Doing, AnsweredOK, Seen
<1>7. QED
  BY <1>1, <1>2, <1>4, <1>6, ValidatingOn DEF Validating

LEMMA ValidateDigestKeeps == SnapshotIInv /\ ValidateDigest => SnapshotIInv'
<1> SUFFICES ASSUME SnapshotIInv, ValidateDigest PROVE SnapshotIInv'
  OBVIOUS
<1> DEFINE held == tree.content[past.file]
           n == Len(call.read) + 1
<1>1. tree \in TreeType /\ call \in CallType /\ call.pc = "digest" /\ past \in HistoryType
  BY DEF SnapshotIInv, SnapshotTypeOK, ValidateDigest, Doing
<1>2. held \in HeldContents /\ snapshot.before.file = past.file
      /\ Seen(tree, past.file) \in past.seen
  BY <1>1, AnchoredFile DEF Validating
<1>3. call.read \in Seq(Chunks) /\ Len(call.read) \in Nat
  BY <1>1 DEF CallType
<1>4. UNCHANGED <<tree, snapshot, past>>
  BY DEF ValidateDigest
<1>5. /\ \E s \in past.seen : call.held.size = Len(s.content)
      /\ call.path.file = past.file => \E s \in past.seen : s.led
      /\ \A s \in past.seen : (\A t \in past.seen : t.content = s.content) =>
           /\ Len(call.read) <= Len(s.content)
           /\ \A i \in 1..Len(call.read) : call.read[i] = s.content[i]
  BY <1>1 DEF SnapshotIInv, Judged, Doing
<1>6. CASE n <= Len(held) /\ call' = [call EXCEPT !.read = Append(@, held[n])]
  <2>1. n \in 1..Len(held) /\ held[n] \in Chunks
    BY <1>2, <1>3, <1>6, HeldSequences
  <2> DEFINE more == Append(call.read, held[n])
  <2>2. more \in Seq(Chunks) /\ Len(more) = n /\ more[n] = held[n]
        /\ \A i \in 1..Len(call.read) : more[i] = call.read[i]
    <3> HIDE DEF held
    <3>1. QED
      BY <1>3, <2>1
  <2> HIDE DEF more
  <2>3. call' = [call EXCEPT !.read = more]
    BY <1>6 DEF more
  <2>4. /\ call' \in CallType /\ call'.pc = "digest" /\ call'.for = call.for
        /\ call'.op = call.op /\ call'.sources = call.sources /\ call'.status = call.status
        /\ call'.held = call.held /\ call'.read = more /\ call'.path = call.path
    BY <1>1, <2>2, <2>3 DEF CallType
  <2>5. ASSUME NEW s \in past.seen, \A t \in past.seen : t.content = s.content
        PROVE  n <= Len(s.content) /\ \A i \in 1..n : more[i] = s.content[i]
    <3>1. s.content = held
      BY <1>2, <2>5 DEF Seen
    <3>2. \A i \in 1..Len(call.read) : call.read[i] = s.content[i]
      BY <1>5, <2>5
    <3>3. \A i \in 1..n : i = n \/ i \in 1..Len(call.read)
      BY <1>3
    <3> HIDE DEF n, held
    <3>4. QED
      BY <1>6, <2>2, <3>1, <3>2, <3>3
  <2>6. Judged'
    <3> HIDE DEF n
    <3>1. QED
      BY <1>4, <1>5, <2>2, <2>4, <2>5 DEF SnapshotIInv, Judged, Doing, AnsweredOK, Seen
  <2>7. QED
    BY <1>1, <1>4, <2>4, <2>6, ValidatingOn DEF Validating
<1>7. CASE call'.read = call.read /\ call' \in CallType /\ call'.pc = "validated"
           /\ call'.for = call.for /\ call'.op = call.op /\ call'.sources = call.sources
           /\ call'.status = call.status /\ call'.held = call.held /\ call'.path = call.path
  <2>1. Judged'
    BY <1>4, <1>5, <1>7 DEF SnapshotIInv, Judged, Doing, AnsweredOK, Seen
  <2>2. QED
    BY <1>1, <1>4, <1>7, <2>1, ValidatingOn DEF Validating
<1>8. CASE call' = [call EXCEPT !.pc = "validated", !.ok = FALSE]
  BY <1>1, <1>7, <1>8 DEF CallType, CallPlaces, Validating
<1>9. CASE call' = [call EXCEPT !.pc = "validated"]
  BY <1>1, <1>7, <1>9 DEF CallType, CallPlaces, Validating
<1>10. QED
  BY <1>2, <1>6, <1>8, <1>9 DEF ValidateDigest

----------------------------------------------------------------------------
(* The snapshot is opened and disposed of. *)

LEMMA NoSnapshotType == NoSnapshot \in SnapshotType /\ NoView.open \in BOOLEAN
                        /\ NoView \in [open : BOOLEAN, before : Sample, data : HeldContents]
                        /\ <<>> \in MembersOf
<1>1. <<>> \in HeldContents /\ <<>> \in MembersOf /\ NoSample \in Sample
  BY DEF HeldContents, MembersOf, NoSample, Sample, LedTo
<1>2. QED
  BY <1>1 DEF SnapshotType, NoSnapshot, NoView, ProbeKinds

LEMMA DisposeViewKeeps == SnapshotIInv /\ DisposeView => SnapshotIInv'
<1> SUFFICES ASSUME SnapshotIInv, DisposeView PROVE SnapshotIInv'
  OBVIOUS
<1>1. call \in CallType /\ snapshot \in SnapshotType /\ call.pc = "dispose"
  BY DEF SnapshotIInv, SnapshotTypeOK, DisposeView, Doing
<1>2. UNCHANGED <<tree, past>>
      /\ snapshot' = [snapshot EXCEPT !.view = NoView, !.members = <<>>]
  BY DEF DisposeView
<1>3. /\ snapshot' \in SnapshotType /\ snapshot'.state = snapshot.state
      /\ snapshot'.before = snapshot.before /\ snapshot'.capture = snapshot.capture
      /\ snapshot'.kind = snapshot.kind
  BY <1>1, <1>2, NoSnapshotType DEF SnapshotType
<1>4. /\ call' \in CallType /\ call'.pc = "held" /\ call'.for = "dispose" /\ call'.read = <<>>
      /\ call'.op = call.op /\ call'.sources = call.sources /\ call'.status = call.status
  <2>1. PICK closed \in BOOLEAN :
          call' = [Validate(call, "dispose") EXCEPT !.stable = ~snapshot.view.open \/ closed]
    BY DEF DisposeView
  <2> DEFINE c == Validate(call, "dispose")
  <2>2. /\ c \in CallType /\ c.pc = "held" /\ c.for = "dispose" /\ c.read = <<>>
        /\ c.op = call.op /\ c.sources = call.sources /\ c.status = call.status
    BY <1>1, ValidateFields DEF Purposes
  <2> HIDE DEF c
  <2>3. QED
    <3>1. \E b \in BOOLEAN : call' = [c EXCEPT !.stable = b]
      BY <2>1 DEF c
    <3>2. QED
      BY <2>2, <3>1 DEF CallType
<1> USE DEF Doing, ValidatesFor, Disposing, Anchoring, Validating
<1>5. SnapshotTypeOK'
  BY <1>2, <1>3, <1>4 DEF SnapshotIInv, SnapshotTypeOK
<1>6. snapshot.state # "none"
  BY <1>1 DEF SnapshotIInv, Lifecycle
<1>7. Lifecycle'
  BY <1>1, <1>2, <1>3, <1>4, <1>6 DEF SnapshotIInv, Lifecycle
<1>8. UnpackedIsCaptured' /\ Visited'
  BY <1>1, <1>2, <1>3, <1>4, PastFrame DEF SnapshotIInv, UnpackedIsCaptured, Visited
<1>9. Judged'
  BY <1>2, <1>4, JudgedHeld DEF SnapshotIInv
<1>10. QED
  BY <1>5, <1>7, <1>8, <1>9 DEF SnapshotIInv

LEMMA DisposeAnchorKeeps == SnapshotIInv /\ DisposeAnchor => SnapshotIInv'
<1> SUFFICES ASSUME SnapshotIInv, DisposeAnchor PROVE SnapshotIInv'
  OBVIOUS
<1>1. call \in CallType /\ call.pc = "validated" /\ call.for = "dispose"
  BY DEF SnapshotIInv, SnapshotTypeOK, DisposeAnchor, Validates, Doing
<1>2. UNCHANGED <<tree, past>> /\ snapshot' = NoSnapshot /\ snapshot'.state = "none"
  BY DEF DisposeAnchor, NoSnapshot
<1>3. PICK closed \in BOOLEAN :
        call' = Answer(IF call.stable /\ Valid /\ closed THEN call.status ELSE "FILE_ERROR")
  BY DEF DisposeAnchor
<1>4. /\ call' \in CallType /\ call'.pc = "done" /\ call'.op = call.op
      /\ call'.sources = call.sources
      /\ call'.status = "OK" => Valid /\ call.status = "OK"
  <2>1. CASE call.stable /\ Valid /\ closed
    <3>1. call.status \in Answers
      BY <1>1 DEF CallType
    <3>2. QED
      BY <1>1, <1>3, <2>1, <3>1, AnswerFields
  <2>2. CASE ~(call.stable /\ Valid /\ closed)
    BY <1>1, <1>3, <2>2, AnswerFields DEF Answers
  <2>3. QED
    BY <2>1, <2>2
<1> USE DEF Doing, ValidatesFor, Disposing, Anchoring, Validating
<1>5. SnapshotTypeOK'
  BY <1>2, <1>4, NoSnapshotType DEF SnapshotIInv, SnapshotTypeOK
<1>6. Lifecycle'
  BY <1>1, <1>2, <1>4 DEF SnapshotIInv, Lifecycle
<1>7. UnpackedIsCaptured' /\ Visited'
  BY <1>1, <1>2, <1>4, PastFrame DEF SnapshotIInv, UnpackedIsCaptured, Visited
<1>8. Judged'
  <2>1. AnsweredOK' => NotChanged
    BY <1>1, <1>4, ValidIsNotChanged DEF SnapshotIInv, AnsweredOK
  <2>2. QED
    BY <1>2, <1>4, <2>1, JudgedQuiet DEF SnapshotIInv
<1>9. QED
  BY <1>5, <1>6, <1>7, <1>8 DEF SnapshotIInv

LEMMA ViewedType ==
  ASSUME tree \in TreeType, tree.name # NoFile
  PROVE  /\ Viewed \in [open : BOOLEAN, before : Sample, data : HeldContents]
         /\ Viewed.data \in HeldContents
<1>1. tree.name \in LedTo
  BY DEF TreeType
<1>2. QED
  BY <1>1, StatSamples DEF Viewed

LEMMA CaptureKeeps == SnapshotIInv /\ Capture => SnapshotIInv'
<1> SUFFICES ASSUME SnapshotIInv, Capture PROVE SnapshotIInv'
  OBVIOUS
<1>1. /\ call \in CallType /\ snapshot \in SnapshotType /\ tree \in TreeType
      /\ past \in HistoryType /\ call.pc = "capture"
  BY DEF SnapshotIInv, SnapshotTypeOK, Capture, Doing
<1> USE DEF Doing, ValidatesFor, Disposing, Anchoring, Validating
<1>2. snapshot.state = "opening" /\ call.sources = <<>>
  BY <1>1 DEF SnapshotIInv, Lifecycle, Visited, SnapshotType
<1>3. CASE /\ tree.name # NoFile /\ tree' = tree
           /\ snapshot' = [snapshot EXCEPT !.view = Viewed, !.capture = Viewed.data]
           /\ past' = [past EXCEPT !.capture = Viewed.data]
           /\ call' = Validate(call, "bind")
  <2>1. Viewed \in [open : BOOLEAN, before : Sample, data : HeldContents]
        /\ Viewed.data \in HeldContents
    BY <1>1, <1>3, ViewedType
  <2>2. /\ snapshot' \in SnapshotType /\ snapshot'.state = "opening"
        /\ snapshot'.before = snapshot.before /\ snapshot'.capture = Viewed.data
        /\ snapshot'.view.data = Viewed.data
    BY <1>1, <1>2, <1>3, <2>1 DEF SnapshotType
  <2>3. /\ past' \in HistoryType /\ past'.file = past.file /\ past'.size = past.size
        /\ past'.seen = past.seen /\ past'.capture = Viewed.data
    BY <1>1, <1>3, <2>1 DEF HistoryType
  <2>4. /\ call' \in CallType /\ call'.pc = "held" /\ call'.for = "bind" /\ call'.read = <<>>
        /\ call'.op = call.op /\ call'.sources = <<>>
    BY <1>1, <1>2, <1>3, ValidateFields DEF Purposes
  <2>5. SnapshotTypeOK'
    BY <1>1, <1>3, <2>2, <2>3, <2>4 DEF SnapshotTypeOK
  <2>6. Lifecycle'
    BY <1>1, <1>2, <2>2, <2>3, <2>4 DEF SnapshotIInv, Lifecycle
  <2>7. UnpackedIsCaptured' /\ Visited'
    BY <2>2, <2>3, <2>4 DEF UnpackedIsCaptured, Visited
  <2>8. Judged'
    BY <1>3, <2>3, <2>4 DEF SnapshotIInv, Judged, AnsweredOK, Seen
  <2>9. QED
    BY <2>5, <2>6, <2>7, <2>8 DEF SnapshotIInv
<1>4. CASE UNCHANGED <<tree, snapshot, past>> /\ call' = Dispose("FILE_ERROR")
  <2>1. /\ call' \in CallType /\ call'.pc = "dispose" /\ call'.status = "FILE_ERROR"
        /\ call'.op = call.op /\ call'.sources = <<>>
    BY <1>1, <1>2, <1>4, DisposeFields DEF Answers
  <2>2. SnapshotTypeOK'
    BY <1>4, <2>1 DEF SnapshotIInv, SnapshotTypeOK
  <2>3. Lifecycle' /\ UnpackedIsCaptured' /\ Visited'
    BY <1>1, <1>2, <1>4, <2>1
       DEF SnapshotIInv, Lifecycle, UnpackedIsCaptured, Visited
  <2>4. Judged'
    BY <1>4, <2>1, JudgedQuiet DEF SnapshotIInv, AnsweredOK
  <2>5. QED
    BY <2>2, <2>3, <2>4 DEF SnapshotIInv
<1>5. QED
  BY <1>3, <1>4 DEF Capture

LEMMA CapturedMembers ==
  ASSUME past.capture \in HeldContents, ProbeBytes(past.capture) = "UNITYFS",
         Archives[past.capture] # {}
  PROVE  past.capture \in DOMAIN Archives /\ Captured \in MembersOf
<1>1. past.capture \in DOMAIN Archives
  BY ProbeKnown DEF HeldContents
<1>2. Captured \in Archives[past.capture]
  BY DEF Captured
<1>3. QED
  BY <1>1, <1>2 DEF MembersOf

LEMMA OpenedKeeps == SnapshotIInv /\ Opened => SnapshotIInv'
<1> SUFFICES ASSUME SnapshotIInv, Opened PROVE SnapshotIInv'
  OBVIOUS
<1>1. /\ call \in CallType /\ snapshot \in SnapshotType /\ past \in HistoryType
      /\ call.pc = "validated" /\ call.for = "bind" /\ UNCHANGED <<tree, past>>
  BY DEF SnapshotIInv, SnapshotTypeOK, Opened, Validates, Doing
<1> USE DEF Doing, ValidatesFor, Disposing, Anchoring, Validating
<1>2. /\ snapshot.state = "opening" /\ call.sources = <<>> /\ call.op \in {"open", "once"}
      /\ snapshot.view.data = past.capture /\ past.capture \in HeldContents
  BY <1>1 DEF SnapshotIInv, Lifecycle, Visited, UnpackedIsCaptured, SnapshotType, HistoryType
<1> DEFINE probed == ProbeBytes(past.capture)
           archives == Archives[past.capture]
           unpacked == IF probed = "UNITYFS" THEN Captured ELSE <<>>
<1>3. CASE /\ Valid /\ probed \in {"SERIALIZED_FILE_V22", "UNITYFS"}
           /\ probed = "UNITYFS" => archives # {}
           /\ snapshot' = [snapshot EXCEPT !.state = "open", !.kind = probed, !.members = unpacked]
           /\ call' = IF call.op = "once" THEN EnterVisit(call) ELSE Answer("OK")
  <2>1. /\ unpacked \in MembersOf /\ probed \in ProbeKinds
        /\ probed = "UNITYFS" => /\ past.capture \in DOMAIN Archives /\ archives # {}
                               /\ unpacked = Captured
    BY <1>2, <1>3, CapturedMembers, NoSnapshotType, ProbeKnown
  <2> HIDE DEF probed, archives, unpacked
  <2>2. /\ snapshot' \in SnapshotType /\ snapshot'.state = "open" /\ snapshot'.kind = probed
        /\ snapshot'.before = snapshot.before /\ snapshot'.capture = snapshot.capture
        /\ snapshot'.members = unpacked
    <3>1. snapshot' = [snapshot EXCEPT !.state = "open", !.kind = probed, !.members = unpacked]
      BY <1>3
    <3>2. snapshot \in SnapshotType /\ probed \in ProbeKinds
      BY <1>1, <2>1
    <3>3. unpacked \in MembersOf
      BY <2>1
    <3>4. QED
      BY <3>1, <3>2, <3>3 DEF SnapshotType
  <2>3. /\ call' \in CallType /\ call'.op = call.op /\ call'.sources = <<>>
        /\ IF call.op = "once" THEN /\ call'.pc = "held" /\ call'.for = "enter"
                                    /\ call'.read = <<>>
           ELSE call'.pc = "done" /\ call'.status = "OK"
    BY <1>1, <1>2, <1>3, ValidateFields, AnswerFields DEF EnterVisit, Purposes, Answers
  <2>4. NotChanged
    BY <1>1, <1>3, ValidIsNotChanged DEF SnapshotIInv
  <2>5. SnapshotTypeOK'
    BY <1>1, <2>2, <2>3 DEF SnapshotIInv, SnapshotTypeOK
  <2>6. Lifecycle'
    BY <1>1, <1>2, <2>2, <2>3 DEF SnapshotIInv, Lifecycle
  <2>7. UnpackedIsCaptured'
    <3>1. ~ValidatesFor("bind")'
      BY <2>3
    <3>2. Captured' = Captured /\ past' = past
      BY <1>1, PastFrame
    <3>3. snapshot'.kind = ProbeBytes(past'.capture)
      BY <2>2, <3>2 DEF probed
    <3>4. snapshot'.kind = "UNITYFS" =>
            /\ past'.capture \in DOMAIN Archives /\ Archives[past'.capture] # {}
            /\ snapshot'.members = Captured'
      BY <2>1, <2>2, <3>2 DEF archives
    <3>5. QED
      BY <3>1, <3>3, <3>4 DEF UnpackedIsCaptured
  <2>8. Visited'
    BY <1>2, <2>3 DEF Visited
  <2>9. Judged'
    BY <1>1, <2>3, <2>4, JudgedQuiet, JudgedHeld DEF SnapshotIInv
  <2>10. QED
    BY <2>5, <2>6, <2>7, <2>8, <2>9 DEF SnapshotIInv
<1>4. ASSUME NEW status \in Answers \ {"OK"}, call' = Dispose(status), snapshot' = snapshot
      PROVE  SnapshotIInv'
  <2>1. /\ call' \in CallType /\ call'.pc = "dispose" /\ call'.status # "OK"
        /\ call'.op = call.op /\ call'.sources = <<>>
    BY <1>1, <1>2, <1>4, DisposeFields
  <2>2. SnapshotTypeOK'
    BY <1>1, <1>4, <2>1 DEF SnapshotIInv, SnapshotTypeOK
  <2>3. Lifecycle' /\ UnpackedIsCaptured' /\ Visited'
    BY <1>1, <1>2, <1>4, <2>1
       DEF SnapshotIInv, Lifecycle, UnpackedIsCaptured, Visited
  <2>4. Judged'
    BY <1>1, <2>1, JudgedQuiet DEF SnapshotIInv, AnsweredOK
  <2>5. QED
    BY <2>2, <2>3, <2>4 DEF SnapshotIInv
<1>5. \/ /\ Valid /\ probed \in {"SERIALIZED_FILE_V22", "UNITYFS"}
         /\ probed = "UNITYFS" => archives # {}
         /\ snapshot' = [snapshot EXCEPT !.state = "open", !.kind = probed, !.members = unpacked]
         /\ call' = IF call.op = "once" THEN EnterVisit(call) ELSE Answer("OK")
      \/ \E status \in Answers \ {"OK"} : call' = Dispose(status) /\ snapshot' = snapshot
  BY <1>2 DEF Opened, Captured, Answers
<1>6. QED
  BY <1>3, <1>4, <1>5

----------------------------------------------------------------------------
(* Visits. *)

(* A visit ends with what is due, or with less and an error. *)
LEMMA VisitEnding ==
  ASSUME SnapshotIInv, snapshot.state = "open", ~ValidatesFor("dispose"), ~Doing("dispose"),
         UNCHANGED <<tree, past>>,
         snapshot' \in SnapshotType, snapshot'.state = "open",
         snapshot'.before = snapshot.before, snapshot'.capture = snapshot.capture,
         snapshot'.kind = snapshot.kind, snapshot'.members = snapshot.members,
         NEW c \in CallType, c.op = call.op, NEW status \in Answers,
         call' = VisitEnds(c, status),
         c.sources # <<>> => IsPrefix(c.sources, Due),
         status = "OK" => c.sources = Due /\ NotChanged
  PROVE  SnapshotIInv'
<1> USE DEF Doing, ValidatesFor, Disposing, Anchoring, Validating
<1>1. /\ call' \in CallType /\ call'.pc = (IF c.op = "once" THEN "dispose" ELSE "done")
      /\ call'.status = status /\ call'.op = call.op /\ call'.sources = c.sources
  BY VisitEndsFields
<1>2. SnapshotTypeOK'
  BY <1>1 DEF SnapshotIInv, SnapshotTypeOK
<1>3. call.op # "none" \/ Doing("done")
  BY DEF SnapshotIInv, Lifecycle
<1>4. Lifecycle'
  BY <1>1 DEF SnapshotIInv, Lifecycle
<1>5. UnpackedIsCaptured'
  BY <1>1, PastFrame DEF SnapshotIInv, UnpackedIsCaptured
<1>6. Visited'
  BY <1>1, PastFrame DEF SnapshotIInv, Visited
<1>7. Judged'
  <2>1. Doing("member")' \/ AnsweredOK' => NotChanged
    BY <1>1 DEF AnsweredOK
  <2>2. QED
    BY <1>1, <2>1, JudgedQuiet DEF SnapshotIInv
<1>8. QED
  BY <1>2, <1>4, <1>5, <1>6, <1>7 DEF SnapshotIInv

LEMMA EnterKeeps == SnapshotIInv /\ Enter => SnapshotIInv'
<1> SUFFICES ASSUME SnapshotIInv, Enter PROVE SnapshotIInv'
  OBVIOUS
<1>1. /\ call \in CallType /\ snapshot \in SnapshotType /\ call.pc = "validated"
      /\ call.for = "enter" /\ UNCHANGED <<tree, snapshot, past>>
  BY DEF SnapshotIInv, SnapshotTypeOK, Enter, Validates, Doing
<1>2. snapshot.state = "open" /\ call.sources = <<>>
  BY <1>1 DEF SnapshotIInv, Lifecycle, Visited, SnapshotType, Doing, ValidatesFor, Disposing,
              Anchoring, Validating
<1>3. CASE ~Valid /\ call' = VisitEnds(call, "FILE_ERROR")
  BY <1>1, <1>2, <1>3, VisitEnding DEF Answers, Doing, ValidatesFor
<1> USE DEF Doing, ValidatesFor, Disposing, Anchoring, Validating
<1>4. CASE /\ Valid /\ snapshot.kind = "UNITYFS"
           /\ call' = [call EXCEPT !.pc = "member", !.next = 1]
  <2>1. /\ call' \in CallType /\ call'.pc = "member" /\ call'.next = 1
        /\ call'.op = call.op /\ call'.sources = <<>>
    BY <1>1, <1>2, <1>4 DEF CallType, CallPlaces
  <2>2. SnapshotTypeOK'
    BY <1>1, <2>1 DEF SnapshotIInv, SnapshotTypeOK
  <2>3. Lifecycle'
    BY <1>1, <1>2, <2>1 DEF SnapshotIInv, Lifecycle
  <2>4. UnpackedIsCaptured'
    BY <1>1, <1>2, <2>1, PastFrame DEF SnapshotIInv, UnpackedIsCaptured
  <2>5. Captured \in MembersOf
    <3>1. past.capture \in HeldContents
      BY DEF SnapshotIInv, SnapshotTypeOK, HistoryType
    <3>2. QED
      BY <1>2, <1>4, <3>1, CapturedMembers DEF SnapshotIInv, UnpackedIsCaptured
  <2>6. Visited'
    <3>1. DueOf(Captured)[0] = <<>> /\ 1 \in 1..Len(Captured) + 1
      BY <2>5, DueSteps, MemberSequences
    <3>2. Captured' = Captured /\ DueOf(Captured)' = DueOf(Captured)
      BY <1>1, PastFrame
    <3>3. QED
      BY <1>1, <1>2, <1>4, <2>1, <3>1, <3>2 DEF Visited
  <2>7. Judged'
    BY <1>1, <1>4, <2>1, ValidIsNotChanged, JudgedQuiet DEF SnapshotIInv
  <2>8. QED
    BY <2>2, <2>3, <2>4, <2>6, <2>7 DEF SnapshotIInv
<1>5. CASE Valid /\ snapshot.kind # "UNITYFS" /\ call' = Validate(call, "map")
  <2>1. /\ call' \in CallType /\ call'.pc = "held" /\ call'.for = "map" /\ call'.read = <<>>
        /\ call'.op = call.op /\ call'.sources = <<>>
    BY <1>1, <1>2, <1>5, ValidateFields DEF Purposes
  <2>2. SnapshotTypeOK'
    BY <1>1, <2>1 DEF SnapshotIInv, SnapshotTypeOK
  <2>3. Lifecycle' /\ UnpackedIsCaptured' /\ Visited'
    BY <1>1, <1>2, <1>5, <2>1, PastFrame
       DEF SnapshotIInv, Lifecycle, UnpackedIsCaptured, Visited
  <2>4. Judged'
    BY <1>1, <2>1, JudgedHeld DEF SnapshotIInv
  <2>5. QED
    BY <2>2, <2>3, <2>4 DEF SnapshotIInv
<1>6. CASE Valid /\ snapshot.kind # "UNITYFS" /\ call' = [call EXCEPT !.pc = "remap"]
  <2>1. /\ call' \in CallType /\ call'.pc = "remap"
        /\ call'.op = call.op /\ call'.sources = <<>>
    BY <1>1, <1>2, <1>6 DEF CallType, CallPlaces
  <2>2. SnapshotTypeOK'
    BY <1>1, <2>1 DEF SnapshotIInv, SnapshotTypeOK
  <2>3. Lifecycle' /\ UnpackedIsCaptured' /\ Visited'
    BY <1>1, <1>2, <1>6, <2>1, PastFrame
       DEF SnapshotIInv, Lifecycle, UnpackedIsCaptured, Visited
  <2>4. Judged'
    BY <1>1, <2>1, JudgedQuiet DEF SnapshotIInv, AnsweredOK
  <2>5. QED
    BY <2>2, <2>3, <2>4 DEF SnapshotIInv
<1>7. QED
  BY <1>3, <1>4, <1>5, <1>6 DEF Enter

LEMMA RemapKeeps == SnapshotIInv /\ Remap => SnapshotIInv'
<1> SUFFICES ASSUME SnapshotIInv, Remap PROVE SnapshotIInv'
  OBVIOUS
<1>1. /\ call \in CallType /\ snapshot \in SnapshotType /\ tree \in TreeType
      /\ call.pc = "remap" /\ UNCHANGED <<tree, past>>
  BY DEF SnapshotIInv, SnapshotTypeOK, Remap, Doing
<1>2. snapshot.state = "open" /\ call.sources = <<>> /\ snapshot.kind # "UNITYFS"
  BY <1>1 DEF SnapshotIInv, Lifecycle, Visited, SnapshotType, Doing, ValidatesFor, Disposing,
              Anchoring, Validating
<1>3. CASE call' = VisitEnds(call, "FILE_ERROR") /\ snapshot' = snapshot
  BY <1>1, <1>2, <1>3, VisitEnding DEF Answers, Doing, ValidatesFor, Validating
<1>4. CASE /\ tree.name # NoFile /\ snapshot' = [snapshot EXCEPT !.view = Viewed]
           /\ call' = Validate(call, "map")
  <2> USE DEF Doing, ValidatesFor, Disposing, Anchoring, Validating
  <2>1. /\ call' \in CallType /\ call'.pc = "held" /\ call'.for = "map" /\ call'.read = <<>>
        /\ call'.op = call.op /\ call'.sources = <<>>
    BY <1>1, <1>2, <1>4, ValidateFields DEF Purposes
  <2>2. /\ snapshot' \in SnapshotType /\ snapshot'.state = "open"
        /\ snapshot'.before = snapshot.before /\ snapshot'.capture = snapshot.capture
        /\ snapshot'.kind = snapshot.kind /\ snapshot'.members = snapshot.members
    BY <1>1, <1>2, <1>4, ViewedType DEF SnapshotType
  <2>3. SnapshotTypeOK'
    BY <1>1, <2>1, <2>2 DEF SnapshotIInv, SnapshotTypeOK
  <2>4. Lifecycle' /\ UnpackedIsCaptured' /\ Visited'
    BY <1>1, <1>2, <2>1, <2>2, PastFrame
       DEF SnapshotIInv, Lifecycle, UnpackedIsCaptured, Visited
  <2>5. Judged'
    BY <1>1, <2>1, JudgedHeld DEF SnapshotIInv
  <2>6. QED
    BY <2>3, <2>4, <2>5 DEF SnapshotIInv
<1>5. QED
  BY <1>3, <1>4 DEF Remap

LEMMA VisitFileKeeps == SnapshotIInv /\ VisitFile => SnapshotIInv'
<1> SUFFICES ASSUME SnapshotIInv, VisitFile PROVE SnapshotIInv'
  OBVIOUS
<1>1. /\ call \in CallType /\ snapshot \in SnapshotType /\ past \in HistoryType
      /\ call.pc = "validated" /\ call.for = "map" /\ UNCHANGED <<tree, past>>
  BY DEF SnapshotIInv, SnapshotTypeOK, VisitFile, Validates, Doing
<1>2. /\ snapshot.state = "open" /\ call.sources = <<>> /\ snapshot.kind # "UNITYFS"
      /\ snapshot.kind = ProbeBytes(past.capture) /\ snapshot.capture = past.capture
  BY <1>1 DEF SnapshotIInv, Lifecycle, UnpackedIsCaptured, Visited, SnapshotType, Doing,
              ValidatesFor, Disposing, Anchoring, Validating
<1>3. CASE Mapped
  <2> DEFINE source == [member |-> 0, data |-> snapshot.view.data]
             visited == Deliver(call, 0, snapshot.view.data)
  <2>1. Due = <<source>> /\ Valid
    BY <1>2, <1>3 DEF Due, Mapped
  <2>2. source \in Sources
    <3>1. snapshot.view.data \in HeldContents
      BY <1>1 DEF SnapshotType
    <3>2. QED
      BY <3>1 DEF Sources
  <2>3. visited \in CallType /\ visited.op = call.op /\ visited.sources = Append(<<>>, source)
    BY <1>1, <1>2, <2>2, DeliverFields
  <2>4. visited.sources = Due /\ IsPrefix(Due, Due)
    <3> HIDE DEF source, visited
    <3>1. Append(<<>>, source) = <<source>> /\ <<source>> \in Seq(Sources)
      BY <2>2
    <3>2. QED
      BY <2>1, <2>3, <3>1 DEF IsPrefix
  <2>5. NotChanged
    BY <1>1, <2>1, ValidIsNotChanged DEF SnapshotIInv, Doing
  <2> DEFINE counted == [visited EXCEPT !.stats.serialized = 1]
  <2>6. counted \in CallType /\ counted.op = call.op /\ counted.sources = visited.sources
    <3> HIDE DEF visited
    <3>1. [visited.stats EXCEPT !.serialized = 1] \in
            [serialized : Nat, resource : Nat, directory : Nat, deleted : Nat]
      BY <2>3 DEF CallType
    <3>2. QED
      BY <2>3, <3>1 DEF CallType
  <2>7. snapshot' = snapshot
        /\ (call' = VisitEnds(counted, "OK") \/ call' = VisitEnds(visited, "VISITOR_FAILED"))
    BY <1>3 DEF VisitFile
  <2>8. ~ValidatesFor("dispose") /\ ~Doing("dispose")
    BY <1>1 DEF ValidatesFor, Doing
  <2> HIDE DEF counted, visited, source
  <2>9. CASE call' = VisitEnds(counted, "OK")
    BY <1>1, <1>2, <2>4, <2>5, <2>6, <2>7, <2>8, <2>9, VisitEnding DEF Answers
  <2>10. CASE call' = VisitEnds(visited, "VISITOR_FAILED")
    BY <1>1, <1>2, <2>3, <2>4, <2>7, <2>8, <2>10, VisitEnding DEF Answers
  <2>11. QED
    BY <2>7, <2>9, <2>10
<1>4. CASE ~Mapped
  <2>1. snapshot' = [snapshot EXCEPT !.view = NoView] /\ call' = VisitEnds(call, "FILE_ERROR")
    BY <1>4 DEF VisitFile
  <2>2. /\ snapshot' \in SnapshotType /\ snapshot'.state = "open"
        /\ snapshot'.before = snapshot.before /\ snapshot'.capture = snapshot.capture
        /\ snapshot'.kind = snapshot.kind /\ snapshot'.members = snapshot.members
    BY <1>1, <1>2, <2>1, NoSnapshotType DEF SnapshotType
  <2>3. QED
    BY <1>1, <1>2, <2>1, <2>2, VisitEnding DEF Answers, Doing, ValidatesFor
<1>5. QED
  BY <1>3, <1>4

(* Among the members of an archive. *)
LEMMA AtMember ==
  ASSUME SnapshotIInv, Doing("member")
  PROVE  /\ snapshot.state = "open" /\ snapshot.kind = "UNITYFS" /\ call.op # "none"
         /\ snapshot.members = Captured /\ Captured \in MembersOf /\ Len(Captured) \in Nat
         /\ Due = DueOf(Captured)[Len(Captured)]
         /\ call.next \in 1..Len(Captured) + 1
         /\ call.sources = DueOf(Captured)[call.next - 1]
         /\ IsPrefix(call.sources, Due)
         /\ NotChanged
<1>1. snapshot.state = "open" /\ snapshot.kind = "UNITYFS" /\ NotChanged
      /\ call.next \in 1..Len(Captured) + 1 /\ call.sources = DueOf(Captured)[call.next - 1]
  BY DEF SnapshotIInv, Visited, Judged
<1>2. call.op # "none" /\ ~ValidatesFor("dispose")
  BY DEF SnapshotIInv, Lifecycle, Doing, ValidatesFor, Validating
<1>3. /\ ProbeBytes(past.capture) = "UNITYFS" /\ Archives[past.capture] # {}
      /\ snapshot.members = Captured
  BY <1>1, <1>2 DEF SnapshotIInv, UnpackedIsCaptured
<1>4. Captured \in MembersOf
  <2>1. past.capture \in HeldContents
    BY DEF SnapshotIInv, SnapshotTypeOK, HistoryType
  <2>2. QED
    BY <1>3, <2>1, CapturedMembers
<1>5. Due = DueOf(Captured)[Len(Captured)]
  BY <1>3 DEF Due
<1>6. Len(Captured) \in Nat /\ call.next - 1 \in 0..Len(Captured)
  BY <1>1, <1>4, MemberSequences
<1>7. IsPrefix(call.sources, Due)
  BY <1>1, <1>4, <1>5, <1>6, DuePrefix
<1>8. QED
  BY <1>1, <1>2, <1>3, <1>4, <1>5, <1>6, <1>7

LEMMA MemberOn ==
  ASSUME SnapshotIInv, Doing("member"), call.next <= Len(Captured),
         UNCHANGED <<tree, snapshot, past>>, call' \in CallType, call'.pc = "member",
         call'.op = call.op, call'.next = call.next + 1,
         call'.sources = DueOf(Captured)[call.next]
  PROVE  SnapshotIInv'
<1> USE DEF Doing, ValidatesFor, Disposing, Anchoring, Validating
<1>1. SnapshotTypeOK'
  BY DEF SnapshotIInv, SnapshotTypeOK
<1>2. Lifecycle'
  BY AtMember DEF SnapshotIInv, Lifecycle
<1>3. UnpackedIsCaptured'
  BY AtMember, PastFrame DEF SnapshotIInv, UnpackedIsCaptured
<1>4. Visited'
  <2>1. Due' = Due /\ Captured' = Captured /\ DueOf(Captured)' = DueOf(Captured)
    BY PastFrame
  <2>2. call.next \in 1..Len(Captured) /\ call.next + 1 \in 1..Len(Captured) + 1
        /\ (call.next + 1) - 1 = call.next
    BY AtMember
  <2>3. IsPrefix(call'.sources, Due)
    BY <2>2, AtMember, DuePrefix
  <2>4. QED
    BY <2>1, <2>2, <2>3, AtMember DEF Visited
<1>5. Judged'
  BY AtMember, JudgedQuiet DEF SnapshotIInv
<1>6. QED
  BY <1>1, <1>2, <1>3, <1>4, <1>5 DEF SnapshotIInv

LEMMA VisitedAllKeeps == SnapshotIInv /\ VisitedAll => SnapshotIInv'
<1> SUFFICES ASSUME SnapshotIInv, VisitedAll PROVE SnapshotIInv'
  OBVIOUS
<1>1. /\ call \in CallType /\ snapshot \in SnapshotType /\ Doing("member")
      /\ call.next > Len(snapshot.members) /\ call' = VisitEnds(call, "OK")
      /\ UNCHANGED <<tree, snapshot, past>>
  BY DEF SnapshotIInv, SnapshotTypeOK, VisitedAll
<1>2. call.next - 1 = Len(Captured)
  BY <1>1, AtMember
<1>3. call.sources = Due
  BY <1>1, <1>2, AtMember
<1>4. QED
  BY <1>1, <1>3, AtMember, VisitEnding DEF Answers, Doing, ValidatesFor, Validating

(* A member that does not go to the visitor: one is not due either. *)
LEMMA CountedKeeps ==
  ASSUME SnapshotIInv, Doing("member"), call.next <= Len(snapshot.members),
         UNCHANGED <<tree, snapshot, past>>, NEW kind \in {"resource", "directory", "deleted"},
         Classify(snapshot.members[call.next]) \in {"RESOURCE", "DIRECTORY", "DELETED"},
         call' = Counted(kind, snapshot.members[call.next])
  PROVE  SnapshotIInv'
<1> DEFINE counted == [call EXCEPT !.stats[kind] = @ + 1]
<1>1. call \in CallType /\ snapshot \in SnapshotType
  BY DEF SnapshotIInv, SnapshotTypeOK
<1>2. /\ counted \in CallType /\ counted.op = call.op /\ counted.sources = call.sources
      /\ counted.next = call.next /\ counted.pc = "member"
  <2>1. [call.stats EXCEPT ![kind] = @ + 1] \in
          [serialized : Nat, resource : Nat, directory : Nat, deleted : Nat]
    BY <1>1 DEF CallType
  <2>2. QED
    BY <1>1, <2>1 DEF CallType, Doing
<1> HIDE DEF counted
<1>3. CASE call' = VisitEnds(counted, "MEMBER_INVALID")
  BY <1>1, <1>2, <1>3, AtMember, VisitEnding DEF Answers, Doing, ValidatesFor, Validating
<1>4. CASE call' = [counted EXCEPT !.next = @ + 1]
  <2>1. call'.next = call.next + 1 /\ call' \in CallType /\ call'.pc = "member"
        /\ call'.op = call.op /\ call'.sources = call.sources
    <3>1. call.next \in Nat /\ call.next + 1 \in Nat
      BY <1>1 DEF CallType
    <3>2. PICK n \in Nat : n = call.next + 1
      BY <3>1
    <3>3. call' = [counted EXCEPT !.next = n]
      BY <1>2, <1>4, <3>2
    <3>4. QED
      BY <1>2, <3>2, <3>3 DEF CallType
  <2>2. call.next \in 1..Len(Captured) /\ Captured \in MembersOf
    BY AtMember
  <2>3. "SERIALIZED" \notin Captured[call.next].flags
    BY AtMember, SerializedOnly
  <2>4. DueOf(Captured)[call.next] = DueOf(Captured)[call.next - 1]
    BY <2>2, <2>3, DueSteps
  <2>5. QED
    BY <2>1, <2>2, <2>4, AtMember, MemberOn
<1>5. QED
  BY <1>3, <1>4 DEF Counted, counted

LEMMA VisitMemberKeeps == SnapshotIInv /\ VisitMember => SnapshotIInv'
<1> SUFFICES ASSUME SnapshotIInv, VisitMember PROVE SnapshotIInv'
  OBVIOUS
<1> DEFINE member == snapshot.members[call.next]
           source == MemberSource(Captured, call.next)
           visited == Deliver(call, call.next, member.data)
<1>1. /\ call \in CallType /\ snapshot \in SnapshotType /\ Doing("member")
      /\ call.next <= Len(snapshot.members) /\ UNCHANGED <<tree, snapshot, past>>
  BY DEF SnapshotIInv, SnapshotTypeOK, VisitMember
<1>2. call.next \in 1..Len(Captured) /\ Captured \in MembersOf
      /\ snapshot.members = Captured /\ source = [member |-> call.next, data |-> member.data]
  BY <1>1, AtMember DEF MemberSource
<1>3. CASE Classify(member) \in {"RESOURCE", "DIRECTORY", "DELETED"}
  <2>1. \E kind \in {"resource", "directory", "deleted"} : call' = Counted(kind, member)
    BY <1>3 DEF VisitMember
  <2>2. QED
    BY <1>1, <1>3, <2>1, CountedKeeps
<1>4. CASE Classify(member) = "SERIALIZED" /\ ProbeBytes(member.data) = "SERIALIZED_FILE_V22"
  <2>1. source \in Sources
    BY <1>2, MemberSequences
  <2>2. /\ visited \in CallType /\ visited.pc = "member" /\ visited.op = call.op
        /\ visited.next = call.next /\ visited.sources = Append(call.sources, source)
    BY <1>1, <1>2, <2>1, DeliverFields DEF Doing
  <2>3. DueOf(Captured)[call.next] = Append(call.sources, source)
    <3>1. "SERIALIZED" \in Captured[call.next].flags
      BY <1>2, <1>4, SerializedOnly
    <3>2. DueOf(Captured)[call.next] = Append(DueOf(Captured)[call.next - 1], source)
      BY <1>2, <3>1, DueSteps
    <3>3. QED
      BY <1>1, <3>2, AtMember
  <2>4. IsPrefix(visited.sources, Due)
    <3>1. Due = DueOf(Captured)[Len(Captured)] /\ call.next \in 0..Len(Captured)
      BY <1>1, <1>2, AtMember
    <3>2. visited.sources = DueOf(Captured)[call.next]
      BY <2>2, <2>3
    <3>3. IsPrefix(DueOf(Captured)[call.next], Due)
      BY <1>2, <3>1, DuePrefix
    <3> HIDE DEF visited
    <3>4. QED
      BY <3>2, <3>3
  <2>5. \/ call' = [visited EXCEPT !.stats.serialized = @ + 1, !.next = @ + 1]
        \/ call' = VisitEnds(visited, "VISITOR_FAILED")
    BY <1>4 DEF VisitMember
  <2> HIDE DEF visited, source
  <2>6. CASE call' = [visited EXCEPT !.stats.serialized = @ + 1, !.next = @ + 1]
    <3>1. /\ visited.stats \in [serialized : Nat, resource : Nat, directory : Nat, deleted : Nat]
          /\ visited.next = call.next /\ call.next \in Nat
      BY <1>1, <2>2 DEF CallType
    <3>2. PICK k \in Nat, n \in Nat : k = visited.stats.serialized + 1 /\ n = call.next + 1
      BY <3>1
    <3>3. call' = [visited EXCEPT !.stats.serialized = k, !.next = n]
      BY <2>6, <3>1, <3>2
    <3>4. /\ call' \in CallType /\ call'.pc = "member" /\ call'.op = call.op
          /\ call'.next = n /\ call'.sources = visited.sources
      BY <2>2, <3>3 DEF CallType
    <3>5. QED
      BY <1>1, <1>2, <2>2, <2>3, <3>2, <3>4, MemberOn
  <2>7. CASE call' = VisitEnds(visited, "VISITOR_FAILED")
    BY <1>1, <2>2, <2>4, <2>7, AtMember, VisitEnding
       DEF Answers, Doing, ValidatesFor, Validating
  <2>8. QED
    BY <2>5, <2>6, <2>7
<1>5. CASE \E status \in {"UNSUPPORTED", "MEMBER_INVALID"} : call' = VisitEnds(call, status)
  BY <1>1, <1>5, AtMember, VisitEnding DEF Answers, Doing, ValidatesFor, Validating
<1>6. QED
  BY <1>3, <1>4, <1>5 DEF VisitMember

----------------------------------------------------------------------------
(* Mappings are suspended, and calls answer. *)

LEMMA SuspendKeeps == SnapshotIInv /\ Suspend => SnapshotIInv'
<1> SUFFICES ASSUME SnapshotIInv, Suspend PROVE SnapshotIInv'
  OBVIOUS
<1>1. /\ call \in CallType /\ snapshot \in SnapshotType /\ call.pc = "suspend"
      /\ UNCHANGED <<tree, past>> /\ snapshot' = [snapshot EXCEPT !.view = NoView]
  BY DEF SnapshotIInv, SnapshotTypeOK, Suspend, Doing
<1> USE DEF Doing, ValidatesFor, Disposing, Anchoring, Validating
<1>2. snapshot.state = "open" /\ call.sources = <<>> /\ call.op \in {"suspend", "digest"}
  BY <1>1 DEF SnapshotIInv, Lifecycle, Visited, SnapshotType
<1>3. /\ snapshot' \in SnapshotType /\ snapshot'.state = "open"
      /\ snapshot'.before = snapshot.before /\ snapshot'.capture = snapshot.capture
      /\ snapshot'.kind = snapshot.kind /\ snapshot'.members = snapshot.members
  BY <1>1, <1>2, NoSnapshotType DEF SnapshotType
<1>4. \/ /\ call'.pc = "held" /\ call'.for = "suspend" /\ call'.read = <<>>
         /\ call' \in CallType /\ call'.op = call.op /\ call'.sources = <<>>
      \/ /\ call'.pc = "done" /\ call'.status = "FILE_ERROR"
         /\ call' \in CallType /\ call'.op = call.op /\ call'.sources = <<>>
  <2>1. CASE call' = Validate(call, "suspend")
    BY <1>1, <1>2, <2>1, ValidateFields DEF Purposes
  <2>2. CASE call' = Answer("FILE_ERROR")
    BY <1>1, <1>2, <2>2, AnswerFields DEF Answers
  <2>3. QED
    BY <2>1, <2>2 DEF Suspend
<1>5. SnapshotTypeOK'
  BY <1>1, <1>3, <1>4 DEF SnapshotIInv, SnapshotTypeOK
<1>6. Lifecycle' /\ UnpackedIsCaptured' /\ Visited'
  BY <1>1, <1>2, <1>3, <1>4, PastFrame
     DEF SnapshotIInv, Lifecycle, UnpackedIsCaptured, Visited
<1>7. Judged'
  BY <1>1, <1>4, JudgedHeld, JudgedQuiet DEF SnapshotIInv, AnsweredOK
<1>8. QED
  BY <1>5, <1>6, <1>7 DEF SnapshotIInv

LEMMA AnswerValidKeeps == SnapshotIInv /\ AnswerValid => SnapshotIInv'
<1> SUFFICES ASSUME SnapshotIInv, AnswerValid PROVE SnapshotIInv'
  OBVIOUS
<1>1. /\ call \in CallType /\ snapshot \in SnapshotType /\ call.pc = "validated"
      /\ call.for \in {"suspend", "digest"} /\ UNCHANGED <<tree, snapshot, past>>
      /\ call' = Answer(IF Valid THEN "OK" ELSE "FILE_ERROR")
  BY DEF SnapshotIInv, SnapshotTypeOK, AnswerValid, Validates, Doing
<1> USE DEF Doing, ValidatesFor, Disposing, Anchoring, Validating
<1>2. snapshot.state = "open" /\ call.sources = <<>> /\ call.op \in {"suspend", "digest"}
  BY <1>1 DEF SnapshotIInv, Lifecycle, Visited, SnapshotType
<1>3. /\ call'.pc = "done"
      /\ call'.status = "OK" => Valid
      /\ call' \in CallType /\ call'.op = call.op /\ call'.sources = <<>>
  <2>1. (IF Valid THEN "OK" ELSE "FILE_ERROR") \in Answers
    BY DEF Answers
  <2>2. QED
    BY <1>1, <1>2, <2>1, AnswerFields
<1>4. SnapshotTypeOK'
  BY <1>1, <1>3 DEF SnapshotIInv, SnapshotTypeOK
<1>5. Lifecycle' /\ UnpackedIsCaptured' /\ Visited'
  BY <1>1, <1>2, <1>3, PastFrame DEF SnapshotIInv, Lifecycle, UnpackedIsCaptured, Visited
<1>6. Judged'
  BY <1>1, <1>3, ValidIsNotChanged, JudgedQuiet DEF SnapshotIInv, AnsweredOK
<1>7. QED
  BY <1>4, <1>5, <1>6 DEF SnapshotIInv

----------------------------------------------------------------------------
(* Callers and other programs. *)

LEMMA NoCallType ==
  NoCall \in CallType /\ NoHistory \in HistoryType /\ NoTree \in TreeType
<1>1. <<>> \in Seq(Chunks) /\ <<>> \in Seq(Sources) /\ NoSample \in Sample
  BY DEF NoSample, Sample, LedTo
<1>2. NoCall \in CallType
  BY <1>1 DEF NoCall, NoSources, CallType, Ops, CallPlaces, Purposes, Answers
<1>3. <<>> \in HeldContents
  BY DEF HeldContents
<1>4. QED
  BY <1>2, <1>3 DEF NoHistory, HistoryType, NoTree, TreeType, LedTo

LEMMA InitKeeps == SnapshotInit => SnapshotIInv
<1> SUFFICES ASSUME SnapshotInit PROVE SnapshotIInv
  OBVIOUS
<1>1. SnapshotTypeOK
  BY NoCallType, NoSnapshotType DEF SnapshotInit, SnapshotTypeOK
<1>2. /\ snapshot = NoSnapshot /\ snapshot.state = "none" /\ past.file = NoFile
      /\ call.pc = "done" /\ call.op = "none" /\ call.sources = <<>>
  BY DEF SnapshotInit, NoSnapshot, NoHistory, NoCall
<1>3. QED
  BY <1>1, <1>2 DEF SnapshotIInv, Lifecycle, UnpackedIsCaptured, Visited, Judged, Doing,
     ValidatesFor, Disposing, Anchoring, Validating, AnsweredOK

LEMMA GiveKeeps == SnapshotIInv /\ Give => SnapshotIInv'
<1> SUFFICES ASSUME SnapshotIInv, Give PROVE SnapshotIInv'
  OBVIOUS
<1>1. UNCHANGED <<snapshot, call, past>> /\ call.op = "none" /\ call.pc = "done"
      /\ past.file = NoFile
  BY DEF Give, SnapshotIInv, Lifecycle, Doing
<1>2. tree' \in TreeType
  <2>1. PICK g \in Given : tree' = [NoTree EXCEPT !.name = g.name, !.content = g.content]
    BY DEF Give
  <2>2. g.name \in LedTo /\ g.content \in [InputFiles -> HeldContents]
    BY InputAssumption DEF LedTo, HeldContents
  <2>3. QED
    BY <2>1, <2>2, NoCallType DEF TreeType
<1>3. SnapshotTypeOK'
  BY <1>1, <1>2 DEF SnapshotIInv, SnapshotTypeOK
<1>4. Lifecycle' /\ UnpackedIsCaptured' /\ Visited' /\ Judged'
  BY <1>1, PastFrame DEF SnapshotIInv, Lifecycle, UnpackedIsCaptured, Visited, Judged, Doing,
     ValidatesFor, Disposing, Anchoring, Validating, AnsweredOK
<1>5. QED
  BY <1>3, <1>4 DEF SnapshotIInv

LEMMA CallFields ==
  ASSUME NEW op \in Ops \ {"none"}
  PROVE  LET c == Call(op)
         IN /\ c \in CallType /\ c.op = op /\ c.sources = <<>> /\ c.status = "OK" /\ c.read = <<>>
            /\ c.pc = CASE op \in {"open", "once"} -> "lstat"
                        [] op = "suspend" -> "suspend"
                        [] op = "close" -> "dispose"
                        [] OTHER -> "held"
            /\ op = "visit" => c.for = "enter"
            /\ op = "digest" => c.for = "digest"
<1> DEFINE c == [NoCall EXCEPT !.op = op]
<1>1. /\ c \in CallType /\ c.op = op /\ c.sources = <<>> /\ c.status = "OK" /\ c.read = <<>>
  BY NoCallType DEF CallType, NoCall
<1>2. CASE op \in {"open", "once"}
  BY <1>1, <1>2 DEF Call, CallType, CallPlaces, Anchoring
<1>3. CASE op = "suspend"
  BY <1>1, <1>3 DEF Call, CallType, CallPlaces
<1>4. CASE op = "close"
  BY <1>1, <1>4 DEF Call, CallType, CallPlaces
<1>5. CASE op = "visit"
  <2>1. Call(op) = Validate(c, "enter")
    BY <1>5 DEF Call, EnterVisit
  <2>2. "enter" \in Purposes
    BY DEF Purposes
  <2> HIDE DEF c
  <2>3. QED
    BY <1>1, <1>5, <2>1, <2>2, ValidateFields
<1>6. CASE op = "digest"
  <2>1. Call(op) = Validate(c, "digest")
    BY <1>6 DEF Call
  <2>2. "digest" \in Purposes
    BY DEF Purposes
  <2> HIDE DEF c
  <2>3. QED
    BY <1>1, <1>6, <2>1, <2>2, ValidateFields
<1>7. QED
  BY <1>2, <1>3, <1>4, <1>5, <1>6 DEF Ops

LEMMA SnapshotCallKeeps ==
  ASSUME SnapshotIInv, NEW op \in Ops \ {"none"}, SnapshotCall(op)
  PROVE  SnapshotIInv'
<1>1. /\ snapshot \in SnapshotType /\ past \in HistoryType /\ tree \in TreeType
      /\ call.pc = "done" /\ UNCHANGED <<tree, snapshot>> /\ call' = Call(op)
      /\ snapshot.state = IF op \in {"open", "once"} THEN "none" ELSE "open"
      /\ past' = IF snapshot.state = "none" THEN NoHistory
                 ELSE [past EXCEPT !.seen = {Seen(tree, past.file)}]
  BY DEF SnapshotIInv, SnapshotTypeOK, SnapshotCall, Doing
<1>2. /\ call' \in CallType /\ call'.op = op /\ call'.sources = <<>> /\ call'.status = "OK"
      /\ call'.read = <<>>
      /\ op \in {"open", "once"} => call'.pc = "lstat"
      /\ op = "suspend" => call'.pc = "suspend"
      /\ op = "close" => call'.pc = "dispose"
      /\ op = "visit" => call'.pc = "held" /\ call'.for = "enter"
      /\ op = "digest" => call'.pc = "held" /\ call'.for = "digest"
  BY <1>1, CallFields
<1> USE DEF Doing, ValidatesFor, Disposing, Anchoring, Validating
<1>3. CASE op \in {"open", "once"}
  <2>1. past' = NoHistory /\ past'.file = NoFile /\ snapshot.state = "none"
    BY <1>1, <1>3 DEF NoHistory
  <2>2. SnapshotTypeOK'
    BY <1>1, <1>2, <2>1, NoCallType DEF SnapshotTypeOK
  <2>3. Lifecycle' /\ UnpackedIsCaptured' /\ Visited' /\ Judged'
    BY <1>1, <1>2, <1>3, <2>1
       DEF SnapshotIInv, Lifecycle, UnpackedIsCaptured, Visited, Judged, AnsweredOK
  <2>4. QED
    BY <2>2, <2>3 DEF SnapshotIInv
<1>4. CASE op \notin {"open", "once"}
  <2>1. snapshot.state = "open" /\ past' = [past EXCEPT !.seen = {Seen(tree, past.file)}]
    BY <1>1, <1>4
  <2>2. past.file \in InputFiles /\ past.file \in LedTo
    BY <2>1 DEF SnapshotIInv, Lifecycle, LedTo
  <2>3. Seen(tree, past.file) \in [content : HeldContents, led : BOOLEAN]
    BY <1>1, <2>2 DEF Seen, TreeType
  <2>4. /\ past' \in HistoryType /\ past'.file = past.file /\ past'.size = past.size
        /\ past'.capture = past.capture /\ past'.seen = {Seen(tree, past.file)}
    BY <1>1, <2>1, <2>3 DEF HistoryType
  <2>5. SnapshotTypeOK'
    BY <1>1, <1>2, <2>4 DEF SnapshotTypeOK
  <2>6. op \in {"visit", "suspend", "digest", "close"}
    BY <1>4 DEF Ops
  <2>7. Lifecycle'
    BY <1>1, <1>2, <2>1, <2>4, <2>6 DEF SnapshotIInv, Lifecycle
  <2>8. UnpackedIsCaptured'
    <3>1. Captured' = Captured
      BY <2>4 DEF Captured
    <3>2. QED
      BY <1>1, <1>2, <2>1, <2>4, <2>6, <3>1 DEF SnapshotIInv, UnpackedIsCaptured
  <2>9. Visited'
    BY <1>1, <1>2, <2>1, <2>4, <2>6 DEF Visited
  <2>10. Judged'
    BY <1>1, <1>2, <2>4, <2>6 DEF Judged, AnsweredOK
  <2>11. QED
    BY <2>5, <2>7, <2>8, <2>9, <2>10 DEF SnapshotIInv
<1>5. QED
  BY <1>3, <1>4

(* What a call has seen only becomes more: that a file was never the same other
   thing all the while remains true. *)
LEMMA ChangeKeeps == SnapshotIInv /\ Change => SnapshotIInv'
<1> SUFFICES ASSUME SnapshotIInv, Change PROVE SnapshotIInv'
  OBVIOUS
<1>1. /\ tree \in TreeType /\ past \in HistoryType /\ UNCHANGED <<snapshot, call>>
      /\ past' = IF past.file = NoFile THEN past
                 ELSE [past EXCEPT !.seen = @ \cup {Seen(tree', past.file)}]
  BY DEF SnapshotIInv, SnapshotTypeOK, Change
<1>2. tree' \in TreeType
  <2>1. PICK f \in InputFiles, tick \in 0..1 :
          LET touched == [tree EXCEPT !.stamp[f] = @ + tick, !.changes = @ + 1]
          IN \/ \E c \in Rewrites \ {tree.content[f]} :
                  tree' = [touched EXCEPT !.content[f] = c]
             \/ \E n \in (InputFiles \cup {NoFile}) \ {tree.name} :
                  f \in {n, tree.name} /\ tree' = [touched EXCEPT !.name = n]
    BY DEF Change
  <2> DEFINE touched == [tree EXCEPT !.stamp[f] = @ + tick, !.changes = @ + 1]
  <2>2. touched \in TreeType
    <3>1. tree.stamp \in [InputFiles -> Nat] /\ tree.changes \in Nat
      BY <1>1 DEF TreeType
    <3>2. [tree.stamp EXCEPT ![f] = @ + tick] \in [InputFiles -> Nat]
      BY <3>1
    <3>3. PICK n \in Nat : n = tree.changes + 1
      BY <3>1
    <3>4. PICK g \in [InputFiles -> Nat] : g = [tree.stamp EXCEPT ![f] = @ + tick]
      BY <3>2
    <3>5. touched = [tree EXCEPT !.stamp = g, !.changes = n]
      BY <1>1, <3>3, <3>4 DEF TreeType
    <3> HIDE DEF touched
    <3>6. QED
      BY <1>1, <3>5 DEF TreeType
  <2> HIDE DEF touched
  <2>3. CASE \E c \in Rewrites : tree' = [touched EXCEPT !.content[f] = c]
    <3>1. PICK c \in Rewrites : tree' = [touched EXCEPT !.content[f] = c]
      BY <2>3
    <3>2. c \in HeldContents
      BY InputAssumption DEF HeldContents
    <3>3. QED
      BY <2>2, <3>1, <3>2 DEF TreeType
  <2>4. CASE \E n \in LedTo : tree' = [touched EXCEPT !.name = n]
    BY <2>2, <2>4 DEF TreeType
  <2>5. QED
    BY <2>1, <2>3, <2>4 DEF touched, LedTo
<1>3. CASE past.file = NoFile
  <2>1. past' = past
    BY <1>1, <1>3
  <2>2. SnapshotTypeOK'
    BY <1>1, <1>2, <2>1 DEF SnapshotIInv, SnapshotTypeOK
  <2>3. Lifecycle' /\ UnpackedIsCaptured' /\ Visited'
    BY <1>1, <2>1, PastFrame DEF SnapshotIInv, Lifecycle, UnpackedIsCaptured, Visited, Doing,
       ValidatesFor, Disposing
  <2>4. Judged'
    BY <1>1, <1>3, <2>1, PastFrame DEF SnapshotIInv, Judged, Doing, AnsweredOK
  <2>5. QED
    BY <2>2, <2>3, <2>4 DEF SnapshotIInv
<1>4. CASE past.file # NoFile
  <2>1. past.file \in InputFiles
    BY <1>1, <1>4 DEF HistoryType, LedTo
  <2>2. Seen(tree', past.file) \in [content : HeldContents, led : BOOLEAN]
    BY <1>2, <2>1 DEF Seen, TreeType
  <2>3. /\ past' \in HistoryType /\ past'.file = past.file /\ past'.size = past.size
        /\ past'.capture = past.capture
        /\ past'.seen = past.seen \cup {Seen(tree', past.file)}
    BY <1>1, <1>4, <2>2 DEF HistoryType
  <2>4. Due' = Due /\ Captured' = Captured /\ DueOf(Captured)' = DueOf(Captured)
    BY <2>3 DEF Due, Captured
  <2>5. SnapshotTypeOK'
    BY <1>1, <1>2, <2>3 DEF SnapshotIInv, SnapshotTypeOK
  <2>6. Lifecycle' /\ UnpackedIsCaptured' /\ Visited'
    BY <1>1, <2>3, <2>4 DEF SnapshotIInv, Lifecycle, UnpackedIsCaptured, Visited, Doing,
       ValidatesFor, Disposing
  <2>7. PICK r \in past.seen : TRUE
    BY <1>4 DEF SnapshotIInv, Judged
  <2>8. NotChanged => NotChanged'
    BY <2>3, <2>7 DEF NotChanged, PersistentlyChanged
  <2>9. ASSUME NEW s \in past'.seen, \A t \in past'.seen : t.content = s.content
        PROVE  \E t \in past.seen : /\ t.content = s.content
                                    /\ \A u \in past.seen : u.content = t.content
    BY <2>3, <2>7, <2>9
  <2>10. Judged'
    <3>1. Seen(tree', past'.file) \in past'.seen
      BY <2>3
    <3>2. call'.pc \in {"path", "digest", "validated"} =>
            \E s \in past'.seen : call'.held.size = Len(s.content)
      BY <1>1, <2>3 DEF SnapshotIInv, Judged
    <3>3. ASSUME call'.pc \in {"digest", "validated"}
          PROVE  /\ call'.path.file = past'.file => \E s \in past'.seen : s.led
                 /\ \A s \in past'.seen : (\A t \in past'.seen : t.content = s.content) =>
                      /\ Len(call'.read) <= Len(s.content)
                      /\ \A i \in 1..Len(call'.read) : call'.read[i] = s.content[i]
      <4>1. call'.path.file = past'.file => \E s \in past'.seen : s.led
        BY <1>1, <2>3, <3>3 DEF SnapshotIInv, Judged
      <4>2. ASSUME NEW s \in past'.seen, \A t \in past'.seen : t.content = s.content
            PROVE  /\ Len(call'.read) <= Len(s.content)
                   /\ \A i \in 1..Len(call'.read) : call'.read[i] = s.content[i]
        <5>1. PICK t \in past.seen : /\ t.content = s.content
                                     /\ \A u \in past.seen : u.content = t.content
          BY <2>9, <4>2
        <5>2. /\ Len(call.read) <= Len(t.content)
              /\ \A i \in 1..Len(call.read) : call.read[i] = t.content[i]
          BY <1>1, <3>3, <5>1 DEF SnapshotIInv, Judged
        <5>3. QED
          BY <1>1, <5>1, <5>2
      <4>3. QED
        BY <4>1, <4>2
    <3>4. (Doing("member") \/ AnsweredOK)' => NotChanged'
      BY <1>1, <2>8 DEF SnapshotIInv, Judged, Doing, AnsweredOK
    <3>5. call'.pc \in {"held", "path"} => call'.read = <<>>
      BY <1>1 DEF SnapshotIInv, Judged
    <3>6. QED
      BY <3>1, <3>2, <3>3, <3>4, <3>5 DEF Judged
  <2>11. QED
    BY <2>5, <2>6, <2>10 DEF SnapshotIInv
<1>5. QED
  BY <1>3, <1>4

----------------------------------------------------------------------------
(* Every step, and what it comes to. *)

LEMMA SnapshotStep == SnapshotIInv /\ [SnapshotNext]_inputVars => SnapshotIInv'
<1> SUFFICES ASSUME SnapshotIInv, [SnapshotNext]_inputVars PROVE SnapshotIInv'
  OBVIOUS
<1>1. CASE \E op \in {"open", "once", "visit", "suspend", "digest", "close"} : SnapshotCall(op)
  BY <1>1, SnapshotCallKeeps DEF Ops
<1>2. CASE UNCHANGED inputVars
  BY <1>2, PastFrame DEF inputVars, SnapshotIInv, SnapshotTypeOK, Lifecycle, UnpackedIsCaptured,
     Visited, Judged, Doing, ValidatesFor, Disposing, AnsweredOK, Seen
<1>3. QED
  BY <1>1, <1>2, GiveKeeps, LstatKeeps, OpenAnchorKeeps, HeldFstatKeeps, CaptureKeeps, OpenedKeeps,
     ValidateHeldKeeps, ValidatePathKeeps, ValidateDigestKeeps, EnterKeeps, RemapKeeps,
     VisitFileKeeps, VisitMemberKeeps, VisitedAllKeeps, SuspendKeeps, AnswerValidKeeps,
     DisposeViewKeeps, DisposeAnchorKeeps, ChangeKeeps DEF SnapshotNext

(* The states of the model are of its types. *)
THEOREM SnapshotTypeSafe == SnapshotSpec => []SnapshotTypeOK
<1>1. SnapshotIInv => SnapshotTypeOK
  BY DEF SnapshotIInv
<1>2. QED
  BY <1>1, InitKeeps, SnapshotStep, PTL DEF SnapshotSpec

(* Whatever other programs do to the file and its pathname between and during
   the calls, visitors get the sources of the one content that was captured, in
   order and, if the answer is OK, all of them; and no call answers OK about a
   file that was something else all the while. *)
THEOREM SnapshotIsFaithful == SnapshotSpec => []SnapshotFaithful
<1>1. SnapshotIInv => SnapshotFaithful
  BY DEF SnapshotIInv, SnapshotFaithful, Visited, Judged, NotChanged, AnsweredOK, Doing
<1>2. QED
  BY <1>1, InitKeeps, SnapshotStep, PTL DEF SnapshotSpec
=============================================================================

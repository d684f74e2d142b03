------------------------- MODULE CommonHelperProofs -------------------------
(***************************************************************************)
(* Theorems about the helpers of src/src/common, for calls of any number   *)
(* and arguments of any size.                                              *)
(*                                                                         *)
(* StringBuilder: a builder that has not failed holds every piece it was   *)
(* given, one that has holds a beginning of them, and the count of what is *)
(* allocated is right.  Sha256: in whatever parts a message comes, its     *)
(* padded blocks are what is hashed.  PathDiscovery: whatever other        *)
(* programs do to the directories meanwhile, moving them included, a call  *)
(* lists every file that stayed and only names that were regular files in  *)
(* directories which its paths led to, each once and in order, or fails    *)
(* for a reason there was.                                                 *)
(***************************************************************************)
EXTENDS PathDiscovery, StringBuilder, Sha256, NumberLemmas, FiniteSetTheorems, SequenceTheorems

------------------------------------------------------------------------------
(* The string builder. *)

(* The length of a text, piece by piece. *)
LEMMA LengthSteps ==
  ASSUME NEW text \in Seq(Nat)
  PROVE  /\ LengthTo(text) \in [0..Len(text) -> Nat]
         /\ LengthTo(text)[0] = 0
         /\ \A n \in 1..Len(text) : LengthTo(text)[n] = LengthTo(text)[n-1] + text[n]
<1> DEFINE N == Len(text)
           Is(h) == h = [n \in 0..N |-> IF n = 0 THEN 0 ELSE h[n-1] + text[n]]
           step == [n \in 1..N |-> [s \in Nat |-> s + text[n]]]
<1>1. N \in Nat /\ \A n \in 1..N : text[n] \in Nat
  OBVIOUS
<1>2. LengthTo(text) = CHOOSE h : Is(h)
  BY DEF LengthTo
<1> HIDE DEF N
<1>3. step \in [1..N -> [Nat -> Nat]]
  BY <1>1
<1>4. PICK g : Iterates(g, N, Nat, 0, step)
  <2> HIDE DEF step
  <2>1. QED
    BY <1>1, <1>3, RecursionUpTo, Zenon
<1>5. g \in [0..N -> Nat] /\ g[0] = 0 /\ \A n \in 1..N : g[n] = step[n][g[n-1]]
  <2> HIDE DEF step
  <2>1. QED
    BY <1>4 DEF Iterates
<1>6. ASSUME NEW n \in 1..N PROVE g[n] = g[n-1] + text[n]
  <2>1. g[n-1] \in Nat
    BY <1>1, <1>5
  <2>2. step[n][g[n-1]] = g[n-1] + text[n]
    BY <2>1
  <2>3. QED
    BY <1>5, <2>2
<1>7. Is(g)
  <2>1. \A n \in 0..N : n # 0 => n \in 1..N
    BY <1>1
  <2>2. QED
    BY <1>5, <1>6, <2>1
<1> DEFINE h == LengthTo(text)
<1>8. Is(h)
  <2> HIDE DEF Is
  <2>1. QED
    BY <1>2, <1>7
<1>9. h[0] = 0 /\ DOMAIN h = 0..N /\ \A n \in 1..N : h[n] = h[n-1] + text[n]
  <2>1. 0 \in 0..N /\ \A n \in 1..N : n \in 0..N /\ n # 0
    BY <1>1
  <2> HIDE DEF h
  <2>2. QED
    BY <1>8, <2>1
<1> HIDE DEF h, Is
<1> DEFINE T == {i \in 0..N : h[i] \in Nat}
<1>10. 0 \in T
  BY <1>1, <1>9
<1>11. ASSUME NEW i \in 1..N, i - 1 \in T PROVE i \in T
  <2>1. h[i-1] \in Nat /\ text[i] \in Nat /\ h[i] = h[i-1] + text[i] /\ i \in 0..N
    BY <1>1, <1>9, <1>11
  <2>2. QED
    BY <2>1
<1>12. \A i \in 0..N : i \in T
  <2> HIDE DEF T
  <2>1. QED
    BY <1>1, <1>10, <1>11, InductionUpTo
<1>13. h = [i \in 0..N |-> h[i]]
  BY <1>8 DEF Is
<1>14. h \in [0..N -> Nat]
  BY <1>12, <1>13
<1>15. QED
  BY <1>9, <1>14 DEF h, N

(* The empty text is empty. *)
LEMMA LengthEmpty == Length(<<>>) = 0
<1>1. <<>> \in Seq(Nat) /\ Len(<<>>) = 0
  OBVIOUS
<1>2. LengthTo(<<>>)[0] = 0
  BY <1>1, LengthSteps
<1>3. QED
  BY <1>1, <1>2 DEF Length

(* A piece adds its length. *)
LEMMA LengthAppend ==
  ASSUME NEW text \in Seq(Nat), NEW piece \in Nat
  PROVE  /\ Length(text) \in Nat
         /\ Length(Append(text, piece)) = Length(text) + piece
<1> DEFINE more == Append(text, piece)
           N == Len(text)
           f == LengthTo(text)
           g == LengthTo(more)
<1>1. more \in Seq(Nat) /\ Len(more) = N + 1 /\ more[N+1] = piece /\ N \in Nat
  OBVIOUS
<1>2. \A n \in 1..N : more[n] = text[n]
  OBVIOUS
<1>3. f \in [0..N -> Nat] /\ f[0] = 0 /\ \A n \in 1..N : f[n] = f[n-1] + text[n]
  BY LengthSteps
<1>4. g \in [0..N+1 -> Nat] /\ g[0] = 0 /\ \A n \in 1..N+1 : g[n] = g[n-1] + more[n]
  <2> HIDE DEF more
  <2>1. QED
    BY <1>1, LengthSteps
<1> HIDE DEF f, g, more
<1> DEFINE T == {i \in 0..N : f[i] = g[i]}
<1>5. 0 \in T
  BY <1>1, <1>3, <1>4
<1>6. ASSUME NEW i \in 1..N, i - 1 \in T PROVE i \in T
  BY <1>1, <1>2, <1>3, <1>4, <1>6
<1>7. N \in T
  <2> HIDE DEF T, N
  <2>1. \A i \in 0..N : i \in T
    BY <1>1, <1>5, <1>6, InductionUpTo
  <2>2. QED
    BY <1>1, <2>1
<1>8. g[N+1] = f[N] + piece
  <2>1. N + 1 \in 1..N+1 /\ (N + 1) - 1 = N
    BY <1>1
  <2>2. QED
    BY <1>1, <1>4, <1>7, <2>1
<1>9. QED
  BY <1>1, <1>3, <1>8 DEF Length, f, g, more

----------------------------------------------------------------------------
(* The capacity that the loop comes to: at least what is required. *)
LEMMA DoubledSuffices ==
  ASSUME NEW capacity \in 0 .. SizeMax \div 2, NEW required \in 1..SizeMax
  PROVE  Doubled(capacity, required) \in required..SizeMax
<1> DEFINE first == IF capacity = 0 THEN FirstCapacity ELSE Wrapped(capacity * 2)
           S == 1..SizeMax
           Is(h) == h = [n \in 0..required |-> IF n = 0 THEN first ELSE Larger(h[n-1], required)]
           step == [n \in 1..required |-> [c \in S |-> Larger(c, required)]]
           h == Capacity(capacity, required)
<1>0. SizeMax \in Nat /\ required \in Nat
  BY BuilderAssumption
<1>1. ASSUME NEW c \in S PROVE Larger(c, required) \in S /\ (c < required => Larger(c, required) > c)
  <2>1. c <= SizeMax \div 2 => 2 * c <= SizeMax /\ Wrapped(c * 2) = c * 2
    BY <1>0 DEF Wrapped
  <2>2. QED
    BY <1>0, <2>1 DEF Larger
<1>2. first \in S
  <2>1. capacity # 0 => Wrapped(capacity * 2) = capacity * 2 /\ capacity * 2 \in 1..SizeMax
    BY <1>0 DEF Wrapped
  <2>2. QED
    BY <1>0, <2>1, BuilderAssumption
<1>3. h = CHOOSE f : Is(f)
  BY DEF Capacity
<1> HIDE DEF first, S
<1>4. step \in [1..required -> [S -> S]]
  BY <1>1
<1>5. PICK g : Iterates(g, required, S, first, step)
  <2> HIDE DEF step
  <2>1. QED
    BY <1>0, <1>2, <1>4, RecursionUpTo, Zenon
<1>6. g \in [0..required -> S] /\ g[0] = first /\ \A n \in 1..required : g[n] = step[n][g[n-1]]
  <2> HIDE DEF step
  <2>1. QED
    BY <1>5 DEF Iterates
<1>7. ASSUME NEW n \in 1..required PROVE g[n] = Larger(g[n-1], required)
  <2>1. g[n-1] \in S
    BY <1>0, <1>6
  <2>2. step[n][g[n-1]] = Larger(g[n-1], required)
    BY <2>1
  <2>3. QED
    BY <1>6, <2>2
<1>8. Is(g)
  <2>1. \A n \in 0..required : n # 0 => n \in 1..required
    BY <1>0
  <2>2. QED
    BY <1>6, <1>7, <2>1
<1>9. Is(h)
  <2> HIDE DEF Is, h
  <2>1. QED
    BY <1>3, <1>8
<1>10. h[0] = first /\ \A n \in 1..required : h[n] = Larger(h[n-1], required)
  <2>1. 0 \in 0..required /\ \A n \in 1..required : n \in 0..required /\ n # 0
    BY <1>0
  <2> HIDE DEF h
  <2>2. QED
    BY <1>9, <2>1
<1> HIDE DEF h, Is
<1> DEFINE T == {i \in 0..required : h[i] \in S /\ (h[i] >= i \/ h[i] >= required)}
<1>11. 0 \in T
  BY <1>0, <1>2, <1>10 DEF S
<1>12. ASSUME NEW i \in 1..required, i - 1 \in T PROVE i \in T
  <2>1. h[i-1] \in S /\ (h[i-1] >= i - 1 \/ h[i-1] >= required)
    BY <1>12
  <2>2. h[i] = Larger(h[i-1], required)
    BY <1>10
  <2>3. CASE h[i-1] >= required
    BY <1>0, <2>1, <2>2, <2>3 DEF S, Larger
  <2>4. CASE h[i-1] < required
    BY <1>0, <1>1, <2>1, <2>2, <2>4 DEF S
  <2>5. QED
    BY <1>0, <2>1, <2>3, <2>4 DEF S
<1>13. required \in T
  <2> HIDE DEF T
  <2>1. \A i \in 0..required : i \in T
    BY <1>0, <1>11, <1>12, InductionUpTo
  <2>2. QED
    BY <1>0, <2>1
<1>14. h[required] \in required..SizeMax
  BY <1>0, <1>13 DEF S
<1>15. QED
  BY <1>14 DEF Doubled, h

----------------------------------------------------------------------------
(* The invariant: BuilderExact, of a builder that cannot hold more than malloc
   gives out. *)
Builder == [allocated : BOOLEAN, text : Seq(Nat), capacity : 0 .. SizeMax \div 2,
            failed : BOOLEAN, ends : Nat]

Holds(b) ==
  /\ b \in Builder
  /\ IF b.allocated THEN Used(b) < b.capacity ELSE b = [Initial EXCEPT !.failed = b.failed]
  /\ b.ends = Used(b)

Counted(b, t, d) == t = [bytes |-> b.capacity + d, count |-> (IF b.allocated THEN 1 ELSE 0) + d]

KeepsText(b, all) == IsPrefix(b.text, all) /\ (~b.failed => b.text = all)

BuilderInv ==
  /\ Holds(sb) /\ wanted \in Seq(Nat) /\ detached \in Nat
  /\ Counted(sb, tracked, detached)
  /\ KeepsText(sb, wanted)

(* sb_init leaves a builder that holds. *)
LEMMA InitialHolds == Holds(Initial)
<1>1. Initial \in Builder
  BY BuilderAssumption DEF Initial, Builder
<1>2. Used(Initial) = 0
  BY LengthEmpty DEF Used, Initial
<1>3. QED
  BY <1>1, <1>2 DEF Holds, Initial

(* What is used is a length. *)
LEMMA UsedNat == ASSUME NEW b \in Builder PROVE Used(b) \in Nat
<1>1. b.text \in Seq(Nat)
  BY DEF Builder
<1>2. QED
  BY <1>1, LengthAppend DEF Used

(* A builder that failed is what it was otherwise. *)
LEMMA FailedHolds ==
  ASSUME NEW b, Holds(b)
  PROVE  /\ Holds(Failed(b)) /\ Failed(b).failed
         /\ Failed(b).text = b.text /\ Failed(b).capacity = b.capacity
         /\ Failed(b).allocated = b.allocated /\ Failed(b).ends = b.ends
<1>1. b \in Builder
  BY DEF Holds
<1>2. /\ Failed(b) \in Builder /\ Failed(b).failed
      /\ Failed(b).text = b.text /\ Failed(b).capacity = b.capacity
      /\ Failed(b).allocated = b.allocated /\ Failed(b).ends = b.ends
  BY <1>1 DEF Failed, Builder
<1>3. Used(Failed(b)) = Used(b)
  BY <1>2 DEF Used
<1>4. ~b.allocated => Failed(b) = [Initial EXCEPT !.failed = Failed(b).failed]
  BY <1>1, <1>2 DEF Holds, Failed, Initial, Builder
<1>5. QED
  BY <1>2, <1>3, <1>4 DEF Holds

(* Growing loses nothing, counts what it takes, and makes room or fails. *)
LEMMA EnsureHolds ==
  ASSUME NEW d \in Nat, Holds(sb), Counted(sb, tracked, d),
         NEW additional \in 1..SizeMax, NEW o \in Ensure(sb, additional)
  PROVE  /\ Holds(o.builder) /\ Counted(o.builder, o.tracked, d)
         /\ o.builder.text = sb.text
         /\ sb.failed => o.builder.failed
         /\ ~o.builder.failed => /\ o.builder.allocated
                                 /\ Used(sb) + additional < o.builder.capacity
<1> DEFINE required == Required(sb, additional)
           capacity == Doubled(sb.capacity, required)
           larger == [sb EXCEPT !.allocated = TRUE, !.capacity = capacity]
           grown == Outcome(larger, Plus(capacity - sb.capacity, IF sb.allocated THEN 0 ELSE 1))
<1>1. sb \in Builder /\ Used(sb) \in Nat /\ SizeMax \in Nat
  BY UsedNat, BuilderAssumption DEF Holds
<1>2. CASE o = Outcome(Failed(sb), tracked)
  <2>1. o.builder = Failed(sb) /\ o.tracked = tracked
    BY <1>2 DEF Outcome
  <2>2. QED
    BY <2>1, FailedHolds DEF Counted
<1>3. CASE o = Outcome(sb, tracked) /\ required <= sb.capacity /\ ~sb.failed
  <2>1. o.builder = sb /\ o.tracked = tracked
    BY <1>3 DEF Outcome
  <2>2. Used(sb) + additional < sb.capacity
    BY <1>1, <1>3 DEF Required, Builder
  <2>3. sb.allocated
    <3>1. ~sb.allocated => sb = [Initial EXCEPT !.failed = sb.failed]
      BY DEF Holds
    <3>2. ~sb.allocated => sb.capacity = 0
      BY <3>1 DEF Initial
    <3>3. QED
      BY <1>1, <2>2, <3>2
  <2>4. QED
    BY <2>1, <2>2, <2>3
<1>4. CASE /\ o = grown /\ MayAllocate(capacity) /\ ~sb.failed
           /\ Used(sb) # SizeMax /\ additional <= SizeMax - Used(sb) - 1
  <2>1. o.builder = larger /\ o.tracked = Plus(capacity - sb.capacity, IF sb.allocated THEN 0 ELSE 1)
    BY <1>4 DEF Outcome
  <2>2. required \in 1..SizeMax /\ required = Used(sb) + additional + 1
    BY <1>1, <1>4 DEF Required
  <2>3. sb.capacity \in 0 .. SizeMax \div 2
    BY <1>1 DEF Builder
  <2>4. capacity \in required..SizeMax
    <3> HIDE DEF required
    <3>1. QED
      BY <2>2, <2>3, DoubledSuffices
  <2>5. capacity \in 0 .. SizeMax \div 2
    BY <1>1, <1>4, <2>2, <2>4 DEF MayAllocate
  <2> HIDE DEF capacity, required
  <2>6. /\ larger \in Builder /\ larger.text = sb.text /\ larger.ends = sb.ends
        /\ larger.allocated /\ larger.capacity = capacity /\ larger.failed = sb.failed
    BY <1>1, <2>5 DEF Builder
  <2> HIDE DEF larger
  <2>7. Used(larger) = Used(sb) /\ Used(sb) + additional < capacity
    BY <1>1, <2>2, <2>4, <2>6 DEF Used
  <2>8. Holds(larger)
    BY <1>1, <2>5, <2>6, <2>7 DEF Holds
  <2>9. Counted(larger, o.tracked, d)
    <3>1. tracked = [bytes |-> sb.capacity + d, count |-> (IF sb.allocated THEN 1 ELSE 0) + d]
      BY DEF Counted
    <3>2. o.tracked = [bytes |-> sb.capacity + d + (capacity - sb.capacity),
                       count |-> (IF sb.allocated THEN 1 ELSE 0) + d + (IF sb.allocated THEN 0 ELSE 1)]
      BY <2>1, <3>1 DEF Plus
    <3>3. /\ sb.capacity + d + (capacity - sb.capacity) = capacity + d
          /\ (IF sb.allocated THEN 1 ELSE 0) + d + (IF sb.allocated THEN 0 ELSE 1) = 1 + d
      BY <2>3, <2>5
    <3>4. QED
      BY <2>6, <3>2, <3>3 DEF Counted
  <2>10. QED
    BY <1>4, <2>1, <2>6, <2>7, <2>8, <2>9
<1>5. QED
  BY <1>1, <1>2, <1>3, <1>4 DEF Ensure

(* A piece that fits is appended; a failed builder takes none. *)
LEMMA WithHolds ==
  ASSUME NEW b, Holds(b), NEW piece \in Nat,
         ~b.failed => b.allocated /\ Used(b) + piece < b.capacity
  PROVE  /\ Holds(With(b, piece))
         /\ With(b, piece).text = IF b.failed THEN b.text ELSE Append(b.text, piece)
         /\ With(b, piece).failed = b.failed /\ With(b, piece).capacity = b.capacity
         /\ With(b, piece).allocated = b.allocated
<1>1. CASE b.failed
  BY <1>1 DEF With
<1>2. CASE ~b.failed
  <2> DEFINE c == [b EXCEPT !.text = Append(b.text, piece), !.ends = Used(b) + piece]
  <2>1. b \in Builder /\ Used(b) \in Nat /\ b.text \in Seq(Nat)
    BY UsedNat DEF Holds, Builder
  <2>2. With(b, piece) = c
    BY <1>2 DEF With
  <2>3. PICK l \in Seq(Nat), n \in Nat : l = Append(b.text, piece) /\ n = Used(b) + piece
    <3>1. Append(b.text, piece) \in Seq(Nat)
      BY <2>1
    <3>2. Used(b) + piece \in Nat
      BY <2>1
    <3>3. QED
      BY <3>1, <3>2, Zenon
  <2>4. /\ c \in Builder /\ c.text = Append(b.text, piece) /\ c.ends = Used(b) + piece
        /\ c.failed = b.failed /\ c.capacity = b.capacity /\ c.allocated = b.allocated
    <3>1. c = [b EXCEPT !.text = l, !.ends = n]
      BY <2>3
    <3>2. QED
      BY <2>1, <2>3, <3>1 DEF Builder
  <2> HIDE DEF c
  <2>5. Used(c) = Used(b) + piece
    BY <2>1, <2>4, LengthAppend DEF Used
  <2>6. Holds(c)
    BY <1>2, <2>4, <2>5 DEF Holds
  <2>7. QED
    BY <1>2, <2>2, <2>4, <2>6
<1>3. QED
  BY <1>1, <1>2

(* A beginning remains one of a longer text. *)
LEMMA PrefixAppend ==
  ASSUME NEW s \in Seq(Nat), NEW t \in Seq(Nat), NEW x \in Nat, IsPrefix(s, t)
  PROVE  IsPrefix(s, Append(t, x))
<1>1. Len(s) <= Len(t) /\ SubSeq(s, 1, Len(s)) = SubSeq(t, 1, Len(s))
  BY DEF IsPrefix
<1>2. SubSeq(t, 1, Len(s)) = SubSeq(Append(t, x), 1, Len(s))
  BY <1>1
<1>3. QED
  BY <1>1, <1>2 DEF IsPrefix

(* A text begins itself. *)
LEMMA PrefixSelf == ASSUME NEW s PROVE IsPrefix(s, s)
BY DEF IsPrefix

(* An append that succeeds or fails keeps what KeepsText says. *)
LEMMA AppendKeeps ==
  ASSUME NEW b \in Builder, NEW c \in Builder, NEW piece \in Nat, wanted \in Seq(Nat),
         KeepsText(b, wanted), b.failed => c.failed,
         c.text = IF c.failed THEN b.text ELSE Append(b.text, piece)
  PROVE  KeepsText(c, Append(wanted, piece))
<1>1. CASE c.failed
  BY <1>1, PrefixAppend DEF KeepsText, Builder
<1>2. CASE ~c.failed
  BY <1>2, PrefixSelf DEF KeepsText, Builder
<1>3. QED
  BY <1>1, <1>2

(* What the invariant says of each part. *)
LEMMA InvFields ==
  ASSUME BuilderInv
  PROVE  /\ sb \in Builder /\ sb.text \in Seq(Nat) /\ Used(sb) \in Nat
         /\ sb.capacity \in 0 .. SizeMax \div 2 /\ sb.ends = Used(sb)
         /\ Initial.text = <<>> /\ Initial.capacity = 0 /\ ~Initial.failed /\ ~Initial.allocated
         /\ tracked = [bytes |-> sb.capacity + detached,
                       count |-> (IF sb.allocated THEN 1 ELSE 0) + detached]
BY UsedNat DEF BuilderInv, Holds, Builder, Counted, Initial

(* Nothing is a beginning of anything. *)
LEMMA KeepsNothing == ASSUME NEW b, b.text = <<>> PROVE KeepsText(b, <<>>)
BY PrefixSelf DEF KeepsText

(* A builder that is emptied keeps the empty text. *)
LEMMA EmptyHolds ==
  ASSUME wanted' = <<>>, sb'.text = <<>>, Holds(sb)', detached \in Nat, UNCHANGED detached,
         Counted(sb, tracked, detached)'
  PROVE  BuilderInv'
<1>1. KeepsText(sb, wanted)'
  BY KeepsNothing
<1>2. QED
  BY <1>1 DEF BuilderInv

(* The first call initialises the builder. *)
LEMMA BuilderInitHolds ==
  ASSUME BuilderInv, NEW capacity \in 0..SizeMax, SbInitWithCapacity(capacity)
  PROVE  BuilderInv'
<1>1. ~sb.allocated /\ wanted' = <<>> /\ detached' = detached /\ detached \in Nat
  BY DEF SbInitWithCapacity, BuilderInv
<1>2. sb.capacity = 0
  <2>1. sb = [Initial EXCEPT !.failed = sb.failed]
    BY <1>1 DEF BuilderInv, Holds
  <2>2. QED
    BY <2>1 DEF Initial
<1>3. tracked = [bytes |-> detached, count |-> detached]
  BY <1>1, <1>2, InvFields
<1>4. CASE sb' = Initial /\ UNCHANGED tracked
  <2>1. Holds(sb)'
    BY <1>4, InitialHolds DEF Holds, Used
  <2>2. Counted(sb, tracked, detached)' /\ sb'.text = <<>>
    BY <1>1, <1>3, <1>4, InvFields DEF Counted
  <2>3. QED
    BY <1>1, <2>1, <2>2, EmptyHolds
<1>5. CASE /\ MayAllocate(capacity)
           /\ sb' = [Initial EXCEPT !.allocated = TRUE, !.capacity = capacity]
           /\ tracked' = Plus(capacity, 1)
  <2>1. capacity \in 1 .. SizeMax \div 2
    BY <1>5, BuilderAssumption DEF MayAllocate
  <2>2. /\ sb' \in Builder /\ sb'.text = <<>> /\ sb'.ends = 0 /\ sb'.allocated
        /\ sb'.capacity = capacity
    <3>1. sb' = [allocated |-> TRUE, text |-> <<>>, capacity |-> capacity, failed |-> FALSE, ends |-> 0]
      BY <1>5 DEF Initial
    <3>2. <<>> \in Seq(Nat) /\ capacity \in 0 .. SizeMax \div 2
      BY <2>1, BuilderAssumption
    <3>3. QED
      BY <3>1, <3>2 DEF Builder
  <2>3. Used(sb') = 0
    BY <2>2, LengthEmpty DEF Used
  <2>4. Holds(sb)'
    BY <2>1, <2>2, <2>3 DEF Holds
  <2>5. Counted(sb, tracked, detached)'
    <3>1. tracked' = [bytes |-> detached + capacity, count |-> detached + 1]
      BY <1>3, <1>5 DEF Plus
    <3>2. QED
      BY <1>1, <2>1, <2>2, <3>1 DEF Counted
  <2>6. QED
    BY <1>1, <2>2, <2>4, <2>5, EmptyHolds
<1>6. QED
  BY <1>4, <1>5 DEF SbInitWithCapacity

(* A piece was asked for and the outcome is c. *)
LEMMA AppendHolds ==
  ASSUME BuilderInv, NEW piece \in Nat, Holds(sb)', Counted(sb, tracked, detached)',
         sb.failed => sb'.failed, detached' = detached, wanted' = Append(wanted, piece),
         sb'.text = IF sb'.failed THEN sb.text ELSE Append(sb.text, piece)
  PROVE  BuilderInv'
<1>1. sb \in Builder /\ sb' \in Builder /\ wanted \in Seq(Nat) /\ KeepsText(sb, wanted)
  BY DEF BuilderInv, Holds
<1>2. KeepsText(sb', wanted')
  BY <1>1, AppendKeeps
<1>3. wanted' \in Seq(Nat) /\ detached' \in Nat
  BY <1>1 DEF BuilderInv
<1>4. QED
  BY <1>2, <1>3 DEF BuilderInv, KeepsText

(* sb_append_len. *)
LEMMA SbAppendHolds ==
  ASSUME BuilderInv, NEW piece \in 0..SizeMax, SbAppend(piece)
  PROVE  BuilderInv'
<1>1. CASE piece = 0
  BY <1>1 DEF SbAppend, BuilderInv, Holds, Counted, KeepsText, Used
<1>2. CASE piece # 0
  <2>1. PICK o \in Ensure(sb, piece) :
          sb' = With(o.builder, piece) /\ tracked' = o.tracked /\ wanted' = Append(wanted, piece)
    BY <1>2 DEF SbAppend
  <2>2. piece \in 1..SizeMax /\ piece \in Nat /\ detached \in Nat /\ detached' = detached
    BY <1>2, BuilderAssumption DEF SbAppend, BuilderInv
  <2>3. /\ Holds(o.builder) /\ Counted(o.builder, o.tracked, detached)
        /\ o.builder.text = sb.text
        /\ sb.failed => o.builder.failed
        /\ ~o.builder.failed => o.builder.allocated /\ Used(sb) + piece < o.builder.capacity
    BY <2>2, EnsureHolds DEF BuilderInv
  <2>4. Used(o.builder) = Used(sb)
    BY <2>3 DEF Used
  <2>5. /\ Holds(sb') /\ sb'.text = (IF o.builder.failed THEN sb.text ELSE Append(sb.text, piece))
        /\ sb'.failed = o.builder.failed /\ sb'.capacity = o.builder.capacity
        /\ sb'.allocated = o.builder.allocated
    BY <2>1, <2>2, <2>3, <2>4, WithHolds
  <2>6. Holds(sb)' /\ Counted(sb, tracked, detached)'
    BY <2>1, <2>2, <2>3, <2>5 DEF Holds, Counted, Used
  <2>7. QED
    BY <2>1, <2>2, <2>3, <2>5, <2>6, AppendHolds
<1>3. QED
  BY <1>1, <1>2

(* sb_appendfv. *)
LEMMA SbAppendfHolds ==
  ASSUME BuilderInv, NEW piece \in 0..SizeMax, NEW written \in 0..SizeMax,
         SbAppendf(piece, written)
  PROVE  BuilderInv'
<1>0. piece \in Nat /\ detached' = detached /\ detached \in Nat
  BY BuilderAssumption DEF SbAppendf, BuilderInv
<1>1. CASE sb.failed
  <2>1. sb' = sb /\ tracked' = tracked /\ wanted' = Append(wanted, piece)
    BY <1>1 DEF SbAppendf
  <2>2. Holds(sb)' /\ Counted(sb, tracked, detached)'
    BY <1>0, <2>1 DEF BuilderInv, Holds, Counted, Used
  <2>3. QED
    BY <1>0, <1>1, <2>1, <2>2, AppendHolds
<1>2. CASE ~sb.failed /\ piece = 0
  BY <1>2 DEF SbAppendf, BuilderInv, Holds, Counted, KeepsText, Used
<1>3. CASE ~sb.failed /\ piece # 0
  <2>1. PICK o \in Ensure(sb, piece) :
          /\ sb' = IF o.builder.failed \/ written = piece THEN With(o.builder, piece)
                   ELSE Failed([o.builder EXCEPT !.ends = Used(sb)])
          /\ tracked' = o.tracked /\ wanted' = Append(wanted, piece)
    BY <1>3 DEF SbAppendf
  <2>2. piece \in 1..SizeMax
    BY <1>3, BuilderAssumption
  <2>3. /\ Holds(o.builder) /\ Counted(o.builder, o.tracked, detached)
        /\ o.builder.text = sb.text
        /\ ~o.builder.failed => o.builder.allocated /\ Used(sb) + piece < o.builder.capacity
    BY <1>0, <2>2, EnsureHolds DEF BuilderInv
  <2>4. Used(o.builder) = Used(sb) /\ o.builder \in Builder
    BY <2>3 DEF Used, Holds
  <2>5. [o.builder EXCEPT !.ends = Used(sb)] = o.builder
    BY <2>3, <2>4 DEF Holds, Builder
  <2>6. /\ Holds(sb') /\ sb'.text = (IF sb'.failed THEN sb.text ELSE Append(sb.text, piece))
        /\ sb'.capacity = o.builder.capacity /\ sb'.allocated = o.builder.allocated
    <3>1. CASE o.builder.failed \/ written = piece
      BY <1>0, <2>1, <2>3, <2>4, <3>1, WithHolds
    <3>2. CASE ~(o.builder.failed \/ written = piece)
      <4>1. sb' = Failed(o.builder)
        BY <2>1, <2>5, <3>2
      <4>2. QED
        BY <2>3, <4>1, FailedHolds
    <3>3. QED
      BY <3>1, <3>2
  <2>7. Holds(sb)' /\ Counted(sb, tracked, detached)'
    BY <1>0, <2>1, <2>3, <2>6 DEF Holds, Counted, Used
  <2>8. QED
    BY <1>0, <1>3, <2>1, <2>6, <2>7, AppendHolds
<1>4. QED
  BY <1>1, <1>2, <1>3

(* sb_appendfv of a text that cannot be measured. *)
LEMMA SbAppendfFailsHolds == ASSUME BuilderInv, SbAppendfFails PROVE BuilderInv'
<1>1. sb' = Failed(sb) /\ wanted' = Append(wanted, 1) /\ tracked' = tracked /\ detached' = detached
  BY DEF SbAppendfFails
<1>2. /\ Holds(sb') /\ sb'.failed /\ sb'.text = sb.text /\ sb'.capacity = sb.capacity
      /\ sb'.allocated = sb.allocated
  BY <1>1, FailedHolds DEF BuilderInv
<1>3. Holds(sb)' /\ Counted(sb, tracked, detached)'
  BY <1>1, <1>2 DEF BuilderInv, Holds, Counted, Used
<1>4. QED
  BY <1>1, <1>2, <1>3, AppendHolds

(* sb_clear. *)
LEMMA SbClearHolds == ASSUME BuilderInv, SbClear PROVE BuilderInv'
<1>1. /\ sb' = [sb EXCEPT !.text = <<>>, !.ends = 0] /\ wanted' = <<>>
      /\ tracked' = tracked /\ detached' = detached /\ detached \in Nat
  BY DEF SbClear, BuilderInv
<1>2. /\ sb' \in Builder /\ sb'.text = <<>> /\ sb'.ends = 0 /\ sb'.failed = sb.failed
      /\ sb'.capacity = sb.capacity /\ sb'.allocated = sb.allocated
  <2>1. <<>> \in Seq(Nat) /\ 0 \in Nat
    OBVIOUS
  <2>2. QED
    BY <1>1, <2>1, InvFields DEF Builder
<1>3. Used(sb') = 0
  BY <1>2, LengthEmpty DEF Used
<1>4. sb.allocated => 0 < sb.capacity
  BY InvFields DEF BuilderInv, Holds
<1>5. ~sb.allocated => sb' = [Initial EXCEPT !.failed = sb'.failed]
  <2>1. ~sb.allocated => sb = [Initial EXCEPT !.failed = sb.failed]
    BY DEF BuilderInv, Holds
  <2>2. QED
    BY <1>1, <1>2, <2>1 DEF Initial, Builder
<1>6. Holds(sb)' /\ Counted(sb, tracked, detached)'
  BY <1>1, <1>2, <1>3, <1>4, <1>5 DEF BuilderInv, Holds, Counted
<1>7. QED
  BY <1>1, <1>2, <1>6, EmptyHolds

(* sb_init, sb_free: the count of what is allocated goes down with it. *)
LEMMA InitialAgain ==
  ASSUME BuilderInv, sb' = Initial, wanted' = <<>>, detached' = detached,
         tracked' = IF sb.allocated THEN Plus(-sb.capacity, -1) ELSE tracked
  PROVE  BuilderInv'
<1>1. detached \in Nat /\ Holds(sb)' /\ sb'.text = <<>>
  BY InvFields, InitialHolds DEF BuilderInv, Holds, Used
<1>2. tracked' = [bytes |-> detached, count |-> detached]
  <2>1. CASE sb.allocated
    <3>1. tracked = [bytes |-> sb.capacity + detached, count |-> 1 + detached]
      BY <2>1, InvFields
    <3>2. tracked' = [bytes |-> sb.capacity + detached + (-sb.capacity), count |-> 1 + detached + (-1)]
      BY <2>1, <3>1 DEF Plus
    <3>3. /\ sb.capacity + detached + (-sb.capacity) = detached
          /\ 1 + detached + (-1) = detached
      BY <1>1, InvFields
    <3>4. QED
      BY <3>2, <3>3
  <2>2. CASE ~sb.allocated
    <3>1. sb = [Initial EXCEPT !.failed = sb.failed]
      BY <2>2 DEF BuilderInv, Holds
    <3>2. sb.capacity = 0
      BY <3>1 DEF Initial
    <3>3. QED
      BY <1>1, <2>2, <3>2, InvFields
  <2>3. QED
    BY <2>1, <2>2
<1>3. Counted(sb, tracked, detached)'
  BY <1>1, <1>2, InvFields DEF Counted
<1>4. QED
  BY <1>1, <1>3, EmptyHolds

(* sb_detach. *)
LEMMA SbDetachHolds == ASSUME BuilderInv, SbDetach PROVE BuilderInv'
<1>1. CASE sb.allocated
  <2>1. PICK shrunk \in BOOLEAN : tracked' = Plus(-Uncounted(shrunk), -1)
    BY <1>1 DEF SbDetach
  <2>2. Uncounted(shrunk) = sb.capacity
    BY InvFields DEF Uncounted
  <2>3. sb' = Initial /\ wanted' = <<>> /\ detached' = detached
    BY <1>1 DEF SbDetach
  <2>4. QED
    BY <1>1, <2>1, <2>2, <2>3, InitialAgain
<1>2. CASE ~sb.allocated
  <2>1. sb' = sb /\ wanted' = wanted /\ sb.capacity \in Nat /\ detached \in Nat
    BY <1>2, InvFields DEF SbDetach, BuilderInv
  <2>2. /\ detached' \in Nat
        /\ tracked' = [bytes |-> sb.capacity + detached', count |-> 0 + detached']
    <3>1. tracked = [bytes |-> sb.capacity + detached, count |-> 0 + detached]
      BY <1>2, InvFields
    <3>2. CASE UNCHANGED <<tracked, detached>>
      BY <2>1, <3>1, <3>2
    <3>3. CASE tracked' = Plus(1, 1) /\ detached' = detached + 1
      <4>1. tracked' = [bytes |-> sb.capacity + detached + 1, count |-> 0 + detached + 1]
        BY <3>1, <3>3 DEF Plus
      <4>2. QED
        BY <2>1, <3>3, <4>1
    <3>4. QED
      BY <1>2, <3>2, <3>3 DEF SbDetach
  <2>3. Counted(sb, tracked, detached)'
    BY <1>2, <2>1, <2>2 DEF Counted
  <2>4. QED
    BY <2>1, <2>2, <2>3 DEF BuilderInv, Holds, Used, KeepsText
<1>3. QED
  BY <1>1, <1>2

(* Every call keeps the invariant. *)
LEMMA BuilderStep ==
  ASSUME BuilderInv, [BuilderNext]_builderVars
  PROVE  BuilderInv'
<1>1. ASSUME NEW n \in Capacities, SbInitWithCapacity(n) PROVE BuilderInv'
  BY <1>1, BuilderInitHolds, BuilderAssumption
<1>2. ASSUME NEW n \in Lengths, SbAppend(n) PROVE BuilderInv'
  BY <1>2, SbAppendHolds, BuilderAssumption
<1>3. ASSUME NEW n \in Lengths, NEW m \in Lengths, SbAppendf(n, m) PROVE BuilderInv'
  BY <1>3, SbAppendfHolds, BuilderAssumption
<1>4. CASE SbAppendfFails
  BY <1>4, SbAppendfFailsHolds
<1>5. CASE SbClear
  BY <1>5, SbClearHolds
<1>6. CASE SbFree
  BY <1>6, InitialAgain DEF SbFree
<1>7. CASE SbDetach
  BY <1>7, SbDetachHolds
<1>8. CASE UNCHANGED builderVars
  BY <1>8 DEF builderVars, BuilderInv, Holds, Counted, KeepsText, Used
<1>9. QED
  BY <1>1, <1>2, <1>3, <1>4, <1>5, <1>6, <1>7, <1>8 DEF BuilderNext

(* However a builder is used, and whatever malloc and realloc refuse: its text
   is all of what was appended, or if it failed the part before, it is ended
   where it stops, inside the buffer, and the memory counters say what the
   builder holds. *)
THEOREM BuilderIsExact == BuilderSpec => []BuilderExact
<1>1. BuilderInit => BuilderInv
  <2> SUFFICES ASSUME BuilderInit PROVE BuilderInv
    OBVIOUS
  <2>1. /\ sb = Initial /\ wanted = <<>> /\ detached = 0
        /\ tracked = [bytes |-> 0, count |-> 0]
    BY DEF BuilderInit
  <2>2. sb.text = <<>> /\ sb.capacity = 0 /\ ~sb.allocated /\ wanted \in Seq(Nat)
    BY <2>1 DEF Initial
  <2>3. Holds(sb) /\ KeepsText(sb, wanted)
    BY <2>1, <2>2, InitialHolds, KeepsNothing
  <2>4. QED
    BY <2>1, <2>2, <2>3 DEF BuilderInv, Counted
<1>2. BuilderInv /\ [BuilderNext]_builderVars => BuilderInv'
  BY BuilderStep
<1>3. BuilderInv => BuilderExact
  BY DEF BuilderInv, BuilderExact, Holds, Counted, KeepsText
<1>4. QED
  BY <1>1, <1>2, <1>3, PTL DEF BuilderSpec

------------------------------------------------------------------------------
(* The digest. *)

Block == [1..BlockSize -> Int]
ContextType == [total : Nat, block : Block, size : 0..BlockSize, done : Seq(Block), final : BOOLEAN]

(* Multiples of the size of a block. *)
LEMMA Blocks ==
  ASSUME NEW m \in Nat
  PROVE  /\ BlockSize \in Nat \ {0} /\ m * BlockSize \in Nat /\ m <= m * BlockSize
         /\ (m + 1) * BlockSize = m * BlockSize + BlockSize
         /\ \A i \in 1..m : (i - 1) * BlockSize \in Nat /\ (i - 1) * BlockSize + BlockSize <= m * BlockSize
<1>1. BlockSize \in Nat \ {0}
  BY Sha256Assumption
<1> DEFINE b == BlockSize
<1> HIDE DEF b
<1>2. b \in Nat \ {0}
  BY <1>1 DEF b
<1>3. m * b \in Nat /\ (m + 1) * b = m * b + b
  BY <1>2
<1>4. m <= m * b
  <2>1. PICK d \in Nat : b = d + 1
    <3>1. b - 1 \in Nat /\ b = (b - 1) + 1
      BY <1>2
    <3>2. QED
      BY <3>1
  <2>2. m * (d + 1) = m * d + m /\ m * d \in Nat
    OBVIOUS
  <2>3. QED
    BY <2>1, <2>2
<1>5. ASSUME NEW i \in 1..m
      PROVE (i - 1) * b \in Nat /\ (i - 1) * b + b <= m * b
  <2>1. PICK j \in Nat, d \in Nat : i = j + 1 /\ m = (j + d) + 1
    <3>1. i - 1 \in Nat /\ m - i \in Nat /\ i = (i - 1) + 1 /\ m = ((i - 1) + (m - i)) + 1
      OBVIOUS
    <3>2. QED
      BY <3>1
  <2>2. m * b = j * b + d * b + b /\ d * b \in Nat /\ j * b \in Nat
    BY <1>2, <2>1
  <2>3. i - 1 = j
    BY <2>1
  <2>4. QED
    BY <1>2, <2>2, <2>3
<1>6. QED
  BY <1>1, <1>3, <1>4, <1>5 DEF b

(* The parts of a context. *)
LEMMA ContextFields ==
  ASSUME NEW c \in ContextType
  PROVE  /\ c.total \in Nat /\ c.size \in 0..BlockSize /\ BlockSize \in Nat
         /\ c.block \in Block /\ c.done \in Seq(Block) /\ Len(c.done) \in Nat
         /\ c.final \in BOOLEAN /\ Len(c.done) * BlockSize \in Nat
         /\ (Len(c.done) + 1) * BlockSize = Len(c.done) * BlockSize + BlockSize
<1>1. /\ c.total \in Nat /\ c.size \in 0..BlockSize
      /\ c.block \in Block /\ c.done \in Seq(Block) /\ c.final \in BOOLEAN
  BY DEF ContextType
<1>2. Len(c.done) \in Nat
  BY <1>1
<1>3. QED
  BY <1>1, <1>2, Blocks

(* Bytes that follow what was taken, and fit. *)
LEMMA PutTakes ==
  ASSUME NEW c \in ContextType, NEW bytes \in Seq(Int), c.size + Len(bytes) <= BlockSize
  PROVE  /\ Put(c, bytes) \in ContextType /\ Put(c, bytes).size = c.size + Len(bytes)
         /\ Put(c, bytes).total = c.total /\ Put(c, bytes).done = c.done
         /\ Put(c, bytes).final = c.final
         /\ Taken(Put(c, bytes)) = Taken(c) + Len(bytes)
         /\ \A k \in 1..BlockSize :
              Put(c, bytes).block[k] = IF k \in c.size + 1 .. c.size + Len(bytes)
                                       THEN bytes[k - c.size] ELSE c.block[k]
<1> DEFINE block == [k \in 1..BlockSize |-> IF k \in c.size + 1 .. c.size + Len(bytes)
                                            THEN bytes[k - c.size] ELSE c.block[k]]
<1>1. /\ c.size \in 0..BlockSize /\ BlockSize \in Nat /\ c.done \in Seq(Block) /\ c.block \in Block
      /\ Len(bytes) \in Nat /\ Len(c.done) \in Nat
  BY ContextFields
<1>2. block \in Block
  <2>1. ASSUME NEW k \in 1..BlockSize PROVE block[k] \in Int
    <3>1. CASE k \in c.size + 1 .. c.size + Len(bytes)
      <4>1. k - c.size \in 1..Len(bytes)
        BY <1>1, <3>1
      <4>2. bytes[k - c.size] \in Int
        BY <4>1
      <4>3. QED
        BY <3>1, <4>2
    <3>2. CASE k \notin c.size + 1 .. c.size + Len(bytes)
      BY <1>1, <3>2 DEF Block
    <3>3. QED
      BY <3>1, <3>2
  <2>2. QED
    BY <2>1 DEF Block
<1>3. PICK new \in Block, size \in 0..BlockSize : new = block /\ size = c.size + Len(bytes)
  <2>1. c.size + Len(bytes) \in 0..BlockSize
    BY <1>1
  <2> HIDE DEF block
  <2>2. QED
    BY <1>2, <2>1
<1>4. Put(c, bytes) = [c EXCEPT !.block = new, !.size = size]
  BY <1>3 DEF Put
<1>5. /\ Put(c, bytes) \in ContextType /\ Put(c, bytes).block = new /\ Put(c, bytes).size = size
      /\ Put(c, bytes).total = c.total /\ Put(c, bytes).done = c.done /\ Put(c, bytes).final = c.final
  <2> HIDE DEF block
  <2>1. QED
    BY <1>4 DEF ContextType
<1>6. Taken(Put(c, bytes)) = Taken(c) + Len(bytes)
  <2>1. Len(c.done) * BlockSize \in Nat
    BY <1>1, Blocks
  <2>2. QED
    BY <1>1, <1>3, <1>5, <2>1 DEF Taken
<1>7. QED
  BY <1>3, <1>5, <1>6

(* What is put agrees with the message it is taken from. *)
LEMMA PutAgrees ==
  ASSUME NEW c \in ContextType, NEW bytes \in Seq(Int), c.size + Len(bytes) <= BlockSize,
         NEW all, Agrees(c, all), \A k \in 1..Len(bytes) : bytes[k] = all[Taken(c) + k]
  PROVE  Agrees(Put(c, bytes), all)
<1> DEFINE p == Put(c, bytes)
           base == Len(c.done) * BlockSize
<1>1. /\ p.size = c.size + Len(bytes) /\ p.done = c.done
      /\ \A k \in 1..BlockSize : p.block[k] = IF k \in c.size + 1 .. c.size + Len(bytes)
                                              THEN bytes[k - c.size] ELSE c.block[k]
  BY PutTakes
<1>2. /\ c.size \in 0..BlockSize /\ BlockSize \in Nat /\ Len(bytes) \in Nat /\ base \in Nat
      /\ Taken(c) = base + c.size
  BY ContextFields DEF Taken
<1> HIDE DEF p, base
<1>3. ASSUME NEW k \in 1..p.size PROVE p.block[k] = all[base + k]
  <2>1. k \in 1..BlockSize
    BY <1>1, <1>2
  <2>2. CASE k \in c.size + 1 .. c.size + Len(bytes)
    <3>1. k - c.size \in 1..Len(bytes) /\ Taken(c) + (k - c.size) = base + k
      BY <1>2, <2>2
    <3>2. bytes[k - c.size] = all[base + k]
      BY <3>1
    <3>3. QED
      BY <1>1, <2>1, <2>2, <3>2
  <2>3. CASE k \notin c.size + 1 .. c.size + Len(bytes)
    <3>1. k \in 1..c.size
      BY <1>1, <1>2, <2>3
    <3>2. QED
      BY <1>1, <2>1, <2>3, <3>1 DEF Agrees, base
  <2>4. QED
    BY <2>2, <2>3
<1>4. QED
  BY <1>1, <1>3 DEF Agrees, p, base

(* A full block is handed over whole. *)
LEMMA TransformTakes ==
  ASSUME NEW c \in ContextType, c.size = BlockSize
  PROVE  /\ Transform(c) \in ContextType /\ Transform(c).size = 0
         /\ Transform(c).total = c.total /\ Transform(c).final = c.final
         /\ Transform(c).done = Append(c.done, c.block)
         /\ Taken(Transform(c)) = Taken(c)
<1>1. /\ c.done \in Seq(Block) /\ c.block \in Block /\ Len(c.done) \in Nat /\ BlockSize \in Nat
      /\ Len(c.done) * BlockSize \in Nat
      /\ (Len(c.done) + 1) * BlockSize = Len(c.done) * BlockSize + BlockSize
  BY ContextFields
<1>2. PICK done \in Seq(Block) : done = Append(c.done, c.block)
  <2>1. Append(c.done, c.block) \in Seq(Block)
    BY <1>1
  <2>2. QED
    BY <2>1
<1>3. Len(done) = Len(c.done) + 1
  BY <1>1, <1>2
<1>4. Transform(c) = [c EXCEPT !.done = done, !.size = 0]
  BY <1>2 DEF Transform
<1>5. /\ Transform(c) \in ContextType /\ Transform(c).size = 0 /\ Transform(c).done = done
      /\ Transform(c).total = c.total /\ Transform(c).final = c.final
  <2>1. 0 \in 0..BlockSize
    BY <1>1
  <2>2. QED
    BY <1>4, <2>1, Zenon DEF ContextType
<1>6. QED
  BY <1>1, <1>2, <1>3, <1>5 DEF Taken

(* Handing a block over changes nothing of what was taken. *)
LEMMA TransformAgrees ==
  ASSUME NEW c \in ContextType, c.size = BlockSize, NEW all, Agrees(c, all)
  PROVE  Agrees(Transform(c), all)
<1> DEFINE t == Transform(c)
           n == Len(c.done)
<1>1. /\ t.done = Append(c.done, c.block) /\ t.size = 0
      /\ c.done \in Seq(Block) /\ c.block \in Block /\ n \in Nat
  BY TransformTakes, ContextFields
<1>2. DOMAIN t.done = 1..n+1 /\ t.done[n+1] = c.block /\ \A i \in 1..n : t.done[i] = c.done[i]
  BY <1>1
<1>3. ASSUME NEW i \in DOMAIN t.done, NEW k \in 1..BlockSize
      PROVE  t.done[i][k] = all[(i - 1) * BlockSize + k]
  <2>1. CASE i = n + 1
    <3>1. i - 1 = n
      BY <1>1, <2>1
    <3>2. c.block[k] = all[n * BlockSize + k]
      BY DEF Agrees
    <3>3. QED
      BY <1>2, <2>1, <3>1, <3>2
  <2>2. CASE i # n + 1
    <3>1. i \in 1..n
      BY <1>1, <1>2, <2>2
    <3>2. i \in DOMAIN c.done
      BY <1>1, <3>1
    <3>3. QED
      BY <1>2, <3>1, <3>2 DEF Agrees
  <2>3. QED
    BY <2>1, <2>2
<1>4. \A k \in 1..t.size : FALSE
  BY <1>1
<1>5. QED
  BY <1>3, <1>4 DEF Agrees

(* Agreement is about the bytes taken. *)
LEMMA AgreesWithLonger ==
  ASSUME NEW c \in ContextType, NEW all, NEW more, Agrees(c, all),
         \A j \in 1..Taken(c) : more[j] = all[j]
  PROVE  Agrees(c, more)
<1> DEFINE n == Len(c.done)
<1>1. n \in Nat /\ DOMAIN c.done = 1..n /\ c.size \in Nat /\ n * BlockSize \in Nat /\ BlockSize \in Nat
  BY ContextFields
<1>2. Taken(c) = n * BlockSize + c.size
  BY DEF Taken
<1>3. ASSUME NEW i \in DOMAIN c.done, NEW k \in 1..BlockSize
      PROVE  c.done[i][k] = more[(i - 1) * BlockSize + k]
  <2>1. /\ (i - 1) * BlockSize \in Nat
        /\ (i - 1) * BlockSize + BlockSize <= n * BlockSize
    BY <1>1, Blocks
  <2>2. (i - 1) * BlockSize + k \in 1..Taken(c)
    <3>1. PICK m \in Nat : m = (i - 1) * BlockSize
      BY <2>1
    <3>2. PICK u \in Nat : u = n * BlockSize
      BY <1>1
    <3>3. m + BlockSize <= u /\ k \in Nat /\ k >= 1 /\ k <= BlockSize /\ c.size \in Nat
      BY <1>1, <2>1, <3>1, <3>2
    <3>4. PICK b \in Nat : b = BlockSize
      BY <1>1
    <3>5. m + k \in Nat /\ m + k >= 1 /\ m + k <= u + c.size
      BY <3>3, <3>4
    <3>6. QED
      BY <1>2, <3>1, <3>2, <3>5
  <2>3. QED
    BY <2>2 DEF Agrees
<1>4. ASSUME NEW k \in 1..c.size
      PROVE  c.block[k] = more[n * BlockSize + k]
  <2>1. n * BlockSize + k \in 1..Taken(c)
    BY <1>1, <1>2
  <2>2. QED
    BY <2>1 DEF Agrees
<1>5. QED
  BY <1>3, <1>4 DEF Agrees

----------------------------------------------------------------------------
(* Updates. *)
Open == {c \in ContextType : c.size < BlockSize}

(* One byte of an update. *)
LEMMA FedHolds ==
  ASSUME NEW c \in Open, NEW byte \in Int
  PROVE  /\ Fed(c, byte) \in Open /\ Taken(Fed(c, byte)) = Taken(c) + 1
         /\ Fed(c, byte).total = c.total /\ Fed(c, byte).final = c.final
         /\ \A all : Agrees(c, all) /\ byte = all[Taken(c) + 1] => Agrees(Fed(c, byte), all)
<1> DEFINE bytes == <<byte>>
           more == Put(c, bytes)
<1>1. bytes \in Seq(Int) /\ Len(bytes) = 1 /\ bytes[1] = byte
  OBVIOUS
<1>2. c \in ContextType /\ c.size + Len(bytes) <= BlockSize /\ BlockSize \in Nat \ {0}
  BY <1>1, ContextFields, Sha256Assumption DEF Open
<1>3. Fed(c, byte) = IF more.size = BlockSize THEN Transform(more) ELSE more
  BY DEF Fed
<1> HIDE DEF bytes
<1>4. /\ more \in ContextType /\ Taken(more) = Taken(c) + 1 /\ more.total = c.total
      /\ more.final = c.final
  BY <1>1, <1>2, PutTakes
<1>5. ASSUME NEW all, Agrees(c, all), byte = all[Taken(c) + 1] PROVE Agrees(more, all)
  <2>1. \A k \in 1..Len(bytes) : bytes[k] = all[Taken(c) + k]
    <3>1. \A k \in 1..Len(bytes) : k = 1
      BY <1>1
    <3>2. QED
      BY <1>1, <1>5, <3>1
  <2>2. QED
    BY <1>1, <1>2, <1>5, <2>1, PutAgrees
<1> HIDE DEF more
<1>6. CASE more.size = BlockSize
  <2>1. Fed(c, byte) = Transform(more)
    BY <1>3, <1>6
  <2>2. /\ Transform(more) \in ContextType /\ Transform(more).size = 0
        /\ Transform(more).total = c.total /\ Transform(more).final = c.final
        /\ Taken(Transform(more)) = Taken(c) + 1
    BY <1>4, <1>6, TransformTakes
  <2>3. \A all : Agrees(more, all) => Agrees(Transform(more), all)
    BY <1>4, <1>6, TransformAgrees
  <2>4. Transform(more) \in Open
    BY <1>2, <2>2 DEF Open
  <2>5. QED
    BY <1>5, <2>1, <2>2, <2>3, <2>4
<1>7. CASE more.size # BlockSize
  <2>1. Fed(c, byte) = more
    BY <1>3, <1>7
  <2>2. more \in Open
    BY <1>2, <1>4, <1>7, ContextFields DEF Open
  <2>3. QED
    BY <1>4, <1>5, <2>1, <2>2
<1>8. QED
  BY <1>6, <1>7

(* The loop of common_sha256_update, byte by byte. *)
LEMMA FeedingSteps ==
  ASSUME NEW context \in Open, NEW input \in Seq(Int)
  PROVE  LET h == Feeding(context, input)
             first == [context EXCEPT !.total = @ + Len(input)]
         IN /\ h[0] = first
            /\ \A n \in 1..Len(input) : h[n] = Fed(h[n-1], input[n])
            /\ first \in Open /\ first.total = context.total + Len(input)
            /\ first.done = context.done /\ first.block = context.block
            /\ first.size = context.size /\ first.final = context.final
<1> DEFINE N == Len(input)
           first == [context EXCEPT !.total = @ + Len(input)]
           Is(h) == h = [n \in 0..N |-> IF n = 0 THEN first ELSE Fed(h[n-1], input[n])]
           step == [n \in 1..N |-> [c \in Open |-> Fed(c, input[n])]]
           h == Feeding(context, input)
<1>1. N \in Nat /\ \A n \in 1..N : input[n] \in Int
  OBVIOUS
<1>2. /\ first \in Open /\ first.total = context.total + Len(input)
      /\ first.done = context.done /\ first.block = context.block
      /\ first.size = context.size /\ first.final = context.final
  <2>1. context \in ContextType /\ context.total \in Nat /\ context.size < BlockSize
    BY ContextFields DEF Open
  <2>2. PICK total \in Nat : total = context.total + Len(input)
    <3>1. context.total + Len(input) \in Nat
      BY <1>1, <2>1
    <3>2. QED
      BY <3>1
  <2>3. first = [context EXCEPT !.total = total]
    BY <2>2
  <2>4. /\ first \in ContextType /\ first.total = total
        /\ first.done = context.done /\ first.block = context.block
        /\ first.size = context.size /\ first.final = context.final
    BY <2>1, <2>3 DEF ContextType
  <2> HIDE DEF first
  <2>5. QED
    BY <2>1, <2>2, <2>4 DEF Open
<1>3. h = CHOOSE f : Is(f)
  BY DEF Feeding
<1> HIDE DEF first, N
<1>4. step \in [1..N -> [Open -> Open]]
  BY <1>1, FedHolds
<1>5. PICK g : Iterates(g, N, Open, first, step)
  <2> HIDE DEF step
  <2>1. QED
    BY <1>1, <1>2, <1>4, RecursionUpTo, Zenon
<1>6. g \in [0..N -> Open] /\ g[0] = first /\ \A n \in 1..N : g[n] = step[n][g[n-1]]
  <2> HIDE DEF step
  <2>1. QED
    BY <1>5 DEF Iterates
<1>7. ASSUME NEW n \in 1..N PROVE g[n] = Fed(g[n-1], input[n])
  <2>1. g[n-1] \in Open
    BY <1>1, <1>6
  <2>2. step[n][g[n-1]] = Fed(g[n-1], input[n])
    BY <2>1
  <2>3. QED
    BY <1>6, <2>2
<1>8. Is(g)
  <2>1. \A n \in 0..N : n # 0 => n \in 1..N
    BY <1>1
  <2>2. QED
    BY <1>6, <1>7, <2>1
<1>9. Is(h)
  <2> HIDE DEF Is, h
  <2>1. QED
    BY <1>3, <1>8
<1>10. h[0] = first /\ \A n \in 1..N : h[n] = Fed(h[n-1], input[n])
  <2>1. 0 \in 0..N /\ \A n \in 1..N : n \in 0..N /\ n # 0
    BY <1>1
  <2> HIDE DEF h
  <2>2. QED
    BY <1>9, <2>1
<1> HIDE DEF h, Is
<1>11. QED
  BY <1>2, <1>10 DEF h, N, first

(* An update takes its bytes, wherever the block was. *)
LEMMA UpdatedHolds ==
  ASSUME NEW context \in Open, NEW input \in Seq(Int), NEW all, Agrees(context, all),
         \A k \in 1..Len(input) : input[k] = all[Taken(context) + k]
  PROVE  /\ Updated(context, input) \in Open
         /\ Updated(context, input).total = context.total + Len(input)
         /\ Updated(context, input).final = context.final
         /\ Taken(Updated(context, input)) = Taken(context) + Len(input)
         /\ Agrees(Updated(context, input), all)
<1> DEFINE N == Len(input)
           h == Feeding(context, input)
           first == [context EXCEPT !.total = @ + Len(input)]
<1>1. N \in Nat /\ \A n \in 1..N : input[n] \in Int
  OBVIOUS
<1>2. /\ h[0] = first /\ \A n \in 1..N : h[n] = Fed(h[n-1], input[n])
      /\ first \in Open /\ first.total = context.total + N
      /\ first.done = context.done /\ first.block = context.block
      /\ first.size = context.size /\ first.final = context.final
  BY FeedingSteps
<1>3. context \in ContextType /\ Taken(context) \in Nat
  BY ContextFields DEF Open, Taken
<1> HIDE DEF first, h, N
<1> DEFINE Good(c, i) == /\ c \in Open /\ Taken(c) = Taken(context) + i
                         /\ c.total = context.total + N /\ c.final = context.final
                         /\ Agrees(c, all)
           T == {i \in 0..N : Good(h[i], i)}
<1>4. 0 \in T
  <2>1. Taken(first) = Taken(context) /\ Agrees(first, all)
    BY <1>2 DEF Taken, Agrees
  <2>2. QED
    BY <1>1, <1>2, <1>3, <2>1
<1>5. ASSUME NEW i \in 1..N, i - 1 \in T PROVE i \in T
  <2> DEFINE c == h[i-1]
             byte == input[i]
  <2>1. Good(c, i - 1) /\ h[i] = Fed(c, byte) /\ byte \in Int
    BY <1>1, <1>2, <1>5
  <2> HIDE DEF c, byte
  <2>2. Taken(c) = Taken(context) + (i - 1) /\ Taken(c) + 1 = Taken(context) + i
    BY <1>3, <2>1
  <2>3. byte = all[Taken(c) + 1]
    BY <2>2 DEF byte, N
  <2>4. Good(Fed(c, byte), i)
    BY <2>1, <2>2, <2>3, FedHolds
  <2> HIDE DEF Good
  <2>5. QED
    BY <1>1, <2>1, <2>4
<1>6. N \in T
  <2> HIDE DEF T
  <2>1. \A i \in 0..N : i \in T
    BY <1>1, <1>4, <1>5, InductionUpTo
  <2>2. QED
    BY <1>1, <2>1
<1>7. Updated(context, input) = h[N]
  BY DEF Updated, h, N
<1>8. QED
  BY <1>6, <1>7 DEF N

----------------------------------------------------------------------------
(* The padding. *)
LEMMA ZerosAre ==
  ASSUME NEW blocks \in Nat, NEW size \in 0 .. BlockSize - 1
  PROVE  Zeros(blocks * BlockSize + size) =
           IF size + 1 > LengthAt THEN (BlockSize - size - 1) + LengthAt ELSE LengthAt - size - 1
<1> DEFINE n == blocks * BlockSize + size
           z0 == IF size + 1 > LengthAt THEN (BlockSize - size - 1) + LengthAt ELSE LengthAt - size - 1
           m0 == IF size + 1 > LengthAt THEN blocks + 2 ELSE blocks + 1
           Fits(z, m) == n + 1 + z + (BlockSize - LengthAt) = m * BlockSize
<1>1. /\ BlockSize \in Nat \ {0} /\ LengthAt \in Nat /\ LengthAt < BlockSize
      /\ blocks * BlockSize \in Nat /\ blocks <= blocks * BlockSize
      /\ (blocks + 1) * BlockSize = blocks * BlockSize + BlockSize
      /\ (blocks + 2) * BlockSize = blocks * BlockSize + BlockSize + BlockSize
  <2>1. blocks + 1 \in Nat /\ (blocks + 1) + 1 = blocks + 2
    OBVIOUS
  <2>2. QED
    BY <2>1, Blocks, Sha256Assumption
<1>2. z0 \in 0 .. BlockSize - 1 /\ m0 \in 1 .. n + 2 /\ n \in Nat
  BY <1>1
<1>3. Fits(z0, m0)
  BY <1>1
<1>4. ASSUME NEW z \in 0 .. BlockSize - 1, NEW m \in 1 .. n + 2, Fits(z, m)
      PROVE  z = z0
  <2>1. m \in Nat /\ m0 \in Nat /\ m * BlockSize \in Nat /\ m0 * BlockSize \in Nat
    BY <1>2, Blocks
  <2>2. ASSUME NEW a \in Nat, NEW b \in Nat, a < b PROVE a * BlockSize + BlockSize <= b * BlockSize
    <3>1. a + 1 \in 1..b /\ (a + 1) - 1 = a
      BY <2>2
    <3>2. QED
      BY <3>1, Blocks
  <2> HIDE DEF m0, z0, n
  <2>3. CASE m < m0
    <3>1. m * BlockSize + BlockSize <= m0 * BlockSize
      BY <2>1, <2>2, <2>3
    <3>2. QED
      BY <1>1, <1>2, <1>3, <1>4, <2>1, <3>1
  <2>4. CASE m > m0
    <3>1. m0 * BlockSize + BlockSize <= m * BlockSize
      BY <2>1, <2>2, <2>4
    <3>2. QED
      BY <1>1, <1>2, <1>3, <1>4, <2>1, <3>1
  <2>5. CASE m = m0
    BY <1>1, <1>2, <1>3, <1>4, <2>5
  <2>6. QED
    BY <2>1, <2>3, <2>4, <2>5
<1>5. Zeros(n) = CHOOSE z \in 0 .. BlockSize - 1 : \E m \in 1 .. n + 2 : Fits(z, m)
  BY DEF Zeros
<1> HIDE DEF z0, m0, n, Fits
<1>6. Zeros(n) = z0
  BY <1>2, <1>3, <1>4, <1>5
<1>7. QED
  BY <1>6 DEF n, z0

(* What two sequences in a row are at each place. *)
LEMMA Joined ==
  ASSUME NEW s \in Seq(Int), NEW t \in Seq(Int)
  PROVE  /\ s \o t \in Seq(Int) /\ Len(s \o t) = Len(s) + Len(t)
         /\ Len(s) \in Nat /\ Len(t) \in Nat
         /\ \A k \in 1..Len(s) : (s \o t)[k] = s[k]
         /\ \A k \in 1..Len(t) : (s \o t)[Len(s) + k] = t[k]
<1>1. /\ s \o t \in Seq(Int) /\ Len(s \o t) = Len(s) + Len(t)
      /\ Len(s) \in Nat /\ Len(t) \in Nat
      /\ \A k \in 1..Len(s) : (s \o t)[k] = s[k]
  OBVIOUS
<1>2. ASSUME NEW k \in 1..Len(t) PROVE (s \o t)[Len(s) + k] = t[k]
  <2>1. /\ Len(s) + k \in 1 .. Len(s) + Len(t) /\ Len(s) + k > Len(s)
        /\ (Len(s) + k) - Len(s) = k
    BY <1>1
  <2>2. (s \o t)[Len(s) + k] = t[(Len(s) + k) - Len(s)]
    BY <2>1
  <2>3. QED
    BY <2>1, <2>2
<1>3. QED
  BY <1>1, <1>2

(* The message, the marker, the zeros and the length, each at its place. *)
LEMMA PaddedBytes ==
  ASSUME NEW n \in Nat, NEW z \in Nat, z = Zeros(n)
  PROVE  /\ Padded(n) \in Seq(Int) /\ Len(Padded(n)) = n + 1 + z + (BlockSize - LengthAt)
         /\ \A k \in 1..n : Padded(n)[k] = k
         /\ Padded(n)[n + 1] = Marker
         /\ \A k \in 1..z : Padded(n)[n + 1 + k] = Zero
         /\ \A k \in 1 .. BlockSize - LengthAt : Padded(n)[n + 1 + z + k] = Bits(n)
<1> DEFINE message == [k \in 1..n |-> k]
           zeros == [k \in 1..z |-> Zero]
           room == BlockSize - LengthAt
           bits == [k \in 1..room |-> Bits(n)]
           marked == message \o <<Marker>>
           filled == marked \o zeros
<1>1. room \in Nat /\ Bits(n) \in Int /\ Zero \in Int /\ Marker \in Int
  BY Sha256Assumption DEF Bits, Zero, Marker
<1>2. Padded(n) = filled \o bits
  BY DEF Padded
<1>3. /\ message \in Seq(Int) /\ Len(message) = n /\ \A k \in 1..n : message[k] = k
      /\ <<Marker>> \in Seq(Int) /\ Len(<<Marker>>) = 1 /\ <<Marker>>[1] = Marker
  BY <1>1
<1>4. zeros \in Seq(Int) /\ Len(zeros) = z /\ \A k \in 1..z : zeros[k] = Zero
  BY <1>1
<1> HIDE DEF room
<1>5. bits \in Seq(Int) /\ Len(bits) = room /\ \A k \in 1..room : bits[k] = Bits(n)
  BY <1>1
<1> HIDE DEF message, zeros, bits
<1>6. /\ marked \in Seq(Int) /\ Len(marked) = n + 1 /\ \A k \in 1..n : marked[k] = k
      /\ marked[n + 1] = Marker
  BY <1>3, Joined
<1> HIDE DEF marked
<1>7. /\ filled \in Seq(Int) /\ Len(filled) = n + 1 + z /\ \A k \in 1..n+1 : filled[k] = marked[k]
      /\ \A k \in 1..z : filled[n + 1 + k] = Zero
  <2>1. marked \in Seq(Int) /\ zeros \in Seq(Int)
    BY <1>4, <1>6
  <2>2. /\ filled \in Seq(Int) /\ Len(filled) = Len(marked) + Len(zeros)
        /\ \A k \in 1..Len(marked) : filled[k] = marked[k]
        /\ \A k \in 1..Len(zeros) : filled[Len(marked) + k] = zeros[k]
    BY <2>1, Joined
  <2> HIDE DEF filled
  <2>3. QED
    BY <1>4, <1>6, <2>2
<1> HIDE DEF filled
<1>8. /\ Padded(n) \in Seq(Int) /\ Len(Padded(n)) = n + 1 + z + room
      /\ \A k \in 1 .. n+1+z : Padded(n)[k] = filled[k]
      /\ \A k \in 1..room : Padded(n)[n + 1 + z + k] = Bits(n)
  <2>1. filled \in Seq(Int) /\ bits \in Seq(Int)
    BY <1>5, <1>7
  <2>2. /\ Padded(n) \in Seq(Int) /\ Len(Padded(n)) = Len(filled) + Len(bits)
        /\ \A k \in 1..Len(filled) : Padded(n)[k] = filled[k]
        /\ \A k \in 1..Len(bits) : Padded(n)[Len(filled) + k] = bits[k]
    BY <1>2, <2>1, Joined
  <2> HIDE DEF filled
  <2>3. QED
    BY <1>5, <1>7, <2>2
<1>9. \A k \in 1..n : Padded(n)[k] = k
  <2>1. \A k \in 1..n : k \in 1..n+1 /\ k \in 1 .. n+1+z
    OBVIOUS
  <2>2. QED
    BY <1>6, <1>7, <1>8, <2>1
<1>10. Padded(n)[n + 1] = Marker
  <2>1. n + 1 \in 1..n+1 /\ n + 1 \in 1 .. n+1+z
    OBVIOUS
  <2>2. QED
    BY <1>6, <1>7, <1>8, <2>1
<1>11. \A k \in 1..z : Padded(n)[n + 1 + k] = Zero
  <2>1. \A k \in 1..z : n + 1 + k \in 1 .. n+1+z
    OBVIOUS
  <2>2. QED
    BY <1>7, <1>8, <2>1
<1>12. QED
  BY <1>8, <1>9, <1>10, <1>11 DEF room

(* Filling a block up to a place. *)
LEMMA FillHolds ==
  ASSUME NEW c \in ContextType, NEW byte \in Int, NEW upTo \in c.size..BlockSize,
         NEW all, Agrees(c, all), \A k \in 1 .. upTo - c.size : byte = all[Taken(c) + k]
  PROVE  /\ Fill(c, byte, upTo) \in ContextType /\ Fill(c, byte, upTo).size = upTo
         /\ Fill(c, byte, upTo).total = c.total /\ Fill(c, byte, upTo).final = c.final
         /\ Taken(Fill(c, byte, upTo)) = Taken(c) + (upTo - c.size)
         /\ Agrees(Fill(c, byte, upTo), all)
<1> DEFINE bytes == [k \in 1 .. upTo - c.size |-> byte]
<1>1. upTo - c.size \in Nat /\ c.size \in Nat /\ upTo \in Nat /\ upTo <= BlockSize
  BY ContextFields
<1>2. /\ bytes \in Seq(Int) /\ Len(bytes) = upTo - c.size
      /\ \A k \in 1..Len(bytes) : bytes[k] = all[Taken(c) + k]
  BY <1>1
<1>3. Fill(c, byte, upTo) = Put(c, bytes)
  BY DEF Fill
<1> HIDE DEF bytes
<1>4. c.size + Len(bytes) = upTo /\ c.size + Len(bytes) <= BlockSize
  BY <1>1, <1>2
<1>5. QED
  BY <1>2, <1>3, <1>4, PutTakes, PutAgrees

(* The end: in the open block, or in one more. *)
LEMMA FinishedHolds ==
  ASSUME NEW context \in Open, Taken(context) = context.total,
         Agrees(context, Padded(context.total))
  PROVE  /\ Finished(context) \in ContextType /\ Finished(context).size = 0
         /\ Finished(context).total = context.total
         /\ Taken(Finished(context)) = Len(Padded(context.total))
         /\ Agrees(Finished(context), Padded(context.total))
<1> DEFINE n == context.total
           size == context.size
           z == Zeros(n)
           all == Padded(n)
           marker == <<Marker>>
           marked == Put(context, marker)
           full == Fill(marked, Zero, BlockSize)
           c == IF marked.size > LengthAt THEN Transform(full) ELSE marked
           ready == Fill(c, Zero, LengthAt)
           last == Fill(ready, Bits(n), BlockSize)
<1>0. /\ context \in ContextType /\ size \in 0 .. BlockSize - 1 /\ n \in Nat
      /\ LengthAt \in Nat /\ LengthAt < BlockSize /\ BlockSize \in Nat \ {0}
      /\ n = Len(context.done) * BlockSize + size /\ Len(context.done) \in Nat
  BY ContextFields, Sha256Assumption DEF Open, Taken
<1>1. /\ context \in ContextType /\ size \in 0 .. BlockSize - 1 /\ n \in Nat
      /\ LengthAt \in Nat /\ LengthAt < BlockSize /\ BlockSize \in Nat \ {0}
  BY <1>0
<1>2. z = IF size + 1 > LengthAt THEN (BlockSize - size - 1) + LengthAt ELSE LengthAt - size - 1
  BY <1>0, ZerosAre
<1>3. z \in Nat
  BY <1>1, <1>2
<1>4. /\ Len(all) = n + 1 + z + (BlockSize - LengthAt) /\ all[n + 1] = Marker
      /\ \A k \in 1..z : all[n + 1 + k] = Zero
      /\ \A k \in 1 .. BlockSize - LengthAt : all[n + 1 + z + k] = Bits(n)
  <2> HIDE DEF n
  <2>1. QED
    BY <1>1, <1>3, PaddedBytes
<1>5. Zero \in Int /\ Bits(n) \in Int /\ Marker \in Int
  BY <1>1 DEF Zero, Bits, Marker
<1>6. marker \in Seq(Int) /\ Len(marker) = 1 /\ marker[1] = Marker
  BY <1>5
<1>7. Finished(context) = Transform(last)
  BY DEF Finished
<1>8. Agrees(context, all) /\ Taken(context) = n
  OBVIOUS
<1> HIDE DEF n, size, z, all, marker
<1>9. /\ marked \in ContextType /\ marked.size = size + 1 /\ marked.total = n
      /\ Taken(marked) = n + 1 /\ Agrees(marked, all)
  <2>1. context.size + Len(marker) <= BlockSize
    BY <1>1, <1>6 DEF size
  <2>2. \A k \in 1..Len(marker) : marker[k] = all[Taken(context) + k]
    <3>1. \A k \in 1..Len(marker) : k = 1
      BY <1>6
    <3>2. QED
      BY <1>4, <1>6, <1>8, <3>1
  <2>3. context.size + Len(marker) = size + 1 /\ context.total = n /\ Taken(context) + Len(marker) = n + 1
    BY <1>1, <1>6, <1>8 DEF size, n
  <2>4. marked = Put(context, marker)
    OBVIOUS
  <2> HIDE DEF marked
  <2>5. Agrees(marked, all)
    BY <1>1, <1>6, <1>8, <2>1, <2>2, <2>4, PutAgrees
  <2>6. QED
    BY <1>1, <1>6, <2>1, <2>3, <2>4, <2>5, PutTakes
<1> HIDE DEF marked
<1>10. /\ c \in ContextType /\ c.total = n /\ Agrees(c, all)
       /\ c.size \in 0..LengthAt /\ Taken(c) + (LengthAt - c.size) = n + 1 + z
       /\ Taken(c) \in Nat /\ Taken(c) >= n + 1
  <2>1. CASE size + 1 > LengthAt
    <3>1. BlockSize \in marked.size..BlockSize /\ z = (BlockSize - marked.size) + LengthAt
      BY <1>1, <1>2, <1>9, <2>1
    <3>2. \A k \in 1 .. BlockSize - marked.size : Zero = all[Taken(marked) + k]
      <4>1. \A k \in 1 .. BlockSize - marked.size : k \in 1..z
        BY <1>1, <1>9, <3>1
      <4>2. QED
        BY <1>4, <1>9, <4>1
    <3>3. /\ full \in ContextType /\ full.size = BlockSize /\ full.total = n
          /\ Taken(full) = n + 1 + (BlockSize - marked.size) /\ Agrees(full, all)
      BY <1>5, <1>9, <3>1, <3>2, FillHolds
    <3> HIDE DEF full
    <3>4. /\ Transform(full) \in ContextType /\ Transform(full).size = 0
          /\ Transform(full).total = n
          /\ Taken(Transform(full)) = n + 1 + (BlockSize - marked.size)
          /\ Agrees(Transform(full), all)
      BY <3>3, TransformTakes, TransformAgrees
    <3>5. c = Transform(full)
      BY <1>9, <2>1
    <3> HIDE DEF c
    <3>6. BlockSize - marked.size \in Nat
      BY <1>1, <1>9
    <3>7. /\ c.size \in 0..LengthAt /\ Taken(c) \in Nat /\ Taken(c) >= n + 1
          /\ Taken(c) + (LengthAt - c.size) = n + 1 + z
      <4>1. c.size = 0 /\ Taken(c) = n + 1 + (BlockSize - marked.size)
        BY <3>4, <3>5
      <4>2. QED
        BY <1>1, <3>1, <3>6, <4>1
    <3>8. QED
      BY <3>4, <3>5, <3>7
  <2>2. CASE ~(size + 1 > LengthAt)
    <3>1. c = marked
      BY <1>9, <2>2
    <3> HIDE DEF c
    <3>2. QED
      BY <1>1, <1>2, <1>9, <2>2, <3>1
  <2>3. QED
    BY <2>1, <2>2
<1> HIDE DEF c
<1>11. /\ ready \in ContextType /\ ready.size = LengthAt /\ ready.total = n
       /\ Taken(ready) = n + 1 + z /\ Agrees(ready, all)
  <2>1. LengthAt \in c.size..BlockSize
    BY <1>1, <1>10
  <2>2. ASSUME NEW k \in 1 .. LengthAt - c.size PROVE Zero = all[Taken(c) + k]
    <3>1. PICK j \in 1..z : n + 1 + j = Taken(c) + k
      <4>1. (Taken(c) + k) - (n + 1) \in 1..z
        <5>1. PICK more \in Nat : Taken(c) = n + 1 + more
          <6>1. Taken(c) - (n + 1) \in Nat /\ Taken(c) = n + 1 + (Taken(c) - (n + 1))
            BY <1>1, <1>10
          <6>2. QED
            BY <6>1
        <5>2. /\ k \in Nat /\ k >= 1 /\ k <= LengthAt - c.size
              /\ c.size \in Nat /\ c.size <= LengthAt /\ LengthAt - c.size \in Nat
          BY <1>1, <1>10
        <5>3. more + (LengthAt - c.size) = z
          BY <1>1, <1>3, <1>10, <5>1, <5>2
        <5>4. more + k \in 1..z /\ (Taken(c) + k) - (n + 1) = more + k
          BY <1>1, <1>3, <5>1, <5>2, <5>3
        <5>5. QED
          BY <5>4
      <4>2. n + 1 + ((Taken(c) + k) - (n + 1)) = Taken(c) + k
        BY <1>1, <1>10
      <4>3. QED
        BY <4>1, <4>2
    <3>2. QED
      BY <1>4, <3>1
  <2>3. QED
    BY <1>5, <1>10, <2>1, <2>2, FillHolds
<1> HIDE DEF ready
<1>12. /\ last \in ContextType /\ last.size = BlockSize /\ last.total = n
       /\ Taken(last) = Len(all) /\ Agrees(last, all)
  <2>1. BlockSize \in ready.size..BlockSize
    BY <1>1, <1>11
  <2>2. \A k \in 1 .. BlockSize - ready.size : Bits(n) = all[Taken(ready) + k]
    BY <1>4, <1>11
  <2>3. QED
    BY <1>4, <1>5, <1>11, <2>1, <2>2, FillHolds
<1> HIDE DEF last
<1>13. QED
  BY <1>7, <1>12, TransformTakes, TransformAgrees DEF all, n

----------------------------------------------------------------------------
(* The invariant: what DigestOfTheWhole says, of an open block that is not full
   until the end. *)
ShaInv ==
  /\ digest \in ContextType
  /\ ~digest.final => digest.size < BlockSize
  /\ DigestOfTheWhole

Message(n) == [k \in 1..n |-> k]

(* The message of n bytes. *)
LEMMA MessageBytes ==
  ASSUME NEW n \in Nat
  PROVE  Message(n) \in Seq(Int) /\ Len(Message(n)) = n /\ \A k \in 1..n : Message(n)[k] = k
BY DEF Message

(* common_sha256_update. *)
LEMMA ShaUpdateHolds ==
  ASSUME ShaInv, NEW n \in Nat, ShaUpdate(n)
  PROVE  ShaInv'
<1> DEFINE total == digest.total
           input == [k \in 1..n |-> total + k]
           all == Message(total + n)
<1>1. digest \in Open /\ ~digest.final /\ total \in Nat /\ digest' = Updated(digest, input)
  BY ContextFields DEF ShaInv, ShaUpdate, Open
<1>2. Taken(digest) = total /\ Agrees(digest, Message(total))
  BY <1>1, MessageBytes DEF ShaInv, DigestOfTheWhole, Message
<1> HIDE DEF total
<1>3. total + n \in Nat
  BY <1>1
<1>4. Agrees(digest, all)
  <2>1. \A k \in 1..total : all[k] = Message(total)[k]
    BY <1>1, <1>3 DEF Message
  <2>2. QED
    BY <1>1, <1>2, <2>1, AgreesWithLonger DEF Open
<1>5. /\ input \in Seq(Int) /\ Len(input) = n
      /\ \A k \in 1..Len(input) : input[k] = all[Taken(digest) + k]
  <2>1. input \in Seq(Int) /\ Len(input) = n
    BY <1>1
  <2>2. \A k \in 1..n : total + k \in 1 .. total + n
    BY <1>1
  <2>3. \A k \in 1..n : input[k] = all[total + k]
    BY <1>3, <2>2, MessageBytes
  <2>4. QED
    BY <1>2, <2>1, <2>3
<1> HIDE DEF input, all
<1>6. /\ digest' \in Open /\ digest'.total = total + n /\ digest'.final = digest.final
      /\ Taken(digest') = total + n /\ Agrees(digest', all)
  BY <1>1, <1>2, <1>4, <1>5, UpdatedHolds DEF total
<1>7. DigestOfTheWhole'
  <2>1. ~digest'.final /\ Len(all) = total + n /\ all = [k \in 1..digest'.total |-> k]
    BY <1>1, <1>3, <1>6, MessageBytes DEF all, Message
  <2>2. QED
    BY <1>6, <2>1 DEF DigestOfTheWhole, Taken, Agrees
<1>8. QED
  BY <1>6, <1>7 DEF ShaInv, Open

(* common_sha256_final. *)
LEMMA ShaFinalHolds == ASSUME ShaInv, ShaFinal PROVE ShaInv'
<1> DEFINE total == digest.total
           ended == Finished(digest)
<1>1. digest \in Open /\ ~digest.final /\ total \in Nat /\ digest' = [ended EXCEPT !.final = TRUE]
  BY ContextFields DEF ShaInv, ShaFinal, Open
<1>2. Taken(digest) = total /\ Agrees(digest, Message(total))
  BY <1>1, MessageBytes DEF ShaInv, DigestOfTheWhole, Message
<1>3. Agrees(digest, Padded(total))
  <2>1. Zeros(total) \in Nat
    <3>1. /\ Len(digest.done) \in Nat /\ digest.size \in 0 .. BlockSize - 1 /\ BlockSize \in Nat
          /\ total = Len(digest.done) * BlockSize + digest.size
      BY <1>1, <1>2, ContextFields DEF Open, Taken
    <3> HIDE DEF total
    <3>2. PICK z : z = IF digest.size + 1 > LengthAt
                       THEN (BlockSize - digest.size - 1) + LengthAt ELSE LengthAt - digest.size - 1
      OBVIOUS
    <3>3. Zeros(total) = z
      BY <3>1, <3>2, ZerosAre
    <3>4. z \in Nat
      BY <3>1, <3>2, Sha256Assumption
    <3>5. QED
      BY <3>3, <3>4
  <2> HIDE DEF total
  <2>2. \A k \in 1..total : Padded(total)[k] = Message(total)[k]
    BY <1>1, <2>1, PaddedBytes, MessageBytes
  <2>3. QED
    BY <1>1, <1>2, <2>2, AgreesWithLonger DEF Open
<1>4. /\ ended \in ContextType /\ ended.size = 0 /\ ended.total = total
      /\ Taken(ended) = Len(Padded(total)) /\ Agrees(ended, Padded(total))
  BY <1>1, <1>2, <1>3, FinishedHolds
<1> HIDE DEF ended, total
<1>5. /\ digest' \in ContextType /\ digest'.final /\ digest'.total = total /\ digest'.size = 0
      /\ digest'.done = ended.done /\ digest'.block = ended.block
  BY <1>1, <1>4 DEF ContextType
<1>6. DigestOfTheWhole'
  BY <1>4, <1>5 DEF DigestOfTheWhole, Taken, Agrees
<1>7. QED
  BY <1>5, <1>6 DEF ShaInv

(* However a message is divided into updates, the digest is of every byte of it
   in order, and of the padding, whole blocks. *)
THEOREM DigestIsOfTheWhole == ShaSpec => []DigestOfTheWhole
<1>1. ShaInit => ShaInv
  <2> SUFFICES ASSUME ShaInit PROVE ShaInv
    OBVIOUS
  <2>1. /\ digest.total = 0 /\ digest.size = 0 /\ digest.done = <<>> /\ ~digest.final
        /\ digest = [total |-> 0, block |-> [k \in 1..BlockSize |-> Unused], size |-> 0,
                     done |-> <<>>, final |-> FALSE]
    BY DEF ShaInit, Context
  <2>2. digest \in ContextType
    <3>1. /\ [k \in 1..BlockSize |-> Unused] \in Block /\ <<>> \in Seq(Block)
          /\ 0 \in 0..BlockSize
      BY Sha256Assumption DEF Block, Unused
    <3>2. QED
      BY <2>1, <3>1 DEF ContextType
  <2>3. Taken(digest) = 0
    BY <2>1, Sha256Assumption DEF Taken
  <2>4. DigestOfTheWhole
    <3>1. DOMAIN digest.done = {} /\ 1..0 = {}
      BY <2>1
    <3>2. \A all : Agrees(digest, all)
      BY <2>1, <3>1 DEF Agrees
    <3>3. Len(Message(0)) = 0
      BY MessageBytes
    <3>4. QED
      BY <2>1, <2>3, <3>2, <3>3 DEF DigestOfTheWhole, Message
  <2>5. QED
    BY <2>1, <2>2, <2>4, Sha256Assumption DEF ShaInv
<1>2. ShaInv /\ [ShaNext]_digest => ShaInv'
  <2> SUFFICES ASSUME ShaInv, [ShaNext]_digest PROVE ShaInv'
    OBVIOUS
  <2>1. ASSUME NEW n \in 0..MaxMessage, ShaUpdate(n) PROVE ShaInv'
    BY <2>1, ShaUpdateHolds, Sha256Assumption
  <2>2. CASE ShaFinal
    BY <2>2, ShaFinalHolds
  <2>3. CASE UNCHANGED digest
    BY <2>3 DEF ShaInv, DigestOfTheWhole, Taken, Agrees
  <2>4. QED
    BY <2>1, <2>2, <2>3 DEF ShaNext
<1>3. ShaInv => DigestOfTheWhole
  BY DEF ShaInv
<1>4. QED
  BY <1>1, <1>2, <1>3, PTL DEF ShaSpec

------------------------------------------------------------------------------
(* Pathnames and their order; sorting and merging lists of files. *)

(* The parts of a pathname. *)
LEMMA PathFields ==
  ASSUME NEW p \in Paths
  PROVE  /\ p \in Seq(Names) /\ Len(p) \in 1..MaxLength /\ Len(p) \in Nat \ {0}
         /\ \A i \in 1..Len(p) : p[i] \in Names /\ p[i] \in Nat /\ p[i] > 0
         /\ p = [i \in 1..Len(p) |-> p[i]]
<1>1. PICK n \in 1..MaxLength : p \in [1..n -> Names]
  BY DEF Paths
<1>2. MaxLength \in Nat /\ Names \subseteq Nat \ {0} /\ n \in Nat
  BY DiscoveryAssumption
<1>3. p \in Seq(Names) /\ Len(p) = n
  BY <1>1, <1>2
<1>4. DOMAIN p = 1..n /\ \A i \in 1..n : p[i] \in Names /\ p[i] \in Nat /\ p[i] > 0
  <2>1. DOMAIN p = 1..n /\ \A i \in 1..n : p[i] \in Names
    BY <1>1
  <2>2. \A x \in Names : x \in Nat /\ x > 0
    BY <1>2
  <2>3. QED
    BY <2>1, <2>2
<1>5. p = [i \in 1..n |-> p[i]]
  BY <1>1
<1>6. QED
  BY <1>2, <1>3, <1>4, <1>5

(* What is a pathname. *)
LEMMA IsPath ==
  ASSUME NEW p \in Seq(Names), Len(p) \in 1..MaxLength
  PROVE  p \in Paths
<1>1. p \in [1..Len(p) -> Names]
  OBVIOUS
<1>2. QED
  BY <1>1 DEF Paths

----------------------------------------------------------------------------
(* strcmp's order is total. *)
LEMMA PathBytes ==
  ASSUME NEW p \in Paths, NEW i \in 1..MaxLength
  PROVE  Byte(p, i) \in Nat /\ (Byte(p, i) = 0 <=> i > Len(p))
<1>1. i \in Nat /\ i >= 1
  BY DiscoveryAssumption
<1>2. QED
  BY <1>1, PathFields DEF Byte

(* Pathnames of the same bytes are the same. *)
LEMMA SameBytes ==
  ASSUME NEW p \in Paths, NEW q \in Paths, \A i \in 1..MaxLength : Byte(p, i) = Byte(q, i)
  PROVE  p = q
<1>1. Len(p) \in 1..MaxLength /\ Len(q) \in 1..MaxLength /\ MaxLength \in Nat
  BY PathFields, DiscoveryAssumption
<1>2. Len(p) = Len(q)
  <2>1. ~(Len(q) > Len(p))
    <3>1. SUFFICES ASSUME Len(q) > Len(p) PROVE FALSE
      OBVIOUS
    <3>2. Byte(p, Len(q)) = 0 /\ Byte(q, Len(q)) # 0
      BY <1>1, <3>1, PathBytes
    <3>3. QED
      BY <1>1, <3>2
  <2>2. ~(Len(p) > Len(q))
    <3>1. SUFFICES ASSUME Len(p) > Len(q) PROVE FALSE
      OBVIOUS
    <3>2. Byte(q, Len(p)) = 0 /\ Byte(p, Len(p)) # 0
      BY <1>1, <3>1, PathBytes
    <3>3. QED
      BY <1>1, <3>2
  <2>3. QED
    BY <1>1, <2>1, <2>2
<1>3. ASSUME NEW i \in 1..Len(p) PROVE p[i] = q[i]
  <2>1. i \in 1..MaxLength /\ i <= Len(p) /\ i <= Len(q)
    BY <1>1, <1>2
  <2>2. QED
    BY <2>1 DEF Byte
<1>4. p = [i \in 1..Len(p) |-> p[i]] /\ q = [i \in 1..Len(q) |-> q[i]]
  BY PathFields
<1>5. QED
  BY <1>2, <1>3, <1>4

(* strcmp orders any two pathnames, *)
LEMMA LessTotal ==
  ASSUME NEW p \in Paths, NEW q \in Paths, p # q
  PROVE  Less(p, q) \/ Less(q, p)
<1> DEFINE differ == {i \in 1..MaxLength : Byte(p, i) # Byte(q, i)}
<1>1. differ # {} /\ differ \subseteq Nat
  BY SameBytes, DiscoveryAssumption
<1>2. PICK i \in differ : \A j \in differ : i <= j
  <2> HIDE DEF differ
  <2>1. QED
    BY <1>1, LeastNumber
<1>3. \A j \in 1 .. i - 1 : Byte(p, j) = Byte(q, j)
  <2>1. MaxLength \in Nat /\ i \in 1..MaxLength
    BY <1>2, DiscoveryAssumption
  <2>2. \A j \in 1 .. i - 1 : j \in 1..MaxLength /\ ~(i <= j)
    BY <2>1
  <2>3. QED
    BY <1>2, <2>2
<1>4. i \in 1..MaxLength /\ Byte(p, i) \in Nat /\ Byte(q, i) \in Nat /\ Byte(p, i) # Byte(q, i)
  BY <1>2, PathBytes
<1>5. Byte(p, i) < Byte(q, i) \/ Byte(q, i) < Byte(p, i)
  BY <1>4
<1>6. QED
  BY <1>3, <1>4, <1>5 DEF Less

(* none before itself, *)
LEMMA LessIrreflexive ==
  ASSUME NEW p \in Paths
  PROVE  ~Less(p, p)
BY PathBytes DEF Less

(* in a row, *)
LEMMA LessTransitive ==
  ASSUME NEW p \in Paths, NEW q \in Paths, NEW r \in Paths, Less(p, q), Less(q, r)
  PROVE  Less(p, r)
<1>1. PICK i \in 1..MaxLength : Byte(p, i) < Byte(q, i) /\ \A k \in 1 .. i - 1 : Byte(p, k) = Byte(q, k)
  BY DEF Less
<1>2. PICK j \in 1..MaxLength : Byte(q, j) < Byte(r, j) /\ \A k \in 1 .. j - 1 : Byte(q, k) = Byte(r, k)
  BY DEF Less
<1>3. MaxLength \in Nat /\ i \in Nat /\ j \in Nat
  BY DiscoveryAssumption
<1>4. \A k \in 1..MaxLength : Byte(p, k) \in Nat /\ Byte(q, k) \in Nat /\ Byte(r, k) \in Nat
  BY PathBytes
<1>5. CASE i <= j
  <2>1. \A k \in 1 .. i - 1 : k \in 1 .. j - 1
    BY <1>3, <1>5
  <2>2. Byte(q, i) <= Byte(r, i)
    <3>1. i # j => i \in 1 .. j - 1
      BY <1>3, <1>5
    <3>2. QED
      BY <1>2, <1>4, <3>1
  <2>3. Byte(p, i) < Byte(r, i)
    BY <1>1, <1>4, <2>2
  <2>4. QED
    BY <1>1, <1>2, <2>1, <2>3 DEF Less
<1>6. CASE j < i
  <2>1. \A k \in 1 .. j - 1 : k \in 1 .. i - 1
    BY <1>3, <1>6
  <2>2. j \in 1 .. i - 1
    BY <1>3, <1>6
  <2>3. Byte(p, j) < Byte(r, j)
    BY <1>1, <1>2, <2>2
  <2>4. QED
    BY <1>1, <1>2, <2>1, <2>3 DEF Less
<1>7. QED
  BY <1>3, <1>5, <1>6

(* and one way only. *)
LEMMA LessAsymmetric ==
  ASSUME NEW p \in Paths, NEW q \in Paths, Less(p, q)
  PROVE  ~Less(q, p) /\ p # q
BY LessTransitive, LessIrreflexive

----------------------------------------------------------------------------
(* A finite set of paths has a least one. *)
LEMMA HasLeast ==
  ASSUME NEW paths, paths \subseteq Paths, IsFiniteSet(paths), paths # {}
  PROVE  Least(paths) \in paths /\ \A q \in paths \ {Least(paths)} : Less(Least(paths), q)
<1> DEFINE IsLeast(p, s) == p \in s /\ \A q \in s \ {p} : Less(p, q)
           N == Cardinality(paths)
           T == {n \in 0..N : \A s \in SUBSET Paths :
                   IsFiniteSet(s) /\ Cardinality(s) = n /\ s # {} => \E p \in s : IsLeast(p, s)}
<1>1. N \in Nat
  BY FS_CardinalityType
<1>2. 0 \in T
  <2>1. \A s : IsFiniteSet(s) /\ Cardinality(s) = 0 => s = {}
    BY FS_EmptySet
  <2>2. QED
    BY <1>1, <2>1
<1>3. ASSUME NEW n \in 1..N, n - 1 \in T PROVE n \in T
  <2>1. SUFFICES ASSUME NEW s \in SUBSET Paths, IsFiniteSet(s), Cardinality(s) = n, s # {}
                 PROVE  \E p \in s : IsLeast(p, s)
    BY <1>1
  <2>2. PICK x \in s : TRUE
    BY <2>1
  <2> DEFINE rest == s \ {x}
  <2>3. IsFiniteSet(rest) /\ Cardinality(rest) = n - 1 /\ rest \in SUBSET Paths
    BY <2>1, <2>2, FS_RemoveElement
  <2>4. CASE rest = {}
    BY <2>2, <2>4
  <2>5. CASE rest # {}
    <3>1. PICK p \in rest : IsLeast(p, rest)
      BY <1>3, <2>3, <2>5
    <3>2. p \in Paths /\ x \in Paths /\ p # x
      BY <2>2, <3>1
    <3>3. CASE Less(p, x)
      BY <3>1, <3>3
    <3>4. CASE Less(x, p)
      <4>1. ASSUME NEW q \in s \ {x} PROVE Less(x, q)
        <5>1. q = p \/ Less(p, q)
          BY <3>1, <4>1
        <5>2. QED
          BY <3>2, <3>4, <4>1, <5>1, LessTransitive
      <4>2. QED
        BY <2>2, <4>1
    <3>5. QED
      BY <3>2, <3>3, <3>4, LessTotal
  <2>6. QED
    BY <2>4, <2>5
<1>4. N \in T
  <2> HIDE DEF T, N
  <2>1. \A n \in 0..N : n \in T
    BY <1>1, <1>2, <1>3, InductionUpTo
  <2>2. QED
    BY <1>1, <2>1
<1>5. \E p \in paths : IsLeast(p, paths)
  BY <1>4
<1>6. QED
  BY <1>5 DEF Least

(* Taking the least away one by one takes everything. *)
LEMMA RemainingSteps ==
  ASSUME NEW paths \in SUBSET Paths, IsFiniteSet(paths)
  PROVE  LET left == Remaining(paths)
             N == Cardinality(paths)
         IN /\ N \in Nat /\ left[0] = paths
            /\ \A n \in 1..N : left[n] = left[n-1] \ {Least(left[n-1])}
            /\ \A n \in 0..N : left[n] \in SUBSET paths /\ IsFiniteSet(left[n]) /\ Cardinality(left[n]) = N - n
<1> DEFINE N == Cardinality(paths)
           S == SUBSET paths
           Is(h) == h = [n \in 0..N |-> IF n = 0 THEN paths ELSE h[n-1] \ {Least(h[n-1])}]
           step == [n \in 1..N |-> [s \in S |-> s \ {Least(s)}]]
           h == Remaining(paths)
<1>1. N \in Nat /\ paths \in S
  BY FS_CardinalityType
<1>2. h = CHOOSE f : Is(f)
  BY DEF Remaining
<1> HIDE DEF N
<1>3. step \in [1..N -> [S -> S]]
  OBVIOUS
<1>4. PICK g : Iterates(g, N, S, paths, step)
  <2> HIDE DEF step, S
  <2>1. QED
    BY <1>1, <1>3, RecursionUpTo, Zenon
<1>5. g \in [0..N -> S] /\ g[0] = paths /\ \A n \in 1..N : g[n] = step[n][g[n-1]]
  <2> HIDE DEF step
  <2>1. QED
    BY <1>4 DEF Iterates
<1>6. ASSUME NEW n \in 1..N PROVE g[n] = g[n-1] \ {Least(g[n-1])}
  <2>1. g[n-1] \in S
    BY <1>1, <1>5
  <2>2. step[n][g[n-1]] = g[n-1] \ {Least(g[n-1])}
    BY <2>1
  <2>3. QED
    BY <1>5, <2>2
<1>7. Is(g)
  <2>1. \A n \in 0..N : n # 0 => n \in 1..N
    BY <1>1
  <2>2. QED
    BY <1>5, <1>6, <2>1
<1>8. Is(h)
  <2> HIDE DEF Is, h
  <2>1. QED
    BY <1>2, <1>7
<1>9. h[0] = paths /\ \A n \in 1..N : h[n] = h[n-1] \ {Least(h[n-1])}
  <2>1. 0 \in 0..N /\ \A n \in 1..N : n \in 0..N /\ n # 0
    BY <1>1
  <2> HIDE DEF h
  <2>2. QED
    BY <1>8, <2>1
<1> HIDE DEF h, Is
<1> DEFINE T == {n \in 0..N : h[n] \in S /\ IsFiniteSet(h[n]) /\ Cardinality(h[n]) = N - n}
<1>10. 0 \in T
  BY <1>1, <1>9 DEF N
<1>11. ASSUME NEW n \in 1..N, n - 1 \in T PROVE n \in T
  <2>1. h[n-1] \in S /\ IsFiniteSet(h[n-1]) /\ Cardinality(h[n-1]) = N - (n - 1)
    BY <1>11
  <2>2. h[n-1] # {}
    BY <1>1, <2>1, FS_EmptySet
  <2>3. Least(h[n-1]) \in h[n-1]
    BY <2>1, <2>2, HasLeast
  <2>4. /\ IsFiniteSet(h[n-1] \ {Least(h[n-1])})
        /\ Cardinality(h[n-1] \ {Least(h[n-1])}) = (N - (n - 1)) - 1
    BY <2>1, <2>3, FS_RemoveElement
  <2>5. QED
    BY <1>1, <1>9, <2>1, <2>4
<1>12. \A n \in 0..N : n \in T
  <2> HIDE DEF T
  <2>1. QED
    BY <1>1, <1>10, <1>11, InductionUpTo
<1>13. QED
  BY <1>1, <1>9, <1>12 DEF h, N

FileEntry == [path : Paths, explicit : BOOLEAN]
FileMaps == UNION {[paths -> BOOLEAN] : paths \in SUBSET Paths}

(* The parts of a set of marked files. *)
LEMMA FileMapFields ==
  ASSUME NEW files \in FileMaps
  PROVE  /\ DOMAIN files \in SUBSET Paths /\ files \in [DOMAIN files -> BOOLEAN]
         /\ \A p \in DOMAIN files : files[p] \in BOOLEAN
BY DEF FileMaps

(* Sorting keeps every file once, in order. *)
LEMMA SortedFiles ==
  ASSUME NEW files \in FileMaps, IsFiniteSet(DOMAIN files)
  PROVE  /\ Sorted(files) \in Seq(FileEntry)
         /\ Ascends(Sorted(files))
         /\ \A k \in DOMAIN Sorted(files) : /\ Sorted(files)[k].path \in DOMAIN files
                                            /\ Sorted(files)[k].explicit = files[Sorted(files)[k].path]
         /\ \A p \in DOMAIN files : \E k \in DOMAIN Sorted(files) : Sorted(files)[k].path = p
<1> DEFINE paths == DOMAIN files
           N == Cardinality(paths)
           left == Remaining(paths)
           order == [k \in 1..N |-> Least(left[k-1])]
           s == Sorted(files)
<1>1. paths \in SUBSET Paths /\ \A p \in paths : files[p] \in BOOLEAN
  BY FileMapFields
<1>2. /\ N \in Nat /\ left[0] = paths
      /\ \A n \in 1..N : left[n] = left[n-1] \ {Least(left[n-1])}
      /\ \A n \in 0..N : left[n] \in SUBSET paths /\ IsFiniteSet(left[n]) /\ Cardinality(left[n]) = N - n
  BY <1>1, RemainingSteps
<1>3. s = [k \in 1..N |-> [path |-> order[k], explicit |-> files[order[k]]]]
  BY DEF Sorted
<1> HIDE DEF N, left, paths
<1>4. ASSUME NEW k \in 1..N
      PROVE  /\ order[k] \in left[k-1] /\ order[k] \in paths
             /\ \A q \in left[k-1] \ {order[k]} : Less(order[k], q)
             /\ left[k] = left[k-1] \ {order[k]} /\ left[k] \in SUBSET paths
  <2>1. k - 1 \in 0..N /\ k \in 0..N /\ N - (k - 1) # 0
    BY <1>2
  <2>2. left[k-1] # {} /\ left[k-1] \subseteq Paths /\ IsFiniteSet(left[k-1])
    BY <1>1, <1>2, <2>1, FS_EmptySet
  <2>3. order[k] = Least(left[k-1])
    OBVIOUS
  <2>4. QED
    BY <1>2, <2>1, <2>2, <2>3, HasLeast
<1> HIDE DEF order
<1>5. ASSUME NEW k \in 1..N PROVE \A l \in k..N : left[l] \in SUBSET left[k]
  <2> DEFINE T == {l \in 0..N : l >= k => left[l] \subseteq left[k]}
  <2>1. 0 \in T
    BY <1>2
  <2>2. ASSUME NEW l \in 1..N, l - 1 \in T PROVE l \in T
    <3>1. CASE l <= k
      BY <1>2, <3>1
    <3>2. CASE l > k
      <4>1. left[l-1] \subseteq left[k]
        BY <1>2, <2>2, <3>2
      <4>2. left[l] \subseteq left[l-1]
        BY <1>4
      <4>3. QED
        BY <1>2, <4>1, <4>2
    <3>3. QED
      BY <1>2, <3>1, <3>2
  <2>3. \A l \in 0..N : l \in T
    <3> HIDE DEF T
    <3>1. QED
      BY <1>2, <2>1, <2>2, InductionUpTo
  <2>4. QED
    BY <1>2, <2>3
<1>6. ASSUME NEW k \in 1..N, NEW l \in 1..N, k < l PROVE Less(order[k], order[l])
  <2>1. l - 1 \in k..N
    BY <1>2, <1>6
  <2>2. order[l] \in left[k]
    BY <1>4, <1>5, <2>1
  <2>3. QED
    BY <1>4, <2>2
<1>7. ASSUME NEW p \in paths PROVE \E k \in 1..N : order[k] = p
  <2>1. SUFFICES ASSUME \A k \in 1..N : order[k] # p PROVE FALSE
    OBVIOUS
  <2> DEFINE T == {n \in 0..N : p \in left[n]}
  <2>2. 0 \in T
    BY <1>2
  <2>3. ASSUME NEW n \in 1..N, n - 1 \in T PROVE n \in T
    BY <1>2, <1>4, <2>1, <2>3
  <2>4. N \in T
    <3> HIDE DEF T
    <3>1. \A n \in 0..N : n \in T
      BY <1>2, <2>2, <2>3, InductionUpTo
    <3>2. QED
      BY <1>2, <3>1
  <2>5. N \in 0..N /\ N - N = 0
    BY <1>2
  <2>6. left[N] = {}
    BY <1>2, <2>5, FS_EmptySet
  <2>7. QED
    BY <2>4, <2>6
<1>8. \A k \in 1..N : s[k].path = order[k] /\ s[k].explicit = files[order[k]] /\ s[k] \in FileEntry
  BY <1>1, <1>3, <1>4 DEF FileEntry
<1>9. DOMAIN s = 1..N
  BY <1>3
<1>10. s \in Seq(FileEntry)
  <2>1. s \in [1..N -> FileEntry]
    BY <1>3, <1>8
  <2>2. N \in Nat
    BY <1>2
  <2> HIDE DEF s
  <2>3. QED
    BY <2>1, <2>2
<1> HIDE DEF s
<1>11. Ascends(s)
  BY <1>6, <1>8, <1>9 DEF Ascends
<1>12. /\ \A k \in DOMAIN s : s[k].path \in paths /\ s[k].explicit = files[s[k].path]
       /\ \A p \in paths : \E k \in DOMAIN s : s[k].path = p
  BY <1>4, <1>7, <1>8, <1>9
<1>13. QED
  BY <1>10, <1>11, <1>12 DEF s, paths

----------------------------------------------------------------------------
(* The merge. *)
LEMMA AppendFields ==
  ASSUME NEW out \in Seq(FileEntry), NEW e \in FileEntry
  PROVE  /\ Append(out, e) \in Seq(FileEntry)
         /\ DOMAIN Append(out, e) = 1 .. Len(out) + 1 /\ DOMAIN out = 1..Len(out) /\ Len(out) \in Nat
         /\ \A k \in 1..Len(out) : Append(out, e)[k] = out[k]
         /\ Append(out, e)[Len(out) + 1] = e
OBVIOUS

(* What is before i in the one list and before j in the other is in out, once
   and in order, and comes before the rest of both. *)
MarkedIn(list, upTo, p) == \E k \in 1 .. upTo - 1 : list[k].path = p /\ list[k].explicit
IsIn(list, upTo, p) == \E k \in 1 .. upTo - 1 : list[k].path = p
PartlyMerged(s, d, a) ==
  /\ s.i \in 1 .. Len(d) + 1 /\ s.j \in 1 .. Len(a) + 1 /\ s.out \in Seq(FileEntry)
  /\ Ascends(s.out)
  /\ \A k \in DOMAIN s.out :
       /\ \A l \in s.i..Len(d) : Less(s.out[k].path, d[l].path)
       /\ \A l \in s.j..Len(a) : Less(s.out[k].path, a[l].path)
       /\ IsIn(d, s.i, s.out[k].path) \/ IsIn(a, s.j, s.out[k].path)
       /\ s.out[k].explicit <=> MarkedIn(d, s.i, s.out[k].path) \/ MarkedIn(a, s.j, s.out[k].path)
  /\ \A l \in 1 .. s.i - 1 : \E k \in DOMAIN s.out : s.out[k].path = d[l].path
  /\ \A l \in 1 .. s.j - 1 : \E k \in DOMAIN s.out : s.out[k].path = a[l].path

(* The parts of a list of files. *)
LEMMA EntryFields ==
  ASSUME NEW list \in Seq(FileEntry)
  PROVE  /\ Len(list) \in Nat /\ DOMAIN list = 1..Len(list)
         /\ \A k \in 1..Len(list) : /\ list[k] \in FileEntry /\ list[k].path \in Paths
                                    /\ list[k].explicit \in BOOLEAN
<1>1. Len(list) \in Nat /\ DOMAIN list = 1..Len(list) /\ \A k \in 1..Len(list) : list[k] \in FileEntry
  OBVIOUS
<1>2. \A e \in FileEntry : e.path \in Paths /\ e.explicit \in BOOLEAN
  BY DEF FileEntry
<1>3. QED
  BY <1>1, <1>2

(* One more path p, before the rest of both lists, is taken from where it is. *)
LEMMA TakeOne ==
  ASSUME NEW d \in Seq(FileEntry), NEW a \in Seq(FileEntry), Ascends(d), Ascends(a),
         NEW s, PartlyMerged(s, d, a), NEW t, NEW e \in FileEntry, t.out = Append(s.out, e),
         NEW first \in BOOLEAN, NEW second \in BOOLEAN, first \/ second,
         first => s.i <= Len(d) /\ e.path = d[s.i].path,
         second => s.j <= Len(a) /\ e.path = a[s.j].path,
         ~first => s.i > Len(d) \/ Less(e.path, d[s.i].path),
         ~second => s.j > Len(a) \/ Less(e.path, a[s.j].path),
         e.explicit <=> (first /\ d[s.i].explicit) \/ (second /\ a[s.j].explicit),
         t.i = IF first THEN s.i + 1 ELSE s.i, t.j = IF second THEN s.j + 1 ELSE s.j
  PROVE  PartlyMerged(t, d, a)
<1> DEFINE p == e.path
           n == Len(s.out)
<1>1. /\ s.i \in 1 .. Len(d) + 1 /\ s.j \in 1 .. Len(a) + 1 /\ Len(d) \in Nat /\ Len(a) \in Nat
      /\ s.out \in Seq(FileEntry) /\ p \in Paths /\ DOMAIN d = 1..Len(d) /\ DOMAIN a = 1..Len(a)
      /\ \A k \in 1..Len(d) : d[k].path \in Paths
      /\ \A k \in 1..Len(a) : a[k].path \in Paths
  BY EntryFields DEF PartlyMerged, FileEntry
<1>2. t.i \in 1 .. Len(d) + 1 /\ t.j \in 1 .. Len(a) + 1
  BY <1>1
<1>3. /\ t.out \in Seq(FileEntry) /\ n \in Nat /\ DOMAIN s.out = 1..n /\ DOMAIN t.out = 1..n+1
      /\ t.out[n+1] = e /\ \A k \in 1..n : t.out[k] = s.out[k] /\ s.out[k].path \in Paths
  BY <1>1, AppendFields, EntryFields
(* p is new, and after all that is out. *)
<1>4. ASSUME NEW k \in 1..n PROVE Less(s.out[k].path, p) /\ s.out[k].path # p
  <2>1. Less(s.out[k].path, p)
    <3>1. CASE first
      <4>1. s.i \in s.i..Len(d)
        BY <1>1, <3>1
      <4>2. QED
        BY <1>3, <3>1, <4>1 DEF PartlyMerged
    <3>2. CASE second
      <4>1. s.j \in s.j..Len(a)
        BY <1>1, <3>2
      <4>2. QED
        BY <1>3, <3>2, <4>1 DEF PartlyMerged
    <3>3. QED
      BY <3>1, <3>2
  <2>2. QED
    BY <1>1, <1>3, <2>1, LessAsymmetric
(* ... and before the rest. *)
<1>5. ASSUME NEW l \in t.i..Len(d) PROVE Less(p, d[l].path) /\ l \in s.i..Len(d)
  <2>1. l \in 1..Len(d) /\ l \in s.i..Len(d)
    BY <1>1, <1>2
  <2>2. CASE first
    <3>1. s.i \in DOMAIN d /\ l \in DOMAIN d /\ s.i < l
      BY <1>1, <2>1, <2>2
    <3>2. QED
      BY <2>1, <2>2, <3>1 DEF Ascends
  <2>3. CASE ~first
    <3>1. s.i \in DOMAIN d /\ l \in DOMAIN d /\ s.i <= l /\ Less(p, d[s.i].path)
      BY <1>1, <2>1, <2>3
    <3>2. CASE s.i = l
      BY <2>1, <3>1, <3>2
    <3>3. CASE s.i < l
      <4>1. Less(d[s.i].path, d[l].path)
        BY <3>1, <3>3 DEF Ascends
      <4>2. QED
        BY <1>1, <2>1, <3>1, <4>1, LessTransitive
    <3>4. QED
      BY <1>1, <2>1, <3>1, <3>2, <3>3
  <2>4. QED
    BY <2>2, <2>3
<1>6. ASSUME NEW l \in t.j..Len(a) PROVE Less(p, a[l].path) /\ l \in s.j..Len(a)
  <2>1. l \in 1..Len(a) /\ l \in s.j..Len(a)
    BY <1>1, <1>2
  <2>2. CASE second
    <3>1. s.j \in DOMAIN a /\ l \in DOMAIN a /\ s.j < l
      BY <1>1, <2>1, <2>2
    <3>2. QED
      BY <2>1, <2>2, <3>1 DEF Ascends
  <2>3. CASE ~second
    <3>1. s.j \in DOMAIN a /\ l \in DOMAIN a /\ s.j <= l /\ Less(p, a[s.j].path)
      BY <1>1, <2>1, <2>3
    <3>2. CASE s.j = l
      BY <2>1, <3>1, <3>2
    <3>3. CASE s.j < l
      <4>1. Less(a[s.j].path, a[l].path)
        BY <3>1, <3>3 DEF Ascends
      <4>2. QED
        BY <1>1, <2>1, <3>1, <4>1, LessTransitive
    <3>4. QED
      BY <1>1, <2>1, <3>1, <3>2, <3>3
  <2>4. QED
    BY <2>2, <2>3
(* Neither list had p so far. *)
<1>7. ~IsIn(d, s.i, p) /\ ~IsIn(a, s.j, p)
  <2>1. ASSUME NEW l \in 1 .. s.i - 1 PROVE d[l].path # p
    <3>1. PICK k \in DOMAIN s.out : s.out[k].path = d[l].path
      BY DEF PartlyMerged
    <3>2. QED
      BY <1>3, <1>4, <3>1
  <2>2. ASSUME NEW l \in 1 .. s.j - 1 PROVE a[l].path # p
    <3>1. PICK k \in DOMAIN s.out : s.out[k].path = a[l].path
      BY DEF PartlyMerged
    <3>2. QED
      BY <1>3, <1>4, <3>1
  <2>3. QED
    BY <2>1, <2>2 DEF IsIn
<1>8. \A l : l \in 1 .. t.i - 1 <=> l \in 1 .. s.i - 1 \/ (first /\ l = s.i)
  BY <1>1, <1>2
<1>9. \A l : l \in 1 .. t.j - 1 <=> l \in 1 .. s.j - 1 \/ (second /\ l = s.j)
  BY <1>1, <1>2
<1>10. ASSUME NEW q
       PROVE  /\ IsIn(d, t.i, q) <=> IsIn(d, s.i, q) \/ (first /\ q = p)
              /\ IsIn(a, t.j, q) <=> IsIn(a, s.j, q) \/ (second /\ q = p)
              /\ MarkedIn(d, t.i, q) <=> MarkedIn(d, s.i, q) \/ (first /\ q = p /\ d[s.i].explicit)
              /\ MarkedIn(a, t.j, q) <=> MarkedIn(a, s.j, q) \/ (second /\ q = p /\ a[s.j].explicit)
  <2>1. IsIn(d, t.i, q) <=> IsIn(d, s.i, q) \/ (first /\ q = p)
    BY <1>8 DEF IsIn
  <2>2. IsIn(a, t.j, q) <=> IsIn(a, s.j, q) \/ (second /\ q = p)
    BY <1>9 DEF IsIn
  <2>3. MarkedIn(d, t.i, q) <=> MarkedIn(d, s.i, q) \/ (first /\ q = p /\ d[s.i].explicit)
    BY <1>8 DEF MarkedIn
  <2>4. MarkedIn(a, t.j, q) <=> MarkedIn(a, s.j, q) \/ (second /\ q = p /\ a[s.j].explicit)
    BY <1>9 DEF MarkedIn
  <2>5. QED
    BY <2>1, <2>2, <2>3, <2>4
<1>11. ASSUME NEW k \in 1..n+1
       PROVE  /\ \A l \in t.i..Len(d) : Less(t.out[k].path, d[l].path)
              /\ \A l \in t.j..Len(a) : Less(t.out[k].path, a[l].path)
              /\ IsIn(d, t.i, t.out[k].path) \/ IsIn(a, t.j, t.out[k].path)
              /\ t.out[k].explicit <=> MarkedIn(d, t.i, t.out[k].path) \/ MarkedIn(a, t.j, t.out[k].path)
  <2>1. CASE k = n + 1
    <3>1. t.out[k] = e
      BY <1>3, <2>1
    <3>2. ~MarkedIn(d, s.i, p) /\ ~MarkedIn(a, s.j, p)
      BY <1>7 DEF IsIn, MarkedIn
    <3>3. /\ IsIn(d, t.i, p) \/ IsIn(a, t.j, p)
          /\ e.explicit <=> MarkedIn(d, t.i, p) \/ MarkedIn(a, t.j, p)
      BY <1>10, <3>2
    <3>4. QED
      BY <1>5, <1>6, <3>1, <3>3
  <2>2. CASE k # n + 1
    <3>1. k \in 1..n /\ k \in DOMAIN s.out
      BY <1>3, <2>2
    <3>2. t.out[k] = s.out[k] /\ s.out[k].path # p
      BY <1>3, <1>4, <3>1
    <3>3. /\ \A l \in s.i..Len(d) : Less(s.out[k].path, d[l].path)
          /\ \A l \in s.j..Len(a) : Less(s.out[k].path, a[l].path)
          /\ IsIn(d, s.i, s.out[k].path) \/ IsIn(a, s.j, s.out[k].path)
          /\ s.out[k].explicit <=> MarkedIn(d, s.i, s.out[k].path) \/ MarkedIn(a, s.j, s.out[k].path)
      BY <3>1 DEF PartlyMerged
    <3>4. QED
      BY <1>5, <1>6, <1>10, <3>2, <3>3
  <2>3. QED
    BY <2>1, <2>2
<1>12. Ascends(t.out)
  <2>1. ASSUME NEW k \in 1..n+1, NEW l \in 1..n+1, k < l PROVE Less(t.out[k].path, t.out[l].path)
    <3>1. k \in 1..n /\ t.out[k] = s.out[k]
      BY <1>3, <2>1
    <3>2. CASE l = n + 1
      BY <1>3, <1>4, <3>1, <3>2
    <3>3. CASE l # n + 1
      <4>1. l \in 1..n /\ t.out[l] = s.out[l]
        BY <1>3, <3>3
      <4>2. Ascends(s.out)
        BY DEF PartlyMerged
      <4>3. QED
        BY <1>3, <2>1, <3>1, <4>1, <4>2 DEF Ascends
    <3>4. QED
      BY <3>2, <3>3
  <2>2. QED
    BY <1>3, <2>1 DEF Ascends
<1>13. ASSUME NEW l \in 1 .. t.i - 1 PROVE \E k \in 1..n+1 : t.out[k].path = d[l].path
  <2>1. CASE l \in 1 .. s.i - 1
    <3>1. PICK k \in DOMAIN s.out : s.out[k].path = d[l].path
      BY <2>1 DEF PartlyMerged
    <3>2. k \in 1..n+1 /\ k \in 1..n
      BY <1>3
    <3>3. QED
      BY <1>3, <3>1, <3>2
  <2>2. CASE first /\ l = s.i
    <3>1. n + 1 \in 1..n+1
      BY <1>3
    <3>2. QED
      BY <1>3, <2>2, <3>1
  <2>3. QED
    BY <1>8, <2>1, <2>2
<1>14. ASSUME NEW l \in 1 .. t.j - 1 PROVE \E k \in 1..n+1 : t.out[k].path = a[l].path
  <2>1. CASE l \in 1 .. s.j - 1
    <3>1. PICK k \in DOMAIN s.out : s.out[k].path = a[l].path
      BY <2>1 DEF PartlyMerged
    <3>2. k \in 1..n+1 /\ k \in 1..n
      BY <1>3
    <3>3. QED
      BY <1>3, <3>1, <3>2
  <2>2. CASE second /\ l = s.j
    <3>1. n + 1 \in 1..n+1
      BY <1>3
    <3>2. QED
      BY <1>3, <2>2, <3>1
  <2>3. QED
    BY <1>9, <2>1, <2>2
<1>15. QED
  BY <1>2, <1>3, <1>11, <1>12, <1>13, <1>14 DEF PartlyMerged

MergeStates(d, a) == {s \in [i : Nat, j : Nat, out : Seq(FileEntry)] : PartlyMerged(s, d, a)}

(* A step of the merge loop keeps what holds of it, and goes on. *)
LEMMA MergeStepHolds ==
  ASSUME NEW d \in Seq(FileEntry), NEW a \in Seq(FileEntry), Ascends(d), Ascends(a),
         NEW s \in MergeStates(d, a)
  PROVE  /\ MergeStep(s, d, a) \in MergeStates(d, a)
         /\ s.i + s.j < MergeStep(s, d, a).i + MergeStep(s, d, a).j
            \/ (s.i = Len(d) + 1 /\ s.j = Len(a) + 1 /\ MergeStep(s, d, a) = s)
<1> DEFINE first == FromFirst(s, d, a)
           second == FromSecond(s, d, a)
           t == MergeStep(s, d, a)
<1>1. /\ PartlyMerged(s, d, a) /\ s.i \in 1 .. Len(d) + 1 /\ s.j \in 1 .. Len(a) + 1
      /\ s.out \in Seq(FileEntry) /\ Len(d) \in Nat /\ Len(a) \in Nat
      /\ s \in [i : Nat, j : Nat, out : Seq(FileEntry)]
  BY EntryFields DEF MergeStates, PartlyMerged
<1>2. first \in BOOLEAN /\ second \in BOOLEAN
  BY DEF FromFirst, FromSecond
<1>3. /\ t.i = IF first THEN s.i + 1 ELSE s.i
      /\ t.j = IF second THEN s.j + 1 ELSE s.j
      /\ t.out = IF first THEN Append(s.out, [d[s.i] EXCEPT !.explicit = @ \/ (second /\ a[s.j].explicit)])
                 ELSE IF second THEN Append(s.out, a[s.j])
                 ELSE s.out
      /\ t = [i |-> t.i, j |-> t.j, out |-> t.out]
  BY DEF MergeStep
<1>4. first => s.i \in 1..Len(d) /\ d[s.i] \in FileEntry /\ d[s.i].path \in Paths /\ d[s.i].explicit \in BOOLEAN
  BY <1>1, EntryFields DEF FromFirst
<1>5. second => s.j \in 1..Len(a) /\ a[s.j] \in FileEntry /\ a[s.j].path \in Paths /\ a[s.j].explicit \in BOOLEAN
  BY <1>1, EntryFields DEF FromSecond
<1>6. CASE first \/ second
  <2> DEFINE e == IF first THEN [d[s.i] EXCEPT !.explicit = @ \/ (second /\ a[s.j].explicit)] ELSE a[s.j]
  <2>1. /\ e \in FileEntry
        /\ e.path = IF first THEN d[s.i].path ELSE a[s.j].path
        /\ e.explicit <=> (first /\ d[s.i].explicit) \/ (second /\ a[s.j].explicit)
    <3>1. CASE first
      <4>1. PICK x \in BOOLEAN : x = (d[s.i].explicit \/ (second /\ a[s.j].explicit))
        OBVIOUS
      <4>2. e = [d[s.i] EXCEPT !.explicit = x]
        BY <3>1, <4>1
      <4>3. e \in FileEntry /\ e.path = d[s.i].path /\ e.explicit = x
        BY <1>4, <3>1, <4>2 DEF FileEntry
      <4> HIDE DEF e
      <4>4. QED
        BY <3>1, <4>1, <4>3
    <3>2. CASE ~first
      BY <1>5, <1>6, <3>2
    <3>3. QED
      BY <3>1, <3>2
  <2>2. t.out = Append(s.out, e)
    BY <1>3, <1>6
  <2> HIDE DEF e
  <2>3. first /\ second => d[s.i].path = a[s.j].path
    <3>1. SUFFICES ASSUME first, second PROVE d[s.i].path = a[s.j].path
      OBVIOUS
    <3>2. ~Less(d[s.i].path, a[s.j].path) /\ ~Less(a[s.j].path, d[s.i].path)
      BY <1>1, <1>4, <1>5, <3>1 DEF FromFirst, FromSecond
    <3>3. QED
      BY <1>4, <1>5, <3>1, <3>2, LessTotal
  <2>4. ~first => s.i > Len(d) \/ Less(e.path, d[s.i].path)
    <3>1. SUFFICES ASSUME ~first, s.i <= Len(d) PROVE Less(e.path, d[s.i].path)
      BY <1>1
    <3>2. Less(a[s.j].path, d[s.i].path)
      BY <3>1 DEF FromFirst
    <3>3. QED
      BY <2>1, <3>1, <3>2
  <2>5. ~second => s.j > Len(a) \/ Less(e.path, a[s.j].path)
    <3>1. SUFFICES ASSUME ~second, s.j <= Len(a) PROVE Less(e.path, a[s.j].path)
      BY <1>1
    <3>2. Less(d[s.i].path, a[s.j].path)
      BY <3>1 DEF FromSecond
    <3>3. QED
      BY <1>6, <2>1, <3>1, <3>2
  <2> HIDE DEF t
  <2>6. /\ first => s.i <= Len(d) /\ e.path = d[s.i].path
        /\ second => s.j <= Len(a) /\ e.path = a[s.j].path
    BY <1>1, <1>4, <1>5, <2>1, <2>3
  <2> HIDE DEF first, second
  <2>7. PartlyMerged(t, d, a)
    BY <1>1, <1>2, <1>3, <1>6, <2>1, <2>2, <2>4, <2>5, <2>6, TakeOne
  <2>8. t \in [i : Nat, j : Nat, out : Seq(FileEntry)]
    <3>1. t.i \in Nat /\ t.j \in Nat /\ t.out \in Seq(FileEntry)
      BY <1>1, <2>7 DEF PartlyMerged
    <3>2. QED
      BY <1>3, <3>1
  <2>9. s.i + s.j < t.i + t.j
    BY <1>1, <1>2, <1>3, <1>6
  <2>10. QED
    BY <2>7, <2>8, <2>9 DEF t, MergeStates
<1>7. CASE ~first /\ ~second
  <2>1. s.i > Len(d) /\ s.j > Len(a)
    <3>1. \/ s.i > Len(d)
          \/ s.j <= Len(a) /\ Less(a[s.j].path, d[s.i].path) /\ d[s.i].path \in Paths
      BY <1>1, <1>7, EntryFields DEF FromFirst
    <3>2. \/ s.j > Len(a)
          \/ s.i <= Len(d) /\ Less(d[s.i].path, a[s.j].path) /\ a[s.j].path \in Paths
      BY <1>1, <1>7, EntryFields DEF FromSecond
    <3>3. QED
      BY <1>1, <3>1, <3>2, LessAsymmetric
  <2>2. t.i = s.i /\ t.j = s.j /\ t.out = s.out
    BY <1>3, <1>7
  <2>3. t = s
    BY <1>1, <1>3, <2>2
  <2>4. QED
    BY <1>1, <2>1, <2>3
<1>8. QED
  BY <1>2, <1>6, <1>7

(* The merge loop ends with both lists taken. *)
LEMMA MergedHolds ==
  ASSUME NEW d \in Seq(FileEntry), NEW a \in Seq(FileEntry), Ascends(d), Ascends(a)
  PROVE  \E s \in MergeStates(d, a) : s.i = Len(d) + 1 /\ s.j = Len(a) + 1 /\ s.out = Merged(d, a)
<1> DEFINE N == Len(d) + Len(a)
           S == MergeStates(d, a)
           start == [i |-> 1, j |-> 1, out |-> <<>>]
           Is(h) == h = [n \in 0..N |-> IF n = 0 THEN start ELSE MergeStep(h[n-1], d, a)]
           step == [n \in 1..N |-> [s \in S |-> MergeStep(s, d, a)]]
           h == Merging(d, a)
<1>1. N \in Nat /\ Len(d) \in Nat /\ Len(a) \in Nat
  BY EntryFields
<1>2. start \in S
  <2>1. <<>> \in Seq(FileEntry) /\ DOMAIN <<>> = {}
    OBVIOUS
  <2>2. start.i = 1 /\ start.j = 1 /\ start.out = <<>> /\ start \in [i : Nat, j : Nat, out : Seq(FileEntry)]
    BY <2>1
  <2>3. 1 \in 1 .. Len(d) + 1 /\ 1 \in 1 .. Len(a) + 1 /\ 1 .. 1 - 1 = {}
    BY <1>1
  <2> HIDE DEF start
  <2>4. PartlyMerged(start, d, a)
    BY <2>1, <2>2, <2>3 DEF PartlyMerged, Ascends
  <2>5. QED
    BY <2>2, <2>4 DEF MergeStates
<1>3. h = CHOOSE f : Is(f)
  BY DEF Merging
<1> HIDE DEF N, start
<1>4. step \in [1..N -> [S -> S]]
  BY MergeStepHolds
<1>5. PICK g : Iterates(g, N, S, start, step)
  <2> HIDE DEF step, S
  <2>1. QED
    BY <1>1, <1>2, <1>4, RecursionUpTo, Zenon
<1>6. g \in [0..N -> S] /\ g[0] = start /\ \A n \in 1..N : g[n] = step[n][g[n-1]]
  <2> HIDE DEF step
  <2>1. QED
    BY <1>5 DEF Iterates
<1>7. ASSUME NEW n \in 1..N PROVE g[n] = MergeStep(g[n-1], d, a)
  <2>1. g[n-1] \in S
    BY <1>1, <1>6
  <2>2. step[n][g[n-1]] = MergeStep(g[n-1], d, a)
    BY <2>1
  <2>3. QED
    BY <1>6, <2>2
<1>8. Is(g)
  <2>1. \A n \in 0..N : n # 0 => n \in 1..N
    BY <1>1
  <2>2. QED
    BY <1>6, <1>7, <2>1
<1>9. Is(h)
  <2> HIDE DEF Is, h
  <2>1. QED
    BY <1>3, <1>8
<1>10. h[0] = start /\ \A n \in 1..N : h[n] = MergeStep(h[n-1], d, a)
  <2>1. 0 \in 0..N /\ \A n \in 1..N : n \in 0..N /\ n # 0
    BY <1>1
  <2> HIDE DEF h
  <2>2. QED
    BY <1>9, <2>1
<1> HIDE DEF h, Is
<1> DEFINE Along(s, n) == s.i + s.j >= n + 2 \/ (s.i = Len(d) + 1 /\ s.j = Len(a) + 1)
           T == {n \in 0..N : h[n] \in S /\ Along(h[n], n)}
<1>11. 0 \in T
  BY <1>1, <1>2, <1>10 DEF start
<1>12. ASSUME NEW n \in 1..N, n - 1 \in T PROVE n \in T
  <2> DEFINE s == h[n-1]
             t == h[n]
  <2>1. s \in S /\ Along(s, n - 1) /\ t = MergeStep(s, d, a)
    BY <1>10, <1>12
  <2> HIDE DEF s, t
  <2>2. /\ t \in S
        /\ s.i + s.j < t.i + t.j \/ (s.i = Len(d) + 1 /\ s.j = Len(a) + 1 /\ t = s)
    BY <2>1, MergeStepHolds
  <2>3. s.i \in Nat /\ s.j \in Nat /\ t.i \in 1 .. Len(d) + 1 /\ t.j \in 1 .. Len(a) + 1
        /\ s.i \in 1 .. Len(d) + 1 /\ s.j \in 1 .. Len(a) + 1
    BY <1>1, <2>1, <2>2 DEF MergeStates, PartlyMerged
  <2>4. Along(t, n)
    BY <1>1, <2>1, <2>2, <2>3
  <2>5. QED
    BY <1>1, <2>2, <2>4 DEF t
<1>13. N \in T
  <2> HIDE DEF T
  <2>1. \A n \in 0..N : n \in T
    BY <1>1, <1>11, <1>12, InductionUpTo
  <2>2. QED
    BY <1>1, <2>1
<1>14. h[N].i \in 1 .. Len(d) + 1 /\ h[N].j \in 1 .. Len(a) + 1
  BY <1>13 DEF MergeStates, PartlyMerged
<1>15. h[N].i = Len(d) + 1 /\ h[N].j = Len(a) + 1
  BY <1>1, <1>13, <1>14 DEF N
<1>16. h[N].out = Merged(d, a)
  BY DEF Merged, h, N
<1>17. QED
  BY <1>13, <1>15, <1>16

(* Both lists, each path once, marked if either list marks it. *)
LEMMA MergedMarks ==
  ASSUME NEW d \in Seq(FileEntry), NEW a \in Seq(FileEntry), Ascends(d), Ascends(a),
         NEW out, out = Merged(d, a)
  PROVE  out \in Seq(FileEntry) /\ ExactMerge(out, d, a)
<1> DEFINE both == Marks(d) \cup Marks(a)
<1> HIDE DEF both
<1>1. PICK s \in MergeStates(d, a) : s.i = Len(d) + 1 /\ s.j = Len(a) + 1 /\ s.out = Merged(d, a)
  BY MergedHolds
<1>2. PartlyMerged(s, d, a) /\ out = s.out
  BY <1>1 DEF MergeStates
<1>3. /\ out \in Seq(FileEntry) /\ Ascends(out) /\ Len(d) \in Nat /\ Len(a) \in Nat
      /\ DOMAIN d = 1..Len(d) /\ DOMAIN a = 1..Len(a)
      /\ \A k \in DOMAIN d : d[k].explicit \in BOOLEAN
      /\ \A k \in DOMAIN a : a[k].explicit \in BOOLEAN
      /\ \A k \in DOMAIN out : out[k].explicit \in BOOLEAN
  <2>1. out \in Seq(FileEntry) /\ Ascends(out)
    BY <1>2 DEF PartlyMerged
  <2>2. ASSUME NEW l \in Seq(FileEntry)
        PROVE  Len(l) \in Nat /\ DOMAIN l = 1..Len(l) /\ \A k \in DOMAIN l : l[k].explicit \in BOOLEAN
    BY EntryFields
  <2>3. QED
    BY <2>1, <2>2
<1>4. \A q : /\ IsIn(d, s.i, q) <=> \E k \in DOMAIN d : d[k].path = q
             /\ IsIn(a, s.j, q) <=> \E k \in DOMAIN a : a[k].path = q
             /\ MarkedIn(d, s.i, q) <=> \E k \in DOMAIN d : d[k].path = q /\ d[k].explicit
             /\ MarkedIn(a, s.j, q) <=> \E k \in DOMAIN a : a[k].path = q /\ a[k].explicit
  <2>1. 1 .. s.i - 1 = DOMAIN d /\ 1 .. s.j - 1 = DOMAIN a
    BY <1>1, <1>3
  <2>2. QED
    BY <2>1 DEF IsIn, MarkedIn
<1>5. \A q : <<q, TRUE>> \in both <=> MarkedIn(d, s.i, q) \/ MarkedIn(a, s.j, q)
  <2>1. \A q : <<q, TRUE>> \in Marks(d) <=> \E k \in DOMAIN d : d[k].path = q /\ d[k].explicit
    BY <1>3 DEF Marks
  <2>2. \A q : <<q, TRUE>> \in Marks(a) <=> \E k \in DOMAIN a : a[k].path = q /\ a[k].explicit
    BY <1>3 DEF Marks
  <2>3. TAKE q
  <2>4. /\ MarkedIn(d, s.i, q) <=> \E k \in DOMAIN d : d[k].path = q /\ d[k].explicit
        /\ MarkedIn(a, s.j, q) <=> \E k \in DOMAIN a : a[k].path = q /\ a[k].explicit
    BY <1>4
  <2>5. <<q, TRUE>> \in both <=> <<q, TRUE>> \in Marks(d) \/ <<q, TRUE>> \in Marks(a)
    BY DEF both
  <2>6. /\ <<q, TRUE>> \in Marks(d) <=> MarkedIn(d, s.i, q)
        /\ <<q, TRUE>> \in Marks(a) <=> MarkedIn(a, s.j, q)
    <3>1. <<q, TRUE>> \in Marks(d) <=> \E k \in DOMAIN d : d[k].path = q /\ d[k].explicit
      BY <2>1
    <3>2. <<q, TRUE>> \in Marks(a) <=> \E k \in DOMAIN a : a[k].path = q /\ a[k].explicit
      BY <2>2
    <3>3. QED
      BY <2>4, <3>1, <3>2
  <2>7. QED
    BY <2>5, <2>6
<1>6. \A q : (\E m \in both : m[1] = q) <=> IsIn(d, s.i, q) \/ IsIn(a, s.j, q)
  <2>1. ASSUME NEW l, l = d \/ l = a, NEW q
        PROVE  (\E m \in Marks(l) : m[1] = q) <=> \E k \in DOMAIN l : l[k].path = q
    <3>1. ASSUME NEW m \in Marks(l), m[1] = q PROVE \E k \in DOMAIN l : l[k].path = q
      BY <3>1 DEF Marks
    <3>2. ASSUME NEW k \in DOMAIN l, l[k].path = q PROVE \E m \in Marks(l) : m[1] = q
      <4>1. <<l[k].path, l[k].explicit>> \in Marks(l)
        BY DEF Marks
      <4>2. <<l[k].path, l[k].explicit>>[1] = q
        BY <3>2
      <4>3. QED
        BY <4>1, <4>2
    <3>3. QED
      BY <3>1, <3>2
  <2>2. TAKE q
  <2>3. (\E m \in both : m[1] = q) <=> (\E m \in Marks(d) : m[1] = q) \/ (\E m \in Marks(a) : m[1] = q)
    BY DEF both
  <2>4. /\ (\E m \in Marks(d) : m[1] = q) <=> \E k \in DOMAIN d : d[k].path = q
        /\ (\E m \in Marks(a) : m[1] = q) <=> \E k \in DOMAIN a : a[k].path = q
    BY <2>1
  <2>5. /\ IsIn(d, s.i, q) <=> \E k \in DOMAIN d : d[k].path = q
        /\ IsIn(a, s.j, q) <=> \E k \in DOMAIN a : a[k].path = q
    BY <1>4
  <2>6. QED
    BY <2>3, <2>4, <2>5
<1>7. \A k \in DOMAIN out :
        /\ IsIn(d, s.i, out[k].path) \/ IsIn(a, s.j, out[k].path)
        /\ out[k].explicit <=> <<out[k].path, TRUE>> \in both
  BY <1>2, <1>5 DEF PartlyMerged
<1>8. ASSUME NEW q, IsIn(d, s.i, q) \/ IsIn(a, s.j, q)
      PROVE  \E k \in DOMAIN out : out[k].path = q
  <2>1. CASE IsIn(d, s.i, q)
    <3>1. PICK l \in 1 .. s.i - 1 : d[l].path = q
      BY <2>1 DEF IsIn
    <3>2. QED
      BY <1>2, <3>1 DEF PartlyMerged
  <2>2. CASE IsIn(a, s.j, q)
    <3>1. PICK l \in 1 .. s.j - 1 : a[l].path = q
      BY <2>2 DEF IsIn
    <3>2. QED
      BY <1>2, <3>1 DEF PartlyMerged
  <2>3. QED
    BY <1>8, <2>1, <2>2
<1>13. ASSUME NEW k \in DOMAIN out, NEW b \in both, b[1] = out[k].path
       PROVE  <<out[k].path, out[k].explicit>> = <<b[1], <<b[1], TRUE>> \in both>>
  <2>1. PICK x \in BOOLEAN : x = (<<b[1], TRUE>> \in both)
    <3>1. CASE <<b[1], TRUE>> \in both
      <4>1. (<<b[1], TRUE>> \in both) = TRUE
        BY <3>1
      <4>2. QED
        BY <4>1
    <3>2. CASE <<b[1], TRUE>> \notin both
      <4>1. (<<b[1], TRUE>> \in both) = FALSE
        BY <3>2
      <4>2. QED
        BY <4>1
    <3>3. QED
      BY <3>1, <3>2
  <2>2. out[k].explicit \in BOOLEAN /\ (out[k].explicit <=> x)
    BY <1>3, <1>7, <1>13, <2>1
  <2>3. out[k].explicit = x
    BY <2>2
  <2>4. QED
    BY <1>13, <2>1, <2>3
<1>9. ASSUME NEW m \in Marks(out) PROVE m \in {<<b[1], <<b[1], TRUE>> \in both>> : b \in both}
  <2>1. PICK k \in DOMAIN out : m = <<out[k].path, out[k].explicit>>
    BY DEF Marks
  <2>2. PICK b \in both : b[1] = out[k].path
    BY <1>6, <1>7
  <2>3. QED
    BY <1>13, <2>1, <2>2
<1>10. ASSUME NEW b \in both PROVE <<b[1], <<b[1], TRUE>> \in both>> \in Marks(out)
  <2>1. PICK k \in DOMAIN out : out[k].path = b[1]
    BY <1>6, <1>8
  <2>2. <<out[k].path, out[k].explicit>> \in Marks(out)
    BY DEF Marks
  <2>3. QED
    BY <1>13, <2>1, <2>2
<1>11. Marks(out) = {<<m[1], <<m[1], TRUE>> \in both>> : m \in both}
  BY <1>9, <1>10
<1>12. QED
  BY <1>3, <1>11 DEF ExactMerge, both

------------------------------------------------------------------------------
(* Paths: their beginnings, their last names, and what lies between. *)
LEMMA Beginning ==
  ASSUME NEW p \in Paths, NEW n \in 1..Len(p)
  PROVE  /\ SubSeq(p, 1, n) \in Paths /\ Len(SubSeq(p, 1, n)) = n
         /\ \A i \in 1..n : SubSeq(p, 1, n)[i] = p[i]
         /\ n = Len(p) => SubSeq(p, 1, n) = p
<1>1. p \in Seq(Names) /\ Len(p) \in 1..MaxLength /\ n \in Nat /\ MaxLength \in Nat
  BY PathFields, DiscoveryAssumption
<1>2. \A i \in 1..n : p[i] \in Names
  BY <1>1
<1>3. /\ SubSeq(p, 1, n) \in Seq(Names) /\ Len(SubSeq(p, 1, n)) = n
      /\ \A i \in 1..n : SubSeq(p, 1, n)[i] = p[i]
  BY <1>1, <1>2, SubSeqProperties
<1>4. SubSeq(p, 1, n) \in Paths
  <2>1. n \in 1..MaxLength
    BY <1>1
  <2>2. QED
    BY <1>3, <2>1, IsPath
<1>5. n = Len(p) => SubSeq(p, 1, n) = p
  BY <1>1, SubSeqFull
<1>6. QED
  BY <1>3, <1>4, <1>5

(* Pathnames of the same names are the same. *)
LEMMA SamePath ==
  ASSUME NEW p \in Paths, NEW q \in Paths, Len(p) = Len(q), \A i \in 1..Len(p) : p[i] = q[i]
  PROVE  p = q
BY PathFields, SeqEqual

(* A beginning of a beginning is one. *)
LEMMA BeginningOfBeginning ==
  ASSUME NEW p \in Paths, NEW n \in 1..Len(p), NEW m \in 1..n
  PROVE  SubSeq(SubSeq(p, 1, n), 1, m) = SubSeq(p, 1, m)
<1> DEFINE q == SubSeq(p, 1, n)
<1>1. Len(p) \in Nat /\ m \in 1..Len(p)
  BY PathFields
<1>2. q \in Paths /\ Len(q) = n /\ \A i \in 1..n : q[i] = p[i]
  BY Beginning
<1> HIDE DEF q
<1>3. /\ SubSeq(q, 1, m) \in Paths /\ Len(SubSeq(q, 1, m)) = m
      /\ \A i \in 1..m : SubSeq(q, 1, m)[i] = q[i]
  BY <1>2, Beginning
<1>4. /\ SubSeq(p, 1, m) \in Paths /\ Len(SubSeq(p, 1, m)) = m
      /\ \A i \in 1..m : SubSeq(p, 1, m)[i] = p[i]
  BY <1>1, Beginning
<1>5. \A i \in 1..m : i \in 1..n
  BY <1>1
<1>6. SubSeq(q, 1, m) = SubSeq(p, 1, m)
  BY <1>2, <1>3, <1>4, <1>5, SamePath
<1>7. QED
  BY <1>6 DEF q

(* A child is its directory with a name. *)
LEMMA ChildFields ==
  ASSUME NEW h \in Paths, NEW n \in Names, Append(h, n) \in Paths
  PROVE  LET p == Append(h, n)
         IN /\ Len(p) = Len(h) + 1 /\ Front(p) = h /\ Last(p) = n
            /\ \A m \in 1..Len(h) : SubSeq(p, 1, m) = SubSeq(h, 1, m)
<1> DEFINE p == Append(h, n)
<1>1. h \in Seq(Names) /\ Len(h) \in Nat \ {0} /\ p \in Paths
  BY PathFields
<1>2. Len(p) = Len(h) + 1 /\ p[Len(h) + 1] = n /\ \A i \in 1..Len(h) : p[i] = h[i]
  BY <1>1
<1> HIDE DEF p
<1>3. Len(h) \in 1..Len(p)
  BY <1>1, <1>2
<1>4. SubSeq(p, 1, Len(h)) = h
  BY <1>1, <1>2, <1>3, Beginning, SamePath
<1>5. ASSUME NEW m \in 1..Len(h) PROVE SubSeq(p, 1, m) = SubSeq(h, 1, m)
  BY <1>1, <1>3, <1>4, BeginningOfBeginning
<1>6. Front(p) = h /\ Last(p) = n
  <2>1. Len(p) - 1 = Len(h)
    BY <1>1, <1>2
  <2>2. QED
    BY <1>2, <1>4, <2>1 DEF Front, Last
<1>7. QED
  BY <1>2, <1>5, <1>6 DEF p

(* Each beginning of a pathname names an entry of the one before. *)
LEMMA IsChild ==
  ASSUME NEW p \in Paths, NEW n \in 1 .. Len(p) - 1
  PROVE  /\ SubSeq(p, 1, n) \in Paths /\ p[n+1] \in Names
         /\ Append(SubSeq(p, 1, n), p[n+1]) = SubSeq(p, 1, n + 1)
<1> DEFINE q == SubSeq(p, 1, n)
           r == SubSeq(p, 1, n + 1)
<1>1. /\ Len(p) \in Nat /\ n \in Nat /\ n \in 1..Len(p) /\ n + 1 \in 1..Len(p)
      /\ \A i \in 1..Len(p) : p[i] \in Names
  BY PathFields
<1>2. q \in Paths /\ Len(q) = n /\ \A i \in 1..n : q[i] = p[i]
  BY <1>1, Beginning
<1>3. r \in Paths /\ Len(r) = n + 1 /\ \A i \in 1..n+1 : r[i] = p[i]
  BY <1>1, Beginning
<1> HIDE DEF q, r
<1>4. q \in Seq(Names) /\ r \in Seq(Names)
  BY <1>2, <1>3, PathFields
<1>5. /\ Append(q, p[n+1]) \in Seq(Names) /\ Len(Append(q, p[n+1])) = n + 1
      /\ \A i \in 1..n+1 : Append(q, p[n+1])[i] = IF i = n + 1 THEN p[n+1] ELSE q[i]
  BY <1>1, <1>2, <1>4
<1>6. ASSUME NEW i \in 1..n+1 PROVE Append(q, p[n+1])[i] = r[i]
  <2>1. i # n + 1 => i \in 1..n
    BY <1>1
  <2>2. QED
    BY <1>2, <1>3, <1>5, <2>1
<1>7. Append(q, p[n+1]) = r
  BY <1>3, <1>4, <1>5, <1>6, SeqEqual
<1>8. QED
  BY <1>1, <1>2, <1>7 DEF q, r

(* A pathname is an entry of its directory. *)
LEMMA Parent ==
  ASSUME NEW p \in Paths, NEW h \in Paths, Front(p) = h
  PROVE  Last(p) \in Names /\ p = Append(h, Last(p)) /\ Len(p) = Len(h) + 1
<1>1. Len(p) \in Nat \ {0} /\ Len(h) \in Nat \ {0} /\ p \in Seq(Names)
  BY PathFields
<1>2. Len(p) # 1
  <2>1. SUFFICES ASSUME Len(p) = 1 PROVE FALSE
    OBVIOUS
  <2>2. SubSeq(p, 1, 0) = <<>>
    BY SubSeqEmpty
  <2>3. h = <<>> /\ Len(<<>>) = 0
    BY <2>1, <2>2 DEF Front
  <2>4. QED
    BY <1>1, <2>3
<1> DEFINE n == Len(p) - 1
<1>3. n \in 1 .. Len(p) - 1 /\ n + 1 = Len(p) /\ n \in 1..Len(p) /\ Len(p) \in 1..Len(p)
  <2>1. Len(p) \in Nat /\ Len(p) # 0
    BY <1>1
  <2>2. QED
    BY <1>2, <2>1
<1>4. SubSeq(p, 1, n) = h
  BY DEF Front
<1> HIDE DEF n
<1>5. p[n+1] \in Names /\ Append(h, p[n+1]) = SubSeq(p, 1, n + 1) /\ Len(h) = n
  BY <1>3, <1>4, IsChild, Beginning
<1>6. SubSeq(p, 1, n + 1) = p
  BY <1>3, Beginning
<1>7. QED
  BY <1>1, <1>3, <1>5, <1>6 DEF Last

(* The ancestors of a pathname are its proper beginnings. *)
LEMMA AncestorFields ==
  ASSUME NEW p \in Paths
  PROVE  /\ Ancestors(p) \subseteq Paths
         /\ \A q \in Ancestors(p) : Len(q) \in 1 .. Len(p) - 1 /\ q = SubSeq(p, 1, Len(q))
         /\ \A n \in 1 .. Len(p) - 1 : SubSeq(p, 1, n) \in Ancestors(p)
<1>1. Len(p) \in Nat /\ \A n \in 1 .. Len(p) - 1 : n \in 1..Len(p)
  BY PathFields
<1>2. \A q \in Ancestors(p) : \E n \in 1 .. Len(p) - 1 : q = SubSeq(p, 1, n)
  BY DEF Ancestors
<1>3. \A n \in 1 .. Len(p) - 1 : SubSeq(p, 1, n) \in Ancestors(p)
  BY DEF Ancestors
<1>4. ASSUME NEW q \in Ancestors(p)
      PROVE  q \in Paths /\ Len(q) \in 1 .. Len(p) - 1 /\ q = SubSeq(p, 1, Len(q))
  <2>1. PICK n \in 1 .. Len(p) - 1 : q = SubSeq(p, 1, n)
    BY <1>2
  <2>2. q \in Paths /\ Len(q) = n
    BY <1>1, <2>1, Beginning
  <2>3. QED
    BY <2>1, <2>2
<1>5. QED
  BY <1>3, <1>4

(* An entry has its directory for an ancestor, and those above. *)
LEMMA AncestorsOfChild ==
  ASSUME NEW h \in Paths, NEW n \in Names, Append(h, n) \in Paths
  PROVE  Ancestors(Append(h, n)) = Ancestors(h) \cup {h}
<1> DEFINE p == Append(h, n)
<1>1. Len(p) = Len(h) + 1 /\ \A m \in 1..Len(h) : SubSeq(p, 1, m) = SubSeq(h, 1, m)
  BY ChildFields
<1>2. Len(h) \in Nat /\ Len(h) # 0 /\ SubSeq(h, 1, Len(h)) = h
  <2>1. Len(h) \in Nat /\ Len(h) # 0
    BY PathFields
  <2>2. Len(h) \in 1..Len(h)
    BY <2>1
  <2>3. QED
    BY <2>1, <2>2, Beginning
<1> HIDE DEF p
<1>3. Ancestors(p) = {SubSeq(h, 1, m) : m \in 1..Len(h)}
  <2>1. Len(p) - 1 = Len(h)
    BY <1>1, <1>2
  <2>2. QED
    BY <1>1, <2>1 DEF Ancestors
<1>4. ASSUME NEW m \in 1..Len(h) PROVE m = Len(h) \/ m \in 1 .. Len(h) - 1
  <2>1. Len(h) \in Nat /\ m \in Nat /\ m >= 1 /\ m <= Len(h)
    BY <1>2
  <2>2. QED
    BY <2>1
<1>5. \A m \in 1 .. Len(h) - 1 : m \in 1..Len(h)
  BY <1>2
<1>6. Len(h) \in 1..Len(h)
  BY <1>2
<1>7. Ancestors(p) = Ancestors(h) \cup {h}
  BY <1>2, <1>3, <1>4, <1>5, <1>6 DEF Ancestors
<1>8. QED
  BY <1>7 DEF p

(* The directory of an entry lies between an input above it and the entry. *)
LEMMA FrontThrough ==
  ASSUME NEW p \in Paths, NEW from \in Ancestors(p)
  PROVE  /\ Front(p) \in Through(p, from) /\ Front(p) \in Paths
         /\ Last(p) \in Names /\ p = Append(Front(p), Last(p))
<1> DEFINE N == Len(p) - 1
<1>1. Len(from) \in 1 .. Len(p) - 1 /\ Len(p) \in Nat
  BY AncestorFields, PathFields
<1>2. N \in 1 .. Len(p) - 1 /\ N \in 1..Len(p) /\ Len(from) <= N
  BY <1>1
<1>3. Front(p) = SubSeq(p, 1, N)
  BY DEF Front
<1> HIDE DEF N
<1>4. Front(p) \in Ancestors(p) /\ Front(p) \in Paths /\ Len(Front(p)) = N
  BY <1>2, <1>3, AncestorFields, Beginning
<1>5. Front(p) \in Through(p, from)
  BY <1>2, <1>4 DEF Through
<1>6. QED
  BY <1>4, <1>5, Parent

----------------------------------------------------------------------------
(* Where a path leads: each name is looked up in the directory before it. *)
LEMMA Looked ==
  ASSUME NEW c \in Contents, NEW node, NEW n \in Names
  PROVE  Lookup(c, node, n) \in Nodes
BY DEF Lookup, Contents, Nodes

(* What the names of a path lead to, one after another. *)
LEMMA WalkedSteps ==
  ASSUME NEW c \in Contents, NEW p \in Paths
  PROVE  LET at == Walked(c, p)
         IN at[0] = Root /\ \A n \in 1..Len(p) : at[n] = Lookup(c, at[n-1], p[n])
<1> DEFINE N == Len(p)
           Is(h) == h = [n \in 0..N |-> IF n = 0 THEN Root ELSE Lookup(c, h[n-1], p[n])]
           one(n) == [x \in Nodes |-> Lookup(c, x, p[n])]
           step == [n \in 1..N |-> one(n)]
           h == Walked(c, p)
<1>1. N \in Nat /\ Root \in Nodes /\ \A n \in 1..N : p[n] \in Names
  BY PathFields, DiscoveryAssumption DEF Nodes
<1>2. h = CHOOSE f : Is(f)
  BY DEF Walked
<1> HIDE DEF N
<1>3. /\ \A n \in 1..N : one(n) \in [Nodes -> Nodes]
      /\ \A n \in 1..N : \A x \in Nodes : one(n)[x] = Lookup(c, x, p[n])
  BY <1>1, Looked
<1>4. PICK g : g \in [0..N -> Nodes] /\ g[0] = Root /\ \A n \in 1..N : g[n] = step[n][g[n-1]]
  <2> HIDE DEF one
  <2>1. step \in [1..N -> [Nodes -> Nodes]]
    BY <1>3
  <2> HIDE DEF step
  <2>2. \E g : Iterates(g, N, Nodes, Root, step)
    BY <1>1, <2>1, RecursionUpTo, Zenon
  <2>3. QED
    BY <2>2 DEF Iterates
<1>5. ASSUME NEW n \in 1..N PROVE g[n] = Lookup(c, g[n-1], p[n])
  <2> HIDE DEF one
  <2>1. g[n-1] \in Nodes
    BY <1>1, <1>4
  <2>2. step[n] = one(n)
    OBVIOUS
  <2>3. QED
    BY <1>3, <1>4, <2>1, <2>2
<1> HIDE DEF step, one
<1>6. Is(g)
  <2>1. \A n \in 0..N : n # 0 => n \in 1..N
    BY <1>1
  <2>2. QED
    BY <1>4, <1>5, <2>1
<1>7. Is(h)
  <2> HIDE DEF Is, h
  <2>1. QED
    BY <1>2, <1>6
<1>8. h[0] = Root /\ \A n \in 1..N : h[n] = Lookup(c, h[n-1], p[n])
  <2>1. 0 \in 0..N /\ \A n \in 1..N : n \in 0..N /\ n # 0
    BY <1>1
  <2> HIDE DEF h
  <2>2. QED
    BY <1>7, <2>1
<1>9. QED
  BY <1>8 DEF N

(* A path leads to what its last name leads to in the directory above it. *)
LEMMA ChildNode ==
  ASSUME NEW c \in Contents, NEW h \in Paths, NEW n \in Names, Append(h, n) \in Paths
  PROVE  NodeIn(c, Append(h, n)) = Lookup(c, NodeIn(c, h), n)
<1> DEFINE p == Append(h, n)
           H == Walked(c, h)
           P == Walked(c, p)
           T == {m \in 0..Len(h) : H[m] = P[m]}
<1>1. Len(h) \in Nat /\ Len(p) = Len(h) + 1 /\ p[Len(h) + 1] = n /\ \A m \in 1..Len(h) : p[m] = h[m]
  BY PathFields
<1>2. /\ H[0] = Root /\ \A m \in 1..Len(h) : H[m] = Lookup(c, H[m-1], h[m])
      /\ P[0] = Root /\ \A m \in 1..Len(p) : P[m] = Lookup(c, P[m-1], p[m])
  BY WalkedSteps
<1> HIDE DEF p, H, P
<1>3. 0 \in T
  BY <1>1, <1>2
<1>4. ASSUME NEW m \in 1..Len(h), m - 1 \in T PROVE m \in T
  <2>1. H[m-1] = P[m-1] /\ m \in 1..Len(p) /\ m \in 0..Len(h)
    BY <1>1, <1>4
  <2>2. QED
    BY <1>1, <1>2, <2>1
<1>5. Len(h) \in T
  <2> HIDE DEF T
  <2>1. Len(h) \in 0..Len(h)
    BY <1>1
  <2>2. QED
    BY <1>1, <1>3, <1>4, <2>1, InductionUpTo
<1>6. P[Len(p)] = Lookup(c, H[Len(h)], n)
  <2>1. Len(p) \in 1..Len(p) /\ Len(p) - 1 = Len(h)
    BY <1>1
  <2>2. QED
    BY <1>1, <1>2, <1>5, <2>1
<1>7. QED
  BY <1>6 DEF NodeIn, p, H, P

(* A path leads to what a directory may hold. *)
LEMMA NodeType ==
  ASSUME NEW c \in Contents, NEW p \in Paths
  PROVE  NodeIn(c, p) \in Nodes
<1>1. Len(p) \in 1..Len(p) /\ p[Len(p)] \in Names
  <2>1. Len(p) \in Nat \ {0} /\ \A i \in 1..Len(p) : p[i] \in Names
    BY PathFields
  <2>2. Len(p) \in 1..Len(p)
    BY <2>1
  <2>3. QED
    BY <2>1, <2>2
<1>2. Walked(c, p)[Len(p)] = Lookup(c, Walked(c, p)[Len(p)-1], p[Len(p)])
  BY <1>1, WalkedSteps
<1>3. QED
  BY <1>1, <1>2, Looked DEF NodeIn

(* The kinds that lstat tells apart. *)
LEMMA KindFields ==
  ASSUME NEW x \in Nodes
  PROVE  /\ KindOf(x) \in Kinds /\ (KindOf(x) = "directory" <=> x \in Directories)
         /\ (KindOf(x) = "regular" <=> x = "regular") /\ (KindOf(x) = "none" <=> x = "none")
<1>1. {"none", "regular", "other"} \cap (Directories \cup Links) = {}
  BY DiscoveryAssumption
<1>2. QED
  BY <1>1 DEF KindOf, Kinds, Nodes

----------------------------------------------------------------------------
(* The invariant of a discovery, of what the call knows. *)
QueueEntry == [path : Paths, depth : Nat]
Walks == [pc : Labels, i : Nat, queue : Seq(QueueEntry), next : Nat, files : FileMaps,
          held : Directories, pending : SUBSET Names, optional : SUBSET Names,
          status : {"OK"} \cup Failures, result : Seq(FileEntry), given : Seq(FileEntry)]

DiskOK ==
  /\ content \in Contents /\ ever \in [Paths -> SUBSET Nodes]
  /\ had \in [Directories -> [Names -> SUBSET Nodes]] /\ changes \in Nat
  /\ \A p \in Paths : Node(p) \in ever[p]
  /\ \A d \in Directories, n \in Names : content[d][n] \in had[d][n]
  /\ \A h \in Paths, n \in Names, d \in Directories :
       Append(h, n) \in Paths /\ ever[h] = {d} => had[d][n] \subseteq ever[Append(h, n)]
  /\ changes = 0 => /\ IsTree(content)
                    /\ \A p \in Paths : ever[p] = {Node(p)}
                    /\ \A d \in Directories, n \in Names : had[d][n] = {content[d][n]}

ArgumentsOK ==
  /\ options \in [recursive : BOOLEAN, links : BOOLEAN, nodes : BOOLEAN,
                  files : Nat, directories : Nat, depth : Nat, bytes : Nat]
  /\ inputs \in Seq(Paths)

Queued(w) == {w.queue[k].path : k \in DOMAIN w.queue}
Ended(w) == w.pc = "merge" \/ (w.pc = "done" /\ w.status = "OK")

(* Where the call is. *)
Placed(w) ==
  /\ w.pc # "done" => w.status = "OK"
  /\ w.i \in 1 .. Len(inputs) + 1 /\ w.next \in 1 .. Len(w.queue) + 1
  /\ w.pc = "inputs" => w.next = 1
  /\ w.pc = "scan" => w.next > 1
  /\ w.pc \in {"next", "scan"} => w.i = Len(inputs) + 1
  /\ Ended(w) => /\ w.i = Len(inputs) + 1 /\ w.next = Len(w.queue) + 1
                 /\ w.result = Sorted(w.files)

(* No more than the limits allow, each once. *)
Limited(w) ==
  /\ IsFiniteSet(DOMAIN w.files) /\ ~Over(options.files, Cardinality(DOMAIN w.files))
  /\ ~Over(options.directories, Len(w.queue))
  /\ \A k, l \in DOMAIN w.queue : w.queue[k].path = w.queue[l].path => k = l
  /\ \A k \in DOMAIN w.queue : ~Over(options.depth, w.queue[k].depth)

(* What is found or queued was there. *)
PossibleDirectory(d) ==
  \/ d \in GivenPaths /\ LedTo(d) # {}
  \/ /\ options.recursive
     /\ \E from \in GivenPaths : /\ from \in Ancestors(d)
                                 /\ \A q \in Through(d, from) : LedTo(q) # {}
     /\ Had(d) \cap Directories # {}
Sound(w) ==
  /\ DOMAIN w.files \subseteq Possible
  /\ \A p \in DOMAIN w.files : w.files[p] => p \in GivenPaths
  /\ \A k \in DOMAIN w.queue : PossibleDirectory(w.queue[k].path)

(* What was there all along is found or queued, if the call has come by. *)
InputHandled(w, p) ==
  /\ Throughout(p, "regular") => p \in DOMAIN w.files /\ w.files[p]
  /\ Throughout(p, "directory") => p \in Queued(w)
  /\ ~Throughout(p, "none") /\ ~Throughout(p, "link") /\ ~Throughout(p, "other")
  /\ ~Over(options.bytes, Bytes(p))
EntryHandled(w, p) ==
  /\ Throughout(p, "regular") => p \in DOMAIN w.files
  /\ Throughout(p, "directory") /\ options.recursive => p \in Queued(w)
  /\ ~(Throughout(p, "link") /\ options.links)
  /\ ~(Throughout(p, "other") /\ options.nodes)
  /\ (\E kind \in Kinds \ {"none"} : Throughout(p, kind)) => ~Over(options.bytes, Bytes(p))
Scanned(w, d) ==
  Throughout(d, "directory") =>
    \A n \in Names : Append(d, n) \in Paths => EntryHandled(w, Append(d, n))
Scanning(w, d) ==
  Throughout(d, "directory") =>
    /\ ever[d] = {w.held}
    /\ \A n \in Names : Append(d, n) \in Paths => n \in w.pending \/ EntryHandled(w, Append(d, n))
Complete(w) ==
  w.status = "OK" =>
    /\ \A k \in 1 .. w.i - 1 : InputHandled(w, inputs[k])
    /\ \A k \in 1 .. w.next - 1 :
         IF w.pc = "scan" /\ k = w.next - 1 THEN Scanning(w, w.queue[k].path)
         ELSE Scanned(w, w.queue[k].path)

(* As long as nothing changed. *)
HasDepth(p, n) ==
  /\ n \in 0..MaxLength /\ SubSeq(p, 1, Len(p) - n) \in GivenPaths
  /\ \A m \in 0 .. n - 1 : SubSeq(p, 1, Len(p) - m) \notin GivenPaths
Depths(w) == changes = 0 => \A k \in DOMAIN w.queue : HasDepth(w.queue[k].path, w.queue[k].depth)
Unseen(w) ==
  w.pc = "scan" =>
    LET h == w.queue[w.next - 1].path
    IN /\ \A n \in w.pending \cup w.optional : Append(h, n) \in Paths
       /\ w.held \in LedTo(h)
       /\ changes = 0 => w.optional = {} /\ w.pending \subseteq Listable(h, w.held)
Reasoned(w) == changes = 0 /\ w.status \in DOMAIN Reasons => Reasons[w.status]

CallInv(w) ==
  /\ w \in Walks /\ Placed(w) /\ Limited(w) /\ Sound(w) /\ Complete(w)
  /\ Depths(w) /\ Unseen(w) /\ Reasoned(w)

Collects ==
  /\ collection \in Seq(FileEntry) /\ Ascends(walk.given)
  /\ walk.pc # "done" => collection = walk.given
  /\ MergeExact

DiscoveryInv == DiskOK /\ ArgumentsOK /\ CallInv(walk) /\ Collects

----------------------------------------------------------------------------
(* What a step adds to what the call knows. *)

(* The arguments of the call. *)
LEMMA OptionFields ==
  ASSUME ArgumentsOK
  PROVE  /\ options.recursive \in BOOLEAN /\ options.links \in BOOLEAN /\ options.nodes \in BOOLEAN
         /\ options.files \in Nat /\ options.directories \in Nat /\ options.depth \in Nat
         /\ options.bytes \in Nat
         /\ Len(inputs) \in Nat /\ DOMAIN inputs = 1..Len(inputs)
         /\ \A i \in 1..Len(inputs) : inputs[i] \in Paths /\ inputs[i] \in GivenPaths
         /\ \A p \in GivenPaths : p \in Paths /\ \E i \in 1..Len(inputs) : inputs[i] = p
BY DEF ArgumentsOK, GivenPaths

(* The parts of what the call knows. *)
LEMMA WalkFields ==
  ASSUME NEW w \in Walks
  PROVE  /\ w.pc \in Labels /\ w.i \in Nat /\ w.queue \in Seq(QueueEntry) /\ w.next \in Nat
         /\ w.files \in FileMaps /\ w.held \in Directories /\ w.pending \in SUBSET Names
         /\ w.optional \in SUBSET Names /\ w.status \in {"OK"} \cup Failures
         /\ w.result \in Seq(FileEntry) /\ w.given \in Seq(FileEntry)
BY DEF Walks

(* The parts of the queue. *)
LEMMA QueueFields ==
  ASSUME NEW queue \in Seq(QueueEntry)
  PROVE  /\ Len(queue) \in Nat /\ DOMAIN queue = 1..Len(queue)
         /\ \A k \in 1..Len(queue) : /\ queue[k] \in QueueEntry /\ queue[k].path \in Paths
                                     /\ queue[k].depth \in Nat
<1>1. /\ Len(queue) \in Nat /\ DOMAIN queue = 1..Len(queue)
      /\ \A k \in 1..Len(queue) : queue[k] \in QueueEntry
  OBVIOUS
<1>2. \A e \in QueueEntry : e.path \in Paths /\ e.depth \in Nat
  BY DEF QueueEntry
<1>3. QED
  BY <1>1, <1>2

(* The same call with more files and directories. *)
SameCall(v, w) == v \in Walks /\ v = [w EXCEPT !.files = v.files, !.queue = v.queue]
More(v, w) ==
  /\ DOMAIN w.files \subseteq DOMAIN v.files /\ \A q \in DOMAIN w.files : w.files[q] => v.files[q]
  /\ Len(w.queue) <= Len(v.queue)
  /\ \A k \in DOMAIN w.queue : v.queue[k].path = w.queue[k].path

(* What a new file or directory leaves alone, *)
LEMMA SameFields ==
  ASSUME NEW w \in Walks, NEW v, SameCall(v, w)
  PROVE  /\ v.pc = w.pc /\ v.i = w.i /\ v.next = w.next /\ v.held = w.held /\ v.pending = w.pending
         /\ v.optional = w.optional /\ v.status = w.status /\ v.result = w.result /\ v.given = w.given
BY DEF SameCall, Walks

(* a file, *)
LEMMA ChangedFiles ==
  ASSUME NEW w \in Walks, NEW files \in FileMaps
  PROVE  /\ SameCall([w EXCEPT !.files = files], w)
         /\ [w EXCEPT !.files = files].files = files /\ [w EXCEPT !.files = files].queue = w.queue
<1> DEFINE v == [w EXCEPT !.files = files]
<1>1. v.files = files /\ v.queue = w.queue
  BY DEF Walks
<1>2. v \in Walks
  BY DEF Walks
<1>3. v = [w EXCEPT !.files = v.files, !.queue = v.queue]
  BY <1>1 DEF Walks
<1>4. QED
  BY <1>1, <1>2, <1>3 DEF SameCall

(* or a directory. *)
LEMMA ChangedQueue ==
  ASSUME NEW w \in Walks, NEW queue \in Seq(QueueEntry)
  PROVE  /\ SameCall([w EXCEPT !.queue = queue], w)
         /\ [w EXCEPT !.queue = queue].queue = queue /\ [w EXCEPT !.queue = queue].files = w.files
<1> DEFINE v == [w EXCEPT !.queue = queue]
<1>1. v.files = w.files /\ v.queue = queue
  BY DEF Walks
<1>2. v \in Walks
  BY DEF Walks
<1>3. v = [w EXCEPT !.files = v.files, !.queue = v.queue]
  BY <1>1 DEF Walks
<1>4. QED
  BY <1>1, <1>2, <1>3 DEF SameCall

(* add_file fails at its limit, or has the file from now on. *)
Added(files, w, p, e) ==
  /\ DOMAIN files = DOMAIN w.files \cup {p}
  /\ \A q \in DOMAIN files : files[q] <=> (q \in DOMAIN w.files /\ w.files[q]) \/ (q = p /\ e)
  /\ p \in DOMAIN w.files \/ ~Over(options.files, Cardinality(DOMAIN w.files) + 1)

(* add_file adds the file, marks it, or finds the limit reached. *)
LEMMA AddFileOutcome ==
  ASSUME NEW w \in Walks, NEW p \in Paths, NEW e \in BOOLEAN
  PROVE  \/ /\ AddFile(w, p, e) = Fail(w, "FILE_LIMIT_EXCEEDED") /\ p \notin DOMAIN w.files
            /\ Over(options.files, Cardinality(DOMAIN w.files) + 1)
         \/ \E files \in FileMaps : /\ AddFile(w, p, e) = [w EXCEPT !.files = files]
                                    /\ Added(files, w, p, e)
<1>1. /\ w.files \in FileMaps /\ DOMAIN w.files \in SUBSET Paths
      /\ w.files \in [DOMAIN w.files -> BOOLEAN] /\ \A q \in DOMAIN w.files : w.files[q] \in BOOLEAN
  BY WalkFields, FileMapFields
<1>2. CASE p \in DOMAIN w.files
  <2>1. PICK x \in BOOLEAN : x = (w.files[p] \/ e)
    OBVIOUS
  <2> DEFINE files == [w.files EXCEPT ![p] = x]
  <2>2. files \in [DOMAIN w.files -> BOOLEAN] /\ DOMAIN files = DOMAIN w.files
    BY <1>1
  <2>3. \A q \in DOMAIN files : files[q] = IF q = p THEN x ELSE w.files[q]
    BY <1>1
  <2>4. AddFile(w, p, e) = [w EXCEPT !.files = files]
    BY <1>2, <2>1 DEF AddFile, Walks
  <2> HIDE DEF files
  <2>5. files \in FileMaps
    BY <1>1, <2>2 DEF FileMaps
  <2>6. DOMAIN files = DOMAIN w.files \cup {p}
    BY <1>2, <2>2
  <2>7. \A q \in DOMAIN files : files[q] <=> (q \in DOMAIN w.files /\ w.files[q]) \/ (q = p /\ e)
    BY <1>1, <1>2, <2>1, <2>2, <2>3
  <2>8. QED
    BY <1>2, <2>4, <2>5, <2>6, <2>7 DEF Added
<1>3. CASE p \notin DOMAIN w.files /\ ~Over(options.files, Cardinality(DOMAIN w.files) + 1)
  <2> DEFINE files == [q \in DOMAIN w.files \cup {p} |-> IF q = p THEN e ELSE w.files[q]]
  <2>1. files \in [DOMAIN w.files \cup {p} -> BOOLEAN]
    BY <1>1
  <2>2. DOMAIN files = DOMAIN w.files \cup {p}
    OBVIOUS
  <2>3. \A q \in DOMAIN files : files[q] = IF q = p THEN e ELSE w.files[q]
    OBVIOUS
  <2>4. AddFile(w, p, e) = [w EXCEPT !.files = files]
    BY <1>3 DEF AddFile, Walks
  <2> HIDE DEF files
  <2>5. files \in FileMaps
    <3>1. DOMAIN w.files \cup {p} \in SUBSET Paths
      BY <1>1
    <3>2. QED
      BY <2>1, <3>1 DEF FileMaps
  <2>6. \A q \in DOMAIN files : files[q] <=> (q \in DOMAIN w.files /\ w.files[q]) \/ (q = p /\ e)
    BY <1>3, <2>2, <2>3
  <2>7. QED
    BY <1>3, <2>2, <2>4, <2>5, <2>6 DEF Added
<1>4. CASE p \notin DOMAIN w.files /\ Over(options.files, Cardinality(DOMAIN w.files) + 1)
  BY <1>4 DEF AddFile
<1>5. QED
  BY <1>2, <1>3, <1>4

(* queue_directory fails at a limit, or has the directory from now on. *)
Grown(queue, w, p, n) ==
  /\ Len(w.queue) <= Len(queue)
  /\ \A k \in 1..Len(w.queue) :
       /\ queue[k].path = w.queue[k].path
       /\ queue[k].depth = IF w.queue[k].path = p /\ n < w.queue[k].depth
                           THEN n ELSE w.queue[k].depth
  /\ p \in Queued(w) => Len(queue) = Len(w.queue)
  /\ p \notin Queued(w) => /\ Len(queue) = Len(w.queue) + 1
                           /\ queue[Len(queue)] = [path |-> p, depth |-> n]
                           /\ ~Over(options.depth, n)
                           /\ ~Over(options.directories, Len(w.queue) + 1)

(* queue_directory queues once, or finds a limit reached. *)
LEMMA QueueOutcome ==
  ASSUME NEW w \in Walks, NEW p \in Paths, NEW n \in Nat
  PROVE  \/ /\ Queue(w, p, n) = Fail(w, "DEPTH_LIMIT_EXCEEDED") /\ p \notin Queued(w)
            /\ Over(options.depth, n)
         \/ /\ Queue(w, p, n) = Fail(w, "DIRECTORY_LIMIT_EXCEEDED") /\ p \notin Queued(w)
            /\ Over(options.directories, Len(w.queue) + 1)
         \/ \E queue \in Seq(QueueEntry) : /\ Queue(w, p, n) = [w EXCEPT !.queue = queue]
                                           /\ Grown(queue, w, p, n)
<1> DEFINE N == Len(w.queue)
           known == {k \in DOMAIN w.queue : w.queue[k].path = p}
<1>1. /\ w.queue \in Seq(QueueEntry) /\ N \in Nat /\ DOMAIN w.queue = 1..N
      /\ \A k \in 1..N : w.queue[k] \in QueueEntry /\ w.queue[k].path \in Paths /\ w.queue[k].depth \in Nat
  BY WalkFields, QueueFields
<1>2. p \in Queued(w) <=> known # {}
  BY DEF Queued
<1>3. CASE known # {}
  <2> DEFINE entry(k) == IF k \in known /\ n < w.queue[k].depth
                         THEN [w.queue[k] EXCEPT !.depth = n] ELSE w.queue[k]
             queue == [k \in DOMAIN w.queue |-> entry(k)]
  <2>1. \A k \in 1..N : /\ entry(k) \in QueueEntry /\ entry(k).path = w.queue[k].path
                        /\ entry(k).depth = IF w.queue[k].path = p /\ n < w.queue[k].depth
                                            THEN n ELSE w.queue[k].depth
    BY <1>1 DEF QueueEntry
  <2>2. Queue(w, p, n) = [w EXCEPT !.queue = queue]
    BY <1>3 DEF Queue, Walks
  <2>3. queue \in [1..N -> QueueEntry]
    <3> HIDE DEF entry
    <3>1. QED
      BY <1>1, <2>1
  <2>4. \A k \in 1..N : queue[k] = entry(k)
    BY <1>1
  <2> HIDE DEF queue, entry, known
  <2>5. queue \in Seq(QueueEntry) /\ Len(queue) = N
    BY <1>1, <2>3
  <2>6. Grown(queue, w, p, n)
    BY <1>1, <1>2, <1>3, <2>1, <2>4, <2>5 DEF Grown
  <2>7. QED
    BY <2>2, <2>5, <2>6
<1>4. CASE known = {} /\ ~Over(options.depth, n) /\ ~Over(options.directories, N + 1)
  <2> DEFINE e == [path |-> p, depth |-> n]
             queue == Append(w.queue, e)
  <2>1. e \in QueueEntry
    BY DEF QueueEntry
  <2>2. Queue(w, p, n) = [w EXCEPT !.queue = queue]
    BY <1>4 DEF Queue, Walks
  <2> HIDE DEF e
  <2>3. /\ queue \in Seq(QueueEntry) /\ Len(queue) = N + 1 /\ queue[N + 1] = e
        /\ \A k \in 1..N : queue[k] = w.queue[k]
    BY <1>1, <2>1
  <2>4. \A k \in 1..N : w.queue[k].path # p
    BY <1>1, <1>4
  <2> HIDE DEF queue, known
  <2>5. Grown(queue, w, p, n)
    BY <1>1, <1>2, <1>4, <2>3, <2>4 DEF e, Grown
  <2>6. QED
    BY <2>2, <2>3, <2>5
<1>5. CASE known = {} /\ Over(options.depth, n)
  BY <1>2, <1>5 DEF Queue
<1>6. CASE known = {} /\ ~Over(options.depth, n) /\ Over(options.directories, N + 1)
  BY <1>2, <1>6 DEF Queue
<1>7. QED
  BY <1>3, <1>4, <1>5, <1>6

----------------------------------------------------------------------------
(* A quiet tree. *)
LEMMA ReasonFields ==
  /\ DOMAIN Reasons = {"NOT_FOUND", "LINK_REJECTED", "UNSUPPORTED_NODE", "FILE_LIMIT_EXCEEDED",
                       "DIRECTORY_LIMIT_EXCEEDED", "DEPTH_LIMIT_EXCEEDED", "PATH_LIMIT_EXCEEDED"}
  /\ Reasons["NOT_FOUND"] <=> Kind("none", GivenPaths)
  /\ Reasons["LINK_REJECTED"] <=> Kind("link", IF options.links THEN Shown ELSE GivenPaths)
  /\ Reasons["UNSUPPORTED_NODE"] <=> Kind("other", IF options.nodes THEN Shown ELSE GivenPaths)
  /\ Reasons["FILE_LIMIT_EXCEEDED"] <=> Over(options.files, Cardinality(Certain))
  /\ Reasons["DIRECTORY_LIMIT_EXCEEDED"] <=> Over(options.directories, Cardinality(Reached))
  /\ Reasons["DEPTH_LIMIT_EXCEEDED"] <=> \E p \in Reached : Over(options.depth, Depth(p))
  /\ Reasons["PATH_LIMIT_EXCEEDED"] <=> \E p \in Shown : Over(options.bytes, Bytes(p))
BY DEF Reasons

(* What lstat finds. *)
LEMMA DiskFields ==
  ASSUME DiskOK
  PROVE  /\ content \in Contents /\ \A d \in Directories, n \in Names : content[d][n] \in Nodes
         /\ \A p \in Paths : /\ Node(p) \in Nodes /\ Node(p) \in ever[p]
                             /\ tree[p] = KindOf(Node(p)) /\ tree[p] \in Kinds
                             /\ (tree[p] = "directory" <=> Node(p) \in Directories)
                             /\ (tree[p] = "regular" <=> Node(p) = "regular")
                             /\ (tree[p] = "none" <=> Node(p) = "none")
<1>1. content \in Contents /\ \A p \in Paths : Node(p) \in ever[p]
  BY DEF DiskOK
<1>2. \A d \in Directories, n \in Names : content[d][n] \in Nodes
  BY <1>1 DEF Contents
<1>3. \A p \in Paths : Node(p) \in Nodes /\ tree[p] = KindOf(Node(p))
  BY <1>1, NodeType DEF Node, tree
<1>4. QED
  BY <1>1, <1>2, <1>3, KindFields

(* What a directory has is found below the path that leads to it. *)
LEMMA ChildKind ==
  ASSUME DiskOK, NEW h \in Paths, NEW n \in Names, Append(h, n) \in Paths, Node(h) \in Directories
  PROVE  /\ Node(Append(h, n)) = content[Node(h)][n]
         /\ tree[Append(h, n)] = KindOf(content[Node(h)][n])
<1>1. Node(Append(h, n)) = Lookup(content, Node(h), n)
  BY DiskFields, ChildNode DEF Node
<1>2. Follow(Node(h)) = Node(h)
  BY DiscoveryAssumption DEF Follow
<1>3. QED
  BY <1>1, <1>2, DiskFields DEF Lookup

(* A descriptor and a path agree when the path always led to that directory. *)
LEMMA HeldNode ==
  ASSUME DiskOK, NEW h \in Paths, NEW n \in Names, Append(h, n) \in Paths, NEW d \in LedTo(h),
         ever[h] = {d} \/ changes = 0
  PROVE  Node(h) = d /\ tree[Append(h, n)] = KindOf(content[d][n])
<1>1. d \in ever[h] /\ d \in Directories /\ Node(h) \in ever[h]
  BY DiskFields DEF LedTo
<1>2. changes = 0 => ever[h] = {Node(h)}
  BY DEF DiskOK
<1>3. Node(h) = d
  BY <1>1, <1>2
<1>4. QED
  BY <1>1, <1>3, ChildKind

(* Nothing changed: what is there was there all along. *)
LEMMA QuietTree ==
  ASSUME DiskOK, changes = 0
  PROVE  /\ IsTree(content) /\ \A p \in Paths : ever[p] = {Node(p)}
         /\ \A p \in Paths : \A kind : Throughout(p, kind) <=> tree[p] = kind
         /\ \A p \in Paths : /\ "regular" \in ever[p] <=> Throughout(p, "regular")
                             /\ LedTo(p) # {} <=> Throughout(p, "directory")
<1>1. IsTree(content) /\ \A p \in Paths : ever[p] = {Node(p)}
  BY DEF DiskOK
<1>2. ASSUME NEW p \in Paths, NEW kind PROVE Throughout(p, kind) <=> tree[p] = kind
  <2>1. ever[p] = {Node(p)} /\ tree[p] = KindOf(Node(p))
    BY <1>1, DiskFields
  <2>2. QED
    BY <2>1 DEF Throughout
<1>3. ASSUME NEW p \in Paths
      PROVE  /\ "regular" \in ever[p] <=> Throughout(p, "regular")
             /\ LedTo(p) # {} <=> Throughout(p, "directory")
  <2>1. "regular" \in ever[p] <=> tree[p] = "regular"
    BY <1>1, DiskFields
  <2>2. LedTo(p) # {} <=> tree[p] = "directory"
    BY <1>1, DiskFields DEF LedTo
  <2>3. QED
    BY <1>2, <2>1, <2>2
<1>4. QED
  BY <1>1, <1>2, <1>3

(* What lies between an input and a pathname are ancestors of it. *)
LEMMA ThroughPaths ==
  ASSUME NEW p \in Paths, NEW from
  PROVE  Through(p, from) \subseteq Paths /\ Through(p, from) \subseteq Ancestors(p)
BY AncestorFields DEF Through

(* Nothing changed: a path that can be reached had what it leads to. *)
LEMMA QuietHad ==
  ASSUME DiskOK, changes = 0, NEW p \in Paths, NEW from \in Ancestors(p),
         \A q \in Through(p, from) : LedTo(q) # {}
  PROVE  Had(p) = {Node(p)}
<1> DEFINE h == Front(p)
           n == Last(p)
<1>1. h \in Through(p, from) /\ h \in Paths /\ n \in Names /\ p = Append(h, n)
  BY FrontThrough
<1>2. ever[h] = {Node(h)} /\ LedTo(h) # {}
  BY <1>1, QuietTree
<1>3. LedTo(h) = {Node(h)} /\ Node(h) \in Directories
  BY <1>2 DEF LedTo
<1>4. Node(p) = content[Node(h)][n]
  BY <1>1, <1>3, ChildKind
<1>5. had[Node(h)][n] = {content[Node(h)][n]}
  BY <1>1, <1>3 DEF DiskOK
<1>6. Had(p) = UNION {had[d][n] : d \in {Node(h)}}
  BY <1>3 DEF Had
<1> HIDE DEF h, n
<1>7. QED
  BY <1>4, <1>5, <1>6

(* Nothing changed: what may be listed must be. *)
LEMMA QuietPossible ==
  ASSUME DiskOK, changes = 0
  PROVE  Possible = Certain
<1>1. ASSUME NEW p \in Paths, NEW from \in Ancestors(p)
      PROVE  (\A q \in Through(p, from) : LedTo(q) # {})
             <=> (\A q \in Through(p, from) : Throughout(q, "directory"))
  <2>1. ASSUME NEW q \in Through(p, from)
        PROVE  LedTo(q) # {} <=> Throughout(q, "directory")
    <3>1. q \in Paths
      BY ThroughPaths
    <3>2. QED
      BY <3>1, QuietTree, Zenon
  <2>2. QED
    BY <2>1
<1>2. ASSUME NEW p \in Paths, NEW from \in Ancestors(p),
             \A q \in Through(p, from) : LedTo(q) # {}
      PROVE  "regular" \in Had(p) <=> Throughout(p, "regular")
  <2>1. Had(p) = {Node(p)}
    BY <1>2, QuietHad
  <2>2. ever[p] = {Node(p)} /\ ("regular" \in ever[p] <=> Throughout(p, "regular"))
    BY QuietTree, Zenon
  <2>3. QED
    BY <2>1, <2>2
<1>3. ASSUME NEW p \in Possible PROVE p \in Certain
  <2>1. p \in Paths
    BY DEF Possible
  <2>2. CASE p \in GivenPaths /\ "regular" \in ever[p]
    <3>1. Throughout(p, "regular")
      BY <2>1, <2>2, QuietTree, Zenon
    <3>2. QED
      BY <2>1, <2>2, <3>1 DEF Certain
  <2>3. CASE /\ \E from \in GivenPaths : /\ Below(p, from)
                                         /\ \A q \in Through(p, from) : LedTo(q) # {}
             /\ "regular" \in Had(p)
    <3>1. PICK from \in GivenPaths : Below(p, from) /\ \A q \in Through(p, from) : LedTo(q) # {}
      BY <2>3
    <3>2. from \in Ancestors(p)
      BY <3>1 DEF Below
    <3>3. Throughout(p, "regular") /\ \A q \in Through(p, from) : Throughout(q, "directory")
      BY <1>1, <1>2, <2>1, <2>3, <3>1, <3>2
    <3>4. QED
      BY <2>1, <3>1, <3>3 DEF Certain
  <2>4. QED
    BY <2>2, <2>3 DEF Possible
<1>4. ASSUME NEW p \in Certain PROVE p \in Possible
  <2>1. p \in Paths /\ Throughout(p, "regular")
    BY DEF Certain
  <2>2. CASE p \in GivenPaths
    <3>1. "regular" \in ever[p]
      BY <2>1, QuietTree, Zenon
    <3>2. QED
      BY <2>1, <2>2, <3>1 DEF Possible
  <2>3. CASE \E from \in GivenPaths : /\ Below(p, from)
                                      /\ \A q \in Through(p, from) : Throughout(q, "directory")
    <3>1. PICK from \in GivenPaths : Below(p, from) /\ \A q \in Through(p, from) : Throughout(q, "directory")
      BY <2>3
    <3>2. from \in Ancestors(p)
      BY <3>1 DEF Below
    <3>3. (\A q \in Through(p, from) : LedTo(q) # {}) /\ "regular" \in Had(p)
      BY <1>1, <1>2, <2>1, <3>1, <3>2
    <3>4. QED
      BY <2>1, <3>1, <3>3 DEF Possible
  <2>4. QED
    BY <2>2, <2>3 DEF Certain
<1>5. QED
  BY <1>3, <1>4

(* Nothing changed: there are finitely many files and directories to find. *)
LEMMA QuietFinite ==
  ASSUME DiskOK, changes = 0
  PROVE  IsFiniteSet(Certain) /\ IsFiniteSet(Reached)
<1> DEFINE there == {p \in Paths : Node(p) # "none"}
<1>1. IsFiniteSet(there)
  BY QuietTree DEF IsTree, Node
<1>2. \A p \in Paths : tree[p] \in {"regular", "directory"} => Node(p) # "none"
  BY DiskFields
<1>3. Certain \subseteq there
  <2>1. ASSUME NEW p \in Certain PROVE p \in Paths /\ tree[p] = "regular"
    <3>1. p \in Paths /\ Throughout(p, "regular")
      BY DEF Certain
    <3>2. QED
      BY <3>1, QuietTree, Zenon
  <2>2. QED
    BY <1>2, <2>1
<1>4. Reached \subseteq there
  BY <1>2 DEF Reached
<1> HIDE DEF there
<1>5. QED
  BY <1>1, <1>3, <1>4, FS_Subset

(* Nothing changed: every directory queued is one that can be reached. *)
LEMMA QuietReached ==
  ASSUME DiskOK, changes = 0, NEW p \in Paths, PossibleDirectory(p)
  PROVE  p \in Reached
<1>1. CASE p \in GivenPaths /\ LedTo(p) # {}
  <2>1. tree[p] = "directory"
    <3>1. Throughout(p, "directory")
      BY <1>1, QuietTree, Zenon
    <3>2. QED
      BY <3>1, QuietTree, Zenon
  <2>2. QED
    BY <1>1, <2>1 DEF Reached
<1>2. CASE /\ options.recursive
           /\ \E from \in GivenPaths : /\ from \in Ancestors(p)
                                       /\ \A q \in Through(p, from) : LedTo(q) # {}
           /\ Had(p) \cap Directories # {}
  <2>1. PICK from \in GivenPaths : from \in Ancestors(p) /\ \A q \in Through(p, from) : LedTo(q) # {}
    BY <1>2
  <2>2. Had(p) = {Node(p)}
    BY <2>1, QuietHad
  <2>3. tree[p] = "directory"
    BY <1>2, <2>2, DiskFields
  <2>4. ASSUME NEW q \in Through(p, from) PROVE tree[q] = "directory"
    <3>1. q \in Paths /\ LedTo(q) # {}
      BY <2>1, ThroughPaths
    <3>2. Throughout(q, "directory")
      BY <3>1, QuietTree, Zenon
    <3>3. QED
      BY <3>1, <3>2, QuietTree, Zenon
  <2>5. QED
    BY <1>2, <2>1, <2>3, <2>4 DEF Reached
<1>3. QED
  BY <1>1, <1>2 DEF PossibleDirectory

(* A directory has one depth, that of its nearest input. *)
LEMMA DepthOf ==
  ASSUME NEW p \in Paths, NEW n, HasDepth(p, n)
  PROVE  Depth(p) = n /\ \A m : HasDepth(p, m) => m = n
<1>1. MaxLength \in Nat /\ \A m : HasDepth(p, m) => m \in Nat
  BY DiscoveryAssumption DEF HasDepth
<1>2. ASSUME NEW m, HasDepth(p, m) PROVE m = n
  <2>1. ~(m < n)
    <3>1. m < n => m \in 0 .. n - 1
      BY <1>1, <1>2
    <3>2. QED
      BY <1>2, <3>1 DEF HasDepth
  <2>2. ~(n < m)
    <3>1. n < m => n \in 0 .. m - 1
      BY <1>1, <1>2
    <3>2. QED
      BY <1>2, <3>1 DEF HasDepth
  <2>3. QED
    BY <1>1, <1>2, <2>1, <2>2
<1>3. Depth(p) = CHOOSE m \in 0..MaxLength : HasDepth(p, m)
  <2>1. \A m \in 0..MaxLength :
          HasDepth(p, m) <=> /\ SubSeq(p, 1, Len(p) - m) \in GivenPaths
                             /\ \A k \in 0..(m - 1) : SubSeq(p, 1, Len(p) - k) \notin GivenPaths
    BY DEF HasDepth
  <2>2. QED
    BY <2>1 DEF Depth
<1>4. n \in 0..MaxLength
  BY DEF HasDepth
<1> DEFINE d == CHOOSE m \in 0..MaxLength : HasDepth(p, m)
<1>5. HasDepth(p, d)
  BY <1>4
<1> HIDE DEF d
<1>6. d = n
  BY <1>2, <1>5
<1>7. QED
  BY <1>2, <1>3, <1>6 DEF d

----------------------------------------------------------------------------
(* What a step finds is added, or the step fails for a reason. *)
Base(w) == w \in Walks /\ Limited(w) /\ Sound(w) /\ Depths(w)
Fails(v, w) ==
  \E s \in Failures : v = Fail(w, s) /\ (changes = 0 /\ s \in DOMAIN Reasons => Reasons[s])
Gathers(v, w) == SameCall(v, w) /\ More(v, w) /\ Limited(v) /\ Sound(v) /\ Depths(v)

(* A file that was there is added, or more files exist than the limit allows. *)
LEMMA TakesFile ==
  ASSUME DiskOK, ArgumentsOK, NEW w, Base(w), NEW p \in Possible, NEW e \in BOOLEAN,
         e => p \in GivenPaths, NEW v, v = AddFile(w, p, e)
  PROVE  Fails(v, w) \/ (Gathers(v, w) /\ p \in DOMAIN v.files /\ (e => v.files[p]))
<1> DEFINE n == Cardinality(DOMAIN w.files)
<1>1. p \in Paths /\ w \in Walks /\ Limited(w) /\ Sound(w) /\ Depths(w) /\ options.files \in Nat
  BY OptionFields DEF Possible, Base
<1>2. IsFiniteSet(DOMAIN w.files) /\ ~Over(options.files, n) /\ n \in Nat
  BY <1>1, FS_CardinalityType DEF Limited
<1>3. /\ IsFiniteSet(DOMAIN w.files \cup {p})
      /\ Cardinality(DOMAIN w.files \cup {p}) = IF p \in DOMAIN w.files THEN n ELSE n + 1
  BY <1>2, FS_AddElement
<1>4. CASE /\ v = Fail(w, "FILE_LIMIT_EXCEEDED") /\ p \notin DOMAIN w.files
           /\ Over(options.files, n + 1)
  <2>1. ASSUME changes = 0 PROVE Over(options.files, Cardinality(Certain))
    <3>1. DOMAIN w.files \cup {p} \subseteq Certain /\ IsFiniteSet(Certain)
      BY <1>1, <2>1, QuietPossible, QuietFinite DEF Sound
    <3>2. n + 1 <= Cardinality(Certain) /\ Cardinality(Certain) \in Nat
      BY <1>3, <1>4, <3>1, FS_Subset, FS_CardinalityType
    <3>3. QED
      BY <1>1, <1>2, <1>4, <3>2 DEF Over
  <2>2. "FILE_LIMIT_EXCEEDED" \in Failures
    BY DEF Failures
  <2>3. QED
    BY <1>4, <2>1, <2>2, ReasonFields DEF Fails
<1>5. CASE \E files \in FileMaps : v = [w EXCEPT !.files = files] /\ Added(files, w, p, e)
  <2>1. PICK files \in FileMaps :
          /\ v = [w EXCEPT !.files = files]
          /\ DOMAIN files = DOMAIN w.files \cup {p}
          /\ \A q \in DOMAIN files : files[q] <=> (q \in DOMAIN w.files /\ w.files[q]) \/ (q = p /\ e)
          /\ p \in DOMAIN w.files \/ ~Over(options.files, n + 1)
    BY <1>5 DEF Added
  <2>2. SameCall(v, w) /\ v.files = files /\ v.queue = w.queue
    BY <1>1, <2>1, ChangedFiles
  <2>3. Len(w.queue) \in Nat
    BY <1>1, WalkFields, QueueFields
  <2>4. More(v, w)
    BY <2>1, <2>2, <2>3 DEF More
  <2>5. Limited(v)
    BY <1>1, <1>2, <1>3, <2>1, <2>2 DEF Limited
  <2>6. Sound(v)
    BY <1>1, <2>1, <2>2 DEF Sound
  <2>7. Depths(v)
    BY <1>1, <2>2 DEF Depths
  <2>8. QED
    BY <2>1, <2>2, <2>4, <2>5, <2>6, <2>7 DEF Gathers
<1>6. QED
  BY <1>1, <1>4, <1>5, AddFileOutcome

(* The queue has each directory once. *)
LEMMA QueueSize ==
  ASSUME NEW w \in Walks, Limited(w)
  PROVE  IsFiniteSet(Queued(w)) /\ Cardinality(Queued(w)) = Len(w.queue)
<1> DEFINE N == Len(w.queue)
           f == [k \in 1..N |-> w.queue[k].path]
<1>1. N \in Nat /\ DOMAIN w.queue = 1..N
  BY WalkFields, QueueFields
<1>2. \A k, l \in 1..N : w.queue[k].path = w.queue[l].path => k = l
  BY <1>1 DEF Limited
<1>3. Queued(w) = {f[k] : k \in 1..N}
  BY <1>1 DEF Queued
<1>4. \A k, l \in 1..N : f[k] = f[l] => k = l
  BY <1>2
<1> HIDE DEF N
<1>5. DOMAIN f = 1..N
  OBVIOUS
<1> HIDE DEF f
<1>6. f \in Bijection(1..N, Queued(w))
  <2>1. f \in [1..N -> Queued(w)]
    BY <1>3, <1>5, f = [k \in 1..N |-> f[k]] DEF f
  <2>2. \A x \in Queued(w) : \E k \in 1..N : f[k] = x
    BY <1>3
  <2>3. QED
    BY <1>4, <2>1, <2>2 DEF Bijection, Injection, IsInjective, Surjection
<1>7. ExistsBijection(1..N, Queued(w))
  BY <1>6 DEF ExistsBijection
<1>8. IsFiniteSet(1..N) /\ Cardinality(1..N) = N
  BY <1>1, FS_Interval
<1>9. QED
  BY <1>7, <1>8, FS_Bijection DEF N

(* A directory that was there is queued, or there are too many or too deep. *)
LEMMA TakesDirectory ==
  ASSUME DiskOK, ArgumentsOK, NEW w, Base(w), NEW p \in Paths, PossibleDirectory(p), NEW n \in Nat,
         changes = 0 => IF p \in Queued(w)
                        THEN \A k \in DOMAIN w.queue : w.queue[k].path = p => w.queue[k].depth <= n
                        ELSE HasDepth(p, n),
         NEW v, v = Queue(w, p, n)
  PROVE  Fails(v, w) \/ (Gathers(v, w) /\ p \in Queued(v))
<1> DEFINE N == Len(w.queue)
<1>1. /\ w \in Walks /\ Limited(w) /\ Sound(w) /\ Depths(w)
      /\ options.directories \in Nat /\ options.depth \in Nat
  BY OptionFields DEF Base
<1>2. /\ w.queue \in Seq(QueueEntry) /\ N \in Nat /\ DOMAIN w.queue = 1..N
      /\ \A k \in 1..N : w.queue[k].path \in Paths /\ w.queue[k].depth \in Nat
  BY <1>1, WalkFields, QueueFields
<1>3. \A k \in 1..N : PossibleDirectory(w.queue[k].path)
  BY <1>1, <1>2 DEF Sound
<1>4. CASE v = Fail(w, "DEPTH_LIMIT_EXCEEDED") /\ p \notin Queued(w) /\ Over(options.depth, n)
  <2>1. ASSUME changes = 0 PROVE \E q \in Reached : Over(options.depth, Depth(q))
    <3>1. HasDepth(p, n)
      BY <1>4, <2>1
    <3>2. Depth(p) = n /\ p \in Reached
      BY <2>1, <3>1, DepthOf, QuietReached
    <3>3. QED
      BY <1>4, <3>2
  <2>2. "DEPTH_LIMIT_EXCEEDED" \in Failures
    BY DEF Failures
  <2>3. QED
    BY <1>4, <2>1, <2>2, ReasonFields DEF Fails
<1>5. CASE v = Fail(w, "DIRECTORY_LIMIT_EXCEEDED") /\ p \notin Queued(w) /\ Over(options.directories, N + 1)
  <2>1. ASSUME changes = 0 PROVE Over(options.directories, Cardinality(Reached))
    <3>1. Queued(w) \cup {p} \subseteq Reached /\ IsFiniteSet(Reached)
      <4>1. \A k \in 1..N : w.queue[k].path \in Reached
        BY <1>2, <1>3, <2>1, QuietReached
      <4>2. QED
        BY <1>2, <2>1, <4>1, QuietReached, QuietFinite DEF Queued
    <3>2. IsFiniteSet(Queued(w)) /\ Cardinality(Queued(w)) = N
      BY <1>1, QueueSize
    <3>3. Cardinality(Queued(w) \cup {p}) = N + 1
      BY <1>5, <3>2, FS_AddElement
    <3>4. N + 1 <= Cardinality(Reached) /\ Cardinality(Reached) \in Nat
      BY <3>1, <3>3, FS_Subset, FS_CardinalityType
    <3>5. QED
      BY <1>1, <1>2, <1>5, <3>4 DEF Over
  <2>2. "DIRECTORY_LIMIT_EXCEEDED" \in Failures
    BY DEF Failures
  <2>3. QED
    BY <1>5, <2>1, <2>2, ReasonFields DEF Fails
<1>6. CASE \E queue \in Seq(QueueEntry) : v = [w EXCEPT !.queue = queue] /\ Grown(queue, w, p, n)
  <2>1. PICK queue \in Seq(QueueEntry) : v = [w EXCEPT !.queue = queue] /\ Grown(queue, w, p, n)
    BY <1>6
  <2>2. SameCall(v, w) /\ v.files = w.files /\ v.queue = queue
    BY <1>1, <2>1, ChangedQueue
  <2>3. Len(queue) \in Nat /\ DOMAIN queue = 1..Len(queue)
    BY QueueFields
  <2>4. /\ N <= Len(queue)
        /\ \A k \in 1..N : /\ queue[k].path = w.queue[k].path
                           /\ queue[k].depth = IF w.queue[k].path = p /\ n < w.queue[k].depth
                                               THEN n ELSE w.queue[k].depth
        /\ p \in Queued(w) => Len(queue) = N
        /\ p \notin Queued(w) => /\ Len(queue) = N + 1
                                 /\ queue[N + 1].path = p /\ queue[N + 1].depth = n
                                 /\ ~Over(options.depth, n) /\ ~Over(options.directories, N + 1)
    BY <2>1 DEF Grown
  <2>5. More(v, w)
    BY <1>2, <2>2, <2>4 DEF More
  <2>14. Len(queue) = N \/ (Len(queue) = N + 1 /\ p \notin Queued(w))
    BY <2>4
  <2>15. N \in Nat /\ N <= Len(queue)
    BY <1>2, <2>4
  <2> HIDE DEF N
  <2>6. ASSUME NEW k \in 1..Len(queue)
        PROVE  \/ k \in 1..N
               \/ k = N + 1 /\ p \notin Queued(w)
    BY <2>14, <2>15
  <2>16. \A k \in 1..N : k \in 1..Len(queue)
    BY <2>3, <2>15
  <2>7. \A k \in 1..N : (w.queue[k].path = p) => p \in Queued(w)
    BY <1>2 DEF Queued
  <2>8. Limited(v)
    <3>1. IsFiniteSet(DOMAIN v.files) /\ ~Over(options.files, Cardinality(DOMAIN v.files))
      BY <1>1, <2>2 DEF Limited
    <3>2. ~Over(options.directories, N)
      BY <1>1 DEF Limited, N
    <3>3. ~Over(options.directories, Len(queue))
      BY <2>4, <3>2
    <3>4. ASSUME NEW k \in 1..Len(queue), NEW l \in 1..Len(queue), queue[k].path = queue[l].path
          PROVE  k = l
      <4>1. \A i, j \in 1..N : w.queue[i].path = w.queue[j].path => i = j
        BY <1>1, <1>2 DEF Limited
      <4>2. QED
        BY <2>4, <2>6, <2>7, <3>4, <4>1
    <3>5. ASSUME NEW k \in 1..Len(queue) PROVE ~Over(options.depth, queue[k].depth)
      <4>1. \A i \in 1..N : ~Over(options.depth, w.queue[i].depth)
        BY <1>1, <1>2 DEF Limited
      <4>2. QED
        BY <1>1, <1>2, <2>4, <2>6, <4>1 DEF Over
    <3>6. QED
      BY <2>2, <2>3, <3>1, <3>3, <3>4, <3>5 DEF Limited
  <2>9. Sound(v)
    <3>1. \A k \in 1..Len(queue) : PossibleDirectory(queue[k].path)
      BY <1>3, <2>4, <2>6
    <3>2. DOMAIN v.files \subseteq Possible /\ \A q \in DOMAIN v.files : v.files[q] => q \in GivenPaths
      BY <1>1, <2>2 DEF Sound
    <3>3. QED
      BY <2>2, <2>3, <3>1, <3>2 DEF Sound
  <2>10. Depths(v)
    <3>1. SUFFICES ASSUME changes = 0, NEW k \in 1..Len(queue)
                   PROVE  HasDepth(queue[k].path, queue[k].depth)
      BY <2>2, <2>3 DEF Depths
    <3>2. CASE k \in 1..N
      <4>1. HasDepth(w.queue[k].path, w.queue[k].depth)
        BY <1>1, <1>2, <3>1, <3>2 DEF Depths
      <4>2. ~(w.queue[k].path = p /\ n < w.queue[k].depth)
        BY <1>2, <2>7, <3>1, <3>2
      <4>3. queue[k].path = w.queue[k].path /\ queue[k].depth = w.queue[k].depth
        BY <2>4, <3>2, <4>2
      <4>4. QED
        BY <4>1, <4>3
    <3>3. CASE k = N + 1 /\ p \notin Queued(w)
      BY <2>4, <3>1, <3>3
    <3>4. QED
      BY <2>6, <3>2, <3>3
  <2>11. p \in Queued(v)
    <3>1. CASE p \in Queued(w)
      <4>1. PICK k \in 1..N : w.queue[k].path = p
        BY <1>2, <3>1 DEF Queued
      <4>2. queue[k].path = p /\ k \in DOMAIN queue
        BY <2>3, <2>4, <2>16, <4>1
      <4>3. QED
        BY <2>2, <4>2 DEF Queued
    <3>2. CASE p \notin Queued(w)
      <4>1. N + 1 \in DOMAIN queue /\ queue[N + 1].path = p
        <5>1. queue[N + 1].path = p /\ Len(queue) = N + 1
          BY <2>4, <3>2
        <5>2. N + 1 \in 1 .. N + 1
          BY <2>15
        <5>3. QED
          BY <2>3, <5>1, <5>2
      <4>2. QED
        BY <2>2, <4>1 DEF Queued
    <3>3. QED
      BY <3>1, <3>2
  <2>12. QED
    BY <2>2, <2>5, <2>8, <2>9, <2>10, <2>11 DEF Gathers
<1>7. QED
  BY <1>1, <1>4, <1>5, <1>6, QueueOutcome

----------------------------------------------------------------------------
(* One input, and one entry of a directory. *)
LEMMA HandledMore ==
  ASSUME NEW w \in Walks, NEW v, SameCall(v, w), More(v, w)
  PROVE  /\ Queued(w) \subseteq Queued(v)
         /\ \A p : /\ InputHandled(w, p) => InputHandled(v, p)
                   /\ EntryHandled(w, p) => EntryHandled(v, p)
                   /\ Scanned(w, p) => Scanned(v, p)
<1>1. /\ Len(w.queue) \in Nat /\ DOMAIN w.queue = 1..Len(w.queue)
      /\ Len(v.queue) \in Nat /\ DOMAIN v.queue = 1..Len(v.queue)
  BY WalkFields, QueueFields DEF SameCall
<1>2. Queued(w) \subseteq Queued(v)
  <2>1. ASSUME NEW k \in DOMAIN w.queue PROVE k \in DOMAIN v.queue /\ v.queue[k].path = w.queue[k].path
    <3>1. Len(w.queue) <= Len(v.queue)
      BY DEF More
    <3>2. k \in DOMAIN v.queue
      BY <1>1, <3>1
    <3>3. QED
      BY <3>2 DEF More
  <2>2. QED
    BY <2>1 DEF Queued
<1>3. DOMAIN w.files \subseteq DOMAIN v.files /\ \A q \in DOMAIN w.files : w.files[q] => v.files[q]
  BY DEF More
<1>4. ASSUME NEW p, InputHandled(w, p) PROVE InputHandled(v, p)
  BY <1>2, <1>3, <1>4 DEF InputHandled
<1>5. ASSUME NEW p, EntryHandled(w, p) PROVE EntryHandled(v, p)
  BY <1>2, <1>3, <1>5 DEF EntryHandled
<1>6. ASSUME NEW p, Scanned(w, p) PROVE Scanned(v, p)
  BY <1>5, <1>6 DEF Scanned
<1>7. QED
  BY <1>2, <1>4, <1>5, <1>6

(* What was one thing all along is that now. *)
LEMMA ThroughoutNow ==
  ASSUME DiskOK, NEW p \in Paths
  PROVE  tree[p] \in Kinds /\ \A kind : Throughout(p, kind) => tree[p] = kind
<1>1. tree[p] \in Kinds /\ tree[p] = KindOf(Node(p)) /\ Node(p) \in ever[p]
  BY DiskFields
<1>2. QED
  BY <1>1 DEF Throughout

(* An input has depth 0. *)
LEMMA DepthOfInput ==
  ASSUME ArgumentsOK, NEW p \in GivenPaths
  PROVE  HasDepth(p, 0)
<1>1. p \in Paths /\ Len(p) \in Nat /\ MaxLength \in Nat
  BY OptionFields, PathFields, DiscoveryAssumption
<1>2. SubSeq(p, 1, Len(p) - 0) = p
  <2>1. Len(p) - 0 = Len(p) /\ p \in Seq(Names)
    BY <1>1, PathFields
  <2>2. QED
    BY <2>1, SubSeqFull
<1>3. 0 .. 0 - 1 = {} /\ 0 \in 0..MaxLength
  BY <1>1
<1>4. QED
  BY <1>2, <1>3 DEF HasDepth

(* An input is taken for what it is now, or refused for it. *)
LEMMA GivenOutcome ==
  ASSUME DiskOK, ArgumentsOK, NEW w, Base(w), NEW p \in GivenPaths, NEW v, v = Given(w, p, tree[p])
  PROVE  \/ Fails(v, w)
         \/ Gathers(v, w) /\ (~Over(options.bytes, Bytes(p)) => InputHandled(v, p))
<1>1. /\ p \in Paths /\ w \in Walks /\ Depths(w) /\ tree[p] \in Kinds
      /\ \A kind : Throughout(p, kind) => tree[p] = kind
  BY OptionFields, ThroughoutNow DEF Base
<1>2. p \in Shown
  BY DEF Shown
<1>3. CASE tree[p] = "none"
  <2>1. v = Fail(w, "NOT_FOUND") /\ "NOT_FOUND" \in Failures
    BY <1>3 DEF Given, Failures
  <2>2. Reasons["NOT_FOUND"]
    BY <1>3, ReasonFields DEF Kind
  <2>3. QED
    BY <2>1, <2>2 DEF Fails
<1>4. CASE tree[p] = "link"
  <2>1. v = Fail(w, "LINK_REJECTED") /\ "LINK_REJECTED" \in Failures
    BY <1>4 DEF Given, Failures
  <2>2. Reasons["LINK_REJECTED"]
    BY <1>2, <1>4, ReasonFields DEF Kind
  <2>3. QED
    BY <2>1, <2>2 DEF Fails
<1>5. CASE tree[p] = "other"
  <2>1. v = Fail(w, "UNSUPPORTED_NODE") /\ "UNSUPPORTED_NODE" \in Failures
    BY <1>5 DEF Given, Failures
  <2>2. Reasons["UNSUPPORTED_NODE"]
    BY <1>2, <1>5, ReasonFields DEF Kind
  <2>3. QED
    BY <2>1, <2>2 DEF Fails
<1>6. CASE tree[p] = "regular"
  <2>1. v = AddFile(w, p, TRUE)
    BY <1>6 DEF Given
  <2>2. p \in Possible
    BY <1>1, <1>6, DiskFields DEF Possible
  <2>3. Fails(v, w) \/ (Gathers(v, w) /\ p \in DOMAIN v.files /\ v.files[p])
    BY <2>1, <2>2, TakesFile
  <2>4. QED
    BY <1>1, <1>6, <2>3 DEF InputHandled
<1>7. CASE tree[p] = "directory"
  <2>1. v = Queue(w, p, 0)
    BY <1>7 DEF Given
  <2>2. PossibleDirectory(p)
    BY <1>1, <1>7, DiskFields DEF PossibleDirectory, LedTo
  <2>3. HasDepth(p, 0)
    BY DepthOfInput
  <2>4. ASSUME changes = 0, NEW k \in DOMAIN w.queue, w.queue[k].path = p
        PROVE  w.queue[k].depth <= 0
    <3>1. HasDepth(p, w.queue[k].depth)
      BY <1>1, <2>4 DEF Depths
    <3>2. w.queue[k].depth = 0
      BY <1>1, <2>3, <3>1, DepthOf
    <3>3. QED
      BY <3>2
  <2>5. Fails(v, w) \/ (Gathers(v, w) /\ p \in Queued(v))
    BY <1>1, <2>1, <2>2, <2>3, <2>4, TakesDirectory
  <2>6. QED
    BY <1>1, <1>7, <2>5 DEF InputHandled
<1>8. QED
  BY <1>1, <1>3, <1>4, <1>5, <1>6, <1>7 DEF Kinds

(* What lay in a directory that the call has opened may be listed. *)
LEMMA ChildPossible ==
  ASSUME ArgumentsOK, NEW h \in Paths, PossibleDirectory(h), NEW d \in LedTo(h),
         NEW n \in Names, Append(h, n) \in Paths, NEW p, p = Append(h, n)
  PROVE  /\ "regular" \in had[d][n] => p \in Possible
         /\ had[d][n] \cap Directories # {} /\ options.recursive => PossibleDirectory(p)
<1>1. Ancestors(p) = Ancestors(h) \cup {h} /\ Front(p) = h /\ Last(p) = n
  BY AncestorsOfChild, ChildFields
<1>2. \E from \in GivenPaths : /\ from \in Ancestors(p)
                               /\ \A q \in Through(p, from) : LedTo(q) # {}
                               /\ options.recursive \/ from = h
  <2>1. CASE h \in GivenPaths
    <3>1. ASSUME NEW q \in Through(p, h) PROVE q = h
      <4>1. q \in Ancestors(h) \/ q = h
        BY <1>1 DEF Through
      <4>2. Len(q) >= Len(h) /\ Len(h) \in Nat
        BY PathFields DEF Through
      <4>3. q \in Ancestors(h) => Len(q) \in 1 .. Len(h) - 1
        BY AncestorFields
      <4>4. QED
        BY <4>1, <4>2, <4>3
    <3>2. QED
      BY <1>1, <2>1, <3>1
  <2>2. CASE h \notin GivenPaths
    <3>1. PICK from \in GivenPaths : /\ from \in Ancestors(h) /\ options.recursive
                                     /\ \A q \in Through(h, from) : LedTo(q) # {}
      BY <2>2 DEF PossibleDirectory
    <3>2. ASSUME NEW q \in Through(p, from) PROVE q = h \/ q \in Through(h, from)
      BY <1>1 DEF Through
    <3>3. QED
      BY <1>1, <3>1, <3>2
  <2>3. QED
    BY <2>1, <2>2
<1>3. had[d][n] \subseteq Had(p)
  BY <1>1 DEF Had
<1>4. "regular" \in had[d][n] => p \in Possible
  BY <1>1, <1>2, <1>3 DEF Possible, Below
<1>5. had[d][n] \cap Directories # {} /\ options.recursive => PossibleDirectory(p)
  BY <1>2, <1>3 DEF PossibleDirectory
<1>6. QED
  BY <1>4, <1>5

(* An entry that is no input is one deeper than its directory. *)
LEMMA DepthOfChild ==
  ASSUME ArgumentsOK, NEW h \in Paths, NEW n \in Names, Append(h, n) \in Paths, NEW p, p = Append(h, n),
         NEW d, HasDepth(h, d), p \notin GivenPaths
  PROVE  HasDepth(p, d + 1)
<1>1. /\ Len(p) = Len(h) + 1 /\ Len(h) \in Nat /\ p \in Paths
      /\ \A m \in 1..Len(h) : SubSeq(p, 1, m) = SubSeq(h, 1, m)
  BY ChildFields, PathFields
<1>2. /\ d \in Nat /\ SubSeq(h, 1, Len(h) - d) \in GivenPaths /\ MaxLength \in Nat
      /\ \A m \in 0 .. d - 1 : SubSeq(h, 1, Len(h) - m) \notin GivenPaths
  BY DiscoveryAssumption DEF HasDepth
<1>3. Len(h) - d >= 1
  <2>1. SUFFICES ASSUME Len(h) - d < 1 PROVE FALSE
    BY <1>1, <1>2
  <2>2. SubSeq(h, 1, Len(h) - d) = <<>>
    BY <1>1, <1>2, <2>1, SubSeqEmpty
  <2>3. <<>> \in Paths /\ Len(<<>>) = 0
    BY <1>2, <2>2, OptionFields
  <2>4. QED
    BY <2>3, PathFields
<1>4. SubSeq(p, 1, Len(p) - (d + 1)) \in GivenPaths
  <2>1. Len(p) - (d + 1) = Len(h) - d /\ Len(h) - d \in 1..Len(h)
    BY <1>1, <1>2, <1>3
  <2>2. QED
    BY <1>1, <1>2, <2>1
<1>5. ASSUME NEW m \in 0 .. (d + 1) - 1 PROVE SubSeq(p, 1, Len(p) - m) \notin GivenPaths
  <2>1. CASE m = 0
    <3>1. Len(p) - m = Len(p) /\ p \in Seq(Names)
      BY <1>1, <2>1, PathFields
    <3>2. SubSeq(p, 1, Len(p)) = p
      BY <3>1, SubSeqFull
    <3>3. QED
      BY <3>1, <3>2
  <2>2. CASE m # 0
    <3>1. m - 1 \in 0 .. d - 1 /\ Len(p) - m = Len(h) - (m - 1) /\ Len(h) - (m - 1) \in 1..Len(h)
      BY <1>1, <1>2, <1>3, <2>2
    <3>2. QED
      BY <1>1, <1>2, <3>1
  <2>3. QED
    BY <2>1, <2>2
<1>6. d + 1 \in 0..MaxLength
  <2>1. Len(p) \in 1..MaxLength
    BY <1>1, PathFields
  <2>2. QED
    BY <1>1, <1>2, <1>3, <2>1
<1>7. QED
  BY <1>4, <1>5, <1>6 DEF HasDepth

(* An entry is taken for what the open directory has under its name, or refused
   for it. *)
LEMMA FoundOutcome ==
  ASSUME DiskOK, ArgumentsOK, NEW w, Base(w), NEW h \in Paths, PossibleDirectory(h), NEW e \in LedTo(h),
         NEW n \in Names, Append(h, n) \in Paths, NEW p, p = Append(h, n),
         NEW d \in Nat, changes = 0 => HasDepth(h, d) /\ tree[p] # "none",
         changes = 0 => \A q \in GivenPaths : tree[q] = "directory" => q \in Queued(w),
         NEW kind, kind = KindOf(content[e][n]), NEW v, v = Found(w, p, kind, d + 1)
  PROVE  \/ Fails(v, w)
         \/ Gathers(v, w) /\ (ever[h] = {e} /\ ~Over(options.bytes, Bytes(p)) => EntryHandled(v, p))
<1> DEFINE node == content[e][n]
<1>1. /\ p \in Paths /\ w \in Walks /\ Depths(w) /\ e \in Directories
      /\ options.recursive \in BOOLEAN /\ options.links \in BOOLEAN /\ options.nodes \in BOOLEAN
  BY OptionFields DEF Base, LedTo
<1>2. /\ kind \in Kinds /\ node \in had[e][n] /\ (kind = "regular" => node = "regular")
      /\ (kind = "directory" => node \in Directories)
  <2>1. node \in Nodes /\ node \in had[e][n]
    BY <1>1, DiskFields DEF DiskOK
  <2>2. QED
    BY <2>1, KindFields
<1>3. changes = 0 => tree[p] = kind
  BY HeldNode
<1>4. ever[h] = {e} => \A k : Throughout(p, k) => kind = k
  BY <1>1, HeldNode, ThroughoutNow
<1> HIDE DEF node
<1>5. changes = 0 => p \in Shown
  <2>1. changes = 0 => h \in Reached
    BY QuietReached
  <2>2. Front(p) = h
    BY ChildFields
  <2>3. QED
    BY <1>1, <2>1, <2>2 DEF Shown
<1>6. Gathers(w, w)
  <2>1. w = [w EXCEPT !.files = w.files, !.queue = w.queue]
    BY <1>1 DEF Walks
  <2>2. Len(w.queue) \in Nat
    BY <1>1, WalkFields, QueueFields
  <2>3. QED
    BY <1>1, <2>1, <2>2 DEF Gathers, SameCall, More, Base
<1>7. CASE kind = "none"
  <2>1. v = Fail(w, "NOT_FOUND") /\ "NOT_FOUND" \in Failures
    BY <1>7 DEF Found, Failures
  <2>2. changes # 0
    BY <1>7, <1>3
  <2>3. QED
    BY <2>1, <2>2 DEF Fails
<1>8. CASE kind = "link" /\ options.links
  <2>1. v = Fail(w, "LINK_REJECTED") /\ "LINK_REJECTED" \in Failures
    BY <1>8 DEF Found, Failures
  <2>2. changes = 0 => Reasons["LINK_REJECTED"]
    BY <1>1, <1>5, <1>8, <1>3, ReasonFields DEF Kind
  <2>3. QED
    BY <2>1, <2>2 DEF Fails
<1>9. CASE kind = "other" /\ options.nodes
  <2>1. v = Fail(w, "UNSUPPORTED_NODE") /\ "UNSUPPORTED_NODE" \in Failures
    BY <1>9 DEF Found, Failures
  <2>2. changes = 0 => Reasons["UNSUPPORTED_NODE"]
    BY <1>1, <1>5, <1>9, <1>3, ReasonFields DEF Kind
  <2>3. QED
    BY <2>1, <2>2 DEF Fails
<1>10. CASE kind = "regular"
  <2>1. v = AddFile(w, p, FALSE)
    BY <1>10 DEF Found
  <2>2. p \in Possible
    BY <1>1, <1>10, <1>2, ChildPossible
  <2>3. Fails(v, w) \/ (Gathers(v, w) /\ p \in DOMAIN v.files)
    BY <2>1, <2>2, TakesFile
  <2>4. QED
    BY <1>1, <1>10, <1>4, <2>3 DEF EntryHandled
<1>11. CASE kind = "directory" /\ options.recursive
  <2>1. v = Queue(w, p, d + 1)
    BY <1>11 DEF Found
  <2>2. PossibleDirectory(p)
    BY <1>1, <1>11, <1>2, ChildPossible
  <2>3. ASSUME changes = 0
        PROVE  IF p \in Queued(w)
               THEN \A k \in DOMAIN w.queue : w.queue[k].path = p => w.queue[k].depth <= d + 1
               ELSE HasDepth(p, d + 1)
    <3>1. p \notin GivenPaths => HasDepth(p, d + 1)
      BY <2>3, DepthOfChild
    <3>2. ASSUME NEW k \in DOMAIN w.queue, w.queue[k].path = p PROVE w.queue[k].depth <= d + 1
      <4>1. HasDepth(p, w.queue[k].depth)
        BY <1>1, <2>3, <3>2 DEF Depths
      <4>2. p \in GivenPaths => w.queue[k].depth = 0
        BY <1>1, <4>1, DepthOfInput, DepthOf
      <4>3. p \notin GivenPaths => w.queue[k].depth = d + 1
        BY <1>1, <3>1, <4>1, DepthOf
      <4>4. QED
        BY <4>2, <4>3
    <3>3. p \notin Queued(w) => p \notin GivenPaths
      BY <1>11, <1>3, <2>3
    <3>4. QED
      BY <3>1, <3>2, <3>3
  <2>6. PICK m \in Nat : m = d + 1
    OBVIOUS
  <2>4. Fails(v, w) \/ (Gathers(v, w) /\ p \in Queued(v))
    BY <1>1, <2>1, <2>2, <2>3, <2>6, TakesDirectory
  <2>5. QED
    BY <1>1, <1>11, <1>4, <2>4 DEF EntryHandled
<1>12. CASE \/ kind = "directory" /\ ~options.recursive
            \/ kind = "link" /\ ~options.links
            \/ kind = "other" /\ ~options.nodes
  <2>1. v = w
    BY <1>12 DEF Found
  <2>2. QED
    BY <1>1, <1>6, <1>12, <1>4, <2>1 DEF EntryHandled
<1>13. QED
  BY <1>1, <1>7, <1>8, <1>9, <1>10, <1>11, <1>12, <1>2 DEF Kinds

(* A failed call keeps what it knew. *)
LEMMA FailFields ==
  ASSUME NEW w \in Walks, NEW s \in Failures
  PROVE  LET v == Fail(w, s)
         IN /\ v \in Walks /\ v.pc = "done" /\ v.status = s /\ v.i = w.i /\ v.next = w.next
            /\ v.queue = w.queue /\ v.files = w.files /\ v.given = w.given /\ s # "OK"
BY DEF Fail, Walks, Labels, Failures, Faults

(* A call that fails for a reason ends with it. *)
LEMMA FailHolds ==
  ASSUME NEW w, Base(w), NEW v, Fails(v, w),
         w.i \in 1 .. Len(inputs) + 1, w.next \in 1 .. Len(w.queue) + 1
  PROVE  CallInv(v) /\ v.pc = "done" /\ v.status # "OK" /\ v.given = w.given
<1>1. PICK s \in Failures : v = Fail(w, s) /\ (changes = 0 /\ s \in DOMAIN Reasons => Reasons[s])
  BY DEF Fails
<1>2. w \in Walks /\ Limited(w) /\ Sound(w) /\ Depths(w)
  BY DEF Base
<1>3. /\ v \in Walks /\ v.pc = "done" /\ v.status = s /\ v.i = w.i /\ v.next = w.next
      /\ v.queue = w.queue /\ v.files = w.files /\ v.given = w.given /\ s # "OK"
  BY <1>1, <1>2, FailFields
<1>4. Placed(v)
  BY <1>3 DEF Placed, Ended
<1>5. Limited(v) /\ Sound(v) /\ Depths(v)
  BY <1>2, <1>3 DEF Limited, Sound, Depths
<1>6. Complete(v) /\ Unseen(v) /\ Reasoned(v)
  BY <1>1, <1>3 DEF Complete, Unseen, Reasoned
<1>7. QED
  BY <1>3, <1>4, <1>5, <1>6 DEF CallInv

----------------------------------------------------------------------------
(* Steps of the call, which leave the directories and the arguments alone. *)
LEMMA SameFacts ==
  ASSUME UNCHANGED <<disk, options, inputs>>
  PROVE  /\ content' = content /\ changes' = changes /\ ever' = ever /\ had' = had
         /\ options' = options /\ inputs' = inputs /\ tree' = tree /\ \A p : Node(p)' = Node(p)
         /\ GivenPaths' = GivenPaths /\ Possible' = Possible /\ Certain' = Certain
         /\ Reached' = Reached /\ Shown' = Shown /\ Reasons' = Reasons
<1>1. /\ content' = content /\ changes' = changes /\ ever' = ever /\ had' = had
      /\ options' = options /\ inputs' = inputs
  BY DEF disk
<1>2. GivenPaths' = GivenPaths
  BY <1>1 DEF GivenPaths
<1>3. Possible' = Possible
  BY <1>1, <1>2 DEF Possible, Below, Through, Ancestors, LedTo, Had
<1>4. Certain' = Certain
  BY <1>1, <1>2 DEF Certain, Throughout, Below, Through, Ancestors
<1>5. \A p : Node(p)' = Node(p)
  BY <1>1 DEF Node
<1>6. tree' = tree
  BY <1>5 DEF tree
<1>7. Reached' = Reached
  BY <1>1, <1>2, <1>6 DEF Reached, Through, Ancestors
<1>8. Shown' = Shown
  BY <1>2, <1>6, <1>7 DEF Shown
<1>9. Reasons' = Reasons
  BY <1>1, <1>2, <1>4, <1>6, <1>7, <1>8 DEF Reasons, Kind, Over, Depth, Bytes
<1>10. QED
  BY <1>1, <1>2, <1>3, <1>4, <1>5, <1>6, <1>7, <1>8, <1>9

(* Only the call moved: the rest holds as it did. *)
LEMMA SameInv ==
  ASSUME UNCHANGED <<disk, options, inputs>>, DiskOK, ArgumentsOK, NEW u, u = walk', CallInv(u)
  PROVE  (DiskOK /\ ArgumentsOK /\ CallInv(walk))'
<1>1. /\ content' = content /\ changes' = changes /\ ever' = ever /\ had' = had
      /\ options' = options /\ inputs' = inputs /\ \A p : Node(p)' = Node(p)
      /\ GivenPaths' = GivenPaths /\ Possible' = Possible /\ Reasons' = Reasons
  BY SameFacts
<1>2. DiskOK' /\ ArgumentsOK'
  BY <1>1 DEF DiskOK, ArgumentsOK
<1>3. (walk \in Walks /\ Placed(walk))'
  BY <1>1 DEF CallInv, Placed, Ended
<1>4. Limited(walk)'
  BY <1>1 DEF CallInv, Limited, Over
<1>5. Sound(walk)'
  <2>1. \A d : PossibleDirectory(d)' <=> PossibleDirectory(d)
    BY <1>1 DEF PossibleDirectory, Through, Ancestors, LedTo, Had
  <2>2. \A k \in DOMAIN u.queue : PossibleDirectory(u.queue[k].path)'
    BY <2>1 DEF CallInv, Sound
  <2>3. DOMAIN u.files \subseteq Possible' /\ \A p \in DOMAIN u.files : u.files[p] => p \in GivenPaths'
    BY <1>1 DEF CallInv, Sound
  <2>4. QED
    BY <2>2, <2>3 DEF Sound
<1>6. Complete(walk)'
  BY <1>1 DEF CallInv, Complete, Scanning, Scanned, InputHandled, EntryHandled, Throughout, Over, Bytes, Queued
<1>7. Depths(walk)'
  BY <1>1 DEF CallInv, Depths, HasDepth
<1>8. Unseen(walk)' /\ Reasoned(walk)'
  BY <1>1 DEF CallInv, Unseen, LedTo, Listable, Reasoned
<1>9. QED
  BY <1>2, <1>3, <1>4, <1>5, <1>6, <1>7, <1>8 DEF CallInv

(* What a step of the call other than the merge makes of it. *)
Goes(u) == CallInv(u) /\ u.given = walk.given /\ (u.pc = "done" => u.status # "OK")

(* What the invariant says of each part of the call. *)
LEMMA CallFields ==
  ASSUME CallInv(walk)
  PROVE  /\ Base(walk) /\ walk \in Walks /\ walk.i \in Nat /\ walk.next \in Nat
         /\ walk.i \in 1 .. Len(inputs) + 1 /\ walk.next \in 1 .. Len(walk.queue) + 1
         /\ Len(walk.queue) \in Nat /\ DOMAIN walk.queue = 1..Len(walk.queue)
         /\ \A k \in 1..Len(walk.queue) : /\ walk.queue[k] \in QueueEntry /\ walk.queue[k].path \in Paths
                                          /\ walk.queue[k].depth \in Nat
                                          /\ PossibleDirectory(walk.queue[k].path)
<1>1. walk \in Walks /\ Placed(walk) /\ Sound(walk) /\ Base(walk)
  BY DEF CallInv, Base
<1>2. /\ Len(walk.queue) \in Nat /\ DOMAIN walk.queue = 1..Len(walk.queue)
      /\ \A k \in 1..Len(walk.queue) : /\ walk.queue[k] \in QueueEntry /\ walk.queue[k].path \in Paths
                                       /\ walk.queue[k].depth \in Nat
  BY <1>1, WalkFields, QueueFields
<1>3. \A k \in 1..Len(walk.queue) : PossibleDirectory(walk.queue[k].path)
  BY <1>1, <1>2 DEF Sound
<1>4. walk.i \in Nat /\ walk.next \in Nat
  BY <1>1, WalkFields
<1>5. QED
  BY <1>1, <1>2, <1>3, <1>4 DEF Placed

(* A system call or an allocation that fails ends the call. *)
LEMMA FaultHolds ==
  ASSUME CallInv(walk), NEW s \in Faults \cup {"IO_ERROR"}, NEW w, w \in Walks, w.i \in 1 .. Len(inputs) + 1,
         w.next = walk.next, w.queue = walk.queue, w.files = walk.files, w.given = walk.given
  PROVE  Goes(Fail(w, s))
<1>1. Base(walk) /\ walk.next \in 1 .. Len(walk.queue) + 1
  BY CallFields
<1>2. Base(w)
  BY <1>1 DEF Base, Limited, Sound, Depths
<1>3. s \in Failures /\ s \notin DOMAIN Reasons
  BY ReasonFields DEF Faults, Failures
<1>4. Fails(Fail(w, s), w)
  BY <1>3 DEF Fails
<1>5. QED
  BY <1>1, <1>2, <1>4, FailHolds DEF Goes

(* An input is examined. *)
LEMMA InputHolds ==
  ASSUME DiskOK, ArgumentsOK, CallInv(walk), Input, NEW u, u = walk'
  PROVE  Goes(u)
<1> DEFINE p == inputs[walk.i]
           w == [walk EXCEPT !.i = @ + 1]
<1>1. walk.pc = "inputs" /\ walk.i <= Len(inputs)
  BY DEF Input, At
<1>2. /\ Base(walk) /\ walk \in Walks /\ walk.i \in 1 .. Len(inputs) + 1 /\ walk.i \in Nat
      /\ walk.next \in 1 .. Len(walk.queue) + 1 /\ Len(inputs) \in Nat /\ Len(walk.queue) \in Nat
  BY CallFields, OptionFields
<1>3. p \in GivenPaths /\ p \in Paths
  BY <1>1, <1>2, OptionFields
<1>4. /\ w \in Walks /\ w.pc = "inputs" /\ w.i = walk.i + 1 /\ w.next = walk.next /\ w.queue = walk.queue
      /\ w.files = walk.files /\ w.given = walk.given /\ w.status = walk.status
  <2>1. walk.i + 1 \in Nat
    BY <1>2
  <2>2. w \in Walks
    BY <1>2, <2>1 DEF Walks
  <2>3. QED
    BY <1>1, <1>2, <2>2 DEF Walks
<1> HIDE DEF w
<1>5. Base(w) /\ w.i \in 1 .. Len(inputs) + 1
  BY <1>1, <1>2, <1>4 DEF Base, Limited, Sound, Depths
<1>6. Placed(walk) /\ Complete(walk)
  BY DEF CallInv
<1>7. walk.next = 1 /\ walk.status = "OK"
  BY <1>1, <1>6 DEF Placed
<1>8. CASE \E s \in Faults : u = Fail(walk, s)
  BY <1>2, <1>8, FaultHolds
<1>9. CASE Over(options.bytes, Bytes(p)) /\ u = Fail(walk, "PATH_LIMIT_EXCEEDED")
  <2>1. p \in Shown
    BY <1>3 DEF Shown
  <2>2. Reasons["PATH_LIMIT_EXCEEDED"]
    BY <1>9, <2>1, ReasonFields
  <2>3. Fails(u, walk)
    BY <1>9, <2>2 DEF Fails, Failures
  <2>4. QED
    BY <1>2, <2>3, FailHolds DEF Goes
<1>10. CASE ~Over(options.bytes, Bytes(p)) /\ u = Given(w, p, tree[p])
  <2>1. Fails(u, w) \/ (Gathers(u, w) /\ InputHandled(u, p))
    BY <1>3, <1>5, <1>10, GivenOutcome
  <2>2. CASE Fails(u, w)
    BY <1>2, <1>4, <1>5, <2>2, FailHolds DEF Goes
  <2>3. CASE Gathers(u, w) /\ InputHandled(u, p)
    <3>1. SameCall(u, w) /\ More(u, w) /\ Limited(u) /\ Sound(u) /\ Depths(u) /\ u \in Walks
      BY <2>3 DEF Gathers, SameCall
    <3>2. u.pc = "inputs" /\ u.i = walk.i + 1 /\ u.next = 1 /\ u.status = "OK" /\ u.given = walk.given
      BY <1>4, <1>7, <3>1, SameFields
    <3>3. Len(u.queue) \in Nat
      BY <3>1, WalkFields, QueueFields
    <3>4. Placed(u)
      BY <1>1, <1>2, <3>2, <3>3 DEF Placed, Ended
    <3>5. ASSUME NEW k \in 1 .. u.i - 1 PROVE InputHandled(u, inputs[k])
      <4>1. CASE k = walk.i
        BY <2>3, <4>1
      <4>2. CASE k # walk.i
        <5>1. k \in 1 .. walk.i - 1
          BY <1>2, <3>2, <4>2
        <5>2. InputHandled(walk, inputs[k])
          BY <1>6, <1>7, <5>1 DEF Complete
        <5>3. InputHandled(w, inputs[k])
          BY <1>4, <5>2 DEF InputHandled, Queued
        <5>4. QED
          BY <1>4, <3>1, <5>3, HandledMore
      <4>3. QED
        BY <4>1, <4>2
    <3>6. Complete(u)
      <4>1. 1 .. u.next - 1 = {}
        BY <3>2
      <4>2. QED
        BY <3>5, <4>1 DEF Complete
    <3>7. Unseen(u) /\ Reasoned(u)
      BY <3>2, ReasonFields DEF Unseen, Reasoned
    <3>8. QED
      BY <3>1, <3>2, <3>4, <3>6, <3>7 DEF CallInv, Goes
  <2>4. QED
    BY <2>1, <2>2, <2>3
<1>11. QED
  <2>1. \/ u = IF Over(options.bytes, Bytes(p)) THEN Fail(walk, "PATH_LIMIT_EXCEEDED") ELSE Given(w, p, tree[p])
        \/ \E s \in Faults : u = Fail(walk, s)
    BY DEF Input, w
  <2>2. QED
    BY <1>8, <1>9, <1>10, <2>1

(* Nothing else was found or queued meanwhile. *)
LEMMA KeepsHandled ==
  ASSUME NEW w, NEW v, v.queue = w.queue, v.files = w.files
  PROVE  \A p : /\ InputHandled(w, p) <=> InputHandled(v, p)
                /\ EntryHandled(w, p) <=> EntryHandled(v, p)
                /\ Scanned(w, p) <=> Scanned(v, p)
<1>1. Queued(w) = Queued(v)
  BY DEF Queued
<1>2. \A p : InputHandled(w, p) <=> InputHandled(v, p)
  BY <1>1 DEF InputHandled
<1>3. \A p : EntryHandled(w, p) <=> EntryHandled(v, p)
  BY <1>1 DEF EntryHandled
<1>4. QED
  BY <1>2, <1>3 DEF Scanned

(* The inputs are done. *)
LEMMA InputsDoneHolds ==
  ASSUME DiskOK, ArgumentsOK, CallInv(walk), InputsDone, NEW u, u = walk'
  PROVE  Goes(u)
<1>1. walk.pc = "inputs" /\ walk.i > Len(inputs) /\ u = [walk EXCEPT !.pc = "next"]
  BY DEF InputsDone, At
<1>2. /\ Base(walk) /\ walk \in Walks /\ walk.i \in 1 .. Len(inputs) + 1 /\ Len(inputs) \in Nat
      /\ walk.next \in 1 .. Len(walk.queue) + 1 /\ Len(walk.queue) \in Nat
  BY CallFields, OptionFields
<1>3. /\ u \in Walks /\ u.pc = "next" /\ u.i = walk.i /\ u.next = walk.next /\ u.queue = walk.queue
      /\ u.files = walk.files /\ u.given = walk.given /\ u.status = walk.status
  BY <1>1, <1>2 DEF Walks, Labels
<1>4. Placed(walk) /\ Complete(walk)
  BY DEF CallInv
<1>5. walk.next = 1 /\ walk.status = "OK" /\ walk.i = Len(inputs) + 1
  BY <1>1, <1>2, <1>4 DEF Placed
<1>6. Placed(u)
  BY <1>2, <1>3, <1>5 DEF Placed, Ended
<1>7. Limited(u) /\ Sound(u) /\ Depths(u)
  BY <1>2, <1>3 DEF Base, Limited, Sound, Depths
<1>8. Complete(u)
  <2>1. \A k \in 1 .. u.i - 1 : InputHandled(u, inputs[k])
    BY <1>3, <1>4, <1>5, KeepsHandled DEF Complete
  <2>2. 1 .. u.next - 1 = {}
    BY <1>3, <1>5
  <2>3. QED
    BY <2>1, <2>2 DEF Complete
<1>9. Unseen(u) /\ Reasoned(u)
  BY <1>3, <1>5, ReasonFields DEF Unseen, Reasoned
<1>10. QED
  BY <1>3, <1>6, <1>7, <1>8, <1>9 DEF CallInv, Goes

(* A directory is opened: what it holds at that time is what readdir will show. *)
LEMMA OpenHolds ==
  ASSUME DiskOK, ArgumentsOK, CallInv(walk), OpenDirectory, NEW u, u = walk'
  PROVE  Goes(u)
<1> DEFINE p == walk.queue[walk.next].path
<1>1. walk.pc = "next" /\ walk.next <= Len(walk.queue)
  BY DEF OpenDirectory, At
<1>2. /\ Base(walk) /\ walk \in Walks /\ walk.i \in 1 .. Len(inputs) + 1 /\ Len(inputs) \in Nat
      /\ walk.next \in 1 .. Len(walk.queue) + 1 /\ Len(walk.queue) \in Nat
      /\ walk.next \in 1..Len(walk.queue)
  BY <1>1, CallFields, OptionFields
<1>3. p \in Paths /\ PossibleDirectory(p)
  BY <1>2, CallFields
<1>4. Placed(walk) /\ Complete(walk)
  BY DEF CallInv
<1>5. walk.status = "OK" /\ walk.i = Len(inputs) + 1
  BY <1>1, <1>4 DEF Placed
<1>6. CASE u = Fail(walk, "IO_ERROR")
  BY <1>2, <1>6, FaultHolds DEF Faults
<1>7. CASE tree[p] # "directory" /\ u \in {Fail(walk, "NOT_FOUND"), Fail(walk, "LINK_REJECTED")}
  <2>1. changes # 0
    BY <1>3, <1>7, QuietReached DEF Reached
  <2>2. Fails(u, walk)
    BY <1>7, <2>1 DEF Fails, Failures
  <2>3. QED
    BY <1>2, <2>2, FailHolds DEF Goes
<1>8. CASE tree[p] = "directory" /\ u = Opened(p, Node(p))
  <2>1. Listable(p, Node(p)) \in SUBSET Names /\ Node(p) \in Directories /\ Node(p) \in LedTo(p)
    BY <1>3, <1>8, DiskFields DEF Listable, LedTo
  <2>2. /\ u \in Walks /\ u.pc = "scan" /\ u.i = walk.i /\ u.next = walk.next + 1 /\ u.queue = walk.queue
        /\ u.files = walk.files /\ u.given = walk.given /\ u.status = walk.status
        /\ u.held = Node(p) /\ u.pending = Listable(p, Node(p)) /\ u.optional = {}
    <3>1. PICK c \in SUBSET Names, d \in Directories : c = Listable(p, Node(p)) /\ d = Node(p)
      BY <2>1
    <3>2. PICK n \in Nat : n = walk.next + 1
      BY <1>2
    <3>3. u = [walk EXCEPT !.pc = "scan", !.next = n, !.held = d, !.pending = c, !.optional = {}]
      BY <1>8, <3>1, <3>2 DEF Opened
    <3>4. {} \in SUBSET Names /\ "scan" \in Labels
      BY DEF Labels
    <3>5. u \in Walks
      BY <1>2, <3>3, <3>4 DEF Walks
    <3>6. QED
      BY <1>2, <3>1, <3>2, <3>3, <3>5 DEF Walks
  <2>3. Placed(u)
    BY <1>2, <1>5, <2>2 DEF Placed, Ended
  <2>4. Limited(u) /\ Sound(u) /\ Depths(u)
    BY <1>2, <2>2 DEF Base, Limited, Sound, Depths
  <2>5. \A k \in 1 .. u.i - 1 : InputHandled(u, inputs[k])
    BY <1>4, <1>5, <2>2, KeepsHandled DEF Complete
  <2>6. Scanning(u, p)
    <3>1. ASSUME NEW n \in Names, Append(p, n) \in Paths, n \notin Listable(p, Node(p))
          PROVE  EntryHandled(u, Append(p, n))
      <4>1. content[Node(p)][n] = "none"
        BY <3>1 DEF Listable
      <4>2. tree[Append(p, n)] = "none"
        <5>1. Node(Append(p, n)) = "none"
          BY <1>3, <2>1, <3>1, <4>1, ChildKind
        <5>2. QED
          BY <3>1, <5>1, DiskFields
      <4>3. \A kind : Throughout(Append(p, n), kind) => kind = "none"
        BY <3>1, <4>2, ThroughoutNow
      <4>4. QED
        BY <4>3 DEF EntryHandled
    <3>2. Throughout(p, "directory") => ever[p] = {Node(p)}
      BY <1>3, DiskFields DEF Throughout
    <3>3. QED
      BY <2>2, <3>1, <3>2 DEF Scanning
  <2>7. ASSUME NEW k \in 1 .. u.next - 1, k # u.next - 1 PROVE Scanned(u, u.queue[k].path)
    <3>1. k \in 1 .. walk.next - 1
      BY <1>2, <2>2, <2>7
    <3>2. Scanned(walk, walk.queue[k].path)
      BY <1>1, <1>4, <1>5, <3>1 DEF Complete
    <3>3. QED
      BY <2>2, <3>2, KeepsHandled
  <2>8. u.next - 1 = walk.next
    BY <1>2, <2>2
  <2>9. Complete(u)
    BY <2>2, <2>5, <2>6, <2>7, <2>8 DEF Complete
  <2>10. Unseen(u) /\ Reasoned(u)
    BY <1>5, <2>1, <2>2, <2>8, ReasonFields DEF Unseen, Reasoned, Listable
  <2>11. QED
    BY <2>2, <2>3, <2>4, <2>9, <2>10 DEF CallInv, Goes
<1>9. QED
  BY <1>6, <1>7, <1>8 DEF OpenDirectory

(* While a directory is read. *)
LEMMA ScanFields ==
  ASSUME ArgumentsOK, CallInv(walk), walk.pc = "scan"
  PROVE  LET k == walk.next - 1
         IN /\ k \in 1..Len(walk.queue) /\ k \in DOMAIN walk.queue /\ k \in 1 .. walk.next - 1 /\ Held = walk.queue[k]
            /\ Held.path \in Paths /\ Held.depth \in Nat /\ PossibleDirectory(Held.path)
            /\ walk.i = Len(inputs) + 1 /\ walk.status = "OK"
            /\ Scanning(walk, Held.path)
            /\ \A l \in 1 .. walk.next - 1 : l # k => Scanned(walk, walk.queue[l].path)
            /\ \A q \in GivenPaths : InputHandled(walk, q)
<1> DEFINE k == walk.next - 1
<1>1. Placed(walk) /\ Complete(walk)
  BY DEF CallInv
<1>2. /\ walk.next \in 1 .. Len(walk.queue) + 1 /\ walk.next > 1 /\ Len(walk.queue) \in Nat
      /\ walk.i = Len(inputs) + 1 /\ walk.status = "OK" /\ Len(inputs) \in Nat
      /\ DOMAIN walk.queue = 1..Len(walk.queue)
  BY <1>1, CallFields, OptionFields DEF Placed
<1>3. k \in 1..Len(walk.queue) /\ k \in 1 .. walk.next - 1 /\ Held = walk.queue[k]
  BY <1>2 DEF Held
<1>4. Held.path \in Paths /\ Held.depth \in Nat /\ PossibleDirectory(Held.path)
  BY <1>3, CallFields
<1>5. \A q \in GivenPaths : InputHandled(walk, q)
  <2>1. \A l \in 1 .. walk.i - 1 : InputHandled(walk, inputs[l])
    BY <1>1, <1>2 DEF Complete
  <2>2. walk.i - 1 = Len(inputs)
    BY <1>2
  <2>3. QED
    BY <2>1, <2>2, OptionFields
<1>6. /\ Scanning(walk, walk.queue[k].path)
      /\ \A l \in 1 .. walk.next - 1 : l # k => Scanned(walk, walk.queue[l].path)
  BY <1>1, <1>2, <1>3 DEF Complete
<1>7. QED
  BY <1>2, <1>3, <1>4, <1>5, <1>6

(* A directory has been read. *)
LEMMA EndScanHolds ==
  ASSUME DiskOK, ArgumentsOK, CallInv(walk), EndScan, NEW u, u = walk'
  PROVE  Goes(u)
<1>1. walk.pc = "scan"
  BY DEF EndScan, At
<1>2. /\ Base(walk) /\ walk \in Walks /\ walk.i \in 1 .. Len(inputs) + 1 /\ Len(inputs) \in Nat
      /\ walk.next \in 1 .. Len(walk.queue) + 1 /\ Len(walk.queue) \in Nat
  BY CallFields, OptionFields
<1>3. CASE u = Fail(walk, "IO_ERROR")
  BY <1>2, <1>3, FaultHolds DEF Faults
<1>4. CASE walk.pending = {} /\ u = [walk EXCEPT !.pc = "next", !.optional = {}]
  <2>1. /\ u \in Walks /\ u.pc = "next" /\ u.i = walk.i /\ u.next = walk.next /\ u.queue = walk.queue
        /\ u.files = walk.files /\ u.given = walk.given /\ u.status = walk.status
    BY <1>2, <1>4 DEF Walks, Labels
  <2>2. /\ walk.i = Len(inputs) + 1 /\ walk.status = "OK" /\ Scanning(walk, Held.path)
        /\ Held = walk.queue[walk.next - 1]
        /\ \A l \in 1 .. walk.next - 1 : l # walk.next - 1 => Scanned(walk, walk.queue[l].path)
    BY <1>1, ScanFields
  <2>3. Placed(u)
    BY <1>2, <2>1, <2>2 DEF Placed, Ended
  <2>4. Limited(u) /\ Sound(u) /\ Depths(u)
    BY <1>2, <2>1 DEF Base, Limited, Sound, Depths
  <2>5. Scanned(walk, Held.path)
    BY <1>4, <2>2 DEF Scanning, Scanned
  <2>6. \A l \in 1 .. u.next - 1 : Scanned(u, u.queue[l].path)
    BY <2>1, <2>2, <2>5, KeepsHandled
  <2>7. \A k \in 1 .. u.i - 1 : InputHandled(u, inputs[k])
    BY <2>1, <2>2, KeepsHandled DEF CallInv, Complete
  <2>8. Complete(u)
    BY <2>1, <2>6, <2>7 DEF Complete
  <2>9. Unseen(u) /\ Reasoned(u)
    BY <2>1, <2>2, ReasonFields DEF Unseen, Reasoned
  <2>10. QED
    BY <2>1, <2>3, <2>4, <2>8, <2>9 DEF CallInv, Goes
<1>5. QED
  BY <1>3, <1>4 DEF EndScan

(* An entry is examined. *)
LEMMA EntryHolds ==
  ASSUME DiskOK, ArgumentsOK, CallInv(walk), Entry, NEW u, u = walk'
  PROVE  Goes(u)
<1>1. walk.pc = "scan"
  BY DEF Entry, At
<1> DEFINE h == Held.path
           d == Held.depth
           at == walk.next - 1
<1>2. /\ Base(walk) /\ walk \in Walks /\ walk.i \in 1 .. Len(inputs) + 1 /\ Len(inputs) \in Nat
      /\ walk.next \in 1 .. Len(walk.queue) + 1 /\ Len(walk.queue) \in Nat /\ walk.next \in Nat
      /\ Depths(walk) /\ walk.pending \in SUBSET Names /\ walk.optional \in SUBSET Names
      /\ walk.held \in Directories
  BY CallFields, OptionFields, WalkFields DEF Base
<1>3. /\ at \in 1..Len(walk.queue) /\ at \in DOMAIN walk.queue /\ at \in 1 .. walk.next - 1
      /\ h \in Paths /\ d \in Nat /\ PossibleDirectory(h) /\ Held = walk.queue[at]
      /\ walk.i = Len(inputs) + 1 /\ walk.status = "OK" /\ Scanning(walk, h)
      /\ \A l \in 1 .. walk.next - 1 : l # at => Scanned(walk, walk.queue[l].path)
      /\ \A q \in GivenPaths : InputHandled(walk, q)
  BY <1>1, ScanFields
<1> DEFINE w(n) == [walk EXCEPT !.pending = @ \ {n}, !.optional = @ \ {n}]
           kind(n) == KindOf(content[walk.held][n])
<1>4. PICK n \in walk.pending \cup walk.optional :
         \/ u = IF Over(options.bytes, Bytes(Append(h, n))) THEN Fail(w(n), "PATH_LIMIT_EXCEEDED")
                ELSE Found(w(n), Append(h, n), kind(n), d + 1)
         \/ \E s \in Faults : u = Fail(w(n), s)
  BY Zenon DEF Entry
<1> DEFINE p == Append(h, n)
<1>5. n \in Names /\ p \in Paths /\ walk.held \in LedTo(h)
  BY <1>1, <1>2, <1>3, <1>4 DEF CallInv, Unseen
<1>6. changes = 0 => tree[p] # "none" /\ HasDepth(h, d) /\ p \in Shown
  <2>1. SUFFICES ASSUME changes = 0
                 PROVE  tree[p] # "none" /\ HasDepth(h, d) /\ p \in Shown
    OBVIOUS
  <2>2. walk.optional = {} /\ walk.pending \subseteq Listable(h, walk.held)
    BY <1>1, <1>3, <2>1 DEF CallInv, Unseen
  <2>3. tree[p] # "none"
    <3>1. content[walk.held][n] # "none"
      BY <1>4, <2>2 DEF Listable
    <3>2. KindOf(content[walk.held][n]) # "none"
      BY <1>2, <1>5, <3>1, DiskFields, KindFields
    <3>3. QED
      BY <1>3, <1>5, <2>1, <3>2, HeldNode
  <2>4. HasDepth(h, d)
    BY <1>2, <1>3, <2>1 DEF Depths
  <2>5. h \in Reached /\ Front(p) = h
    BY <1>3, <1>5, <2>1, QuietReached, ChildFields
  <2>6. QED
    BY <1>5, <2>3, <2>4, <2>5 DEF Shown
<1> DEFINE v == w(n)
<1>7. /\ v \in Walks /\ v.pc = "scan" /\ v.i = walk.i /\ v.next = walk.next /\ v.queue = walk.queue
      /\ v.files = walk.files /\ v.given = walk.given /\ v.status = walk.status /\ v.held = walk.held
      /\ v.pending = walk.pending \ {n} /\ v.optional = walk.optional \ {n}
  BY <1>1, <1>2 DEF Walks
<1> HIDE DEF w
<1>8. Base(v)
  BY <1>2, <1>7 DEF Base, Limited, Sound, Depths
<1>9. CASE \E s \in Faults : u = Fail(v, s)
  BY <1>2, <1>7, <1>9, FaultHolds
<1>10. CASE Over(options.bytes, Bytes(p)) /\ u = Fail(v, "PATH_LIMIT_EXCEEDED")
  <2>1. changes = 0 => Reasons["PATH_LIMIT_EXCEEDED"]
    BY <1>6, <1>10, ReasonFields
  <2>2. Fails(u, v)
    BY <1>10, <2>1 DEF Fails, Failures
  <2>3. QED
    BY <1>2, <1>7, <1>8, <2>2, FailHolds DEF Goes
<1>11. CASE ~Over(options.bytes, Bytes(p)) /\ u = Found(v, p, kind(n), d + 1)
  <2>1. ASSUME changes = 0, NEW q \in GivenPaths, tree[q] = "directory" PROVE q \in Queued(v)
    <3>1. InputHandled(walk, q) /\ Throughout(q, "directory")
      BY <1>3, <2>1, OptionFields, QuietTree
    <3>2. q \in Queued(walk)
      BY <3>1 DEF InputHandled
    <3>3. QED
      BY <1>7, <3>2 DEF Queued
  <2>2. Fails(u, v) \/ (Gathers(u, v) /\ (ever[h] = {walk.held} => EntryHandled(u, p)))
    <3>1. changes = 0 => \A q \in GivenPaths : tree[q] = "directory" => q \in Queued(v)
      BY <2>1
    <3>2. PICK k : k = kind(n) /\ u = Found(v, p, k, d + 1)
      BY <1>11
    <3>3. changes = 0 => HasDepth(h, d) /\ tree[p] # "none"
      BY <1>6
    <3>4. k = KindOf(content[walk.held][n]) /\ p = Append(h, n)
      BY <3>2
    <3> HIDE DEF p, h, d, v, kind
    <3>5. \/ Fails(u, v)
          \/ Gathers(u, v) /\ (ever[h] = {walk.held} /\ ~Over(options.bytes, Bytes(p)) => EntryHandled(u, p))
      BY <1>3, <1>5, <1>8, <3>1, <3>2, <3>3, <3>4, FoundOutcome
    <3>6. QED
      BY <1>11, <3>5
  <2>3. CASE Fails(u, v)
    BY <1>2, <1>7, <1>8, <2>3, FailHolds DEF Goes
  <2>4. CASE Gathers(u, v) /\ (ever[h] = {walk.held} => EntryHandled(u, p))
    <3>1. SameCall(u, v) /\ More(u, v) /\ Limited(u) /\ Sound(u) /\ Depths(u) /\ u \in Walks
      BY <2>4 DEF Gathers, SameCall
    <3>2. /\ u.pc = "scan" /\ u.i = walk.i /\ u.next = walk.next /\ u.status = "OK" /\ u.given = walk.given
          /\ u.held = walk.held /\ u.pending = walk.pending \ {n} /\ u.optional = walk.optional \ {n}
      BY <1>3, <1>7, <3>1, SameFields
    <3>3. /\ Len(u.queue) \in Nat /\ Len(walk.queue) <= Len(u.queue)
          /\ \A l \in 1..Len(walk.queue) : u.queue[l].path = walk.queue[l].path
      BY <1>7, <3>1, WalkFields, QueueFields, CallFields DEF More
    <3>4. Placed(u)
      BY <1>2, <1>3, <3>2, <3>3, CallFields DEF Placed, Ended
    <3>5. \A q : /\ InputHandled(walk, q) => InputHandled(u, q)
                 /\ EntryHandled(walk, q) => EntryHandled(u, q)
                 /\ Scanned(walk, q) => Scanned(u, q)
      BY <1>7, <3>1, HandledMore, KeepsHandled
    <3>6. \A k \in 1 .. u.i - 1 : InputHandled(u, inputs[k])
      BY <1>3, <3>2, <3>5 DEF CallInv, Complete
    <3>7. Scanning(u, h)
      BY <1>3, <2>4, <3>2, <3>5 DEF Scanning
    <3>8. ASSUME NEW l \in 1 .. u.next - 1
          PROVE  IF l = at THEN Scanning(u, u.queue[l].path) ELSE Scanned(u, u.queue[l].path)
      <4>1. l \in 1 .. walk.next - 1 /\ l \in 1..Len(walk.queue)
        BY <1>2, <3>2
      <4>2. u.queue[l].path = walk.queue[l].path
        BY <3>3, <4>1
      <4>3. QED
        BY <1>3, <3>5, <3>7, <4>1, <4>2
    <3>9. Complete(u)
      BY <3>2, <3>6, <3>8 DEF Complete
    <3>10. Unseen(u) /\ Reasoned(u)
      <4>1. /\ changes = 0 => walk.optional = {} /\ walk.pending \subseteq Listable(h, walk.held)
            /\ \A m \in walk.pending \cup walk.optional : Append(h, m) \in Paths
        BY <1>1, <1>3 DEF CallInv, Unseen
      <4>2. u.queue[at].path = h
        BY <1>3, <3>3
      <4>3. QED
        BY <1>5, <3>2, <4>1, <4>2, ReasonFields DEF Unseen, Reasoned
    <3>11. QED
      BY <3>1, <3>2, <3>4, <3>9, <3>10 DEF CallInv, Goes
  <2>5. QED
    BY <2>2, <2>3, <2>4
<1>12. QED
  BY <1>4, <1>9, <1>10, <1>11

(* The queue is empty: the files are sorted. *)
LEMMA FinishHolds ==
  ASSUME DiskOK, ArgumentsOK, CallInv(walk), Finish, NEW u, u = walk'
  PROVE  Goes(u)
<1>1. walk.pc = "next" /\ walk.next > Len(walk.queue) /\ u = [walk EXCEPT !.pc = "merge", !.result = Sorted(walk.files)]
  BY DEF Finish, At
<1>2. /\ Base(walk) /\ walk \in Walks /\ walk.i \in 1 .. Len(inputs) + 1 /\ Len(inputs) \in Nat
      /\ walk.next \in 1 .. Len(walk.queue) + 1 /\ Len(walk.queue) \in Nat
  BY CallFields, OptionFields
<1>3. Sorted(walk.files) \in Seq(FileEntry)
  BY <1>2, WalkFields, SortedFiles DEF Base, Limited
<1>4. /\ u \in Walks /\ u.pc = "merge" /\ u.i = walk.i /\ u.next = walk.next /\ u.queue = walk.queue
      /\ u.files = walk.files /\ u.given = walk.given /\ u.status = walk.status /\ u.result = Sorted(walk.files)
  BY <1>1, <1>2, <1>3 DEF Walks, Labels
<1>5. Placed(walk) /\ Complete(walk)
  BY DEF CallInv
<1>6. walk.status = "OK" /\ walk.i = Len(inputs) + 1 /\ walk.next = Len(walk.queue) + 1
  BY <1>1, <1>2, <1>5 DEF Placed
<1>7. Placed(u)
  BY <1>2, <1>4, <1>6 DEF Placed, Ended
<1>8. Limited(u) /\ Sound(u) /\ Depths(u)
  BY <1>2, <1>4 DEF Base, Limited, Sound, Depths
<1>9. Complete(u)
  <2>1. /\ \A k \in 1 .. walk.i - 1 : InputHandled(walk, inputs[k])
        /\ \A k \in 1 .. walk.next - 1 : Scanned(walk, walk.queue[k].path)
    BY <1>1, <1>5, <1>6 DEF Complete
  <2>2. QED
    BY <1>4, <2>1, KeepsHandled DEF Complete
<1>10. Unseen(u) /\ Reasoned(u)
  BY <1>4, <1>6, ReasonFields DEF Unseen, Reasoned
<1>11. QED
  BY <1>4, <1>7, <1>8, <1>9, <1>10 DEF CallInv, Goes

----------------------------------------------------------------------------
(* What other programs do: the directories in some, and these. *)
Descended(c, some) == some \cup ({c[d][m] : d \in some, m \in Names} \cap Directories)

(* What exists are directories. *)
LEMMA ExistingDirectories ==
  ASSUME NEW c
  PROVE  Existing(c) \subseteq Directories
<1> DEFINE N == Cardinality(Directories)
           S == SUBSET Directories
           Is(h) == h = [n \in 0..N |-> IF n = 0 THEN Roots
                                        ELSE Descended(c, h[n-1])]
           more == [X \in S |-> Descended(c, X)]
           step == [n \in 1..N |-> more]
           h == CHOOSE f : Is(f)
<1>1. N \in Nat /\ Roots \in S
  BY DiscoveryAssumption, FS_CardinalityType DEF Roots
<1>2. Existing(c) = h[N]
  BY DEF Existing, Descended
<1> HIDE DEF N, S
<1>3. \A X \in S : Descended(c, X) \in S
  BY DEF S, Descended
<1>4. more \in [S -> S] /\ \A X \in S : more[X] = Descended(c, X)
  BY <1>3
<1> HIDE DEF more
<1>5. step \in [1..N -> [S -> S]] /\ \A n \in 1..N : step[n] = more
  BY <1>4
<1> HIDE DEF step
<1>6. PICK g : g \in [0..N -> S] /\ g[0] = Roots /\ \A n \in 1..N : g[n] = step[n][g[n-1]]
  <2>1. \E g : Iterates(g, N, S, Roots, step)
    BY <1>1, <1>5, RecursionUpTo, Zenon
  <2>2. QED
    BY <2>1 DEF Iterates
<1>7. \A n \in 1..N : g[n] = Descended(c, g[n-1])
  <2>1. ASSUME NEW n \in 1..N PROVE g[n] = Descended(c, g[n-1])
    <3>1. g[n-1] \in S
      BY <1>1, <1>6
    <3>2. QED
      BY <1>4, <1>5, <1>6, <3>1
  <2>2. QED
    BY <2>1
<1>8. Is(g)
  <2>1. \A n \in 0..N : n # 0 => n \in 1..N
    BY <1>1
  <2>2. QED
    BY <1>6, <1>7, <2>1
<1>9. Is(h)
  <2> HIDE DEF Is
  <2>1. QED
    BY <1>8
<1>10. /\ h[0] = Roots
       /\ \A n \in 1..N : h[n] = Descended(c, h[n-1])
  <2>1. 0 \in 0..N /\ \A n \in 1..N : n \in 0..N /\ n # 0
    BY <1>1
  <2> HIDE DEF h
  <2>2. QED
    BY <1>9, <2>1
<1> HIDE DEF h, Is
<1> DEFINE T == {n \in 0..N : h[n] \in S}
<1>11. 0 \in T
  BY <1>1, <1>10
<1>12. ASSUME NEW n \in 1..N, n - 1 \in T PROVE n \in T
  <2>1. n \in 0..N
    BY <1>1
  <2>2. QED
    BY <1>3, <1>10, <1>12, <2>1
<1>13. h[N] \in S
  <2> HIDE DEF T
  <2>1. N \in T
    BY <1>1, <1>11, <1>12, InductionUpTo
  <2>2. QED
    BY <2>1 DEF T
<1>14. QED
  BY <1>2, <1>13 DEF S

(* Every change is one from contents to contents. *)
LEMMA ChangesContents ==
  ASSUME DiskOK, ChangeEntry \/ MoveEntry
  PROVE  \E c \in Contents : Meanwhile /\ Becomes(c)
<1>1. content \in Contents /\ \A d \in Directories, n \in Names : content[d][n] \in Nodes
  BY DiskFields
<1>2. ASSUME NEW c \in Contents, NEW d \in Directories, NEW n \in Names, NEW x \in Nodes
      PROVE  [c EXCEPT ![d][n] = x] \in Contents
  BY DEF Contents
<1>3. "none" \in Nodes
  BY DEF Nodes
<1>4. CASE ChangeEntry
  <2>1. PICK d \in Existing(content), n \in Names, x \in Nodes : Becomes([content EXCEPT ![d][n] = x])
    BY <1>4 DEF ChangeEntry
  <2>2. [content EXCEPT ![d][n] = x] \in Contents
    BY <1>1, <1>2, ExistingDirectories
  <2>3. QED
    BY <1>4, <2>1, <2>2 DEF ChangeEntry
<1>5. CASE MoveEntry
  <2>1. PICK d \in Existing(content), e \in Existing(content), n \in Names, m \in Names :
          Becomes([[content EXCEPT ![d][n] = "none"] EXCEPT ![e][m] = content[d][n]])
    BY <1>5 DEF MoveEntry
  <2>2. d \in Directories /\ e \in Directories
    BY ExistingDirectories
  <2> DEFINE without == [content EXCEPT ![d][n] = "none"]
  <2>3. without \in Contents
    BY <1>1, <1>2, <1>3, <2>2
  <2> HIDE DEF without
  <2>4. [without EXCEPT ![e][m] = content[d][n]] \in Contents
    BY <1>1, <1>2, <2>2, <2>3
  <2>5. QED
    BY <1>5, <2>1, <2>4 DEF MoveEntry, without
<1>6. QED
  BY <1>4, <1>5

(* What others change adds to what has been. *)
LEMMA BecomesFields ==
  ASSUME DiskOK, NEW c \in Contents, Becomes(c)
  PROVE  /\ content' = c /\ changes' \in Nat /\ changes' # 0 /\ options' = options /\ inputs' = inputs
         /\ ever' \in [Paths -> SUBSET Nodes] /\ had' \in [Directories -> [Names -> SUBSET Nodes]]
         /\ \A p \in Paths : ever'[p] = ever[p] \cup {NodeIn(c, p)} /\ NodeIn(c, p) \in Nodes
         /\ \A d \in Directories, n \in Names : had'[d][n] = had[d][n] \cup {c[d][n]} /\ c[d][n] \in Nodes
         /\ \A p \in Paths : \A x : ever'[p] = {x} => ever[p] = {x} /\ NodeIn(c, p) = x /\ Node(p) = x
<1>1. /\ ever \in [Paths -> SUBSET Nodes] /\ had \in [Directories -> [Names -> SUBSET Nodes]]
      /\ changes \in Nat /\ \A p \in Paths : Node(p) \in ever[p]
  BY DEF DiskOK
<1>2. /\ content' = c /\ changes' = changes + 1 /\ options' = options /\ inputs' = inputs
      /\ ever' = [p \in Paths |-> ever[p] \cup {NodeIn(c, p)}]
      /\ had' = [d \in Directories |-> [n \in Names |-> had[d][n] \cup {c[d][n]}]]
  BY DEF Becomes
<1>3. changes' \in Nat /\ changes' # 0
  BY <1>1, <1>2
<1>4. \A p \in Paths : NodeIn(c, p) \in Nodes
  BY NodeType
<1>5. \A d \in Directories, n \in Names : c[d][n] \in Nodes
  BY DEF Contents
<1>6. \A p \in Paths : ever'[p] = ever[p] \cup {NodeIn(c, p)}
  BY <1>2
<1>7. \A d \in Directories, n \in Names : had'[d][n] = had[d][n] \cup {c[d][n]}
  BY <1>2
<1>8. ever' \in [Paths -> SUBSET Nodes]
  BY <1>1, <1>2, <1>4
<1>9. had' \in [Directories -> [Names -> SUBSET Nodes]]
  <2>1. \A d \in Directories : \A n \in Names : had[d][n] \cup {c[d][n]} \in SUBSET Nodes
    BY <1>1, <1>5
  <2>2. \A d \in Directories : [n \in Names |-> had[d][n] \cup {c[d][n]}] \in [Names -> SUBSET Nodes]
    BY <2>1
  <2>3. QED
    BY <1>2, <2>2
<1>10. ASSUME NEW p \in Paths, NEW x, ever'[p] = {x} PROVE ever[p] = {x} /\ NodeIn(c, p) = x /\ Node(p) = x
  <2>1. ever[p] \subseteq {x} /\ NodeIn(c, p) \in {x} /\ Node(p) \in ever[p]
    BY <1>1, <1>6, <1>10
  <2>2. QED
    BY <2>1
<1>11. QED
  BY <1>2, <1>3, <1>4, <1>5, <1>6, <1>7, <1>8, <1>9, <1>10

(* What a path leads to is in what it ever led to. *)
LEMMA BecomesDisk ==
  ASSUME DiskOK, NEW c \in Contents, Becomes(c)
  PROVE  DiskOK'
<1>1. /\ content' = c /\ changes' \in Nat /\ changes' # 0
      /\ ever' \in [Paths -> SUBSET Nodes] /\ had' \in [Directories -> [Names -> SUBSET Nodes]]
  BY BecomesFields
<1>2. \A p \in Paths : ever'[p] = ever[p] \cup {NodeIn(c, p)}
  BY BecomesFields
<1>3. \A d \in Directories, n \in Names : had'[d][n] = had[d][n] \cup {c[d][n]}
  BY BecomesFields
<1>4. \A p \in Paths : \A x : ever'[p] = {x} => ever[p] = {x} /\ NodeIn(c, p) = x
  BY BecomesFields
<1>5. \A p \in Paths : Node(p)' = NodeIn(c, p)
  BY <1>1 DEF Node
<1>6. ASSUME NEW h \in Paths, NEW n \in Names, NEW d \in Directories, Append(h, n) \in Paths, ever'[h] = {d}
      PROVE  had'[d][n] \subseteq ever'[Append(h, n)]
  <2>1. had[d][n] \subseteq ever[Append(h, n)] /\ NodeIn(c, h) = d
    BY <1>6, <1>4 DEF DiskOK
  <2>2. NodeIn(c, Append(h, n)) = c[d][n]
    <3>1. Follow(d) = d
      BY DiscoveryAssumption DEF Follow
    <3>2. QED
      BY <1>6, <2>1, <3>1, ChildNode DEF Lookup
  <2>3. QED
    BY <1>6, <1>2, <1>3, <2>1, <2>2
<1>7. \A p \in Paths : Node(p)' \in ever'[p]
  BY <1>5, <1>2
<1>8. \A d \in Directories, n \in Names : content'[d][n] \in had'[d][n]
  BY <1>1, <1>3
<1>9. QED
  BY <1>1, <1>6, <1>7, <1>8 DEF DiskOK

(* What was possible remains so. *)
LEMMA BecomesPossible ==
  ASSUME DiskOK, ArgumentsOK, NEW c \in Contents, Becomes(c)
  PROVE  /\ GivenPaths' = GivenPaths /\ Possible \subseteq Possible'
         /\ \A d \in Paths : LedTo(d) \subseteq LedTo(d)' /\ (PossibleDirectory(d) => PossibleDirectory(d)')
<1>1. /\ options' = options /\ inputs' = inputs
      /\ \A p \in Paths : ever[p] \subseteq ever'[p]
      /\ \A d \in Directories, n \in Names : had[d][n] \subseteq had'[d][n]
  BY BecomesFields
<1>2. GivenPaths' = GivenPaths
  BY <1>1 DEF GivenPaths
<1>3. \A p \in Paths : LedTo(p) \subseteq LedTo(p)'
  BY <1>1 DEF LedTo
<1>4. ASSUME NEW p \in Paths, NEW from \in Ancestors(p) PROVE Had(p) \subseteq Had(p)'
  <2>1. Front(p) \in Paths /\ Last(p) \in Names
    BY <1>4, FrontThrough
  <2>2. \A d \in LedTo(Front(p)) : d \in Directories /\ d \in LedTo(Front(p))'
    BY <1>3, <2>1 DEF LedTo
  <2>3. \A d \in LedTo(Front(p)) : had[d][Last(p)] \subseteq had'[d][Last(p)]
    BY <1>1, <2>1, <2>2
  <2>4. QED
    BY <2>2, <2>3 DEF Had
<1>5. ASSUME NEW p \in Paths, NEW from, \A q \in Through(p, from) : LedTo(q) # {}
      PROVE  \A q \in Through(p, from) : LedTo(q)' # {}
  BY <1>3, <1>5, ThroughPaths
<1>6. ASSUME NEW p \in Possible PROVE p \in Possible'
  <2>1. p \in Paths
    BY DEF Possible
  <2>2. CASE p \in GivenPaths /\ "regular" \in ever[p]
    BY <1>1, <1>2, <2>1, <2>2 DEF Possible
  <2>3. CASE ~(p \in GivenPaths /\ "regular" \in ever[p])
    <3>1. PICK from \in GivenPaths : Below(p, from) /\ \A q \in Through(p, from) : LedTo(q) # {}
      BY <2>3 DEF Possible
    <3>2. "regular" \in Had(p)
      BY <2>3 DEF Possible
    <3>3. from \in Ancestors(p)
      BY <3>1 DEF Below
    <3>4. "regular" \in Had(p)'
      BY <1>4, <2>1, <3>2, <3>3
    <3>5. \A q \in Through(p, from) : LedTo(q)' # {}
      BY <1>5, <2>1, <3>1
    <3>6. Below(p, from)'
      BY <1>1, <3>1 DEF Below, Ancestors
    <3>7. (\A q \in Through(p, from) : LedTo(q) # {})'
      BY <3>5 DEF Through, Ancestors
    <3>8. QED
      BY <1>2, <2>1, <3>4, <3>6, <3>7 DEF Possible
  <2>4. QED
    BY <2>2, <2>3
<1>7. ASSUME NEW p \in Paths, PossibleDirectory(p) PROVE PossibleDirectory(p)'
  <2>1. CASE p \in GivenPaths /\ LedTo(p) # {}
    BY <1>2, <1>3, <2>1 DEF PossibleDirectory
  <2>2. CASE ~(p \in GivenPaths /\ LedTo(p) # {})
    <3>1. PICK from \in GivenPaths : from \in Ancestors(p) /\ \A q \in Through(p, from) : LedTo(q) # {}
      BY <1>7, <2>2 DEF PossibleDirectory
    <3>2. options.recursive /\ Had(p) \cap Directories # {}
      BY <1>7, <2>2 DEF PossibleDirectory
    <3>3. options'.recursive /\ Had(p)' \cap Directories # {}
      BY <1>1, <1>4, <3>1, <3>2
    <3>4. \A q \in Through(p, from) : LedTo(q)' # {}
      BY <1>5, <3>1
    <3>5. (from \in Ancestors(p) /\ \A q \in Through(p, from) : LedTo(q) # {})'
      BY <3>1, <3>4 DEF Through, Ancestors
    <3>6. QED
      BY <1>2, <3>3, <3>5 DEF PossibleDirectory
  <2>3. QED
    BY <2>1, <2>2
<1>8. QED
  BY <1>2, <1>3, <1>6, <1>7

(* The call goes on after a change; a name that changed in the directory being
   scanned led to two things below its path, if that path led to the directory. *)
LEMMA ChangeHolds ==
  ASSUME DiskOK, ArgumentsOK, CallInv(walk), NEW c \in Contents, Meanwhile, Becomes(c)
  PROVE  DiskOK' /\ ArgumentsOK' /\ CallInv(walk)' /\ walk'.given = walk.given /\ walk'.pc = walk.pc
         /\ walk.pc # "done"
<1>1. walk.pc # "merge" /\ walk.pc # "done"
  BY DEF Meanwhile, At
<1>2. /\ content' = c /\ changes' # 0 /\ options' = options /\ inputs' = inputs
      /\ \A p \in Paths : ever'[p] = ever[p] \cup {NodeIn(c, p)}
      /\ \A p \in Paths : \A x : ever'[p] = {x} => ever[p] = {x} /\ NodeIn(c, p) = x /\ Node(p) = x
  BY BecomesFields
<1>3. /\ GivenPaths' = GivenPaths /\ Possible \subseteq Possible'
      /\ \A d \in Paths : LedTo(d) \subseteq LedTo(d)' /\ (PossibleDirectory(d) => PossibleDirectory(d)')
  BY BecomesPossible
<1>4. DiskOK' /\ ArgumentsOK'
  BY <1>2, BecomesDisk DEF ArgumentsOK
<1>5. PICK u : u = walk'
  OBVIOUS
<1>6. /\ walk \in Walks /\ Placed(walk) /\ Limited(walk) /\ Sound(walk) /\ Complete(walk) /\ Unseen(walk)
      /\ walk.status = "OK" /\ walk.pending \in SUBSET Names /\ walk.optional \in SUBSET Names
      /\ walk.held \in Directories
  BY <1>1, WalkFields DEF CallInv, Placed
<1> DEFINE touched == {n \in Names : c[walk.held][n] # content[walk.held][n] /\ Append(Held.path, n) \in Paths}
<1>7. u = IF walk.pc # "scan" THEN walk
          ELSE [walk EXCEPT !.pending = @ \ touched, !.optional = @ \cup touched]
  BY <1>5 DEF Becomes, At
<1>8. touched \subseteq Names /\ \A n \in touched : /\ c[walk.held][n] # content[walk.held][n]
                                                    /\ Append(Held.path, n) \in Paths
  OBVIOUS
<1> HIDE DEF touched
<1>9. /\ u \in Walks /\ u.pc = walk.pc /\ u.i = walk.i /\ u.queue = walk.queue /\ u.next = walk.next
      /\ u.files = walk.files /\ u.status = walk.status /\ u.result = walk.result /\ u.given = walk.given
      /\ u.held = walk.held
  <2>1. CASE u = walk
    BY <1>6, <2>1
  <2>2. CASE u = [walk EXCEPT !.pending = @ \ touched, !.optional = @ \cup touched]
    <3>1. walk.pending \ touched \in SUBSET Names /\ walk.optional \cup touched \in SUBSET Names
      BY <1>6, <1>8
    <3>2. QED
      BY <1>6, <2>2, <3>1 DEF Walks
  <2>3. QED
    BY <1>7, <2>1, <2>2
<1>10. walk.pc = "scan" => u.pending = walk.pending \ touched /\ u.optional = walk.optional \cup touched
  BY <1>6, <1>7 DEF Walks
<1>11. walk.pc = "scan" => Held.path \in Paths /\ Held = walk.queue[walk.next - 1]
  BY ScanFields
<1>12. (walk \in Walks /\ Placed(walk))'
  BY <1>1, <1>2, <1>5, <1>6, <1>9 DEF Placed, Ended
<1>13. Limited(walk)'
  BY <1>2, <1>5, <1>6, <1>9 DEF Limited, Over
<1>14. Sound(walk)'
  <2>1. \A k \in DOMAIN u.queue : u.queue[k].path \in Paths /\ PossibleDirectory(u.queue[k].path)
    BY <1>9, CallFields
  <2>2. \A k \in DOMAIN u.queue : PossibleDirectory(u.queue[k].path)'
    BY <1>3, <2>1
  <2>3. DOMAIN u.files \subseteq Possible' /\ \A p \in DOMAIN u.files : u.files[p] => p \in GivenPaths'
    BY <1>3, <1>6, <1>9 DEF Sound
  <2>4. QED
    BY <1>5, <2>2, <2>3 DEF Sound
<1>15. Queued(u) = Queued(walk) /\ Queued(u)' = Queued(u)
  BY <1>9 DEF Queued
<1>16. ASSUME NEW q \in Paths, NEW kind, Throughout(q, kind)' PROVE Throughout(q, kind) /\ NodeIn(c, q) = Node(q)
  <2>1. PICK x : ever'[q] = {x} /\ KindOf(x) = kind
    BY <1>16 DEF Throughout, KindOf
  <2>2. ever[q] = {x} /\ NodeIn(c, q) = x /\ Node(q) = x
    BY <1>2, <2>1
  <2>3. QED
    BY <2>1, <2>2 DEF Throughout
<1>17. ASSUME NEW q \in Paths, InputHandled(walk, q) PROVE InputHandled(u, q)'
  <2>1. \A kind : Throughout(q, kind)' => Throughout(q, kind)
    BY <1>16
  <2>2. QED
    BY <1>2, <1>9, <1>15, <1>17, <2>1 DEF InputHandled, Over, Bytes
<1>18. ASSUME NEW q \in Paths, EntryHandled(walk, q) \/ NodeIn(c, q) # Node(q) PROVE EntryHandled(u, q)'
  <2>1. \A kind : Throughout(q, kind)' => Throughout(q, kind) /\ NodeIn(c, q) = Node(q)
    BY <1>16
  <2>2. CASE EntryHandled(walk, q)
    BY <1>2, <1>9, <1>15, <2>1, <2>2 DEF EntryHandled, Over, Bytes
  <2>3. CASE NodeIn(c, q) # Node(q)
    <3>1. \A kind : ~Throughout(q, kind)'
      BY <2>1, <2>3
    <3>2. QED
      BY <3>1 DEF EntryHandled
  <2>4. QED
    BY <1>18, <2>2, <2>3
<1>19. ASSUME NEW d \in Paths, Scanned(walk, d) PROVE Scanned(u, d)'
  <2>1. SUFFICES ASSUME Throughout(d, "directory")', NEW n \in Names, Append(d, n) \in Paths
                 PROVE  EntryHandled(u, Append(d, n))'
    BY DEF Scanned
  <2>2. EntryHandled(walk, Append(d, n))
    BY <1>16, <1>19, <2>1 DEF Scanned
  <2>3. QED
    BY <1>18, <2>1, <2>2
<1>20. ASSUME walk.pc = "scan", NEW d \in Paths, d = Held.path, Scanning(walk, d)
       PROVE  Scanning(u, d)'
  <2>1. SUFFICES ASSUME Throughout(d, "directory")'
                 PROVE  /\ ever'[d] = {u.held}
                        /\ \A n \in Names : Append(d, n) \in Paths => n \in u.pending \/ EntryHandled(u, Append(d, n))'
    BY DEF Scanning
  <2>2. Throughout(d, "directory") /\ ever[d] = {walk.held}
    BY <1>16, <1>20, <2>1 DEF Scanning
  <2>3. ever'[d] = {walk.held} /\ NodeIn(c, d) = walk.held /\ Node(d) = walk.held
    <3>1. PICK x : ever'[d] = {x}
      BY <2>1 DEF Throughout
    <3>2. ever[d] = {x} /\ NodeIn(c, d) = x /\ Node(d) = x
      BY <1>2, <3>1
    <3>3. x = walk.held
      BY <2>2, <3>2
    <3>4. QED
      BY <3>1, <3>2, <3>3
  <2>4. ASSUME NEW n \in Names, Append(d, n) \in Paths PROVE n \in u.pending \/ EntryHandled(u, Append(d, n))'
    <3>1. n \in walk.pending \/ EntryHandled(walk, Append(d, n))
      BY <1>20, <2>2, <2>4 DEF Scanning
    <3>2. CASE n \in walk.pending /\ n \notin touched
      BY <1>10, <1>20, <3>2
    <3>3. CASE n \in touched
      <4>1. c[walk.held][n] # content[walk.held][n]
        BY <1>8, <3>3
      <4>2. Follow(walk.held) = walk.held
        BY <1>6, DiscoveryAssumption DEF Follow
      <4>3. NodeIn(c, Append(d, n)) = c[walk.held][n]
        BY <1>6, <2>3, <2>4, <4>2, ChildNode DEF Lookup
      <4>4. Node(Append(d, n)) = content[walk.held][n]
        BY <1>6, <2>3, <2>4, ChildKind
      <4>5. QED
        BY <1>18, <2>4, <4>1, <4>3, <4>4
    <3>4. CASE EntryHandled(walk, Append(d, n))
      BY <1>18, <2>4, <3>4
    <3>5. QED
      BY <3>1, <3>2, <3>3, <3>4
  <2>5. QED
    BY <1>9, <2>3, <2>4
<1>21. Complete(walk)'
  <2>1. \A k \in 1 .. u.i - 1 : inputs[k] \in Paths /\ InputHandled(walk, inputs[k])
    <3>1. /\ walk.i \in 1 .. Len(inputs) + 1 /\ Len(inputs) \in Nat /\ walk.i \in Nat
          /\ \A k \in 1..Len(inputs) : inputs[k] \in Paths
      BY CallFields, OptionFields
    <3>2. \A k \in 1 .. u.i - 1 : k \in 1..Len(inputs) /\ k \in 1 .. walk.i - 1
      BY <1>9, <3>1
    <3>3. QED
      BY <1>6, <3>1, <3>2 DEF Complete
  <2>2. \A k \in 1 .. u.i - 1 : InputHandled(u, inputs[k])'
    BY <1>2, <1>17, <2>1
  <2>3. ASSUME NEW k \in 1 .. u.next - 1
        PROVE  IF u.pc = "scan" /\ k = u.next - 1 THEN Scanning(u, u.queue[k].path)'
               ELSE Scanned(u, u.queue[k].path)'
    <3>1. k \in 1 .. walk.next - 1 /\ k \in 1..Len(walk.queue)
      <4>1. walk.next \in 1 .. Len(walk.queue) + 1 /\ Len(walk.queue) \in Nat /\ walk.next \in Nat
        BY CallFields
      <4>2. QED
        BY <1>9, <4>1
    <3>2. u.queue[k].path = walk.queue[k].path /\ walk.queue[k].path \in Paths
      BY <1>9, <3>1, CallFields
    <3>3. IF walk.pc = "scan" /\ k = walk.next - 1 THEN Scanning(walk, walk.queue[k].path)
          ELSE Scanned(walk, walk.queue[k].path)
      BY <1>6, <3>1 DEF Complete
    <3>4. CASE walk.pc = "scan" /\ k = walk.next - 1
      <4>1. Scanning(walk, u.queue[k].path) /\ u.queue[k].path = Held.path /\ u.queue[k].path \in Paths
        BY <1>11, <3>2, <3>3, <3>4
      <4>2. Scanning(u, u.queue[k].path)'
        BY <1>20, <3>4, <4>1
      <4>3. QED
        BY <1>9, <3>4, <4>2
    <3>5. CASE ~(walk.pc = "scan" /\ k = walk.next - 1)
      <4>1. Scanned(walk, u.queue[k].path) /\ u.queue[k].path \in Paths
        BY <3>2, <3>3, <3>5
      <4>2. Scanned(u, u.queue[k].path)'
        BY <1>19, <4>1
      <4>3. QED
        BY <1>9, <3>5, <4>2
    <3>6. QED
      BY <3>4, <3>5
  <2>4. QED
    BY <1>2, <1>5, <2>2, <2>3 DEF Complete
<1>22. Depths(walk)' /\ Reasoned(walk)'
  BY <1>2 DEF Depths, Reasoned
<1>23. Unseen(walk)'
  <2>1. SUFFICES ASSUME walk.pc = "scan"
                 PROVE  /\ \A n \in u.pending \cup u.optional : Append(Held.path, n) \in Paths
                        /\ \A d : d = Held.path => walk.held \in LedTo(d)'
    BY <1>2, <1>5, <1>9, <1>11 DEF Unseen
  <2>2. /\ \A n \in walk.pending \cup walk.optional : Append(Held.path, n) \in Paths
        /\ walk.held \in LedTo(Held.path)
    BY <1>6, <1>11, <2>1 DEF Unseen
  <2>3. Held.path \in Paths
    BY <1>11, <2>1
  <2>4. \A d \in Paths : walk.held \in LedTo(d) => walk.held \in LedTo(d)'
    BY <1>3
  <2>5. QED
    BY <1>8, <1>10, <2>1, <2>2, <2>3, <2>4
<1>24. QED
  BY <1>1, <1>4, <1>5, <1>9, <1>12, <1>13, <1>14, <1>21, <1>22, <1>23 DEF CallInv

----------------------------------------------------------------------------
(* Every behaviour keeps the invariant. *)
LEMMA InitHolds ==
  ASSUME Init
  PROVE  DiscoveryInv
<1>1. /\ content \in Trees /\ changes = 0 /\ ever = [p \in Paths |-> {Node(p)}] /\ options \in Options
      /\ had = [d \in Directories |-> [n \in Names |-> {content[d][n]}]]
      /\ inputs \in InputLists /\ collection \in Collections /\ walk = [Start EXCEPT !.given = collection]
  BY DEF Init
<1>2. /\ IsTree(content) /\ content \in Contents /\ \A p \in Paths : Node(p) \in Nodes
      /\ \A d \in Directories, n \in Names : content[d][n] \in Nodes
  <2>1. IsTree(content) /\ content \in Contents
    BY <1>1, DiscoveryAssumption DEF IsTree
  <2>2. \A p \in Paths : Node(p) \in Nodes
    BY <2>1, NodeType DEF Node
  <2>3. QED
    BY <2>1, <2>2 DEF Contents
<1>3. DiskOK
  <2>1. /\ \A p \in Paths : ever[p] = {Node(p)}
        /\ \A d \in Directories, n \in Names : had[d][n] = {content[d][n]}
    BY <1>1
  <2>2. ever \in [Paths -> SUBSET Nodes] /\ had \in [Directories -> [Names -> SUBSET Nodes]]
    BY <1>1, <1>2
  <2>3. ASSUME NEW h \in Paths, NEW n \in Names, NEW d \in Directories, Append(h, n) \in Paths, ever[h] = {d}
        PROVE  content[d][n] = Node(Append(h, n))
    <3>1. Node(h) = d /\ Follow(d) = d
      BY <2>1, <2>3, DiscoveryAssumption DEF Follow
    <3>2. QED
      BY <1>2, <2>3, <3>1, ChildNode DEF Node, Lookup
  <2>4. QED
    BY <1>1, <1>2, <2>1, <2>2, <2>3 DEF DiskOK
<1>4. ArgumentsOK
  BY <1>1, DiscoveryAssumption DEF ArgumentsOK
<1>5. collection \in Seq(FileEntry) /\ Ascends(collection)
  BY <1>1, DiscoveryAssumption DEF FileEntry
<1>6. /\ walk.pc = "inputs" /\ walk.i = 1 /\ walk.queue = <<>> /\ walk.next = 1 /\ walk.files = <<>>
      /\ walk.status = "OK" /\ walk.given = collection /\ walk.held = Root
  BY <1>1 DEF Start
<1>7. walk \in Walks
  <2>1. <<>> \in FileMaps
    <3>1. <<>> \in [{} -> BOOLEAN]
      OBVIOUS
    <3>2. QED
      BY <3>1 DEF FileMaps
  <2>2. <<>> \in Seq(QueueEntry) /\ <<>> \in Seq(FileEntry)
    OBVIOUS
  <2>3. Start \in Walks
    BY <2>1, <2>2, DiscoveryAssumption DEF Start, Walks, Labels
  <2>4. QED
    BY <1>1, <1>5, <2>3 DEF Walks
<1>8. DOMAIN walk.files = {} /\ DOMAIN walk.queue = {} /\ Len(walk.queue) = 0
  BY <1>6
<1>9. Placed(walk)
  <2>1. Len(inputs) \in Nat
    BY <1>4, OptionFields
  <2>2. 1 \in 1 .. Len(inputs) + 1 /\ 1 \in 1 .. 0 + 1
    BY <2>1
  <2>3. QED
    BY <1>6, <1>8, <2>2 DEF Placed, Ended
<1>10. Limited(walk)
  <2>1. IsFiniteSet({}) /\ Cardinality({}) = 0
    BY FS_EmptySet
  <2>2. options.files \in Nat /\ options.directories \in Nat
    BY <1>4, OptionFields
  <2>3. QED
    BY <1>8, <2>1, <2>2 DEF Limited, Over
<1>11. Sound(walk) /\ Depths(walk)
  BY <1>8 DEF Sound, Depths
<1>12. Complete(walk)
  <2>1. 1 .. 1 - 1 = {}
    OBVIOUS
  <2>2. QED
    BY <1>6, <2>1 DEF Complete
<1>13. Unseen(walk) /\ Reasoned(walk)
  BY <1>6, ReasonFields DEF Unseen, Reasoned
<1>14. Collects
  BY <1>5, <1>6 DEF Collects, MergeExact, At
<1>15. QED
  BY <1>3, <1>4, <1>7, <1>9, <1>10, <1>11, <1>12, <1>13, <1>14 DEF DiscoveryInv, CallInv

(* The collection stays until a result is merged into it. *)
LEMMA KeepsCollection ==
  ASSUME Collects, walk.pc # "done", collection' = collection, walk'.given = walk.given,
         walk'.pc = "done" => walk'.status # "OK"
  PROVE  Collects'
BY DEF Collects, MergeExact, At

(* The result is merged into the collection. *)
LEMMA MergeHolds ==
  ASSUME DiscoveryInv, Merge
  PROVE  DiscoveryInv'
<1>1. /\ DiskOK /\ ArgumentsOK /\ CallInv(walk) /\ Collects /\ walk.pc = "merge"
      /\ UNCHANGED <<disk, options, inputs>>
  BY DEF DiscoveryInv, Merge, At
<1>2. PICK u : u = walk'
  OBVIOUS
<1>3. /\ Base(walk) /\ walk \in Walks /\ walk.i \in 1 .. Len(inputs) + 1
      /\ walk.next \in 1 .. Len(walk.queue) + 1
  BY <1>1, CallFields
<1>4. CASE u = Fail(walk, "ALLOCATION_FAILED") /\ collection' = collection
  <2>1. Goes(u)
    BY <1>1, <1>3, <1>4, FaultHolds DEF Faults
  <2>2. (DiskOK /\ ArgumentsOK /\ CallInv(walk))'
    BY <1>1, <1>2, <2>1, SameInv DEF Goes
  <2>3. Collects'
    BY <1>1, <1>2, <1>4, <2>1, KeepsCollection DEF Goes
  <2>4. QED
    BY <2>2, <2>3 DEF DiscoveryInv
<1>5. CASE u = [walk EXCEPT !.pc = "done"] /\ collection' = Merged(collection, walk.result)
  <2>1. /\ u \in Walks /\ u.pc = "done" /\ u.i = walk.i /\ u.next = walk.next /\ u.queue = walk.queue
        /\ u.files = walk.files /\ u.given = walk.given /\ u.status = walk.status /\ u.result = walk.result
    BY <1>3, <1>5 DEF Walks, Labels
  <2>2. Placed(walk) /\ Complete(walk)
    BY <1>1 DEF CallInv
  <2>3. /\ walk.status = "OK" /\ walk.i = Len(inputs) + 1 /\ walk.next = Len(walk.queue) + 1
        /\ walk.result = Sorted(walk.files)
    BY <1>1, <2>2 DEF Placed, Ended
  <2>4. Placed(u)
    BY <1>3, <2>1, <2>3 DEF Placed, Ended
  <2>5. Limited(u) /\ Sound(u) /\ Depths(u)
    BY <1>3, <2>1 DEF Base, Limited, Sound, Depths
  <2>6. Complete(u)
    <3>1. /\ \A k \in 1 .. walk.i - 1 : InputHandled(walk, inputs[k])
          /\ \A k \in 1 .. walk.next - 1 : Scanned(walk, walk.queue[k].path)
      BY <1>1, <2>2, <2>3 DEF Complete
    <3>2. QED
      BY <2>1, <3>1, KeepsHandled DEF Complete
  <2>7. Unseen(u) /\ Reasoned(u)
    BY <2>1, <2>3, ReasonFields DEF Unseen, Reasoned
  <2>8. CallInv(u)
    BY <2>1, <2>4, <2>5, <2>6, <2>7 DEF CallInv
  <2>9. (DiskOK /\ ArgumentsOK /\ CallInv(walk))'
    BY <1>1, <1>2, <2>8, SameInv
  <2>10. walk.result \in Seq(FileEntry) /\ Ascends(walk.result)
    BY <1>3, <2>3, WalkFields, SortedFiles DEF Base, Limited
  <2>11. collection = walk.given /\ collection \in Seq(FileEntry) /\ Ascends(walk.given)
    BY <1>1 DEF Collects
  <2>12. collection' \in Seq(FileEntry) /\ ExactMerge(collection', walk.given, walk.result)
    <3>1. PICK d \in Seq(FileEntry), a \in Seq(FileEntry) : d = walk.given /\ a = walk.result
      BY <2>10, <2>11
    <3>2. Merged(d, a) \in Seq(FileEntry) /\ ExactMerge(Merged(d, a), d, a)
      BY <2>10, <2>11, <3>1, MergedMarks
    <3>3. collection' = Merged(d, a)
      BY <1>5, <2>11, <3>1
    <3>4. QED
      BY <3>1, <3>2, <3>3
  <2>13. /\ walk'.given = walk.given /\ walk'.result = walk.result /\ walk'.status = "OK" /\ walk'.pc = "done"
    BY <1>2, <2>1, <2>3
  <2>15. Collects'
    BY <2>11, <2>12, <2>13 DEF Collects, MergeExact, At
  <2>16. QED
    BY <2>9, <2>15 DEF DiscoveryInv
<1>6. QED
  BY <1>2, <1>4, <1>5 DEF Merge

(* Every step keeps the invariant. *)
LEMMA NextHolds ==
  ASSUME DiscoveryInv, [Next]_vars
  PROVE  DiscoveryInv'
<1>1. DiskOK /\ ArgumentsOK /\ CallInv(walk) /\ Collects
  BY DEF DiscoveryInv
<1>2. PICK u : u = walk'
  OBVIOUS
<1>3. CASE UNCHANGED vars
  <2>1. UNCHANGED <<disk, options, inputs>> /\ walk' = walk /\ collection' = collection
    BY <1>3 DEF vars
  <2>2. (DiskOK /\ ArgumentsOK /\ CallInv(walk))'
    BY <1>1, <2>1, SameInv
  <2>3. Collects'
    BY <1>1, <2>1 DEF Collects, MergeExact, At
  <2>4. QED
    BY <2>2, <2>3 DEF DiscoveryInv
<1>4. CASE Input \/ InputsDone \/ OpenDirectory \/ Entry \/ EndScan \/ Finish
  <2>1. Goes(u)
    BY <1>1, <1>2, <1>4, InputHolds, InputsDoneHolds, OpenHolds, EntryHolds, EndScanHolds, FinishHolds
  <2>2. UNCHANGED <<disk, options, inputs>> /\ collection' = collection /\ walk.pc # "done"
    BY <1>4, Zenon DEF Input, InputsDone, OpenDirectory, Entry, EndScan, Finish, At
  <2>3. (DiskOK /\ ArgumentsOK /\ CallInv(walk))'
    BY <1>1, <1>2, <2>1, <2>2, SameInv DEF Goes
  <2>4. Collects'
    BY <1>1, <1>2, <2>1, <2>2, KeepsCollection DEF Goes
  <2>5. QED
    BY <2>3, <2>4 DEF DiscoveryInv
<1>5. CASE ChangeEntry \/ MoveEntry
  <2>1. PICK c \in Contents : Meanwhile /\ Becomes(c)
    BY <1>1, <1>5, ChangesContents
  <2>2. DiskOK' /\ ArgumentsOK' /\ CallInv(walk)' /\ walk'.given = walk.given /\ walk'.pc = walk.pc
        /\ walk.pc # "done"
    BY <1>1, <2>1, ChangeHolds
  <2>3. collection' = collection
    BY <2>1 DEF Becomes
  <2>4. Collects'
    BY <1>1, <2>2, <2>3, KeepsCollection
  <2>5. QED
    BY <2>2, <2>4 DEF DiscoveryInv
<1>6. CASE Merge
  BY <1>6, MergeHolds
<1>7. QED
  BY <1>3, <1>4, <1>5, <1>6 DEF Next, Discover

----------------------------------------------------------------------------
(* What the call lists. *)
LEMMA EndFields ==
  ASSUME DiscoveryInv, Ended(walk)
  PROVE  /\ walk.status = "OK" /\ walk.files \in FileMaps
         /\ \A q \in GivenPaths : InputHandled(walk, q)
         /\ \A d \in Queued(walk) : d \in Paths /\ Scanned(walk, d)
         /\ Listed = DOMAIN walk.files /\ Ascends(walk.result)
         /\ \A k \in DOMAIN walk.result : /\ walk.result[k].path \in DOMAIN walk.files
                                          /\ walk.result[k].explicit = walk.files[walk.result[k].path]
<1>1. /\ walk \in Walks /\ Placed(walk) /\ Complete(walk) /\ ArgumentsOK /\ Base(walk) /\ CallInv(walk)
      /\ IsFiniteSet(DOMAIN walk.files)
  BY CallFields DEF DiscoveryInv, CallInv, Limited
<1>2. /\ walk.status = "OK" /\ walk.i = Len(inputs) + 1 /\ walk.next = Len(walk.queue) + 1
      /\ walk.result = Sorted(walk.files) /\ walk.pc # "scan"
  BY <1>1 DEF Placed, Ended
<1>3. Len(inputs) \in Nat /\ Len(walk.queue) \in Nat /\ DOMAIN walk.queue = 1..Len(walk.queue)
  BY <1>1, OptionFields, CallFields
<1>4. \A q \in GivenPaths : InputHandled(walk, q)
  <2>1. \A l \in 1 .. walk.i - 1 : InputHandled(walk, inputs[l])
    BY <1>1, <1>2 DEF Complete
  <2>2. walk.i - 1 = Len(inputs)
    BY <1>2, <1>3
  <2>3. QED
    BY <1>1, <2>1, <2>2, OptionFields
<1>5. \A d \in Queued(walk) : d \in Paths /\ Scanned(walk, d)
  <2>1. \A l \in 1 .. walk.next - 1 : Scanned(walk, walk.queue[l].path)
    BY <1>1, <1>2 DEF Complete
  <2>2. walk.next - 1 = Len(walk.queue)
    BY <1>2, <1>3
  <2>3. \A l \in 1..Len(walk.queue) : walk.queue[l].path \in Paths
    BY <1>1, CallFields
  <2>4. QED
    BY <1>3, <2>1, <2>2, <2>3 DEF Queued
<1>6. walk.files \in FileMaps
  BY <1>1, WalkFields
<1>7. /\ Ascends(walk.result)
      /\ \A k \in DOMAIN walk.result : /\ walk.result[k].path \in DOMAIN walk.files
                                       /\ walk.result[k].explicit = walk.files[walk.result[k].path]
      /\ \A p \in DOMAIN walk.files : \E k \in DOMAIN walk.result : walk.result[k].path = p
  BY <1>1, <1>2, <1>6, SortedFiles
<1>8. Listed = DOMAIN walk.files
  BY <1>7 DEF Listed
<1>9. QED
  BY <1>2, <1>4, <1>5, <1>6, <1>7, <1>8

(* Directories that stayed are all queued, from an input down. *)
LEMMA Descends ==
  ASSUME DiscoveryInv, Ended(walk), NEW p \in Paths, NEW from \in GivenPaths, from \in Ancestors(p) \cup {p},
         NEW N \in Len(from) .. Len(p), options.recursive \/ N = Len(from),
         \A m \in Len(from) .. N : Throughout(SubSeq(p, 1, m), "directory")
  PROVE  SubSeq(p, 1, N) \in Queued(walk)
<1> DEFINE base == Len(from)
           T == {i \in 0 .. N - base : SubSeq(p, 1, base + i) \in Queued(walk)}
<1>1. /\ from \in Paths /\ base \in Nat /\ base >= 1 /\ Len(p) \in Nat /\ base <= Len(p) /\ N \in Nat
      /\ base <= N /\ N <= Len(p)
  <2>1. from \in Paths
    BY OptionFields DEF DiscoveryInv
  <2>2. base \in Nat /\ base # 0 /\ Len(p) \in Nat
    BY <2>1, PathFields
  <2>3. base <= Len(p)
    BY <2>2, AncestorFields
  <2>4. QED
    BY <2>1, <2>2, <2>3
<1>2. from = SubSeq(p, 1, base)
  <2>1. Len(p) \in 1..Len(p)
    BY <1>1
  <2>2. QED
    BY <2>1, AncestorFields, Beginning
<1>3. 0 \in T
  <2>1. base \in Len(from) .. N /\ base + 0 = base /\ 0 \in 0 .. N - base
    BY <1>1
  <2>2. Throughout(from, "directory")
    BY <1>2, <2>1
  <2>3. InputHandled(walk, from)
    BY EndFields
  <2>4. from \in Queued(walk)
    BY <2>2, <2>3 DEF InputHandled
  <2>5. QED
    BY <1>2, <2>1, <2>4
<1>4. ASSUME NEW i \in 1 .. N - base, i - 1 \in T PROVE i \in T
  <2> DEFINE m == base + (i - 1)
             d == SubSeq(p, 1, m)
  <2>1. m \in 1 .. Len(p) - 1 /\ m \in base..N /\ m + 1 = base + i /\ m + 1 \in base..N /\ N # base
        /\ m + 1 \in 1..Len(p)
    BY <1>1
  <2>2. d \in Queued(walk) /\ Throughout(d, "directory") /\ Throughout(SubSeq(p, 1, m + 1), "directory")
    BY <1>4, <2>1
  <2> HIDE DEF m
  <2>3. d \in Paths /\ p[m+1] \in Names /\ Append(d, p[m+1]) = SubSeq(p, 1, m + 1)
    BY <2>1, IsChild
  <2>4. SubSeq(p, 1, m + 1) \in Paths
    BY <2>1, Beginning
  <2>5. Scanned(walk, d)
    BY <2>2, EndFields
  <2>6. EntryHandled(walk, Append(d, p[m+1]))
    BY <2>2, <2>3, <2>4, <2>5 DEF Scanned
  <2>7. SubSeq(p, 1, m + 1) \in Queued(walk)
    BY <2>1, <2>2, <2>3, <2>6 DEF EntryHandled
  <2>8. i \in 0 .. N - base
    BY <1>1
  <2>9. QED
    BY <2>1, <2>7, <2>8
<1>5. N - base \in T
  <2> HIDE DEF T
  <2>1. N - base \in Nat
    BY <1>1
  <2>2. \A i \in 0 .. N - base : i \in T
    BY <1>3, <1>4, <2>1, InductionUpTo
  <2>3. QED
    BY <2>1, <2>2
<1>6. base + (N - base) = N
  BY <1>1
<1>7. QED
  BY <1>5, <1>6

(* At the end every file that was certain to be found has been. *)
LEMMA CertainFound ==
  ASSUME DiscoveryInv, Ended(walk)
  PROVE  Certain \subseteq DOMAIN walk.files
<1>1. SUFFICES ASSUME NEW p \in Certain PROVE p \in DOMAIN walk.files
  OBVIOUS
<1>2. p \in Paths /\ Throughout(p, "regular") /\ Len(p) \in Nat
  BY PathFields DEF Certain
<1>3. CASE p \in GivenPaths
  BY <1>2, <1>3, EndFields DEF InputHandled
<1>4. CASE p \notin GivenPaths
  <2>1. PICK from \in GivenPaths : /\ Below(p, from)
                                   /\ \A q \in Through(p, from) : Throughout(q, "directory")
    BY <1>4 DEF Certain
  <2> DEFINE N == Len(p) - 1
             d == SubSeq(p, 1, N)
  <2>2. from \in Ancestors(p) /\ (options.recursive \/ from = d)
    BY <2>1 DEF Below, Front
  <2>3. Len(from) \in 1 .. Len(p) - 1
    BY <1>2, <2>2, AncestorFields
  <2>4. N \in 1 .. Len(p) - 1 /\ N \in 1..Len(p) /\ N + 1 = Len(p) /\ Len(p) \in 1..Len(p)
        /\ N \in Len(from) .. Len(p) /\ N \in Nat /\ Len(from) <= N
    BY <1>2, <2>3
  <2> HIDE DEF N
  <2>5. Len(d) = N /\ d \in Paths
    BY <1>2, <2>4, Beginning
  <2>6. options.recursive \/ N = Len(from)
    BY <2>2, <2>5
  <2>7. ASSUME NEW m \in Len(from) .. N PROVE Throughout(SubSeq(p, 1, m), "directory")
    <3>1. m \in 1 .. Len(p) - 1 /\ m >= Len(from) /\ m \in 1..Len(p)
      BY <1>2, <2>3, <2>4
    <3>2. SubSeq(p, 1, m) \in Ancestors(p) /\ Len(SubSeq(p, 1, m)) = m
      BY <1>2, <3>1, AncestorFields, Beginning
    <3>3. SubSeq(p, 1, m) \in Through(p, from)
      BY <3>1, <3>2 DEF Through
    <3>4. QED
      BY <2>1, <3>3
  <2>8. d \in Queued(walk)
    BY <1>2, <2>2, <2>4, <2>6, <2>7, Descends
  <2>9. Throughout(d, "directory")
    BY <2>3, <2>4, <2>7
  <2>10. p[N+1] \in Names /\ Append(d, p[N+1]) = p
    BY <1>2, <2>4, IsChild, Beginning
  <2>11. EntryHandled(walk, p)
    BY <1>2, <2>8, <2>9, <2>10, EndFields DEF Scanned
  <2>12. QED
    BY <1>2, <2>11 DEF EntryHandled
<1>5. QED
  BY <1>3, <1>4

(* "Discovers regular files". *)
LEMMA ListsRightly ==
  ASSUME DiscoveryInv
  PROVE  ListedRightly
<1>1. SUFFICES ASSUME Succeeded PROVE
         /\ Ascends(walk.result) /\ Certain \subseteq Listed /\ Listed \subseteq Possible
         /\ \A p \in Listed \ GivenPaths :
              (\E d \in Directories : ever[Front(p)] = {d}) => "regular" \in ever[p]
         /\ \A k \in DOMAIN walk.result :
              LET p == walk.result[k].path
              IN /\ walk.result[k].explicit => p \in GivenPaths
                 /\ p \in GivenPaths /\ Throughout(p, "regular") => walk.result[k].explicit
  BY DEF ListedRightly
<1>2. Ended(walk) /\ Sound(walk)
  BY <1>1 DEF Succeeded, At, Ended, DiscoveryInv, CallInv
<1>3. /\ \A q \in GivenPaths : InputHandled(walk, q)
      /\ Listed = DOMAIN walk.files /\ Ascends(walk.result)
      /\ \A k \in DOMAIN walk.result : /\ walk.result[k].path \in DOMAIN walk.files
                                       /\ walk.result[k].explicit = walk.files[walk.result[k].path]
  BY <1>2, EndFields
<1>4. Certain \subseteq Listed /\ Listed \subseteq Possible
  BY <1>2, <1>3, CertainFound DEF Sound
<1>5. ASSUME NEW k \in DOMAIN walk.result, NEW p, p = walk.result[k].path
      PROVE  /\ walk.result[k].explicit => p \in GivenPaths
             /\ p \in GivenPaths /\ Throughout(p, "regular") => walk.result[k].explicit
  BY <1>2, <1>3, <1>5 DEF Sound, InputHandled
<1>6. ASSUME NEW p \in Possible \ GivenPaths, NEW d \in Directories, ever[Front(p)] = {d}
      PROVE  "regular" \in ever[p]
  <2>1. p \in Paths /\ "regular" \in Had(p) /\ \E from \in GivenPaths : from \in Ancestors(p)
    BY DEF Possible, Below
  <2> DEFINE h == Front(p)
             n == Last(p)
  <2>2. h \in Paths /\ n \in Names /\ p = Append(h, n)
    BY <2>1, FrontThrough
  <2>3. LedTo(h) = {d}
    BY <1>6 DEF LedTo
  <2>4. "regular" \in had[d][n]
    BY <2>1, <2>3 DEF Had
  <2>5. ever[h] = {d} /\ Append(h, n) \in Paths
    BY <1>6, <2>1, <2>2
  <2> HIDE DEF h, n
  <2>6. \A q \in Paths, m \in Names, e \in Directories :
          Append(q, m) \in Paths /\ ever[q] = {e} => had[e][m] \subseteq ever[Append(q, m)]
    BY DEF DiscoveryInv, DiskOK
  <2>7. had[d][n] \subseteq ever[Append(h, n)]
    BY <2>2, <2>5, <2>6
  <2>8. QED
    BY <2>2, <2>4, <2>7
<1>7. QED
  BY <1>3, <1>4, <1>5, <1>6

----------------------------------------------------------------------------
(* A quiet tree leaves no choice. *)

(* Nothing changed: every directory that can be reached was queued. *)
LEMMA ReachedQueued ==
  ASSUME DiscoveryInv, Ended(walk), changes = 0
  PROVE  Reached \subseteq Queued(walk)
<1>1. SUFFICES ASSUME NEW p \in Reached PROVE p \in Queued(walk)
  OBVIOUS
<1>2. /\ p \in Paths /\ tree[p] = "directory" /\ DiskOK
      /\ Len(p) \in Nat /\ Len(p) # 0 /\ Len(p) \in 1..Len(p)
  <2>1. p \in Paths /\ tree[p] = "directory" /\ DiskOK
    BY DEF Reached, DiscoveryInv
  <2>2. Len(p) \in Nat /\ Len(p) # 0
    BY <2>1, PathFields
  <2>3. QED
    BY <2>1, <2>2, QuietTree
<1>3. PICK from \in GivenPaths : /\ from \in Ancestors(p) \cup {p} /\ (options.recursive \/ from = p)
                                 /\ from # p => \A q \in Through(p, from) : tree[q] = "directory"
  BY DEF Reached
<1>4. Len(from) \in 1..Len(p)
  BY <1>2, <1>3, AncestorFields
<1>5. ASSUME NEW m \in Len(from) .. Len(p) PROVE Throughout(SubSeq(p, 1, m), "directory")
  <2> DEFINE q == SubSeq(p, 1, m)
  <2>1. m \in 1..Len(p) /\ m >= Len(from)
    BY <1>2, <1>4
  <2>2. q \in Paths /\ Len(q) = m /\ SubSeq(p, 1, Len(p)) = p
    BY <1>2, <2>1, Beginning
  <2>3. CASE m = Len(p)
    BY <1>2, <2>2, <2>3, QuietTree
  <2>4. CASE m # Len(p)
    <3>1. m \in 1 .. Len(p) - 1 /\ from # p
      BY <1>2, <2>1, <2>4
    <3>2. q \in Through(p, from)
      BY <1>2, <2>1, <2>2, <3>1, AncestorFields DEF Through
    <3>3. QED
      BY <1>2, <1>3, <2>2, <3>1, <3>2, QuietTree
  <2>5. QED
    BY <2>3, <2>4
<1>6. Len(p) \in Len(from) .. Len(p)
  BY <1>2, <1>4
<1>7. SubSeq(p, 1, Len(p)) \in Queued(walk)
  BY <1>2, <1>3, <1>5, <1>6, Descends
<1>8. QED
  BY <1>2, <1>7, Beginning

(* Nothing changed: nothing shown was one that is refused. *)
LEMMA ShownHandled ==
  ASSUME DiscoveryInv, Ended(walk), changes = 0, NEW p \in Shown
  PROVE  /\ ~Over(options.bytes, Bytes(p))
         /\ tree[p] = "link" => ~options.links
         /\ tree[p] = "other" => ~options.nodes
<1>1. DiskOK /\ ArgumentsOK
  BY DEF DiscoveryInv
<1>2. p \in Paths /\ tree[p] \in Kinds
  BY <1>1, OptionFields, DiskFields DEF Shown
<1>3. \A kind : Throughout(p, kind) <=> tree[p] = kind
  BY <1>1, <1>2, QuietTree
<1>4. CASE p \in GivenPaths
  BY <1>3, <1>4, EndFields DEF InputHandled
<1>5. CASE p \notin GivenPaths
  <2>1. tree[p] # "none" /\ Front(p) \in Reached
    BY <1>5 DEF Shown
  <2>2. Front(p) \in Paths /\ Front(p) \in Queued(walk) /\ Throughout(Front(p), "directory")
    BY <1>1, <2>1, ReachedQueued, QuietTree DEF Reached
  <2>3. Last(p) \in Names /\ p = Append(Front(p), Last(p))
    BY <1>2, <2>2, Parent
  <2>4. EntryHandled(walk, p)
    BY <1>2, <2>2, <2>3, EndFields DEF Scanned
  <2>5. QED
    BY <1>2, <1>3, <2>1, <2>4 DEF EntryHandled
<1>6. QED
  BY <1>4, <1>5

(* Nothing changed and the call succeeded: there was no reason to fail. *)
LEMMA NoReason ==
  ASSUME DiscoveryInv, Ended(walk), changes = 0
  PROVE  \A s \in DOMAIN Reasons : ~Reasons[s]
<1>1. /\ DiskOK /\ ArgumentsOK /\ CallInv(walk) /\ Limited(walk) /\ Depths(walk) /\ walk \in Walks
  BY DEF DiscoveryInv, CallInv
<1>2. /\ options.files \in Nat /\ options.directories \in Nat /\ Len(walk.queue) \in Nat
      /\ \A q \in GivenPaths : q \in Paths
  BY <1>1, OptionFields, CallFields
<1>3. ~Reasons["NOT_FOUND"] /\ ~Reasons["LINK_REJECTED"] /\ ~Reasons["UNSUPPORTED_NODE"]
  <2>1. ASSUME NEW q \in GivenPaths PROVE tree[q] \notin {"none", "link", "other"}
    BY <1>1, <1>2, EndFields, QuietTree DEF InputHandled
  <2>2. QED
    BY <2>1, ReasonFields, ShownHandled DEF Kind
<1>4. ~Reasons["PATH_LIMIT_EXCEEDED"]
  BY ReasonFields, ShownHandled
<1>5. ~Reasons["FILE_LIMIT_EXCEEDED"]
  <2>1. Certain \subseteq DOMAIN walk.files
    BY CertainFound
  <2>2. IsFiniteSet(DOMAIN walk.files) /\ ~Over(options.files, Cardinality(DOMAIN walk.files))
    BY <1>1 DEF Limited
  <2>3. /\ Cardinality(Certain) <= Cardinality(DOMAIN walk.files) /\ IsFiniteSet(Certain)
        /\ Cardinality(Certain) \in Nat /\ Cardinality(DOMAIN walk.files) \in Nat
    BY <2>1, <2>2, FS_Subset, FS_CardinalityType
  <2>4. QED
    BY <1>2, <2>2, <2>3, ReasonFields DEF Over
<1>6. ~Reasons["DIRECTORY_LIMIT_EXCEEDED"]
  <2>1. IsFiniteSet(Queued(walk)) /\ Cardinality(Queued(walk)) = Len(walk.queue)
    BY <1>1, QueueSize
  <2>2. Cardinality(Reached) <= Len(walk.queue) /\ IsFiniteSet(Reached) /\ Cardinality(Reached) \in Nat
    BY <2>1, ReachedQueued, FS_Subset, FS_CardinalityType
  <2>3. ~Over(options.directories, Len(walk.queue))
    BY <1>1 DEF Limited
  <2>4. QED
    BY <1>2, <2>2, <2>3, ReasonFields DEF Over
<1>7. ~Reasons["DEPTH_LIMIT_EXCEEDED"]
  <2>1. ASSUME NEW p \in Reached PROVE ~Over(options.depth, Depth(p))
    <3>1. PICK k \in DOMAIN walk.queue : walk.queue[k].path = p
      BY ReachedQueued DEF Queued
    <3>2. HasDepth(p, walk.queue[k].depth) /\ ~Over(options.depth, walk.queue[k].depth)
      BY <1>1, <3>1 DEF Depths, Limited
    <3>3. p \in Paths
      BY DEF Reached
    <3>4. QED
      BY <3>2, <3>3, DepthOf
  <2>2. QED
    BY <2>1, ReasonFields
<1>8. QED
  BY <1>3, <1>4, <1>5, <1>6, <1>7, ReasonFields

(* No limit is exceeded, and a call fails for a reason there is. *)
LEMMA FailsRightly ==
  ASSUME DiscoveryInv
  PROVE  FailsForAReason
<1>1. Limited(walk) /\ Reasoned(walk)
  BY DEF DiscoveryInv, CallInv
<1>2. ASSUME At("done") \/ At("merge"), changes = 0, NEW s \in DOMAIN Reasons
      PROVE  IF walk.status = "OK" THEN ~Reasons[s] ELSE walk.status = s => Reasons[s]
  <2>1. walk.status = "OK" => Ended(walk)
    BY <1>2 DEF At, Ended
  <2>2. walk.status = "OK" => ~Reasons[s]
    BY <1>2, <2>1, NoReason
  <2>3. walk.status = s => Reasons[s]
    BY <1>1, <1>2 DEF Reasoned
  <2>4. QED
    BY <2>2, <2>3
<1>3. QED
  BY <1>1, <1>2 DEF FailsForAReason, Limited

(* common_path_discover with its result merged into an earlier one: whatever
   other programs do to the directories meanwhile, also when they move one that
   is being read or put a link in place of one above it, a call lists every file
   that stayed, and a path only if its last name was a regular file in a
   directory which the path above led to at some time (under its own path, if
   that was one directory all along); or it fails, on a quiet tree for a reason
   that is there. *)
THEOREM ListsExactly == Spec => []ListsWhatWasThere
<1>1. Init => DiscoveryInv
  BY InitHolds
<1>2. DiscoveryInv /\ [Next]_vars => DiscoveryInv'
  BY NextHolds
<1>3. DiscoveryInv => ListsWhatWasThere
  <2>1. SUFFICES ASSUME DiscoveryInv PROVE ListsWhatWasThere
    OBVIOUS
  <2>2. MergeExact
    BY <2>1 DEF DiscoveryInv, Collects
  <2>3. QED
    BY <2>1, <2>2, ListsRightly, FailsRightly DEF ListsWhatWasThere
<1>4. QED
  BY <1>1, <1>2, <1>3, PTL DEF Spec
==============================================================================

----------------------------- MODULE ByteStream -----------------------------
(* src/src/common/stream.c with the allocations of common.h that the memory
   tracking counts: a reader over bytes that belong to the caller.

   A byte has one digit of base Radix, so that a two, four or eight byte number
   stays small; widths, alignments and the order of bytes are those of the
   code.  A refused read leaves the stream where it was and is not ok. *)
EXTENDS Integers, Sequences

LOCAL INSTANCE SequencesExt

Radix == 4

\* memory: allocations that still succeed; held: bytes in allocations, at most
\* peak so far.
OpenStream(bytes, big, memory) ==
  [data |-> bytes, at |-> 0, big |-> big, ok |-> TRUE, bytes |-> <<>>, number |-> 0,
   memory |-> memory, held |-> 0, peak |-> 0]

\* What comes of a result.
Using(result, Use(_)) == Use(result)

Fail(s) == [s EXCEPT !.ok = FALSE]
Remaining(s) == Len(s.data) - s.at

TakeBytes(s, n) ==
  IF s.ok /\ n <= Remaining(s)
  THEN [s EXCEPT !.at = @ + n, !.bytes = SubSeq(s.data, s.at + 1, s.at + n)]
  ELSE Fail(s)

Skip(s, n) == IF s.ok /\ n <= Remaining(s) THEN [s EXCEPT !.at = @ + n] ELSE Fail(s)

AlignTo(s, n) == IF s.at % n = 0 THEN s ELSE Skip(s, n - (s.at % n))

\* read_le and read_be.
NumberOf(bytes, big) ==
  FoldLeft(LAMBDA n, b : n * Radix + b, 0, IF big THEN bytes ELSE Reverse(bytes))

TakeNumber(s, width) ==
  LET t == TakeBytes(s, width)
  IN IF t.ok THEN [t EXCEPT !.number = NumberOf(t.bytes, s.big)] ELSE t

\* One number after another, each of its width.
TakeNumbers(s, widths) ==
  FoldLeft(LAMBDA q, w : Using(TakeNumber(q.s, w), LAMBDA t :
             [s |-> t, numbers |-> Append(q.numbers, t.number)]),
           [s |-> s, numbers |-> <<>>], widths)

\* The same bits read as a signed number of that width.
SignedOf(n, width) == IF 2 * n >= Radix ^ width THEN n - Radix ^ width ELSE n

Allocate(s, n) ==
  IF s.ok /\ n > 0 /\ s.memory > 0
  THEN [s EXCEPT !.memory = @ - 1, !.held = @ + n,
                 !.peak = IF s.held + n > @ THEN s.held + n ELSE @]
  ELSE Fail(s)
Release(s, n) == [s EXCEPT !.held = @ - n]

\* The text up to its terminator, in an allocation that has room for both.
TakeText(s) ==
  LET ends == {i \in s.at + 1 .. Len(s.data) : s.data[i] = 0}
      end  == CHOOSE i \in ends : \A j \in ends : i <= j
      t    == Allocate(s, end - s.at)
  IN IF ~s.ok \/ ends = {} THEN Fail(s)
     ELSE IF ~t.ok THEN t
     ELSE [t EXCEPT !.at = end, !.bytes = SubSeq(s.data, s.at + 1, end - 1)]

\* A program that writes numbers for these streams.
Digits(n, width, big) ==
  LET low == [k \in 1..width |-> (n \div (Radix ^ (k - 1))) % Radix]
  IN IF big THEN Reverse(low) ELSE low
=============================================================================

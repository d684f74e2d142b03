---------------------------- MODULE StringBuilder ----------------------------
(* src/src/common/string_builder.c over the allocations of common.h, which
   counts the memory it has given out.  A text is the sequence of the pieces
   that were appended, each by its length; malloc and realloc may always fail.

   Each action is one call on one builder. *)
EXTENDS Integers, SequencesExt

CONSTANTS
  SizeMax,         \* SIZE_MAX
  FirstCapacity,   \* the capacity of a first allocation, 32
  Capacities,      \* capacities to begin with
  Lengths,         \* lengths to append
  MaxCalls         \* bound on the calls

ASSUME BuilderAssumption ==
  /\ SizeMax \in Nat /\ FirstCapacity \in 1 .. SizeMax \div 2 /\ MaxCalls \in Nat
  /\ Capacities \subseteq 0..SizeMax /\ Lengths \subseteq 0..SizeMax

VARIABLES
  sb,        \* the builder; ends is where its buffer has a terminator
  tracked,   \* g_allocated_bytes and g_allocations_count
  wanted,    \* history: the pieces appended since the text was last empty
  detached,  \* history: buffers handed over that are still counted
  calls      \* calls so far

builderVars == <<sb, tracked, wanted, detached, calls>>

Initial == [allocated |-> FALSE, text |-> <<>>, capacity |-> 0, failed |-> FALSE, ends |-> 0]
LengthTo(text) == LET Sum[n \in 0..Len(text)] == IF n = 0 THEN 0 ELSE Sum[n-1] + text[n] IN Sum
Length(text) == LengthTo(text)[Len(text)]
Used(b) == Length(b.text)

Plus(bytes, count) == [bytes |-> tracked.bytes + bytes, count |-> tracked.count + count]

\* malloc refuses more than half of the address space.
MayAllocate(n) == 0 < n /\ n <= SizeMax \div 2

----------------------------------------------------------------------------
(* sb_ensure_capacity: the outcomes, as a builder and what is tracked. *)

Wrapped(n) == n % (SizeMax + 1)

\* The size grows each time around, so required times are enough.
Larger(c, required) ==
  IF c >= required THEN c ELSE IF c > SizeMax \div 2 THEN required ELSE Wrapped(c * 2)
Capacity(capacity, required) ==
  LET Loop[n \in 0..required] ==
        IF n = 0 THEN (IF capacity = 0 THEN FirstCapacity ELSE Wrapped(capacity * 2))
        ELSE Larger(Loop[n-1], required)
  IN Loop
Doubled(capacity, required) == Capacity(capacity, required)[required]

Failed(b) == [b EXCEPT !.failed = TRUE]
Outcome(b, t) == [builder |-> b, tracked |-> t]

\* Without room for the terminator.
RequiredBarely(b, additional) == Used(b) + additional
Required(b, additional) == Used(b) + additional + 1

Ensure(b, additional) ==
  LET required == Required(b, additional)
      capacity == Doubled(b.capacity, required)
      grown    == Outcome([b EXCEPT !.allocated = TRUE, !.capacity = capacity],
                          Plus(capacity - b.capacity, IF b.allocated THEN 0 ELSE 1))
  IN IF b.failed \/ Used(b) = SizeMax \/ additional > SizeMax - Used(b) - 1
     THEN {Outcome(Failed(b), tracked)}
     ELSE IF required <= b.capacity THEN {Outcome(b, tracked)}
     ELSE {Outcome(Failed(b), tracked)} \cup (IF MayAllocate(capacity) THEN {grown} ELSE {})

With(b, piece) ==
  IF b.failed THEN b ELSE [b EXCEPT !.text = Append(@, piece), !.ends = Used(b) + piece]

----------------------------------------------------------------------------
(* The calls. *)

Call == calls < MaxCalls /\ calls' = calls + 1

\* sb_init_with_capacity on a builder that holds nothing.
SbInitWithCapacity(capacity) ==
  /\ Call /\ ~sb.allocated
  /\ \/ sb' = Initial /\ UNCHANGED tracked
     \/ /\ MayAllocate(capacity)
        /\ sb' = [Initial EXCEPT !.allocated = TRUE, !.capacity = capacity]
        /\ tracked' = Plus(capacity, 1)
  /\ wanted' = <<>> /\ UNCHANGED detached

\* sb_append, sb_append_len and sb_append_char.
SbAppend(piece) ==
  /\ Call /\ UNCHANGED detached
  /\ IF piece = 0 THEN UNCHANGED <<sb, tracked, wanted>>
     ELSE \E o \in Ensure(sb, piece) :
            /\ sb' = With(o.builder, piece)
            /\ tracked' = o.tracked
            /\ wanted' = Append(wanted, piece)

\* sb_appendf: measured first, then written; the second length may be another one.
SbAppendf(piece, written) ==
  /\ Call /\ UNCHANGED detached
  /\ IF sb.failed THEN UNCHANGED <<sb, tracked>> /\ wanted' = Append(wanted, piece)
     ELSE IF piece = 0 THEN UNCHANGED <<sb, tracked, wanted>>
     ELSE \E o \in Ensure(sb, piece) :
            /\ sb' = IF o.builder.failed \/ written = piece THEN With(o.builder, piece)
                     ELSE Failed([o.builder EXCEPT !.ends = Used(sb)])
            /\ tracked' = o.tracked
            /\ wanted' = Append(wanted, piece)

\* No format, or text that cannot be encoded.
SbAppendfFails ==
  /\ Call /\ UNCHANGED <<tracked, detached>>
  /\ sb' = Failed(sb) /\ wanted' = Append(wanted, 1)

SbClear ==
  /\ Call /\ UNCHANGED <<tracked, detached>>
  /\ sb' = [sb EXCEPT !.text = <<>>, !.ends = 0] /\ wanted' = <<>>

SbFree ==
  /\ Call /\ UNCHANGED detached
  /\ tracked' = IF sb.allocated THEN Plus(-sb.capacity, -1) ELSE tracked
  /\ sb' = Initial /\ wanted' = <<>>

\* What is no longer counted when a buffer is handed over: realloc makes it as
\* long as its text, or fails and leaves it.
UncountedText(shrunk) == Used(sb) + 1 + (IF shrunk THEN sb.capacity - Used(sb) - 1 ELSE 0)
Uncounted(shrunk) ==
  LET size == IF shrunk THEN Used(sb) + 1 ELSE sb.capacity IN (sb.capacity - size) + size

\* A builder without a buffer gives out a new empty text, which stays counted.
SbDetach ==
  /\ Call
  /\ IF sb.allocated
     THEN /\ \E shrunk \in BOOLEAN : tracked' = Plus(-Uncounted(shrunk), -1)
          /\ sb' = Initial /\ wanted' = <<>> /\ UNCHANGED detached
     ELSE /\ UNCHANGED <<sb, wanted>>
          /\ \/ UNCHANGED <<tracked, detached>>
             \/ tracked' = Plus(1, 1) /\ detached' = detached + 1

BuilderInit ==
  /\ sb = Initial /\ tracked = [bytes |-> 0, count |-> 0]
  /\ wanted = <<>> /\ detached = 0 /\ calls = 0

BuilderNext ==
  \/ \E n \in Capacities : SbInitWithCapacity(n)
  \/ \E n \in Lengths : SbAppend(n)
  \/ \E n, m \in Lengths : SbAppendf(n, m)
  \/ SbAppendfFails \/ SbClear \/ SbFree \/ SbDetach

BuilderSpec == BuilderInit /\ [][BuilderNext]_builderVars

----------------------------------------------------------------------------
(* A builder whose calls all succeeded holds what was appended, and one that
   failed the part before the failure, until it is emptied; there is always
   room for the terminator, and it is where the text ends.  The memory counters
   have what the builder holds, and the texts of empty builders that were
   handed over, which string_builder.c never takes off them. *)
BuilderExact ==
  /\ IF sb.allocated THEN Used(sb) < sb.capacity ELSE sb = [Initial EXCEPT !.failed = sb.failed]
  /\ sb.ends = Used(sb)
  /\ IsPrefix(sb.text, wanted)
  /\ ~sb.failed => sb.text = wanted
  /\ tracked = [bytes |-> sb.capacity + detached, count |-> (IF sb.allocated THEN 1 ELSE 0) + detached]
=============================================================================

--------------------------- MODULE MeteredReader ---------------------------
(* The metadata reader and the two-pass construction that the directory, the
   metadata tail and the reference index of a serialized file share
   (io/serialized_metadata_reader_internal.c and the create functions).
   What a scanner does to a file is a sequence of instructions: fields with
   their widths, bytes of terminated strings, units of work, counts held
   against a limit, refusals, completed rows.  Run executes them on a meter.
   Diagnostics (field, row, offset) are left out, and so are the values of
   bytes that nothing decides on. *)
EXTENDS Integers, Sequences

LOCAL INSTANCE SequencesExt

CONSTANTS
  Int32Max,        (* INT32_MAX: a larger count is a negative one *)
  HeaderBytes,     (* SERIALIZED_FILE_V22_HEADER_SIZE *)
  Kinds            (* what is counted, and the tables that have rows *)

----------------------------------------------------------------------------
(* Instructions. *)

Instruction(op, n, what, limit) ==
  [op |-> op, n |-> n, what |-> what, limit |-> limit]

Field(n)       == Instruction("field", n, "", "NONE")
Align          == Instruction("align", 0, "", "NONE")
Exhausted      == Instruction("end", 0, "", "NONE")
Charge(n)      == Instruction("charge", n, "", "NONE")
Tally(kind, n) == Instruction("tally", n, kind, kind)
Row(table)     == Instruction("row", 1, table, "NONE")
Refuse(status) == Instruction("refuse", 0, status, "NONE")
Exceeds(limit) == Instruction("refuse", 0, "LIMIT_EXCEEDED", limit)

When(condition, instruction) == IF condition THEN <<instruction>> ELSE <<>>

(* A string of length bytes and its NUL, counted under kind. *)
Terminated(kind, length) ==
  [i \in 1..(length + 1) |-> Instruction("byte", 1, kind, kind)]

(* Mutant of TableCount: a replay trusts the count it reads. *)
TableCountTrusted(raw, table, caps, capacity) ==
  <<Field(4)>> \o When(raw > Int32Max, Refuse("MALFORMED_METADATA"))
               \o When(raw > caps[table], Exceeds(table))

(* A table's count.  A replay has the capacities the first pass found. *)
TableCount(raw, table, caps, capacity) ==
  <<Field(4)>> \o When(raw > Int32Max, Refuse("MALFORMED_METADATA"))
               \o When(raw > caps[table], Exceeds(table))
               \o When(table \in DOMAIN capacity /\ raw # capacity[table],
                       Refuse("MALFORMED_METADATA"))

(* The rows that a count announces; a count out of range has been refused. *)
TableRows(raw, rows, Program(_)) ==
  FlattenSeq([i \in 1..(IF raw <= Len(rows) THEN raw ELSE 0) |->
                Program(rows[i])])

(* A type's prefix, which ordinary and reference types share.  class is
   "none" (-1), "script" (114) or "other". *)
TypePrefix(t) ==
  <<Field(4), Field(1), Field(2)>>
  \o When(t.class = "none" /\ t.negative, Refuse("UNSUPPORTED_TYPE_SHAPE"))
  \o When(t.class = "script" \/ ~t.negative, Field(16))
  \o <<Field(16)>>

TypeTree(t) ==
  <<Field(4)>> \o When(t.nodes = 0, Refuse("UNSUPPORTED_TREE_SHAPE"))
  \o <<Tally("NODES", t.nodes), Field(4), Tally("STRING_BYTES", t.strings),
       Field(32 * t.nodes), Field(t.strings)>>

----------------------------------------------------------------------------
(* The meter: a cursor, the work done, what has been counted, the rows
   completed, and the verdict so far.  A budget b says where the metadata
   and the mapping end, where the byte limit counts from, and the caps. *)

NoneCounted == [k \in Kinds |-> 0]

Start(pos) == [pos |-> pos, work |-> 0, total |-> NoneCounted,
               rows |-> NoneCounted, status |-> "OK", limit |-> "NONE"]

Reject(m, status, limit) == [m EXCEPT !.status = status, !.limit = limit]

Then(m, Next(_)) == IF m.status = "OK" THEN Next(m) ELSE m

(* What comes of a result, whether it is a refusal or not. *)
Using(result, Use(_)) == Use(result)

(* Mutant of Admit: the mapping's end is taken for the metadata's. *)
AdmitMapped(b, m, width) ==
  IF m.pos + width > b.end \/ m.pos + width > b.mapped
  THEN Reject(m, "MALFORMED_METADATA", "NONE")
  ELSE IF m.pos + width - b.origin > b.bytes THEN Reject(m, "LIMIT_EXCEEDED", "BYTES")
  ELSE m

(* Declared metadata, then the mapping, then the byte limit. *)
Admit(b, m, width) ==
  IF m.pos + width > b.end THEN Reject(m, "MALFORMED_METADATA", "NONE")
  ELSE IF m.pos + width > b.mapped THEN Reject(m, "INCOMPLETE_MAPPING", "NONE")
  ELSE IF m.pos + width - b.origin > b.bytes THEN Reject(m, "LIMIT_EXCEEDED", "BYTES")
  ELSE m

Pay(b, m, amount) ==
  IF amount > b.caps["WORK"] - m.work THEN Reject(m, "LIMIT_EXCEEDED", "WORK")
  ELSE [m EXCEPT !.work = @ + amount]

Count(b, m, kind, n) ==
  IF n > b.caps[kind] - m.total[kind] THEN Reject(m, "LIMIT_EXCEEDED", kind)
  ELSE [m EXCEPT !.total[kind] = @ + n]

Consume(b, m, width) ==
  Then(Pay(b, m, width), LAMBDA p : [p EXCEPT !.pos = @ + width])

Take(b, m, width) == Then(Admit(b, m, width), LAMBDA a : Consume(b, a, width))

TakeTerminated(b, m, kind) ==
  Then(Admit(b, m, 1), LAMBDA a :
    Then(Count(b, a, kind, 1), LAMBDA c : Consume(b, c, 1)))

Execute(b, m, i) ==
  CASE i.op = "field"  -> Take(b, m, i.n)
    [] i.op = "align"  -> Take(b, m, (HeaderBytes - m.pos) % 4)
    [] i.op = "byte"   -> TakeTerminated(b, m, i.what)
    [] i.op = "charge" -> Pay(b, m, i.n)
    [] i.op = "tally"  -> Count(b, m, i.what, i.n)
    [] i.op = "refuse" -> Reject(m, i.what, i.limit)
    [] i.op = "end"    -> IF m.pos # b.end THEN Reject(m, "MALFORMED_METADATA", "NONE") ELSE m
    [] i.op = "row"    -> Then(Pay(b, m, 1), LAMBDA p : [p EXCEPT !.rows[i.what] = @ + 1])

Run(b, m, program) ==
  LET run[i \in 0..Len(program)] ==
        IF i = 0 THEN m ELSE Then(run[i - 1], LAMBDA p : Execute(b, p, program[i]))
  IN run[Len(program)]

----------------------------------------------------------------------------
(* Construction in two passes around one allocation. *)

(* append_array: one more array in the allocation. *)
AppendArray(total, array) ==
  total + ((-total) % array.align) + array.count * array.width

(* The planned allocation is a unit of work and its own size in work. *)
Plan(b, m, bytes) ==
  Run(b, m, <<Charge(1)>> \o When(bytes > b.caps["RETAINED_BYTES"], Exceeds("RETAINED_BYTES"))
            \o <<Charge(bytes)>>)

(* The second pass starts over, but for the work: Again(m, pos). *)
Again(m, pos) == [Start(pos) EXCEPT !.work = m.work]

Built(m, capacity, allocated, freed) ==
  [status |-> m.status, limit |-> m.limit, work |-> m.work, end |-> m.pos,
   rows |-> m.rows, capacity |-> capacity, allocated |-> allocated, freed |-> freed]

(* What is left of a construction whose second pass ended as m. *)
Settle(m, capacity, bytes) ==
  Built(m, capacity, bytes, IF m.status = "OK" THEN 0 ELSE bytes)

(* m is the meter after admission, First and Second are the two passes, and
   Bytes the size of the allocation for the rows that the first one found. *)
Construct(b, m, First, Second(_), Bytes(_), memory) ==
  LET one    == Run(b, m, First)
      bytes  == Bytes(one.rows)
      plan   == Then(one, LAMBDA p : Plan(b, p, bytes))
  IN CASE plan.status # "OK" -> Built(plan, NoneCounted, 0, 0)
       [] plan.status = "OK" /\ ~memory ->
            Built(Reject(plan, "ALLOCATION_FAILED", "NONE"), NoneCounted, 0, 0)
       [] plan.status = "OK" /\ memory ->
            Settle(Run(b, Again(plan, m.pos), Second(one.rows) \o <<Charge(1)>>),
                   one.rows, bytes)
=============================================================================

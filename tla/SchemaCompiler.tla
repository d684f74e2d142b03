--------------------------- MODULE SchemaCompiler ---------------------------
(* The schema of one type of a serialized file: the nodes of its embedded type
   tree with their relations and names (io/serialized_file_schema.c), and what
   a context query says of it (io/serialized_file_schema_context.c).
   A string table is a sequence of bytes in which 0 is the NUL.  Ordinals start
   at 1 and 0 stands for SIZE_MAX.  The owners are genuine: the overlap of
   ranges, and spans that a genuine owner cannot have, are left out, and so are
   the field and the offset of a diagnostic. *)
EXTENDS MeteredReader

LOCAL INSTANCE SequencesExt

CONSTANTS
  SchemaEngine,                (* the one engine version with a common table *)
  CommonTable,                 (* its bytes *)
  NodeBytes,                   (* NODE_BYTES *)
  RadixBuckets, RadixPasses,   (* digits of an encoded string offset *)
  SchemaSize                   (* of the storage, of a node and of a request *)

HighBit == (RadixBuckets ^ RadixPasses) \div 2
InCommon(bits) == bits >= HighBit
Within31(bits) == bits % HighBit

Idle == [work |-> 0, status |-> "OK", limit |-> "NONE"]

(* n charges of one unit: the ones before the refused one count. *)
PayUnits(b, m, n) ==
  IF n > b.caps["WORK"] - m.work
  THEN Reject([m EXCEPT !.work = b.caps["WORK"]], "LIMIT_EXCEEDED", "WORK")
  ELSE Pay(b, m, n)

Require(m, holds, status) == IF holds THEN m ELSE Reject(m, status, "NONE")
Cap(b, m, n, limit) == IF n <= b.caps[limit] THEN m ELSE Reject(m, "LIMIT_EXCEEDED", limit)

Loop(m, n, Step(_, _)) ==
  LET at[i \in 0..n] == IF i = 0 THEN m ELSE Then(at[i - 1], LAMBDA p : Step(p, i))
  IN at[n]

----------------------------------------------------------------------------
(* The hierarchy.  A node is usual if its version is 1, its index its ordinal
   and its opaque tail zero. *)

Decoded(node) ==
  [level |-> node.level, flags |-> node.flags, meta |-> node.meta, width |-> node.width,
   usual |-> node.usual, type |-> <<>>, name |-> <<>>,
   parent |-> 0, first |-> 0, next |-> 0, children |-> 0, end |-> 0]

(* Mutant of AdmitLevel: a second root is taken. *)
AdmitSecondRoot(b, m, level, i) ==
  Then(Require(m, (i = 1 => level = 0) /\ level <= Len(m.active), "MALFORMED_HIERARCHY"),
       LAMBDA p : Cap(b, p, level, "DEPTH"))

AdmitLevel(b, m, level, i) ==
  Then(Require(m, ((i = 1) <=> (level = 0)) /\ level <= Len(m.active), "MALFORMED_HIERARCHY"),
       LAMBDA p : Cap(b, p, level, "DEPTH"))

(* The active subtrees from the given level on end before this ordinal. *)
CloseSubtrees(b, m, level, end) ==
  Then(PayUnits(b, m, Len(m.active) - level), LAMBDA p :
    [p EXCEPT !.nodes = [j \in DOMAIN @ |-> IF \E k \in level + 1..Len(p.active) : p.active[k] = j
                                            THEN [@[j] EXCEPT !.end = end] ELSE @[j]],
              !.active = SubSeq(@, 1, level), !.last = SubSeq(@, 1, level)])

(* Mutant of LinkNode: the last child of a new node is not reset. *)
LinkNodeStale(m, i, level) ==
  LET parent == m.active[level]
      linked == IF level = 0 THEN m.nodes
                ELSE [m.nodes EXCEPT ![i].parent = parent, ![parent].children = @ + 1,
                                     ![m.last[1]].next = i]
  IN [m EXCEPT !.nodes = linked, !.active = Append(@, i),
               !.last = Append(IF level = 0 THEN @ ELSE [@ EXCEPT ![level] = i], i)]

LinkNode(m, i, level) ==
  LET parent == m.active[level]
      older  == m.last[level]
      linked == IF level = 0 THEN m.nodes
                ELSE IF older = 0
                THEN [m.nodes EXCEPT ![i].parent = parent, ![parent].children = @ + 1,
                                     ![parent].first = i]
                ELSE [m.nodes EXCEPT ![i].parent = parent, ![parent].children = @ + 1,
                                     ![older].next = i]
  IN [m EXCEPT !.nodes = linked, !.active = Append(@, i),
               !.last = Append(IF level = 0 THEN @ ELSE [@ EXCEPT ![level] = i], 0)]

CompileNode(b, m, node, i) ==
  Then(Pay(b, m, NodeBytes + 1), LAMBDA p :
    Then(AdmitLevel(b, p, node.level, i), LAMBDA q :
      Then(CloseSubtrees(b, [q EXCEPT !.nodes = Append(@, Decoded(node))], node.level, i),
           LAMBDA r : LinkNode(r, i, node.level))))

CompileNodes(b, m, tree) ==
  Then(Loop([work |-> m.work, status |-> m.status, limit |-> m.limit,
             active |-> <<>>, last |-> <<>>, nodes |-> <<>>], Len(tree.nodes),
            LAMBDA p, i : CompileNode(b, p, tree.nodes[i], i)),
       LAMBDA p : CloseSubtrees(b, p, 0, Len(tree.nodes) + 1))

----------------------------------------------------------------------------
(* The names: two requests per node, sorted by their encoded offsets, are
   served in one walk over either table. *)

Requests(tree) ==
  [s \in 1..(2 * Len(tree.nodes)) |->
     LET node == tree.nodes[(s + 1) \div 2]
     IN [node |-> (s + 1) \div 2, isType |-> s % 2 = 1,
         bits |-> IF s % 2 = 1 THEN node.typeBits ELSE node.nameBits]]

Digit(bits, pass) == (bits \div RadixBuckets ^ (pass - 1)) % RadixBuckets

SortPass(b, m, pass) ==
  Then(Pay(b, m, 2 * RadixBuckets), LAMBDA p :
    Then(PayUnits(b, p, 2 * Len(p.requests)), LAMBDA q :
      [q EXCEPT !.requests =
         FlattenSeq([d \in 1..RadixBuckets |->
           SelectSeq(@, LAMBDA r : Digit(r.bits, pass) = d - 1)])]))

SortRequests(b, m, tree) ==
  Loop([work |-> m.work, status |-> m.status, limit |-> m.limit, nodes |-> m.nodes,
        requests |-> Requests(tree), next |-> 1, start |-> 0],
       RadixPasses, LAMBDA p, pass : SortPass(b, p, pass))

(* Mutant of ResolveRequest: an offset inside of a string names its end. *)
ResolveRequestInside(b, m, r, table, end) ==
  LET text == SubSeq(table, Within31(r.bits) + 1, end - 1)
  IN Then(PayUnits(b, m, 1), LAMBDA p :
       Then(Require(p, table[end] = 0, "UNTERMINATED_STRING"), LAMBDA q :
         [q EXCEPT !.nodes[r.node] = IF r.isType THEN [@ EXCEPT !.type = text]
                                                 ELSE [@ EXCEPT !.name = text],
                   !.next = @ + 1]))

ResolveRequest(b, m, r, table, end) ==
  LET text == SubSeq(table, m.start + 1, end - 1)
  IN Then(PayUnits(b, m, 1), LAMBDA p :
       Then(Require(p, Within31(r.bits) = p.start, "INVALID_STRING_OFFSET"), LAMBDA q :
         Then(Require(q, table[end] = 0, "UNTERMINATED_STRING"), LAMBDA s :
           [s EXCEPT !.nodes[r.node] = IF r.isType THEN [@ EXCEPT !.type = text]
                                                   ELSE [@ EXCEPT !.name = text],
                     !.next = @ + 1])))

(* How many of the requests from the next one on lie in this table below end. *)
Pending(m, common, end) ==
  Min({k \in m.next..Len(m.requests) + 1 :
         \/ k > Len(m.requests)
         \/ InCommon(m.requests[k].bits) # common
         \/ Within31(m.requests[k].bits) >= end}) - m.next

ResolveByte(b, m, common, table, end) ==
  Then(PayUnits(b, m, 1), LAMBDA p :
    IF table[end] # 0 /\ end < Len(table) THEN p
    ELSE Then(Loop(p, Pending(p, common, end),
                   LAMBDA q, k : ResolveRequest(b, q, q.requests[q.next], table, end)),
              LAMBDA q : [q EXCEPT !.start = end]))

ResolveTable(b, m, common, table) ==
  Then(Loop([m EXCEPT !.start = 0], Len(table),
            LAMBDA p, end : ResolveByte(b, p, common, table, end)),
       LAMBDA p : IF p.next > Len(p.requests) \/ InCommon(p.requests[p.next].bits) # common THEN p
                  ELSE Then(PayUnits(b, p, 1),
                            LAMBDA q : Reject(q, "INVALID_STRING_OFFSET", "NONE")))

ResolveNames(b, m, tree) ==
  Then(ResolveTable(b, m, FALSE, tree.strings),
       LAMBDA p : ResolveTable(b, p, TRUE, CommonTable))

----------------------------------------------------------------------------
(* Creation. *)

NoSchema == [live |-> FALSE]

SelectRow(m, parent, ordinal) ==
  Then(Require(m, parent.engine = SchemaEngine, "UNSUPPORTED_ENGINE"), LAMBDA p :
    Then(Require(p, ordinal \in DOMAIN parent.rows, "INVALID_ARGUMENT"), LAMBDA q :
      Require(q, parent.rows[ordinal].hasTree, "NO_EMBEDDED_TREE")))

AdmitTree(b, m, tree) ==
  Then(Cap(b, m, Len(tree.nodes), "NODES"), LAMBDA p :
    Cap(b, p, Len(tree.strings), "LOCAL_STRINGS"))

RetainedBytes(tree) == SchemaSize.storage + Len(tree.nodes) * SchemaSize.node
ScratchBytes(tree)  == 2 * (2 * Len(tree.nodes) * SchemaSize.request)

PlanSchema(b, m, tree) ==
  Then(Pay(b, m, 1), LAMBDA p :
    Then(Cap(b, p, RetainedBytes(tree), "RETAINED"), LAMBDA q :
      Then(Cap(b, q, ScratchBytes(tree), "SCRATCH"), LAMBDA r : Pay(b, r, RetainedBytes(tree)))))

CompileTree(b, m, tree) ==
  Then(CompileNodes(b, m, tree), LAMBDA p :
    Then(SortRequests(b, p, tree), LAMBDA q :
      Then(ResolveNames(b, q, tree), LAMBDA r : Pay(b, r, 1))))

SchemaResult(m, schema, allocated, freed) ==
  [status |-> m.status, limit |-> m.limit, work |-> m.work, schema |-> schema,
   allocated |-> allocated, freed |-> freed]

(* The tree has been planned; memory is how many allocations succeed. *)
BuildSchema(b, m, parent, ordinal, memory) ==
  LET row      == parent.rows[ordinal]
      retained == RetainedBytes(row.tree)
      scratch  == ScratchBytes(row.tree)
      second   == Pay(b, m, scratch)
      done     == CompileTree(b, second, row.tree)
      Failed(p) == Reject(p, "ALLOCATION_FAILED", "NONE")
  IN CASE memory = 0 -> SchemaResult(Failed(m), NoSchema, 0, 0)
       [] memory > 0 /\ second.status # "OK" -> SchemaResult(second, NoSchema, retained, retained)
       [] memory = 1 /\ second.status = "OK" ->
            SchemaResult(Failed(second), NoSchema, retained, retained)
       [] memory > 1 /\ second.status = "OK" ->
            IF done.status = "OK"
            THEN SchemaResult(done, [live |-> TRUE, file |-> parent.file, kind |-> parent.kind,
                                     ordinal |-> ordinal, row |-> row, nodes |-> done.nodes, bytes |-> retained],
                              retained + scratch, scratch)
            ELSE SchemaResult(done, NoSchema, retained + scratch, retained + scratch)

(* parent is a live directory's ordinary types or a live tail's references. *)
CreateSchema(parent, ordinal, caps, output, memory) ==
  LET b == [caps |-> caps]
      admitted ==
        Then(Require(Idle, parent.live /\ ~output.live, "INVALID_STATE"), LAMBDA m :
          Then(Pay(b, m, 1), LAMBDA p :
            Then(SelectRow(p, parent, ordinal), LAMBDA q :
              Then(AdmitTree(b, q, parent.rows[ordinal].tree), LAMBDA r :
                PlanSchema(b, r, parent.rows[ordinal].tree)))))
  IN IF admitted.status # "OK" THEN SchemaResult(admitted, NoSchema, 0, 0)
     ELSE BuildSchema(b, admitted, parent, ordinal, memory)

----------------------------------------------------------------------------
(* A context query: where a reader of an object, or of a payload that a
   reference selected, stops. *)

RegistryBit(flags) == (flags \div 4) % 2 = 1

(* Mutant of InspectNode: a registry anywhere will do. *)
InspectNodeAnywhere(schema, m, i) ==
  IF ~RegistryBit(schema.nodes[i].flags) THEN m
  ELSE Then(Require(m, schema.nodes[i].flags = 4, "UNSUPPORTED_REGISTRY_FLAGS"),
            LAMBDA p : [p EXCEPT !.registry = i])

InspectNode(schema, m, i) ==
  LET node == schema.nodes[i]
  IN IF ~RegistryBit(node.flags) THEN m
     ELSE Then(Require(m, node.flags = 4, "UNSUPPORTED_REGISTRY_FLAGS"), LAMBDA p :
            Then(Require(p, /\ node.parent = 1 /\ node.next = 0 /\ p.registry = 0
                            /\ node.end = Len(schema.nodes) + 1, "UNSUPPORTED_REGISTRY_POSITION"),
                 LAMBDA q : [q EXCEPT !.registry = i]))

RequiredRow(kind) == IF kind = "ORDINARY_OBJECT" THEN "ORDINARY" ELSE "REFERENCE"

NoContext == [kind |-> "NONE"]

QueryContext(schema, kind, maxWork) ==
  LET b == [caps |-> [WORK |-> maxWork]]
      begin == [work |-> 0, status |-> "OK", limit |-> "NONE", registry |-> 0]
      n == Len(schema.nodes)
      done ==
        Then(Require(begin, schema.live, "INVALID_STATE"), LAMBDA m :
          Then(Require(m, schema.kind = RequiredRow(kind), "WRONG_ROW_KIND"), LAMBDA p :
            Then(PayUnits(b, p, 1), LAMBDA q :
              Then(Loop(q, n, LAMBDA r, i : Then(PayUnits(b, r, 1),
                                                 LAMBDA s : InspectNode(schema, s, i))),
                   LAMBDA r : PayUnits(b, r, 1)))))
      omitted == kind = "SELECTED_REFERENCE" /\ done.registry # 0
  IN [status |-> done.status, work |-> done.work,
      context |-> IF done.status # "OK" THEN NoContext
                  ELSE [kind |-> kind, ordinal |-> schema.ordinal, row |-> schema.row,
                        first |-> schema.nodes[1].first, registry |-> done.registry,
                        stop |-> IF omitted THEN done.registry ELSE n + 1, omitted |-> omitted]]
=============================================================================

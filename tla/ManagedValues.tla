----------------------------- MODULE ManagedValues -----------------------------
(* The values of a MonoBehaviour with managed references: its own fields, and
   the registry at its end with the payloads that its rows select
   (io/serialized_file_managed_values.c and the profiles of
   io/serialized_file_managed_profile_internal.c).
   The prerequisites (a schema of the host, an index of the reference types,
   a cache of the schemas that rows select) live as long as the construction.
   A content is what the object's bytes say in one pass. *)
EXTENDS ObjectValues, MetadataTail

LOCAL INSTANCE SequencesExt

CONSTANTS
  NullRid,           (* -2 *)
  RegistryVersion,   (* MANAGED_REGISTRY_VERSION *)
  ManagedSize        (* of the storage, a value, a row, a slot, a type, a cache entry *)

(* Type, name, level, flags, width, meta flags. *)
HostNodes ==
  [i \in 1..12 |-> SubSeq(MonoBehaviourNodes[i], 1, 6)] \o <<
  <<"string", "", 1, 0, -1, \h8000>>, <<"Array", "Array", 2, 1, -1, \h4001>>,
  <<"int", "size", 3, 0, 4, 1>>, <<"char", "data", 3, 0, 1, 1>>,
  <<"managedReference", "", 1, 2, 8, 0>>, <<"SInt64", "rid", 2, 0, 8, 0>>,
  <<"managedReference", "", 1, 2, 8, 0>>, <<"SInt64", "rid", 2, 0, 8, 0>>,
  <<"Object", "", 1, 8, -1, 0>>, <<"Array", "Array", 2, 1, -1, 0>>,
  <<"int", "size", 3, 0, 4, 0>>, <<"managedRefArrayItem", "data", 3, 2, 8, 0>>,
  <<"SInt64", "rid", 4, 0, 8, 0>> >>

TextNodes == <<
  <<"", "Base", 0, 0, -1, \h8000>>, <<"int", "", 1, 0, 4, 0>>,
  <<"string", "", 1, 0, -1, \h8000>>, <<"Array", "Array", 2, 1, -1, \h4001>>,
  <<"int", "size", 3, 0, 4, 1>>, <<"char", "data", 3, 0, 1, 1>>,
  <<"managedReference", "", 1, 2, 8, 0>>, <<"SInt64", "rid", 2, 0, 8, 0>> >>

FloatNodes == <<
  <<"", "Base", 0, 0, -1, \h8000>>, <<"int", "", 1, 0, 4, 0>>, <<"float", "", 1, 0, 4, 0>>,
  <<"managedReference", "", 1, 2, 8, 0>>, <<"SInt64", "rid", 2, 0, 8, 0>> >>

IdentityNodes(name) == <<
  <<"string", name, 6, 0, -1, \h208001>>, <<"Array", "Array", 7, 1, -1, \h204001>>,
  <<"int", "size", 8, 0, 4, \h200001>>, <<"char", "data", 8, 0, 1, \h200001>> >>

RegistrySuffix == <<
  <<"ManagedReferencesRegistry", "references", 1, 4, -1, \h8001>>,
  <<"int", "version", 2, 0, 4, 1>>, <<"vector", "RefIds", 2, 0, -1, \h8001>>,
  <<"Array", "Array", 3, 1, -1, \hc001>>, <<"int", "size", 4, 0, 4, 1>>,
  <<"ReferencedObject", "data", 4, 0, -1, \h8001>>, <<"SInt64", "rid", 5, 0, 8, 1>>,
  <<"ReferencedManagedType", "type", 5, 0, -1, \h208001>> >>
  \o IdentityNodes("class") \o IdentityNodes("ns") \o IdentityNodes("asm")
  \o << <<"ReferencedObjectData", "data", 5, 0, 0, 1>> >>

ManagedNodes ==
  [host |-> HostNodes \o RegistrySuffix, text |-> TextNodes \o RegistrySuffix,
   float |-> FloatNodes \o RegistrySuffix]

Terminator == <<Spelled("Terminus"), Spelled("UnityEngine.DMAT"), Spelled("FAKE_ASM")>>

----------------------------------------------------------------------------
(* The prerequisites.  The first entry is the host's, the others are cached. *)

Ready(memory) ==
  [work |-> 0, status |-> "OK", limit |-> "NONE", memory |-> memory, held |-> 0, heap |-> 0,
   entries |-> <<>>, refs |-> <<>>, index |-> 0, cache |-> 0, capacity |-> 0, storage |-> 0]

ManagedProfileOf(schema, kind) ==
  LET fits == {p \in DOMAIN ManagedNodes : /\ Len(schema.nodes) = Len(ManagedNodes[p])
                                           /\ kind = "ORDINARY_OBJECT" <=> p = "host"}
  IN IF fits = {} THEN "none" ELSE CHOOSE p \in fits : TRUE

QualifyManagedNode(b, m, node, x) ==
  Then(PayUnits(b, m, 1), LAMBDA p :
    Then(Require(p, node.usual /\ <<node.level, node.flags, node.width, node.meta>> = SubSeq(x, 3, 6),
                 "UNSUPPORTED_SCHEMA"), LAMBDA q :
      Then(NameMatches(b, q, node.type, x[1]), LAMBDA r : NameMatches(b, r, node.name, x[2]))))

QualifyManaged(b, m, schema, kind) ==
  LET row     == schema.row
      profile == ManagedProfileOf(schema, kind)
      class   == IF kind = "ORDINARY_OBJECT" THEN 114 ELSE -1
  IN Then(Require(m, row.class = class /\ ~row.stripped /\ row.script <= 32767 /\ HasHash(row)
                     /\ profile # "none", "UNSUPPORTED_SCHEMA"),
          LAMBDA p : Loop(p, Len(schema.nodes), LAMBDA q, i :
            QualifyManagedNode(b, q, schema.nodes[i], ManagedNodes[profile][i])))

(* A call with limits of its own: outer maps those that the enclosing limits
   replaced to the names of these. *)
Nested(m, r, outer, refusal) ==
  LET paid == [m EXCEPT !.work = @ + r.work]
  IN CASE r.status = "OK" -> paid
       [] r.status = "LIMIT_EXCEEDED" /\ r.limit \in DOMAIN outer ->
            Reject(paid, "LIMIT_EXCEEDED", outer[r.limit])
       [] OTHER -> Reject(paid, refusal, "NONE")

(* The limits of the call, and which enclosing ones replace them. *)
Inner(own, enclosing) ==
  [l \in DOMAIN own |-> IF l \in DOMAIN enclosing THEN Min({own[l], enclosing[l][2]}) ELSE own[l]]
Outer(own, enclosing) ==
  [l \in {k \in DOMAIN enclosing : enclosing[k][2] <= own[k]} |-> enclosing[l][1]]

Left(b, m) == b.caps["WORK"] - m.work

UseManagedContext(b, m, kind) ==
  LET entry == m.entries[Len(m.entries)]
  IN Then(Then(UseContext(b, m, entry.schema, kind).meter,
               LAMBDA p : QualifyManaged(b, p, entry.schema, kind)), LAMBDA p :
       [p EXCEPT !.entries[Len(p.entries)].profile = ManagedProfileOf(entry.schema, kind)])

(* Mutant of OpenSchema: an entry is counted when it is complete. *)
OpenSchemaLate(b, m, parent, ordinal, kind) ==
  LET enclosing == [RETAINED |-> <<"PREREQUISITE", b.caps["PREREQUISITE"] - m.held>>,
                    SCRATCH  |-> <<"SCHEMA_SCRATCH", b.caps["SCHEMA_SCRATCH"]>>,
                    WORK     |-> <<"WORK", Left(b, m)>>]
      Opened(made) ==
        LET entry == [ordinal |-> ordinal, schema |-> made.schema, profile |-> "none"]
        IN Then(Nested(m, made, Outer(b.schema, enclosing), "SCHEMA_REJECTED"), LAMBDA p :
             UseManagedContext(b, [p EXCEPT !.held = @ + made.schema.bytes, !.memory = @ - 2,
                                            !.heap = @ + made.schema.bytes,
                                            !.entries = Append(@, entry)], kind))
  IN Using(Opened(CreateSchema(parent, ordinal, Inner(b.schema, enclosing), NoSchema, m.memory)),
           LAMBDA done : IF done.status = "OK" THEN done ELSE [done EXCEPT !.entries = m.entries])

(* create_schema, into an entry that cleanup knows of. *)
OpenSchema(b, m, parent, ordinal, kind) ==
  LET enclosing == [RETAINED |-> <<"PREREQUISITE", b.caps["PREREQUISITE"] - m.held>>,
                    SCRATCH  |-> <<"SCHEMA_SCRATCH", b.caps["SCHEMA_SCRATCH"]>>,
                    WORK     |-> <<"WORK", Left(b, m)>>]
      Entering(made) ==
        LET entry == [ordinal |-> ordinal, schema |-> made.schema, profile |-> "none"]
        IN [m EXCEPT !.entries = Append(@, entry), !.heap = @ + made.allocated - made.freed]
  IN Using(CreateSchema(parent, ordinal, Inner(b.schema, enclosing), NoSchema, m.memory), LAMBDA made :
       Then(Nested(Entering(made), made, Outer(b.schema, enclosing), "SCHEMA_REJECTED"), LAMBDA p :
         UseManagedContext(b, [p EXCEPT !.held = @ + made.schema.bytes, !.memory = @ - 2], kind)))

Allocate(m, bytes) ==
  IF m.memory = 0 THEN Reject(m, "ALLOCATION_FAILED", "NONE")
  ELSE [m EXCEPT !.memory = @ - 1, !.heap = @ + bytes]

OpenCache(b, m) ==
  LET capacity == Min({Len(m.refs), b.caps["SELECTED_TYPES"]})
      bytes    == capacity * ManagedSize.entry
  IN Then(Require(m, m.refs # <<>>, "EMPTY_REFERENCE_INDEX"), LAMBDA p :
       Then(Cap(b, p, p.held + bytes, "PREREQUISITE"), LAMBDA q :
         Then(Pay(b, q, bytes), LAMBDA r :
           Then(IF bytes = 0 THEN r ELSE Allocate(r, bytes), LAMBDA s :
             [s EXCEPT !.held = @ + bytes, !.cache = bytes, !.capacity = capacity]))))

OpenIndex(b, m) ==
  LET enclosing == [RETAINED_BYTES |-> <<"PREREQUISITE", b.caps["PREREQUISITE"] - m.held>>,
                    WORK |-> <<"WORK", Left(b, m)>>]
  IN Using(BuildIndex(b.tail, Inner(b.index, enclosing), m.memory > 0), LAMBDA made :
       Then(Nested(m, made, Outer(b.index, enclosing), "INDEX_REJECTED"), LAMBDA p :
         OpenCache(b, [p EXCEPT !.held = @ + made.allocated, !.index = made.allocated,
                                !.heap = @ + made.allocated, !.memory = @ - 1,
                                !.refs = b.tail.refs])))

(* select_schema: the schema of a reference type, compiled once. *)
SelectSchema(b, m, ordinal) ==
  LET cached == {k \in 2..Len(m.entries) : m.entries[k].ordinal = ordinal}
  IN IF cached # {} THEN PayUnits(b, m, Min(cached) - 1)
     ELSE Then(PayUnits(b, m, Len(m.entries) - 1), LAMBDA p :
            Then(Require(p, ~b.plan.known, "INTERNAL_ERROR"), LAMBDA q :
              IF Len(q.entries) - 1 = q.capacity
              THEN Reject(q, "LIMIT_EXCEEDED", "SELECTED_TYPES")
              ELSE OpenSchema(b, q, b.tail, ordinal, "SELECTED_REFERENCE")))

Entry(m, ordinal) == m.entries[Min({k \in 2..Len(m.entries) : m.entries[k].ordinal = ordinal})]

----------------------------------------------------------------------------
(* A pass over the payload.  b.plan is what the first one found. *)

Room(b, m, what) == Require(m, b.plan.known => Len(m[what]) < b.plan[what], "INTERNAL_ERROR")

CompleteManaged(b, m, start) ==
  Then(Pay(b, m, 1), LAMBDA p : Then(Room(b, p, "values"), LAMBDA q :
    [q EXCEPT !.values = Append(@, [from |-> start, to |-> q.pos])]))

BeginValue(b, m) == Cap(b, m, Len(m.values) + 1, "VALUES")

ReadScalar(b, m, x) ==
  Then(BeginValue(b, m), LAMBDA p :
    Then(ReadNumber(b, p, b.object, x, "SCALAR", "TOTAL_SCALAR"),
         LAMBDA q : CompleteManaged(b, q, m.pos)))

ReadText(b, m, length) ==
  Then(BeginValue(b, m), LAMBDA p :
    Then(ReadBytes(b, p, b.object, length), LAMBDA q : CompleteManaged(b, q, m.pos)))

ReadRidSlot(b, m, x, rid) ==
  Then(Cap(b, m, Len(m.slots) + 1, "RID_SLOTS"), LAMBDA p :
    Then(ReadScalar(b, p, x), LAMBDA q :
      Then(Pay(b, q, 1), LAMBDA r :
        Then(Room(b, r, "slots"), LAMBDA s : [s EXCEPT !.slots = Append(@, rid)]))))

ReadCount(b, m, x, count, limit) ==
  Then(ReadScalar(b, m, x), LAMBDA p :
    Then(Require(p, count <= ObjectMax, "UNSUPPORTED_COUNT"),
         LAMBDA q : Cap(b, q, count, limit)))

Scalars(b, m, nodes) == Loop(m, Len(nodes), LAMBDA p, i : ReadScalar(b, p, HostNodes[nodes[i] + 1]))

ReadHostFields(b, m, c) ==
  LET n == Min({c.count, ObjectMax})
      Element(i) == IF i <= Len(c.elements) THEN c.elements[i] ELSE 0
  IN Then(Scalars(b, m, <<2, 3, 4, 6, 7>>), LAMBDA p :
       Then(ReadText(b, p, c.name), LAMBDA q :
         Then(ReadText(b, q, c.text), LAMBDA r :
           Then(ReadRidSlot(b, r, HostNodes[18], c.first), LAMBDA s :
             Then(ReadRidSlot(b, s, HostNodes[20], c.second), LAMBDA t :
               Then(ReadCount(b, t, HostNodes[23], c.count, "ARRAY_ELEMENTS"), LAMBDA u :
                 Loop(u, n, LAMBDA v, i : ReadRidSlot(b, v, HostNodes[25], Element(i)))))))))

ReadSelectedPayload(b, m, row, nodes, profile) ==
  Then(ReadScalar(b, m, nodes[2]), LAMBDA p :
    Then(IF profile = "text" THEN ReadText(b, p, row.text) ELSE ReadScalar(b, p, nodes[3]), LAMBDA q :
      ReadRidSlot(b, q, nodes[IF profile = "text" THEN 8 ELSE 5], row.next)))

(* A component is compared if those before it are equal. *)
RejectTerminator(b, m, names) ==
  LET Compare(p, k) ==
        IF \E j \in 1..(k - 1) : names[j] # Terminator[j] THEN p
        ELSE Then(Pay(b, p, 1), LAMBDA q :
               IF Len(names[k]) # Len(Terminator[k]) THEN q ELSE Pay(b, q, Len(names[k])))
  IN Then(Loop(m, 3, Compare),
          LAMBDA p : Require(p, names # Terminator, "UNSUPPORTED_TERMINATOR"))

QueryRowType(b, m, names) ==
  LET enclosing == [WORK |-> <<"WORK", Left(b, m)>>]
  IN Nested(m, RunQuery([live |-> TRUE, refs |-> m.refs], names, Inner(b.query, enclosing)),
            Outer(b.query, enclosing), "QUERY_REJECTED")

(* Mutant of IsNullRow: the RID alone makes a row null. *)
IsNullRowByRid(row, match) == row.rid = NullRid /\ match.count = 0

IsNullRow(row, match) ==
  row.rid = NullRid /\ row.names = <<<<>>, <<>>, <<>>>> /\ match.count = 0

ReadIdentity(b, m, names) == Loop(m, 3, LAMBDA p, k : ReadText(b, p, Len(names[k])))

(* What a row selects: nothing, or the payload of a reference type. *)
ReadPayload(b, m, row) ==
  LET match == Matches(m.refs, row.names)
  IN IF IsNullRow(row, match) THEN m
     ELSE Then(Require(m, match.count > 0,
                       IF row.names = <<<<>>, <<>>, <<>>>> THEN "UNSUPPORTED_NULL_ROW"
                       ELSE "REFERENCE_TYPE_MISSING"), LAMBDA p :
            Then(Require(p, match.count = 1, "REFERENCE_TYPE_AMBIGUOUS"), LAMBDA q :
              Then(SelectSchema(b, q, match.first), LAMBDA r :
                LET profile == Entry(r, match.first).profile
                IN ReadSelectedPayload(b, r, row, ManagedNodes[profile], profile))))

ReadRegistryRow(b, m, row) ==
  LET null == IsNullRow(row, Matches(m.refs, row.names))
  IN Then(ReadScalar(b, m, RegistrySuffix[7]), LAMBDA p :
       Then(ReadIdentity(b, p, row.names), LAMBDA q :
         Then(RejectTerminator(b, q, row.names), LAMBDA r :
           Then(QueryRowType(b, r, row.names), LAMBDA s :
             Then(ReadPayload(b, s, row), LAMBDA t :
               Then(Pay(b, t, 1), LAMBDA u :
                 Then(Room(b, u, "rows"), LAMBDA v :
                   [v EXCEPT !.rows = Append(@, [rid |-> row.rid, null |-> null])])))))))

NoRow == [rid |-> 0, names |-> <<<<>>, <<>>, <<>>>>, text |-> 0, next |-> 0]

ReadRegistry(b, m, c) ==
  LET n == Min({c.rowCount, ObjectMax})
      Given(i) == IF i <= Len(c.rows) THEN c.rows[i] ELSE NoRow
  IN Then(ReadScalar(b, m, RegistrySuffix[2]), LAMBDA p :
       Then(Require(p, c.version = RegistryVersion, "UNSUPPORTED_REGISTRY_VERSION"), LAMBDA q :
         Then(ReadCount(b, q, RegistrySuffix[5], c.rowCount, "REGISTRY_ROWS"), LAMBDA r :
           Loop(r, n, LAMBDA s, i : ReadRegistryRow(b, s, Given(i))))))

Unread(m, object) ==
  [f \in DOMAIN m \cup {"pos", "strings", "padding", "numbers", "values", "slots", "rows"} |->
     CASE f = "pos" -> object.offset
       [] f \in {"strings", "padding", "numbers"} -> 0
       [] f \in {"values", "slots", "rows"} -> <<>>
       [] OTHER -> m[f]]

(* What a pass has found, and what the second must find again. *)
Found(m, c, registry) ==
  [known |-> TRUE, values |-> Len(m.values), slots |-> Len(m.slots), rows |-> Len(m.rows),
   types |-> Len(m.entries) - 1, elements |-> c.count, registry |-> registry,
   strings |-> m.strings, numbers |-> m.numbers, padding |-> m.padding, end |-> m.pos]

NoPlan == [known |-> FALSE]

(* Mutant of ParseManaged: the second pass is not held against the first. *)
ParseManagedTrusting(b, m, c) ==
  Using(ReadHostFields(b, Unread(m, b.object), c), LAMBDA host :
    Using(Then(host, LAMBDA p : ReadRegistry(b, p, c)), LAMBDA done :
      [meter |-> Then(done, LAMBDA p :
                   Require(p, p.pos = Ends(b.object), "TRAILING_OBJECT_BYTES")),
       plan |-> IF done.status = "OK" THEN Found(done, c, host.pos) ELSE NoPlan]))

ParseManaged(b, m, c) ==
  Using(ReadHostFields(b, Unread(m, b.object), c), LAMBDA host :
    Using(Then(host, LAMBDA p : ReadRegistry(b, p, c)), LAMBDA done :
      LET plan == Found(done, c, host.pos)
      IN [meter |-> Then(done, LAMBDA p :
                      Then(Require(p, p.pos = Ends(b.object), "TRAILING_OBJECT_BYTES"), LAMBDA q :
                        Require(q, b.plan.known => b.plan = plan, "INTERNAL_ERROR"))),
          plan |-> IF done.status = "OK" THEN plan ELSE NoPlan]))

----------------------------------------------------------------------------
(* Creation. *)

AdmitHost(b, m, call) ==
  LET object == b.object
      d == b.directory
  IN Then(Require(m, d.engine = SchemaEngine, "UNSUPPORTED_ENGINE"), LAMBDA p :
       Then(Require(p, d.endian = 0, "UNSUPPORTED_ENDIAN"), LAMBDA q :
         Then(Require(q, d.file = b.tail.file /\ call.same /\ call.mapped <= d.size,
                      "SOURCE_MISMATCH"), LAMBDA r :
           Then(Require(r, call.object \in DOMAIN d.objects, "INVALID_ARGUMENT"), LAMBDA s :
             Then(Require(s, d.rows[object.type].hasTree, "NO_EMBEDDED_SCHEMA"), LAMBDA t :
               Then(Require(t, object.bytes <= ObjectMax, "UNSUPPORTED_OBJECT_SIZE"), LAMBDA u :
                 Then(Require(u, Ends(object) <= call.mapped, "INCOMPLETE_MAPPING"), LAMBDA v :
                   Then(Require(v, object.offset % 4 = 0, "UNSUPPORTED_OBJECT_ALIGNMENT"),
                        LAMBDA w : Cap(b, w, object.bytes, "PAYLOAD")))))))))

ReserveMemory(b, m) ==
  Cap(b, m, b.caps["PREREQUISITE"] + Max({b.caps["SCHEMA_SCRATCH"], b.caps["RETAINED"]}), "HEAP")

ManagedBytes(plan) ==
  ManagedSize.storage + plan.values * ManagedSize.value + plan.types * ManagedSize.type
  + plan.rows * ManagedSize.row + plan.slots * ManagedSize.slot

AllocateValues(b, m, plan) ==
  LET bytes == ManagedBytes(plan)
  IN Then(PayUnits(b, m, 4), LAMBDA p :
       Then(Cap(b, p, bytes, "RETAINED"), LAMBDA q :
         Then(Pay(b, q, bytes), LAMBDA r :
           Then(Allocate(r, bytes), LAMBDA s : [s EXCEPT !.storage = bytes]))))

(* Mutant of Resolution: the first row with the RID will do. *)
ResolutionFirst(rows, rid) ==
  LET found == {i \in DOMAIN rows : rows[i].rid = rid}
  IN IF found = {} THEN "MISSING" ELSE IF rows[Min(found)].null THEN "NULL" ELSE "UNIQUE"

Resolution(rows, rid) ==
  LET found == {i \in DOMAIN rows : rows[i].rid = rid}
  IN CASE found = {} -> "MISSING"
       [] \E i \in found : found = {i} /\ rows[i].null -> "NULL"
       [] \E i \in found : found = {i} /\ ~rows[i].null -> "UNIQUE"
       [] OTHER -> "AMBIGUOUS"

ResolveSlots(b, m) == PayUnits(b, m, Len(m.slots) * (Len(m.rows) + 1))

(* dispose_prerequisites, and the storage that is not published. *)
Settled(m) ==
  LET Bytes(entry) == IF entry.schema.live THEN entry.schema.bytes ELSE 0
      freed == FoldLeft(LAMBDA n, e : n + Bytes(e), 0, m.entries) + m.cache + m.index
               + IF m.status = "OK" THEN 0 ELSE m.storage
  IN [status |-> m.status, limit |-> m.limit, work |-> m.work, kept |-> m.heap - freed,
      values |-> IF m.status # "OK" THEN [live |-> FALSE]
                 ELSE [live |-> TRUE, bytes |-> m.storage, values |-> m.values, rows |-> m.rows,
                       slots |-> [i \in DOMAIN m.slots |-> [rid |-> m.slots[i],
                                                            is |-> Resolution(m.rows, m.slots[i])]],
                       types |-> [i \in 1..(Len(m.entries) - 1) |-> m.entries[i + 1].ordinal]]]

BuildManaged(b, m) ==
  Using(ParseManaged(b, m, b.object.content), LAMBDA one :
    Then(Then(one.meter, LAMBDA p : AllocateValues(b, p, one.plan)), LAMBDA p :
      Then(ParseManaged([b EXCEPT !.plan = one.plan], p, b.object.later).meter, LAMBDA q :
        Then(ResolveSlots(b, q), LAMBDA r : Pay(b, r, 1)))))

NoObject == [type |-> 0, offset |-> 0, bytes |-> 0]

(* call.memory is how many of the allocations succeed. *)
CreateManaged(directory, tail, call, output) ==
  LET b == [caps |-> call.caps, schema |-> call.schema, index |-> call.index, query |-> call.query,
            directory |-> directory, tail |-> tail, plan |-> NoPlan,
            object |-> IF call.object \in DOMAIN directory.objects
                       THEN directory.objects[call.object] ELSE NoObject]
      admitted ==
        Then(Require(Ready(call.memory), directory.live /\ tail.live /\ ~output.live,
                     "INVALID_STATE"), LAMBDA m :
          Then(Pay(b, m, 1), LAMBDA p :
            Then(AdmitHost(b, p, call), LAMBDA q : ReserveMemory(b, q))))
  IN Settled(
       Then(admitted, LAMBDA m :
         Then(OpenSchema(b, m, directory, b.object.type, "ORDINARY_OBJECT"), LAMBDA p :
           Then(OpenIndex(b, p), LAMBDA q : BuildManaged(b, q)))))
=============================================================================

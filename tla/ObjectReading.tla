----------------------------- MODULE ObjectReading -----------------------------
(* A caller that reads objects of one serialized file: it compiles schemas,
   asks for their contexts, decodes objects of the supported types and objects
   with managed references, and disposes of what it holds in any order; it runs
   out of memory and of budget, and the file may change under a decoder. *)
EXTENDS ManagedValues

LOCAL INSTANCE FiniteSetsExt

CONSTANTS
  ObjectFiles,                     (* files, with their directory and tail *)
  SchemaCalls(_), ContextCalls(_), (* the arguments tried for a file *)
  ValueCalls(_), ManagedCalls(_)

VARIABLES
  file,
  parents,     (* are the directory and the tail there? *)
  compiled,    (* the caller's schema *)
  decoded,     (* the values of an object *)
  managed,     (* those of an object with managed references *)
  used,        (* bytes in allocations *)
  answer       (* the call that was just made, and its result *)

objectVars == <<file, parents, compiled, decoded, managed, used, answer>>

NoAnswer == [op |-> "none"]

ObjectInit ==
  /\ file \in ObjectFiles /\ parents = TRUE
  /\ compiled = NoSchema
  /\ decoded = NoValues /\ managed = NoValues
  /\ used = 0 /\ answer = NoAnswer

Directory == [file.directory EXCEPT !.live = parents]
MetaTail  == [file.tail EXCEPT !.live = parents]
ParentOf(kind) == IF kind = "ORDINARY" THEN Directory ELSE MetaTail

Answered(op, call, before, result) ==
  answer' = [op |-> op, call |-> call, before |-> before, result |-> result]

CompileSchema ==
  /\ answer = NoAnswer
  /\ \E call \in SchemaCalls(file) :
       \E r \in {CreateSchema(ParentOf(call.kind), call.ordinal, call.caps, compiled, call.memory)} :
          /\ compiled' = IF r.status = "OK" THEN r.schema ELSE compiled
          /\ used' = used + r.allocated - r.freed
          /\ Answered("schema", call, compiled, r)
  /\ UNCHANGED <<file, parents, decoded, managed>>

AskContext ==
  /\ answer = NoAnswer
  /\ \E call \in ContextCalls(file) :
       Answered("context", call, compiled, QueryContext(compiled, call.kind, call.work))
  /\ UNCHANGED <<file, parents, compiled, decoded, managed, used>>

DecodeValues ==
  /\ answer = NoAnswer
  /\ \E call \in ValueCalls(file) :
       \E r \in {CreateValues(Directory, compiled, call, decoded)} :
          /\ decoded' = IF r.status = "OK" THEN r.values ELSE decoded
          /\ used' = used + r.allocated - r.freed
          /\ Answered("values", call, decoded, r)
  /\ UNCHANGED <<file, parents, compiled, managed>>

DecodeManaged ==
  /\ answer = NoAnswer
  /\ \E call \in ManagedCalls(file) :
       \E r \in {CreateManaged(Directory, MetaTail, call, managed)} :
          /\ managed' = IF r.status = "OK" THEN r.values ELSE managed
          /\ used' = used + r.kept
          /\ Answered("managed", call, managed, r)
  /\ UNCHANGED <<file, parents, compiled, decoded>>

DisposeParents ==
  /\ answer = NoAnswer /\ parents' = FALSE
  /\ UNCHANGED <<file, compiled, decoded, managed, used, answer>>

Bytes(handle) == IF handle.live THEN handle.bytes ELSE 0

DisposeSchema ==
  /\ answer = NoAnswer /\ compiled' = NoSchema /\ used' = used - Bytes(compiled)
  /\ UNCHANGED <<file, parents, decoded, managed, answer>>

DisposeValues ==
  /\ answer = NoAnswer /\ decoded' = NoValues /\ used' = used - Bytes(decoded)
  /\ UNCHANGED <<file, parents, compiled, managed, answer>>

DisposeManaged ==
  /\ answer = NoAnswer /\ managed' = NoValues /\ used' = used - Bytes(managed)
  /\ UNCHANGED <<file, parents, compiled, decoded, answer>>

(* The caller has read the answer. *)
Continue == answer # NoAnswer /\ answer' = NoAnswer
            /\ UNCHANGED <<file, parents, compiled, decoded, managed, used>>

ObjectNext == \/ CompileSchema \/ AskContext \/ DecodeValues \/ DecodeManaged
              \/ DisposeParents \/ DisposeSchema \/ DisposeValues \/ DisposeManaged \/ Continue

----------------------------------------------------------------------------
(* What the headers promise of a schema, in closed form over its tree. *)

Total(S, F(_)) == MapThenSumSet(F, S)
Fits(amounts, caps) == \A k \in DOMAIN amounts : amounts[k] <= caps[k]

Level(tree, i) == tree.nodes[i].level

WellNested(tree) ==
  \A i \in DOMAIN tree.nodes :
    IF i = 1 THEN Level(tree, i) = 0
    ELSE Level(tree, i) > 0 /\ Level(tree, i) <= Level(tree, i - 1) + 1

Up(tree, i) ==
  IF i = 1 THEN 0 ELSE Max({j \in 1..(i - 1) : Level(tree, j) < Level(tree, i)})
Down(tree, i) == {j \in DOMAIN tree.nodes : Up(tree, j) = i}
After(tree, i) ==
  Min({j \in (i + 1)..Len(tree.nodes) : Level(tree, j) <= Level(tree, i)} \cup {Len(tree.nodes) + 1})

Table(tree, bits) == IF InCommon(bits) THEN CommonTable ELSE tree.strings
Stops(tree, bits) == {k \in DOMAIN Table(tree, bits) : k > Within31(bits) /\ Table(tree, bits)[k] = 0}
NamesString(tree, bits) ==
  LET at == Within31(bits)
  IN Stops(tree, bits) # {} /\ (at = 0 \/ Table(tree, bits)[at] = 0)
StringAt(tree, bits) ==
  SubSeq(Table(tree, bits), Within31(bits) + 1, Min(Stops(tree, bits)) - 1)

(* The relations follow from the levels, the names from the tables. *)
NodeOf(tree, i) ==
  LET node == tree.nodes[i]
      down == Down(tree, i)
      next == {j \in Down(tree, Up(tree, i)) : j > i}
  IN [level |-> node.level, flags |-> node.flags, meta |-> node.meta, width |-> node.width,
      usual |-> node.usual,
      type |-> StringAt(tree, node.typeBits), name |-> StringAt(tree, node.nameBits),
      parent |-> Up(tree, i), first |-> IF down = {} THEN 0 ELSE Min(down),
      next |-> IF i = 1 \/ next = {} THEN 0 ELSE Min(next),
      children |-> Cardinality(down), end |-> After(tree, i)]

SchemaWork(tree) ==
  LET n == Len(tree.nodes)
  IN RetainedBytes(tree) + ScratchBytes(tree) + Len(tree.strings) + Len(CommonTable)
     + (NodeBytes + 4 + 4 * RadixPasses) * n + 2 * RadixBuckets * RadixPasses + 3

TreeGenuine(tree) ==
  /\ WellNested(tree)
  /\ \A i \in DOMAIN tree.nodes : /\ NamesString(tree, tree.nodes[i].typeBits)
                                  /\ NamesString(tree, tree.nodes[i].nameBits)

TreeWithin(tree, caps) ==
  Fits([NODES |-> Len(tree.nodes), LOCAL_STRINGS |-> Len(tree.strings),
        DEPTH |-> Max({Level(tree, i) : i \in DOMAIN tree.nodes}),
        RETAINED |-> RetainedBytes(tree), SCRATCH |-> ScratchBytes(tree),
        WORK |-> SchemaWork(tree)], caps)

Compiles(parent, ordinal, caps) ==
  /\ parent.live /\ parent.engine = SchemaEngine /\ ordinal \in DOMAIN parent.rows
  /\ parent.rows[ordinal].hasTree
  /\ TreeGenuine(parent.rows[ordinal].tree) /\ TreeWithin(parent.rows[ordinal].tree, caps)

CompiledExact ==
  answer.op = "schema" =>
    LET c == answer.call
        r == answer.result
        tree == ParentOf(c.kind).rows[c.ordinal].tree
    IN /\ r.status = "OK" <=> /\ ~answer.before.live /\ c.memory = 2
                              /\ Compiles(ParentOf(c.kind), c.ordinal, c.caps)
       /\ r.status = "OK" => /\ compiled.nodes = [i \in DOMAIN tree.nodes |-> NodeOf(tree, i)]
                             /\ r.work = SchemaWork(tree)

(* The registry, if there is one, is the last child of the root. *)
Registries(nodes) == {i \in DOMAIN nodes : RegistryBit(nodes[i].flags)}
RegistryGenuine(nodes) ==
  \A i \in Registries(nodes) : /\ nodes[i].flags = 4 /\ nodes[i].level = 1
                               /\ \A j \in DOMAIN nodes : j > i => nodes[j].level > 1

ContextExact ==
  answer.op = "context" =>
    LET r == answer.result
        n == Len(compiled.nodes)
        stop == Min(Registries(compiled.nodes) \cup {n + 1})
    IN /\ r.status = "OK" <=> /\ compiled.live /\ compiled.kind = RequiredRow(answer.call.kind)
                              /\ RegistryGenuine(compiled.nodes) /\ n + 2 <= answer.call.work
       /\ r.status = "OK" =>
            /\ r.work = n + 2
            /\ r.context.stop = IF compiled.kind = "ORDINARY" THEN n + 1 ELSE stop
            /\ r.context.registry = stop % (n + 1)

(* serialized_file_schema.h, serialized_file_schema_context.h: a schema is
   compiled from exactly the well-nested trees whose name offsets are starts of
   terminated strings, within every limit, with R+T+52N+S+C+2051 work (for the
   radix of the code); its relations are those of the levels, although they are
   linked in one walk, and its names those at the offsets, although they are
   sorted and resolved in one walk over each table.  A context stops before the
   registry of a selected reference and takes it for the end of its host. *)
SchemaExact == CompiledExact /\ ContextExact

----------------------------------------------------------------------------
(* Of the values. *)

Ceil4(n) == n + ((-n) % 4)
StringSize(length) == 4 + Ceil4(length)

NameCost(name) == IF name = "" THEN 1 ELSE 1 + Len(Spelled(name))
ProfileWork(nodes) == Total(DOMAIN nodes, LAMBDA i : 1 + NameCost(nodes[i][1]) + NameCost(nodes[i][2]))

Named(text, name) == name = "" \/ text = Spelled(name)

(* The levels decide on the relations. *)
FitsProfile(tree, nodes) ==
  /\ Len(tree.nodes) = Len(nodes)
  /\ \A i \in DOMAIN nodes :
       LET node == tree.nodes[i]
       IN /\ node.usual
          /\ <<node.level, node.flags, node.width, node.meta>> = SubSeq(nodes[i], 3, 6)
          /\ Named(StringAt(tree, node.typeBits), nodes[i][1])
          /\ Named(StringAt(tree, node.nameBits), nodes[i][2])

(* What each profile consists of: the lengths of its strings, its numbers, the
   spans and the values, and how many bytes of padding are not a string's. *)
Shape(profile, lengths) ==
  LET strings == Total(DOMAIN lengths, LAMBDA v : lengths[v])
      padding == Total(DOMAIN lengths, LAMBDA v : Ceil4(lengths[v]) - lengths[v])
      n == Cardinality(DOMAIN lengths)
      numbers == CASE profile = "text" -> 0 [] profile = "mono" -> 29 [] profile = "reference" -> 37
      spans == CASE profile = "text" -> 0 [] profile = "mono" -> 7 [] profile = "reference" -> 8
  IN [strings |-> strings, padding |-> padding + (IF profile = "text" THEN 0 ELSE 3),
      numbers |-> numbers, spans |-> 3 * n + spans,
      bytes |-> 4 * n + strings + padding + numbers + (IF profile = "text" THEN 0 ELSE 3)]

PassWork(profile, shape) == shape.bytes + shape.spans + Len(Profile[profile].roles)

ValuesWork(profile, object) ==
  2 + Len(Profile[profile].nodes) + 2 + ProfileWork(Profile[profile].nodes)
  + PassWork(profile, Shape(profile, object.lengths))
  + PassWork(profile, Shape(profile, object.again)) + ValuesBytes(Profile[profile]) + 1

LengthsFit(profile, lengths, object, caps) ==
  LET shape == Shape(profile, lengths)
  IN /\ \A v \in DOMAIN lengths : lengths[v] <= ObjectMax /\ lengths[v] <= caps["STRING"]
     /\ shape.bytes = object.bytes
     /\ Fits([TOTAL_STRING |-> shape.strings, PADDING |-> shape.padding,
              TOTAL_INTEGER |-> shape.numbers,
              INTEGER |-> IF profile = "text" THEN 0 ELSE 8], caps)

ObjectThere(call) ==
  /\ parents /\ Directory.engine = SchemaEngine /\ Directory.endian = 0
  /\ call.same /\ call.mapped <= Directory.size /\ call.object \in DOMAIN Directory.objects
  /\ LET object == Directory.objects[call.object]
     IN /\ Directory.rows[object.type].hasTree /\ object.bytes <= ObjectMax
        /\ Ends(object) <= call.mapped /\ object.offset % 4 = 0
        /\ object.bytes <= call.caps["PAYLOAD"]

ValuesAdmitted(call) ==
  /\ ObjectThere(call) /\ compiled.live
  /\ LET object  == Directory.objects[call.object]
         row     == compiled.row
         profile == ProfileOf(compiled)
     IN /\ compiled.file = Directory.file /\ compiled.kind = "ORDINARY"
        /\ compiled.ordinal = object.type
        /\ IsTextAsset(row) \/ (call.ordinary /\ IsMonoBehaviour(row))
        /\ FitsProfile(row.tree, Profile[profile].nodes)
        /\ LengthsFit(profile, object.lengths, object, call.caps)
        /\ LengthsFit(profile, object.again, object, call.caps)
        /\ Fits([VALUES |-> Len(Profile[profile].roles), DEPTH |-> Profile[profile].depth,
                 RETAINED |-> ValuesBytes(Profile[profile]),
                 WORK |-> ValuesWork(profile, object)], call.caps)

(* serialized_file_values.h: an object is decoded exactly if its schema, down
   to the last name and relation, is that of a supported type and of this very
   object, and if its strings announce what the payload has room for, to the
   last byte, in both passes, within every limit, each of which counts a byte
   once although it is read twice; the work is A+Q+2*(B+K+V)+3. *)
ValuesExact ==
  answer.op = "values" =>
    LET r == answer.result
    IN /\ r.status = "OK" <=>
            ~answer.before.live /\ answer.call.memory /\ ValuesAdmitted(answer.call)
       /\ r.status = "OK" =>
            r.work = ValuesWork(ProfileOf(compiled), Directory.objects[answer.call.object])

----------------------------------------------------------------------------
(* Of managed values. *)

(* The reference type each row selects, and what the row then holds. *)
Selects(row) == {i \in DOMAIN MetaTail.refs : MetaTail.refs[i].names = row.names}
Nameless(row) == row.names = <<<<>>, <<>>, <<>>>>
RowNull(row) == row.rid = NullRid /\ Nameless(row) /\ Selects(row) = {}
Chosen(row) == CHOOSE i \in Selects(row) : TRUE
IsText(row) == Len(MetaTail.rows[Chosen(row)].tree.nodes) = Len(ManagedNodes["text"])

Rows(c) == 1..c.rowCount
Selecting(c) == {i \in Rows(c) : ~RowNull(c.rows[i])}
Texts(c) == {i \in Selecting(c) : IsText(c.rows[i])}
Floats(c) == Selecting(c) \ Texts(c)
TypesOf(c) == {Chosen(c.rows[i]) : i \in Selecting(c)}
FirstUse(c, t) == Min({i \in Selecting(c) : Chosen(c.rows[i]) = t})
Place(c, t) == Cardinality({u \in TypesOf(c) : FirstUse(c, u) <= FirstUse(c, t)})

Lengths(c) ==
  <<c.name, c.text>> \o [k \in 1..(3 * c.rowCount) |-> Len(c.rows[(k + 2) \div 3].names[1 + ((k - 1) % 3)])]
Strings(c) == Total(DOMAIN Lengths(c), LAMBDA k : Lengths(c)[k]) + Total(Texts(c), LAMBDA i : c.rows[i].text)
Paddings(c) ==
  3 + Total(DOMAIN Lengths(c), LAMBDA k : (-Lengths(c)[k]) % 4)
    + Total(Texts(c), LAMBDA i : (-c.rows[i].text) % 4)
StringCount(c) == 2 + 3 * c.rowCount + Cardinality(Texts(c))
Numbers(c) == 25 + 16 + 4 + 8 * c.count + 8 + 8 * c.rowCount + 12 * Cardinality(Texts(c))
              + 16 * Cardinality(Floats(c))
NumberCount(c) == 8 + c.count + 2 + c.rowCount + 2 * Cardinality(Texts(c)) + 3 * Cardinality(Floats(c))
SlotCount(c) == 2 + c.count + Cardinality(Selecting(c))
ValueCount(c) == StringCount(c) + NumberCount(c)
PayloadBytes(c) == 4 * StringCount(c) + Strings(c) + Paddings(c) + Numbers(c)

Agree(names, key) == {k \in Components : \A j \in 1..(k - 1) : names[j] = key[j]}
CompareCost(names, key) ==
  Total(Agree(names, key), LAMBDA k : 1 + IF Len(names[k]) = Len(key[k]) THEN Len(key[k]) ELSE 0)
QueryCost(key) == 2 + Total(DOMAIN MetaTail.refs, LAMBDA i : 1 + CompareCost(MetaTail.refs[i].names, key))

(* A pass, but for the entries of the cache it looks at. *)
ManagedPass(c) ==
  PayloadBytes(c) + 3 * StringCount(c) + NumberCount(c) + 1 + ValueCount(c) + SlotCount(c) + c.rowCount
  + Total(Rows(c), LAMBDA i : CompareCost(c.rows[i].names, Terminator) + QueryCost(c.rows[i].names))

Entries(c, replay) ==
  Total(Selecting(c), LAMBDA i :
    LET t == Chosen(c.rows[i])
    IN IF ~replay /\ FirstUse(c, t) = i THEN Place(c, t) - 1 ELSE Place(c, t))

TypeWork(tree, profile) ==
  SchemaWork(tree) + Len(tree.nodes) + 2 + ProfileWork(ManagedNodes[profile])

TreeOf(t) == MetaTail.rows[t].tree
Variant(t) == IF Len(TreeOf(t).nodes) = Len(ManagedNodes["text"]) THEN "text" ELSE "float"
HostTree(call) == Directory.rows[Directory.objects[call.object].type].tree

IndexRetained == IndexSize.owner + Len(MetaTail.refs) * IndexSize.row
CacheBytes(call) == Min({Len(MetaTail.refs), call.caps["SELECTED_TYPES"]}) * ManagedSize.entry

Prerequisites(call, c) ==
  RetainedBytes(HostTree(call)) + IndexRetained + CacheBytes(call)
  + Total(TypesOf(c), LAMBDA t : RetainedBytes(TreeOf(t)))

Published(c) ==
  ManagedBytes([values |-> ValueCount(c), slots |-> SlotCount(c), rows |-> c.rowCount,
                types |-> Cardinality(TypesOf(c))])

ManagedWork(call, c) ==
  3 + TypeWork(HostTree(call), "host")
  + IndexRetained + 2 * Len(MetaTail.refs) + 3 + CacheBytes(call)
  + Total(TypesOf(c), LAMBDA t : TypeWork(TreeOf(t), Variant(t)))
  + 2 * ManagedPass(c) + Entries(c, FALSE) + Entries(c, TRUE) + 3 + Published(c)
  + SlotCount(c) * (c.rowCount + 1)

HostFits(call) ==
  LET row == Directory.rows[Directory.objects[call.object].type]
  IN /\ row.class = 114 /\ ~row.stripped /\ row.script <= 32767
     /\ Compiles(Directory, Directory.objects[call.object].type, call.schema)
     /\ FitsProfile(row.tree, ManagedNodes["host"])

TypeFits(call, t) ==
  LET row == MetaTail.rows[t]
  IN /\ row.class = -1 /\ ~row.stripped /\ row.script <= 32767
     /\ Compiles(MetaTail, t, call.schema)
     /\ FitsProfile(row.tree, ManagedNodes[Variant(t)])

IndexFits(call) ==
  /\ MetaTail.refs # <<>>
  /\ MetaTail.flag = 1
  /\ Fits([REFERENCE_TYPES |-> Len(MetaTail.refs), RETAINED_BYTES |-> IndexRetained,
           IDENTITY_BYTES |-> Total(DOMAIN MetaTail.refs, LAMBDA i :
                                Total(Components, LAMBDA k : Len(MetaTail.refs[i].names[k]) + 1)),
           WORK |-> IndexRetained + 2 * Len(MetaTail.refs) + 3], call.index)

KeyFits(call, row) ==
  /\ row.names # Terminator
  /\ Fits([KEY_BYTES |-> Total(Components, LAMBDA k : Len(row.names[k])),
           WORK |-> QueryCost(row.names)], call.query)
  /\ \A k \in Components : Len(row.names[k]) <= call.query["COMPONENT_BYTES"]

ContentFits(call, c) ==
  /\ c.count <= ObjectMax /\ c.version = RegistryVersion /\ c.rowCount <= Len(c.rows)
  /\ \A i \in Rows(c) : /\ KeyFits(call, c.rows[i])
                        /\ RowNull(c.rows[i]) \/ (~(Nameless(c.rows[i]) /\ Selects(c.rows[i]) = {})
                                                  /\ Cardinality(Selects(c.rows[i])) = 1)
  /\ \A t \in TypesOf(c) : TypeFits(call, t)
  /\ PayloadBytes(c) = Directory.objects[call.object].bytes
  /\ \A k \in DOMAIN Lengths(c) : Lengths(c)[k] <= ObjectMax /\ Lengths(c)[k] <= call.caps["STRING"]
  /\ \A i \in Texts(c) : c.rows[i].text <= ObjectMax /\ c.rows[i].text <= call.caps["STRING"]
  /\ Fits([TOTAL_STRING |-> Strings(c), PADDING |-> Paddings(c), TOTAL_SCALAR |-> Numbers(c),
           SCALAR |-> 8, VALUES |-> ValueCount(c), RID_SLOTS |-> SlotCount(c),
           ARRAY_ELEMENTS |-> c.count, REGISTRY_ROWS |-> c.rowCount,
           SELECTED_TYPES |-> Cardinality(TypesOf(c)),
           PREREQUISITE |-> Prerequisites(call, c), RETAINED |-> Published(c),
           SCHEMA_SCRATCH |-> Max({ScratchBytes(HostTree(call))}
                                  \cup {ScratchBytes(TreeOf(t)) : t \in TypesOf(c)}),
           WORK |-> ManagedWork(call, c)], call.caps)
  /\ call.memory >= 4 + 2 * Cardinality(TypesOf(c)) + IF CacheBytes(call) = 0 THEN 0 ELSE 1

ManagedAdmitted(call) ==
  /\ ObjectThere(call)
  /\ Directory.file = MetaTail.file
  /\ call.caps["PREREQUISITE"] + call.caps["RETAINED"] <= call.caps["HEAP"]
  /\ call.caps["PREREQUISITE"] + call.caps["SCHEMA_SCRATCH"] <= call.caps["HEAP"]
  /\ HostFits(call) /\ IndexFits(call)
  /\ ContentFits(call, Directory.objects[call.object].content)

Pointing(c) ==
  <<c.first, c.second>> \o c.elements
  \o [k \in 1..Cardinality(Selecting(c)) |->
        c.rows[CHOOSE i \in Selecting(c) : Cardinality(Selecting(c) \cap 1..i) = k].next]

Resolved(c, rid) ==
  LET found == {i \in Rows(c) : c.rows[i].rid = rid}
  IN IF Cardinality(found) # 1 THEN IF found = {} THEN "MISSING" ELSE "AMBIGUOUS"
     ELSE IF \A i \in found : RowNull(c.rows[i]) THEN "NULL" ELSE "UNIQUE"

(* serialized_file_managed_values.h, of an object that does not change while it
   is read: it is decoded exactly if the host and every type that a row selects
   fit their profiles, every row names one reference type or is the null row,
   and the registry ends with the object, within the enclosing limits and those
   of every nested call; a type is compiled once however many rows select it;
   every slot resolves over all rows, and never to one of several. *)
ManagedExact ==
  answer.op = "managed" /\ (answer.call.object \in DOMAIN Directory.objects =>
    LET o == Directory.objects[answer.call.object] IN o.later = o.content) =>
    LET r == answer.result
        c == Directory.objects[answer.call.object].content
    IN /\ r.status = "OK" <=> ~answer.before.live /\ ManagedAdmitted(answer.call)
       /\ r.status = "OK" =>
            /\ r.work = ManagedWork(answer.call, c)
            /\ managed.slots = [i \in DOMAIN Pointing(c) |->
                                  [rid |-> Pointing(c)[i], is |-> Resolved(c, Pointing(c)[i])]]
            /\ {managed.types[i] : i \in DOMAIN managed.types} = TypesOf(c)
            /\ Len(managed.types) = Cardinality(TypesOf(c))

----------------------------------------------------------------------------
(* Whatever the file does. *)

(* The leaves of a decoded object tile its payload. *)
Tiles(spans, object) ==
  /\ \A s \in spans : object.offset <= s.from /\ s.from <= s.to /\ s.to <= Ends(object)
  /\ \A s, t \in spans : s = t \/ s.to <= t.from \/ t.to <= s.from
  /\ Total(spans, LAMBDA s : s.to - s.from) = object.bytes

Leaves(profile) == {v \in DOMAIN Profile[profile].roles : Profile[profile].roles[v][2] # "CONTAINER"}

ChildrenInside(profile, spans) ==
  \A v \in DOMAIN Profile[profile].roles \ {1} :
    LET parent == spans[Profile[profile].roles[v][3]]
    IN parent.from <= spans[v - 1].from /\ spans[v - 1].to <= parent.to

(* Memory is held by live handles only, so a decoder that fails anywhere, in a
   nested call or in its second pass, has freed all of its prerequisites.  And
   even if the file changes under the decoder, what is published is one parse:
   its values tile the payload, and managed values fill their allocation.  If
   the file does not change, managed values are exact as well. *)
ReadersSound ==
  /\ ManagedExact
  /\ used = Bytes(compiled) + Bytes(decoded) + Bytes(managed)
  /\ answer.op \in {"schema", "values", "managed"} /\ answer.result.status # "OK" =>
       answer.before = CASE answer.op = "schema" -> compiled
                         [] answer.op = "values" -> decoded
                         [] answer.op = "managed" -> managed
  /\ answer.op = "values" /\ answer.result.status = "OK" =>
       LET object == Directory.objects[answer.call.object]
           profile == decoded.profile
       IN /\ Tiles({decoded.values[v - 1] : v \in Leaves(profile)}, object)
          /\ ChildrenInside(profile, decoded.values)
  /\ answer.op = "managed" /\ answer.result.status = "OK" =>
       /\ Tiles({managed.values[i] : i \in DOMAIN managed.values},
                Directory.objects[answer.call.object])
       /\ managed.bytes = ManagedBytes([values |-> Len(managed.values), rows |-> Len(managed.rows),
                                        slots |-> Len(managed.slots), types |-> Len(managed.types)])
=============================================================================

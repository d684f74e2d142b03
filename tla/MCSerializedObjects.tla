------------------------- MODULE MCSerializedObjects -------------------------
(* What is in the tables of a serialized file, and then what is in its objects.
   The two never meet, so a run asks about one of them.  Names are bytes, and
   an offset has four digits of four values: the highest bit is 128. *)
EXTENDS SerializedTables, ObjectReading

LOCAL INSTANCE SequencesExt
LOCAL INSTANCE FiniteSetsExt

----------------------------------------------------------------------------
(* Tables: a file with two rows in every table, and files that differ from it
   in one respect; calls that are generous but for one limit, at and around
   what the file needs. *)

MCKinds == {"VERSION_BYTES", "TYPES", "OBJECTS", "NODES", "STRING_BYTES", "DEPENDENCIES",
            "SCRIPTS", "EXTERNALS", "REFERENCE_TYPES", "TERMINATED", "IDENTITY_BYTES",
            "KEY_BYTES"}
MCLimits == MCKinds \cup {"WORK", "BYTES", "RETAINED_BYTES", "COMPONENT_BYTES"}

MCEngineVersions == [e35 |-> <<1, 3>>, e29 |-> <<1, 2>>]
MCDirectorySize == [owner |-> 24, type |-> 16, object |-> 8, align |-> 8]
MCTailSize == [owner |-> 32, script |-> 8, external |-> 16, reference |-> 24, align |-> 8]
MCIndexSize == [owner |-> 16, row |-> 24, align |-> 8]

----------------------------------------------------------------------------
(* Files. *)

Type(class, negative, nodes, strings, deps) ==
  [class |-> class, negative |-> negative, nodes |-> nodes, strings |-> strings, deps |-> deps]
Reference(negative, nodes, names) ==
  [class |-> "other", negative |-> negative, nodes |-> nodes, strings |-> 1, names |-> names]
Object(offset, bytes, type) == [offset |-> offset, bytes |-> bytes, type |-> type]

NameA == <<<<1>>, <<>>, <<2>>>>
NameB == <<<<1>>, <<1>>, <<>>>>
NameC == <<<<2>>, <<>>, <<>>>>

Plain ==
  [format |-> 22, endian |-> 1, size |-> 0, data |-> 0, end |-> 0,
   version |-> MCEngineVersions.e35, flag |-> 1,
   typeCount |-> 2, types |-> <<Type("script", TRUE, 1, 3, 1), Type("other", TRUE, 2, 0, 0)>>,
   objectCount |-> 2, objects |-> <<Object(0, 8, 0), Object(4, 4, 1)>>,
   scriptCount |-> 2, scripts |-> <<1, 1>>,
   externalCount |-> 1, externals |-> <<[lead |-> 0, path |-> 2], [lead |-> 1, path |-> 0]>>,
   refCount |-> 2, refs |-> <<Reference(TRUE, 1, NameA), Reference(FALSE, 1, NameB),
                              Reference(TRUE, 1, NameA)>>,
   user |-> 1]

(* The header agrees with the rows; eight bytes of data follow a gap. *)
Fit(s) == LET end == TailEnd(s) IN [s EXCEPT !.end = end, !.data = end + 3, !.size = end + 11]

Negative == Int32Max + 1

Contents ==
  {Plain}
  \cup {[Plain EXCEPT !.typeCount = n] : n \in {0, 1}}
  \cup {[Plain EXCEPT !.objectCount = n] : n \in {0, 1}}
  \cup {[Plain EXCEPT !.scriptCount = n] : n \in {0, 1}}
  \cup {[Plain EXCEPT !.externalCount = n] : n \in {0, 2}}
  \cup {[Plain EXCEPT !.refCount = n] : n \in {0, 1, 3}}
  \cup {[Plain EXCEPT !.flag = n] : n \in {0, 2}}
  \cup {[Plain EXCEPT !.flag = 0, !.refCount = 0]}
  \cup {[Plain EXCEPT !.version = v] : v \in {MCEngineVersions.e29, <<1>>, <<1, 3, 1>>, <<>>}}
  \cup {[Plain EXCEPT !.types[2] = t] :
          t \in {Type("none", TRUE, 1, 0, 0), Type("none", FALSE, 1, 0, 0),
                 Type("other", FALSE, 0, 0, 0), Type("script", FALSE, 1, 0, 2)}}
  \cup {[Plain EXCEPT !.objects[2] = o] :
          o \in {Object(0, 8, 2), Object(4, 5, 0), Object(9, 0, 0), Object(8, 0, 1)}}
  \cup {[Plain EXCEPT !.refs[2].nodes = 0], [Plain EXCEPT !.refs[1].class = "none"]}

(* Counts and headers that promise something else. *)
Misfits ==
  LET f == Fit(Plain)
  IN {[f EXCEPT !.typeCount = Negative], [f EXCEPT !.objectCount = Negative],
      [f EXCEPT !.scriptCount = Negative], [f EXCEPT !.refCount = Negative],
      [f EXCEPT !.types[1].deps = Negative],
      [f EXCEPT !.format = 21], [f EXCEPT !.endian = 2],
      [f EXCEPT !.data = f.end - 1], [f EXCEPT !.data = f.size + 1],
      [f EXCEPT !.end = @ - 1], [f EXCEPT !.end = @ + 1],
      [f EXCEPT !.end = DirectoryEnd(f) - 1], [f EXCEPT !.end = HeaderBytes + 1],
      [f EXCEPT !.end = 40, !.data = 40, !.size = 40]}

MCSources == {Fit(s) : s \in Contents} \cup Misfits

(* What a second pass may see instead of the file. *)
Replays(s) ==
  {[s EXCEPT !.typeCount = 1], [s EXCEPT !.objectCount = 1], [s EXCEPT !.scriptCount = 1],
   [s EXCEPT !.externalCount = 2], [s EXCEPT !.refCount = 3], [s EXCEPT !.types[1].nodes = 2],
   [s EXCEPT !.objects[1].type = 7]}

----------------------------------------------------------------------------
(* Calls. *)

Generous == [l \in MCLimits |-> 5000]

(* Every limit around the counts of the file, and work and bytes around the
   places where they run out. *)
Tight(limits, work, bytes) ==
  {[Generous EXCEPT ![l] = n] : l \in limits \ {"WORK", "BYTES", "RETAINED_BYTES"}, n \in 0..4}
  \cup {[Generous EXCEPT !["TERMINATED"] = n] : n \in {8, 9, 10, 11, 12, 13, 14, 15, 16}}
  \cup {[Generous EXCEPT !["WORK"] = work - n] : n \in {0, 1, 2, 3, 40, 80} \cap 0..work}
  \cup {[Generous EXCEPT !["WORK"] = n] : n \in {0, 47, 48, 50, 52, 57, 58, 60, 150, 400}}
  \cup {[Generous EXCEPT !["BYTES"] = bytes - n] : n \in {0, 1, 30} \cap 0..bytes}
  \cup {[Generous EXCEPT !["BYTES"] = n] : n \in {0, 7, 8}}
  \cup {[Generous EXCEPT !["RETAINED_BYTES"] = n] : n \in {0, 55, 71, 72, 87, 111, 112, 120}}

MCDirectoryCalls(s) ==
  LET call == [replayed |-> s, mapped |-> s.size, logical |-> s.size, engine |-> "e35",
               caps |-> Generous, memory |-> TRUE]
      fits == s \in {Fit(x) : x \in Contents}
      work == IF fits THEN DirectoryWork(s, 72) ELSE 900
      bytes == IF fits THEN DirectoryEnd(s) - HeaderBytes ELSE 100
  IN {call, [call EXCEPT !.memory = FALSE]}
     \cup {[call EXCEPT !.engine = e] : e \in {"e29", "other"}}
     \cup {[call EXCEPT !.logical = s.size + 1], [call EXCEPT !.mapped = s.size + 1]}
     \cup {[call EXCEPT !.mapped = n] : n \in {0, 47, 48, 50, 60, 100, 200, s.end - 1, s.end} \cap 0..s.size}
     \cup {[call EXCEPT !.replayed = x] : x \in Replays(s)}
     \cup {[call EXCEPT !.caps = c] :
             c \in Tight({"VERSION_BYTES", "TYPES", "OBJECTS", "NODES", "STRING_BYTES",
                          "DEPENDENCIES"}, work, bytes)}

MCTailCalls(s) ==
  LET call == [replayed |-> s, same |-> TRUE, mapped |-> s.size, logical |-> s.size,
               caps |-> Generous, memory |-> TRUE]
      fits == s \in {Fit(x) : x \in Contents}
      work == IF fits THEN TailWork(s, 112) ELSE 900
      bytes == IF fits THEN TailEnd(s) - DirectoryEnd(s) ELSE 100
  IN {call, [call EXCEPT !.memory = FALSE], [call EXCEPT !.same = FALSE]}
     \cup {[call EXCEPT !.logical = s.size + 1], [call EXCEPT !.mapped = s.size + 1]}
     \cup {[call EXCEPT !.mapped = n] : n \in {0, 60, 200, 300, s.end - 1, s.end} \cap 0..s.size}
     \cup {[call EXCEPT !.replayed = x] : x \in Replays(s)}
     \cup {[call EXCEPT !.caps = c] :
             c \in Tight({"SCRIPTS", "EXTERNALS", "REFERENCE_TYPES", "NODES", "STRING_BYTES",
                          "TERMINATED"}, work, bytes)}

MCIndexCalls(s) ==
  {[caps |-> Generous, memory |-> m] : m \in BOOLEAN}
  \cup {[caps |-> [Generous EXCEPT ![l] = n], memory |-> TRUE] :
          l \in {"REFERENCE_TYPES", "IDENTITY_BYTES"}, n \in 0..8}
  \cup {[caps |-> [Generous EXCEPT !["WORK"] = n], memory |-> TRUE] :
          n \in {0, 1, 2, 3, 19, 67, 68, 69, 70, 94, 95, 96}}
  \cup {[caps |-> [Generous EXCEPT !["RETAINED_BYTES"] = n], memory |-> TRUE] :
          n \in {15, 16, 40, 63, 64, 87, 88}}

MCQueryCalls(s) ==
  {[key |-> k, caps |-> Generous] :
     k \in {NameA, NameB, NameC, <<<<>>, <<>>, <<>>>>, <<<<1>>, <<>>, <<2, 2>>>>}}
  \cup {[key |-> NameA, caps |-> [Generous EXCEPT !["WORK"] = n]] : n \in 0..16}
  \cup {[key |-> NameA, caps |-> [Generous EXCEPT ![l] = n]] :
          l \in {"COMPONENT_BYTES", "KEY_BYTES"}, n \in 0..2}

----------------------------------------------------------------------------
(* Objects.  Names: one is longer than the others; "authored" is anybody's. *)
MCNames ==
  <<"string", "Array", "int", "size", "char", "data", "Base", "SInt64", "UInt8", "float",
    "vector", "m_Name", "TextAsset", "MonoBehaviour", "m_Script", "PPtr<GameObject>",
    "m_GameObject", "m_FileID", "m_PathID", "m_Enabled", "PPtr<MonoScript>",
    "PPtr<$TextAsset>", "managedReference", "rid", "Object", "managedRefArrayItem",
    "ManagedReferencesRegistry", "references", "version", "RefIds", "ReferencedObject",
    "ReferencedManagedType", "type", "class", "ns", "asm", "ReferencedObjectData",
    "Terminus", "UnityEngine.DMAT", "FAKE_ASM", "authored">>
CommonNames == 1..12   \* of the common table

CodeOf == [n \in {MCNames[k] : k \in DOMAIN MCNames} |-> CHOOSE k \in DOMAIN MCNames : MCNames[k] = n]
MCSpelled(n) == IF n = "Array" THEN <<CodeOf[n], 1>> ELSE <<CodeOf[n]>>

Strings0(codes) == FlattenSeq([k \in DOMAIN codes |-> Append(MCSpelled(MCNames[codes[k]]), 0)])
MCCommonTable == Strings0([k \in 1..12 |-> k]) \o <<0>>
LocalCodes == [k \in 1..(Len(MCNames) - 12) |-> k + 12]
LocalTable == Strings0(LocalCodes)

OffsetBefore(k, first) == Len(Strings0([j \in 1..(k - first) |-> first + j - 1]))
BitsOf ==
  [n \in DOMAIN CodeOf |->
     IF CodeOf[n] \in CommonNames THEN 128 + OffsetBefore(CodeOf[n], 1) ELSE OffsetBefore(CodeOf[n], 13)]
Bits(n) == IF n = "" THEN BitsOf["authored"] ELSE BitsOf[n]

Node(x) ==
  [level |-> x[3], flags |-> x[4], width |-> x[5], meta |-> x[6], usual |-> TRUE,
   typeBits |-> Bits(x[1]), nameBits |-> Bits(x[2])]
Tree(nodes) == [nodes |-> [i \in DOMAIN nodes |-> Node(nodes[i])], strings |-> LocalTable]

TypeRow(class, script, tree) ==
  [hasTree |-> TRUE, tree |-> tree, class |-> class, script |-> script, stripped |-> FALSE]

MCNullRid == -2
MCSchemaSize == [storage |-> 40, node |-> 8, request |-> 4]
MCValuesSize == [storage |-> 16, value |-> 8]
MCManagedSize == [storage |-> 24, value |-> 8, row |-> 8, slot |-> 8, type |-> 8, entry |-> 16]

DirectoryOf(rows, objects) ==
  [live |-> TRUE, file |-> 1, engine |-> "e35", endian |-> 0, kind |-> "ORDINARY", size |-> 900,
   rows |-> rows, objects |-> objects]
TailOf(rows, refs) ==
  [live |-> TRUE, file |-> 1, engine |-> "e35", kind |-> "REFERENCE", flag |-> 1,
   rows |-> rows, refs |-> refs]

MCObjectKinds == {"NODES", "LOCAL_STRINGS", "DEPTH", "RETAINED", "SCRATCH", "WORK"}
Ample == [l \in MCObjectKinds |-> 90000]

----------------------------------------------------------------------------
(* Small trees: hierarchies of up to three nodes, well nested or not, flags
   that say registry, and offsets at, inside of and beyond strings. *)

Small(level, flags, typeBits, nameBits) ==
  [level |-> level, flags |-> flags, width |-> 4, meta |-> 0, usual |-> TRUE,
   typeBits |-> typeBits, nameBits |-> nameBits]

Walk(levels, flags) ==
  [nodes |-> [i \in DOMAIN levels |-> Small(levels[i], flags[i], 0, 128)], strings |-> <<5, 0>>]
Hierarchies == {Walk(l, [i \in DOMAIN l |-> 0]) : l \in UNION {[1..n -> 0..2] : n \in 1..4}}
Flagged ==
  {Walk(l, f) : l \in {<<0, 1, 1>>, <<0, 1, 2>>}, f \in [1..3 -> {0, 4, 6}]}
  \cup {Walk(<<0, 1, 1, 2>>, f) : f \in [1..4 -> {0, 4, 6}]}
Offsets ==
  {[nodes |-> <<Small(0, 0, a, b), Small(1, 0, b, 0)>>, strings |-> s] :
     a, b \in {0, 1, 2, 3, 4, 128, 129, 153, 154},
     s \in {<<>>, <<0>>, <<7, 0>>, <<7, 7, 0, 8>>, <<7, 0, 7, 0>>}}

SmallFile(tree, asks) ==
  [directory |-> DirectoryOf(<<TypeRow(-1, 0, tree)>>, <<>>),
   tail |-> TailOf(<<TypeRow(-1, 0, tree)>>, <<>>), asks |-> asks]

Plainest == Walk(<<0, 1>>, <<0, 0>>)
Deeper   == Walk(<<0, 1, 2, 1>>, <<0, 0, 0, 0>>)

SmallFiles ==
  {SmallFile(t, "schema") : t \in Hierarchies \cup Offsets}
  \cup {SmallFile(t, "context") : t \in Flagged}
  \cup {[SmallFile(Plainest, "schema") EXCEPT !.directory.engine = "e29"],
        [SmallFile(Plainest, "schema") EXCEPT !.directory.rows[1].hasTree = FALSE],
        SmallFile(Deeper, "limits")}

Compile(kind, ordinal, caps, memory) ==
  [kind |-> kind, ordinal |-> ordinal, caps |-> caps, memory |-> memory]

Best(f, kind, ordinal) ==
  CreateSchema(IF kind = "ORDINARY" THEN f.directory ELSE f.tail, ordinal, Ample, NoSchema, 2)

Around(best) ==
  LET With(l, n) == Compile("REFERENCE", 1, [Ample EXCEPT ![l] = n], 2)
  IN {With(l, n) : l \in {"NODES", "LOCAL_STRINGS", "DEPTH"}, n \in 0..4}
     \cup {With("WORK", n) : n \in {k \in 0..best.work : k % 2 = best.work % 2 \/ k = best.work - 1}}
     \cup {With("RETAINED", n) : n \in {0, best.schema.bytes - 1, best.schema.bytes}}
     \cup {With("SCRATCH", n) : n \in {0, best.freed - 1, best.freed}}
     \cup {Compile("REFERENCE", n, Ample, m) : n \in {1, 2}, m \in 0..2}
LimitCalls(f) == UNION {Around(best) : best \in {Best(f, "REFERENCE", 1)}}

MCSchemaCalls(f) ==
  CASE f.asks = "limits" -> LimitCalls(f)
    [] f.asks = "context" -> {Compile(k, n, Ample, 2) : k \in {"ORDINARY", "REFERENCE"}, n \in DOMAIN f.tail.rows}
    [] f.asks \in {"schema", "values"} -> {Compile("ORDINARY", n, Ample, 2) : n \in DOMAIN f.directory.rows}
    [] f.asks = "managed" -> {}

MCContextCalls(f) ==
  IF f.asks # "context" THEN {}
  ELSE {[kind |-> k, work |-> n] : k \in {"ORDINARY_OBJECT", "SELECTED_REFERENCE"}, n \in {0, 1, 3, 4, 5, 6}}

----------------------------------------------------------------------------
(* Objects of the three profiles, and of schemas that differ from them in one
   respect of one node, or in the type. *)

Listed(S) == FoldSet(LAMBDA x, list : Append(list, x), <<>>, S)

Unlike(x, i) ==
  {[x EXCEPT ![i] = n] :
     n \in {[x[i] EXCEPT ![k] = @ + 1] : k \in {3, 4, 5, 6}}
           \cup {[x[i] EXCEPT ![k] = "size"] : k \in {1, 2}}}
Unusual(x, i) == [Tree(x) EXCEPT !.nodes[i].usual = FALSE]
Differing(x, places) ==
  {Tree(t) : t \in UNION {Unlike(x, i) : i \in places}} \cup {Unusual(x, i) : i \in places}
  \cup {Tree(Append(x, x[Len(x)])), Tree(SubSeq(x, 1, Len(x) - 1))}

TextRow(tree) == TypeRow(49, 65535, tree)
MonoRow(tree) == TypeRow(114, 0, tree)

Simple(p, n) == IF p = "text" THEN [v \in {1, 2} |-> n] ELSE [v \in {8} |-> n]

ObjectAt(type, offset, p, lengths, again, more) ==
  [type |-> type, offset |-> offset, bytes |-> Shape(p, lengths).bytes + more,
   lengths |-> lengths, again |-> again]
Fitting(type, p, lengths) == ObjectAt(type, 16, p, lengths, lengths, 0)

ValueFile(row, p) ==
  [directory |-> DirectoryOf(<<row>>, <<Fitting(1, p, Simple(p, 1))>>), tail |-> TailOf(<<>>, <<>>),
   asks |-> "values"]

ValueLimits == {"PAYLOAD", "VALUES", "DEPTH", "STRING", "TOTAL_STRING", "PADDING", "INTEGER",
                "TOTAL_INTEGER", "RETAINED", "WORK"}
Plenty == [l \in ValueLimits |-> 90000]

TextLengths == {[v \in {1, 2} |-> IF v = 1 THEN a ELSE b] : a \in {0, 1, 3, 4, ObjectMax + 1}, b \in {0, 2, 8}}
Pairs == {<<Simple("text", 0), Simple("text", 1)>>, <<Simple("text", 1), Simple("text", 3)>>,
          <<1 :> 4 @@ 2 :> 0, 1 :> 0 @@ 2 :> 4>>, <<1 :> 4 @@ 2 :> 0, 1 :> 8 @@ 2 :> 0>>,
          <<1 :> 4 @@ 2 :> 4, 1 :> 8 @@ 2 :> 0>>}
ManyObjects ==
  Listed({Fitting(1, "text", l) : l \in TextLengths}
         \cup {ObjectAt(1, 16 + at, "text", Simple("text", 3), Simple("text", 3), more) :
                 at \in {0, 1}, more \in {-8, -5, -1, 0, 1, 4}}
         \cup {ObjectAt(1, 16, "text", x[1], x[2], 0) : x \in Pairs}
         \cup {Fitting(2, "mono", Simple("mono", n)) : n \in {0, 1, 4}}
         \cup {Fitting(3, "reference", Simple("mono", n)) : n \in {2, ObjectMax + 1}}
         \cup {ObjectAt(2, 16, "mono", Simple("mono", 0), Simple("mono", 0), more) : more \in {-4, -29, 4}}
         \cup {ObjectAt(2, 16, "mono", Simple("mono", 1), Simple("mono", 2), 0)})

GoodRows == <<TextRow(Tree(Profile["text"].nodes)), MonoRow(Tree(Profile["mono"].nodes)),
              MonoRow(Tree(Profile["reference"].nodes))>>

ValueFiles ==
  {ValueFile(TextRow(t), "text") : t \in Differing(Profile["text"].nodes, 1..9)}
  \cup {ValueFile(MonoRow(t), "mono") : t \in Differing(Profile["mono"].nodes, {5, 13})}
  \cup {ValueFile(MonoRow(t), "reference") : t \in Differing(Profile["reference"].nodes, {1, 14})}
  \cup {ValueFile(TypeRow(c, s, Tree(Profile["text"].nodes)), "text") :
          c \in {49, 114, 7}, s \in {0, 40000, 65535}}
  \cup {[ValueFile(r, "text") EXCEPT !.directory.rows[1].stripped = TRUE] : r \in {GoodRows[1], GoodRows[2]}}
  \cup {[ValueFile(GoodRows[1], "text") EXCEPT !.directory.endian = 1],
        [ValueFile(GoodRows[1], "text") EXCEPT !.directory.rows[1].tree.nodes[9].flags = 4]}
  \cup {[ValueFile(GoodRows[1], "text") EXCEPT !.directory.rows = GoodRows,
                                               !.directory.objects = ManyObjects, !.asks = "values"]}

Decode(n, caps) ==
  [object |-> n, mapped |-> 900, same |-> TRUE, ordinary |-> TRUE, caps |-> caps, memory |-> TRUE]

Tightly(n) ==
  {Decode(n, [Plenty EXCEPT ![l] = k]) : l \in ValueLimits \ {"WORK", "RETAINED"}, k \in 0..8}
  \cup {Decode(n, [Plenty EXCEPT ![l] = k]) :
          l \in {"PAYLOAD", "TOTAL_INTEGER", "RETAINED"},
          k \in {10, 23, 24, 28, 29, 39, 40, 43, 44, 95, 96}}
  \cup {Decode(n, [Plenty EXCEPT !["WORK"] = k]) : k \in {0, 1, 5, 11, 12, 13, 14, 40, 60, 100, 130, 170, 200}}

ObjectOf(lengths) == Min({n \in DOMAIN ManyObjects : ManyObjects[n].lengths = lengths})

WorkOf(f, n) ==
  LET object == f.directory.objects[n]
  IN CreateValues(f.directory, Best(f, "ORDINARY", object.type).schema, Decode(n, Plenty), NoValues).work

MCValueCalls(f) ==
  IF f.asks # "values" THEN {}
  ELSE {Decode(n, Plenty) : n \in DOMAIN f.directory.objects}
       \cup (IF Len(f.directory.objects) = 1 THEN {}
             ELSE LET t == ObjectOf([v \in {1, 2} |-> IF v = 1 THEN 3 ELSE 2])
                      m == ObjectOf(Simple("mono", 1))
                  IN Tightly(t) \cup Tightly(m)
                     \cup {Decode(n, [Plenty EXCEPT !["WORK"] = WorkOf(f, n) - k]) : n \in {t, m}, k \in {0, 1, 24}}
                     \cup {[Decode(t, Plenty) EXCEPT !.memory = FALSE], [Decode(t, Plenty) EXCEPT !.same = FALSE],
                           [Decode(t, Plenty) EXCEPT !.object = 99], [Decode(t, Plenty) EXCEPT !.mapped = 901],
                           [Decode(t, Plenty) EXCEPT !.mapped = 20], [Decode(m, Plenty) EXCEPT !.ordinary = FALSE]})

----------------------------------------------------------------------------
(* Objects with managed references.  The reference types are a text payload, a
   float payload, one with a profile of its own, and two of the same name. *)

ManagedTree(p) == Tree(ManagedNodes[p])
RefRow(tree) == TypeRow(-1, 0, tree)
NameD == <<<<1>>, <<2>>, <<3>>>>
Nobody == <<<<>>, <<>>, <<>>>>

RefTypes ==
  <<[names |-> NameA, row |-> RefRow(ManagedTree("text"))],
    [names |-> NameB, row |-> RefRow(ManagedTree("float"))],
    [names |-> NameC, row |-> RefRow([ManagedTree("float") EXCEPT !.nodes[3].flags = 1])],
    [names |-> NameD, row |-> RefRow(ManagedTree("float"))],
    [names |-> NameD, row |-> RefRow(ManagedTree("float"))]>>

RegistryRow(rid, names, text, next) == [rid |-> rid, names |-> names, text |-> text, next |-> next]
Null  == RegistryRow(-2, Nobody, 0, 0)
A1 == RegistryRow(1, NameA, 3, 2)
A2 == RegistryRow(2, NameA, 4, -2)
B1 == RegistryRow(1, NameB, 0, 3)
B2 == RegistryRow(2, NameB, 0, 1)
Odd ==
  {RegistryRow(-2, NameA, 0, 1), RegistryRow(1, Nobody, 0, 0), RegistryRow(1, NameC, 0, 0),
   RegistryRow(1, NameD, 0, 0), RegistryRow(1, <<<<9>>, <<>>, <<>>>>, 0, 0),
   RegistryRow(-2, <<<<9>>, <<>>, <<>>>>, 0, 0),
   RegistryRow(1, Terminator, 0, 0), RegistryRow(1, NameA, ObjectMax + 1, 0),
   RegistryRow(1, <<Terminator[1], Terminator[2], <<>>>>, 0, 0),
   RegistryRow(1, <<Terminator[1], NameA[1], Terminator[3]>>, 0, 0)}

Content(rows, elements) ==
  [name |-> 1, text |-> 2, first |-> 1, second |-> -2, count |-> Len(elements),
   elements |-> elements, version |-> 2, rowCount |-> Len(rows), rows |-> rows]

RowBytes(r) ==
  8 + StringSize(Len(r.names[1])) + StringSize(Len(r.names[2])) + StringSize(Len(r.names[3]))
  + CASE r.names = NameA -> 12 + StringSize(r.text) [] r.names \in {NameB, NameC, NameD} -> 16 [] OTHER -> 0
ContentBytes(c) ==
  28 + StringSize(c.name) + StringSize(c.text) + 16 + 4 + 8 * c.count + 8
  + FoldLeft(LAMBDA n, r : n + RowBytes(r), 0, SubSeq(c.rows, 1, Min({c.rowCount, Len(c.rows)})))

Host(content, later, offset, more) ==
  [type |-> 1, offset |-> offset, bytes |-> ContentBytes(content) + more,
   content |-> content, later |-> later]
Steady(content) == Host(content, content, 16, 0)

ManagedFile(types, object) ==
  [directory |-> DirectoryOf(<<MonoRow(ManagedTree("host"))>>, <<object>>),
   tail |-> TailOf([i \in DOMAIN types |-> types[i].row], [i \in DOMAIN types |-> [names |-> types[i].names]]),
   asks |-> "managed"]

Busy == Content(<<A1, B2, A2, Null>>, <<1, 2>>)
Hosted == ManagedFile(RefTypes, Steady(Busy))

Contents0 ==
  {Content(r, <<>>) : r \in UNION {[1..n -> {Null, A1, A2, B1, B2}] : n \in 0..2}}
  \cup {Content(<<A1, r, B2>>, <<2, 9>>) : r \in Odd \cup {A2, B1, Null}}
  \cup {[Busy EXCEPT ![k] = n] : k \in {"name", "text"}, n \in {0, 4, 5, ObjectMax, ObjectMax + 1}}
  \cup {[Busy EXCEPT !.version = n] : n \in {1, 3}}
  \cup {[Busy EXCEPT !.rowCount = n] : n \in {3, 5, ObjectMax + 1}}
  \cup {[Busy EXCEPT !.count = ObjectMax + 1]}

Laters ==
  {Content(<<A1, B2, A2>>, <<1, 2>>), Content(<<A2, B1, A1, Null>>, <<2, 2>>),
   Content(<<B2, A1, A2, Null>>, <<1, 2>>), Content(<<A1, B2, B2, Null>>, <<1, 2>>),
   Content(<<A1, A1, A2, Null>>, <<1, 2>>), Content(<<A1, B2, A2, Null>>, <<1>>),
   Content(<<A1, B2, A2, Null>>, <<1, 2, 2>>), Content(<<A1, B2, A2, Null, Null>>, <<1>>),
   Content(<<Null, Null, A1, A2, B2>>, <<1, 2>>), [Busy EXCEPT !.name = 2], [Busy EXCEPT !.name = 5],
   [Content(<<A1, B2, A2>>, <<1, 2>>) EXCEPT !.name = 21], [Content(Busy.rows, <<1>>) EXCEPT !.name = 9],
   [Busy EXCEPT !.rows[1].names = NameD], [Busy EXCEPT !.rows[1].text = 4]}

Rehosted(hosted) ==
  {[hosted EXCEPT !.directory.rows[1].tree = t] :
     t \in Differing(ManagedNodes["host"], {13, 17, 26, 46}) \cup {ManagedTree("text")}}
  \cup {[hosted EXCEPT !.tail.rows[1].tree = t] : t \in Differing(ManagedNodes["text"], {1, 9, 29})}
  \cup {[hosted EXCEPT !.tail.rows[1].class = 114], [hosted EXCEPT !.tail.rows[2].stripped = TRUE],
        [hosted EXCEPT !.directory.rows[1].class = 49], [hosted EXCEPT !.directory.rows[1].script = 65535],
        [hosted EXCEPT !.directory.rows[1].hasTree = FALSE], [hosted EXCEPT !.tail.file = 2],
        [hosted EXCEPT !.tail.flag = 0], [hosted EXCEPT !.directory.endian = 1],
        [hosted EXCEPT !.directory.engine = "e29"]}

ManagedFiles ==
  {ManagedFile(RefTypes, Steady(c)) : c \in Contents0}
  \cup {ManagedFile(RefTypes, Host(Busy, c, 16, 0)) : c \in Laters}
  \cup {ManagedFile(RefTypes, Host(Busy, Busy, at, more)) : at \in {16, 18}, more \in {-24, -1, 0, 1, 8}}
  \cup {ManagedFile(t, Steady(Content(<<A1>>, <<>>))) :
          t \in {<<>>, <<RefTypes[2]>>, <<RefTypes[2], RefTypes[1]>>, <<RefTypes[1], [RefTypes[2] EXCEPT !.names = Nobody]>>}}
  \cup {ManagedFile(<<[RefTypes[2] EXCEPT !.names = Nobody]>>, Steady(Content(<<r>>, <<>>))) :
          r \in {Null, RegistryRow(1, Nobody, 0, 0)}}
  \cup UNION {Rehosted(hosted) : hosted \in {Hosted}}

ManagedLimits == (ValueLimits \ {"DEPTH", "INTEGER", "TOTAL_INTEGER"})
                 \cup {"SCALAR", "TOTAL_SCALAR", "PREREQUISITE", "SCHEMA_SCRATCH", "HEAP",
                       "SELECTED_TYPES", "RID_SLOTS", "ARRAY_ELEMENTS", "REGISTRY_ROWS"}
OfManaged == [[l \in ManagedLimits |-> 90000] EXCEPT !["HEAP"] = 180000]

Freely ==
  [object |-> 1, mapped |-> 900, same |-> TRUE, caps |-> OfManaged, schema |-> Ample,
   index |-> Generous, query |-> Generous, memory |-> 20]

(* What the call takes, of what grows with the content. *)
Needed(f, best) ==
  ("PREREQUISITE" :> 1144 @@ "RETAINED" :> best.values.bytes @@ "PAYLOAD" :> f.directory.objects[1].bytes
   @@ "VALUES" :> Len(best.values.values) @@ "TOTAL_SCALAR" :> 141 @@ "TOTAL_STRING" :> 16
   @@ "PADDING" :> 27 @@ "SCHEMA_SCRATCH" :> 736)

ManagedAround(best, needed) ==
  LET With(l, n) == [Freely EXCEPT !.caps[l] = n]
      Nest(name, l, n) == [Freely EXCEPT ![name][l] = n]
  IN {With(l, n) : l \in {"STRING", "SCALAR", "SELECTED_TYPES", "RID_SLOTS", "ARRAY_ELEMENTS",
                          "REGISTRY_ROWS"}, n \in 0..8}
     \cup UNION {{With(l, needed[l] + n) : n \in {-40, -2, -1, 0}} : l \in DOMAIN needed}
     \cup {With("WORK", best.work - n) : n \in {0, 1, 2, 30}}
     \cup {With("WORK", (best.work \div 25) * n) : n \in 0..24}
     \cup {With("HEAP", n) : n \in {90000, 179999}}
     \cup {Nest("schema", l, n) : l \in {"NODES", "SCRATCH", "RETAINED", "WORK"}, n \in {0, 30, 300, 750}}
     \cup {[With("WORK", 101) EXCEPT !.schema["WORK"] = n] : n \in {99, 100, 101}}
     \cup {Nest("index", l, n) : l \in {"REFERENCE_TYPES", "RETAINED_BYTES", "WORK"}, n \in {4, 5, 150, 300}}
     \cup {Nest("query", l, n) : l \in {"KEY_BYTES", "COMPONENT_BYTES", "WORK"}, n \in {0, 1, 2, 8, 20}}
     \cup {[Freely EXCEPT !.memory = n] : n \in 0..12}
     \cup {[Freely EXCEPT !.same = FALSE], [Freely EXCEPT !.object = 2], [Freely EXCEPT !.mapped = 901],
           [Freely EXCEPT !.mapped = 40]}
ManagedLimitCalls(f) ==
  UNION {ManagedAround(best, Needed(f, best)) :
           best \in {CreateManaged(f.directory, f.tail, Freely, NoValues)}}

MCManagedCalls(f) ==
  IF f.asks # "managed" THEN {} ELSE IF f # Hosted THEN {Freely} ELSE ManagedLimitCalls(f)

MCObjectFiles == SmallFiles \cup ValueFiles \cup ManagedFiles

----------------------------------------------------------------------------
(* The tables, or the objects. *)

ReadingInit ==
  \/ Init /\ file = (CHOOSE f \in ObjectFiles : TRUE) /\ parents = FALSE /\ compiled = NoSchema
          /\ decoded = NoValues /\ managed = NoValues /\ used = 0 /\ answer = [op |-> "tables"]
  \/ ObjectInit /\ backing = (CHOOSE s \in Sources : TRUE) /\ directory = Empty /\ tail = Empty /\ index = Empty
                /\ match = NoMatch /\ heap = 0 /\ last = [op |-> "objects"]

ReadingNext ==
  \/ answer.op = "tables" /\ Next /\ UNCHANGED objectVars
  \/ last.op = "objects" /\ ObjectNext /\ UNCHANGED vars

ReadingSpec == ReadingInit /\ [][ReadingNext]_<<vars, objectVars>>
=============================================================================

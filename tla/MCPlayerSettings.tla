-------------------------- MODULE MCPlayerSettings ---------------------------
(* A registry and the files over it, types and their objects, or the settings
   of a player: the three never meet, so a run asks about one of them. *)
EXTENDS SerializedFile, TypeTreeReading, PlayerSettings

LOCAL INSTANCE SequencesExt
LOCAL INSTANCE FiniteSetsExt

----------------------------------------------------------------------------
(* Registries and files.  Three engine versions of three kinds of type: the
   third version has a reviewed profile that fits both schemas of the first and
   third kind, the first version one that fits its own.  The first two kinds
   are of one class.  Beside the format of the files one of an older one is
   pinned. *)
K(v, t) == [format |-> FileFormat, version |-> v, traits |-> t]
Older(v, t) == [K(v, t) EXCEPT !.format = 21]

MCPinned == {<<K(1, 1), "a">>, <<K(2, 1), "a">>, <<K(2, 1), "b">>,
             <<K(1, 2), "b">>, <<K(2, 2), "a">>, <<K(1, 3), "a">>,
             <<Older(1, 3), "b">>}
MCMalformed == {<<K(2, 2), "a">>}
MCKnown == <<1, 1>> :> {"a"} @@ <<3, 1>> :> {"a", "b"} @@ <<3, 3>> :> {"a", "b"}

(* One image of a foreign registry, and images with a wrong digest, count,
   order, or an entry that is not valid: what a torn or edited file may hold. *)
E(v, t) == [key |-> K(v, t), schema |-> "a"]
MCImages ==
  {[count |-> Len(b), digest |-> Append(b, E(1, 1)), body |-> b] : b \in {<<>>, <<E(1, 1), E(2, 1)>>}}
  \cup {[count |-> n, digest |-> <<E(1, 1), E(2, 1)>>, body |-> <<E(1, 1), E(2, 1)>>] : n \in {1, 3}}
  \cup {[count |-> Len(b), digest |-> b, body |-> b] : b \in
          {<<E(3, 2)>>, <<E(2, 1), E(1, 1)>>, <<E(1, 1), E(1, 1)>>, <<E(2, 2)>>,
           <<E(1, 2), E(2, 2)>>, <<E(1, 1), E(1, 2), E(2, 1), E(3, 1)>>}}

MCClassOf == <<"MonoBehaviour", "MonoBehaviour", "Texture">>

(* Files that teach, among them one whose last row contradicts what another
   may have taught and one whose last row is malformed; files that ask, of
   either engine; and files that differ from one of these in a single fault. *)
Row(t, n) == [traits |-> t, nodes |-> n]
Object(p, o, s) == [path |-> p, offset |-> o, size |-> s]
Teacher(v, types, refs) ==
  [whole |-> TRUE, version |-> v, pinned |-> TRUE, tree |-> TRUE, types |-> types,
   refs |-> refs, objects |-> <<Object(7, 4, 2), Object(-3, 0, 4), Object(5, 2, 0)>>]
Player(v, types, refs) ==
  [Teacher(v, [i \in DOMAIN types |-> Row(types[i], None)],
              [i \in DOMAIN refs |-> Row(refs[i], None)]) EXCEPT !.tree = FALSE]
Plain == Teacher(1, <<Row(1, "a")>>, <<>>)

MCFiles ==
  [teacher |-> Teacher(1, <<Row(3, "a"), Row(1, "a")>>, <<Row(2, "b")>>),
   second |-> Teacher(2, <<Row(1, "b")>>, <<>>),
   contradicts |-> Teacher(2, <<>>, <<Row(1, "b"), Row(1, "a")>>),
   malformed |-> Teacher(2, <<Row(1, "a")>>, <<Row(2, "a")>>),
   player |-> Player(1, <<3, 1>>, <<2, 1>>),
   other |-> Player(2, <<1>>, <<>>),
   unknown |-> [Plain EXCEPT !.version = 3],
   damaged |-> [Plain EXCEPT !.whole = FALSE],
   twice |-> [Plain EXCEPT !.objects = <<Object(1, 0, 1), Object(2, 1, 1), Object(1, 2, 1)>>],
   overlaps |-> [Plain EXCEPT !.objects = <<Object(1, 2, 1), Object(3, 2, 0), Object(2, 0, 3)>>],
   far |-> [Plain EXCEPT !.objects = <<Object(1, 9, 0)>>]]

----------------------------------------------------------------------------
(* Types and objects.  Names are spelled in up to three digits. *)

MCTreeNames ==
  <<"string", "Array", "int", "size", "char", "data", "Base", "UInt8", "vector", "float", "a", "b",
    "SInt8", "bool", "SInt16", "UInt16", "short", "unsigned short", "SInt32", "UInt32",
    "unsigned int", "RenderingLayerMask", "Type*", "BitField", "SInt64", "UInt64", "long long",
    "unsigned long long", "FileSize", "double", "pair", "c", "d", "e">>
CommonCount == 8

Code(k) ==
  IF k <= 3 THEN <<k>>
  ELSE IF k <= 12 THEN <<(k - 4) \div 3 + 1, ((k - 4) % 3) + 1>>
  ELSE <<(k - 13) \div 9 + 1, (((k - 13) \div 3) % 3) + 1, ((k - 13) % 3) + 1>>
Codes == [name \in ToSet(MCTreeNames) |-> Code(CHOOSE k \in DOMAIN MCTreeNames : MCTreeNames[k] = name)]
MCSpell(name) == IF name = "" THEN <<>> ELSE Codes[name]

Texts(from, to) == FlattenSeq([k \in 1..(to - from + 1) |-> Append(Code(from + k - 1), 0)])
MCCommonBytes == Append(Texts(1, CommonCount), 0)

----------------------------------------------------------------------------
(* Nodes: level, type, name, width and whether it aligns. *)

Literal(x) ==
  [edition |-> 1, level |-> x[1], flags |-> 0, typeBits |-> 0, nameBits |-> 0, type |-> MCSpell(x[2]),
   name |-> MCSpell(x[3]), width |-> x[4], index |-> 0, meta |-> IF x[5] THEN AlignBit ELSE 1, opaque |-> 0]
Literals(xs) == [i \in DOMAIN xs |-> Literal(xs[i])]

Leaf(level, type, name, width) == <<level, type, name, width, FALSE>>
List(level, name, data, aligned) ==
  <<<<level, "vector", name, -1, FALSE>>, <<level + 1, "Array", "Array", -1, aligned>>,
    Leaf(level + 2, "int", "size", 4)>> \o data
Text(level, name) ==
  <<<<level, "string", name, -1, FALSE>>, <<level + 1, "Array", "Array", -1, FALSE>>,
    Leaf(level + 2, "int", "size", 4), Leaf(level + 2, "char", "data", 1)>>
Bytes(level, name, aligned) == List(level, name, <<Leaf(level + 2, "UInt8", "data", 1)>>, aligned)
Root == <<0, "Base", "Base", -1, FALSE>>

\* Values, without names: a number, or what there is in order.
L(n) == [n |-> n, l |-> <<>>]
S(l) == [n |-> 0, l |-> l]
B(bytes) == S([k \in DOMAIN bytes |-> L(bytes[k])])

RECURSIVE Build(_, _, _)
Build(nodes, i, x) ==
  LET kids == SetToSortSeq(Kids(nodes, i), <)
      v == [NoValue EXCEPT !.name = nodes[i].name, !.type = nodes[i].type]
  IN IF kids = <<>>
     THEN LET float == nodes[i].type \in {MCSpell("float"), MCSpell("double")}
              signed == nodes[i].type \in {MCSpell(n) : n \in {"SInt8", "SInt16", "SInt32", "SInt64",
                                                               "int", "short", "long long"}}
          IN [v EXCEPT !.number = x.n, !.kind = IF float THEN "FLOAT" ELSE "INT",
                       !.unsigned = ~float /\ ~signed]
     ELSE IF nodes[i].type = MCSpell("string")
     THEN [v EXCEPT !.kind = "STRING", !.bytes = [k \in DOMAIN x.l |-> x.l[k].n]]
     ELSE IF nodes[kids[1]].name = MCSpell("Array")
     THEN [v EXCEPT !.kind = "ARRAY", !.count = Len(x.l),
                    !.parts = [k \in DOMAIN x.l |-> Build(nodes, kids[1] + 2, x.l[k])]]
     ELSE [v EXCEPT !.kind = "STRUCT", !.count = Len(kids),
                    !.parts = [k \in DOMAIN kids |-> Build(nodes, kids[k], x.l[k])]]

----------------------------------------------------------------------------
(* Objects: a type and the values that were written for it. *)

NoType ==
  [class |-> 0, stripped |-> 0, script |-> 0, scriptHash |-> <<>>, typeHash |-> <<>>, nodes |-> <<>>,
   table |-> <<>>, dependencies |-> <<>>, names |-> <<>>]

WithPadding(pattern, pad) == [k \in DOMAIN pattern |-> IF pattern[k] = Anything THEN pad ELSE pattern[k]]

ObjectCase(nodes, x, big, more) ==
  LET v == Build(nodes, 1, x)
  IN [type |-> NoType, version |-> 0, hasTree |-> FALSE, ref |-> FALSE, big |-> big, bytes |-> <<>>,
      row |-> NoType, intact |-> TRUE, scarce |-> TRUE, nodes |-> nodes, from |-> {}, written |-> TRUE,
      object |-> WithPadding(WriteValue(nodes, 1, v, <<>>, FALSE, big), 2) \o more, value |-> v,
      others |-> {}]

\* Every integer type at both ends of its range, in two structs.
Integers1 ==
  <<Root, Leaf(1, "SInt8", "a", 1), Leaf(1, "UInt8", "b", 1), <<1, "bool", "c", 1, TRUE>>,
    Leaf(1, "short", "d", 2), Leaf(1, "UInt16", "e", 2), <<1, "double", "data", 8, TRUE>>>>
Integers2 ==
  <<Root, Leaf(1, "int", "a", 4), Leaf(1, "Type*", "b", 4), <<1, "float", "c", 4, FALSE>>,
    Leaf(1, "SInt64", "d", 8), Leaf(1, "FileSize", "e", 8)>>

Objects ==
  {<<Integers1, S(<<L(-2), L(3), L(0), L(-8), L(15), L(65535)>>)>>,
   <<Integers1, S(<<L(1), L(0), L(1), L(7), L(8), L(5)>>)>>,
   <<Integers2, S(<<L(-128), L(255), L(129), L(-32768), L(65535)>>)>>,
   <<Integers2, S(<<L(127), L(128), L(0), L(32767), L(32768)>>)>>}
  \cup {<<(<<Root>> \o Text(1, "a") \o <<Leaf(1, "UInt8", "b", 1)>>), S(<<B(t), L(2)>>)>> :
          t \in {<<>>, <<1>>, <<1, 2>>, <<2, 0>>, <<0>>, <<1, 1, 3>>, <<1, 1, 2, 3>>}}
  \cup {<<(<<Root>> \o Bytes(1, "a", aligned) \o <<Leaf(1, "SInt8", "b", 1)>>), S(<<B(t), L(-1)>>)>> :
          aligned \in BOOLEAN, t \in {<<>>, <<3>>, <<0, 0, 0>>, <<1, 2, 3, 0, 1>>}}
  \cup {<<Text(0, "Base"), B(t)>> : t \in {<<>>, <<3, 2>>}}
  \cup {<<List(0, "Base", <<<<2, "SInt8", "data", 1, aligned>>>>, FALSE), B(t)>> :
          aligned \in BOOLEAN, t \in {<<>>, <<1, -1>>, <<-2, -2, 1>>}}
  \cup {<<List(0, "Base", <<Leaf(2, "UInt16", "data", 2)>>, FALSE), B(t)>> : t \in {<<3>>, <<1, 4>>, <<15, 0>>}}
  \cup {<<List(0, "Base", Text(2, "data"), FALSE), S(l)>> :
          l \in {<<>>, <<B(<<1>>), B(<<>>)>>, <<B(<<>>), B(<<1>>)>>, <<B(<<1, 2, 3, 1>>), B(<<2>>)>>}}
  \cup {<<List(0, "Base", Bytes(2, "data", TRUE), FALSE), S(l)>> :
          l \in {<<>>, <<B(<<>>)>>, <<B(<<>>), B(<<>>)>>, <<B(<<1>>), B(<<0, 2>>)>>, <<B(<<1, 0>>), B(<<2>>)>>}}
  \cup {<<List(0, "Base", <<<<2, "pair", "data", -1, TRUE>>, Leaf(3, "UInt8", "a", 1),
                            <<3, "SInt8", "b", 1, TRUE>>>>, FALSE), S(l)>> :
          l \in {<<>>, <<B(<<1, -1>>)>>, <<B(<<1, 0>>), B(<<0, 1>>)>>, <<B(<<0, 1>>), B(<<1, 0>>), B(<<3, 1>>)>>}}
  \cup {<<(<<Root, <<1, "pair", "a", -1, TRUE>>, Leaf(2, "UInt8", "a", 1), Leaf(2, "UInt8", "a", 1)>>
           \o Bytes(2, "data", FALSE) \o Bytes(1, "a", FALSE) \o <<Leaf(1, "UInt8", "c", 1)>>),
          S(<<S(<<L(x), L(1), B(t)>>), B(<<2>>), L(3)>>)>> : x \in {1, 2}, t \in {<<>>, <<1>>, <<2, 2>>}}
  \cup {<<(Bytes(0, "Base", FALSE) \o <<Leaf(1, "UInt8", "a", 1)>>), B(<<1, 2>>)>>,
        <<(<<Leaf(0, "UInt64", "Base", 8)>>), L(40000)>>, <<(<<Leaf(0, "UInt64", "Base", 8)>>), L(3)>>}
  \cup {<<(<<Root, <<1, "pair", "a", 4, FALSE>>, <<2, "pair", "b", 0, FALSE>>>> \o Bytes(3, "data", FALSE)),
          S(<<S(<<B(<<1, 2>>)>>)>>)>>}

Rivals(o) == {Build(Literals(p[1]), 1, p[2]) : p \in {p \in Objects : p[1] = o[1]}}
WrittenObjects ==
  {[ObjectCase(Literals(o[1]), o[2], big, <<3>>) EXCEPT !.others = Rivals(o)] : o \in Objects, big \in BOOLEAN}

\* The same bytes with one of the first six replaced, and read from other nodes.
Damaged(c) ==
  {[c EXCEPT !.object[k] = b, !.written = FALSE, !.scarce = FALSE] :
     k \in {k \in DOMAIN c.object : k <= 6}, b \in {0, 3}}
  \cup {[c EXCEPT !.from = DOMAIN c.nodes \cup {99}, !.written = FALSE, !.scarce = FALSE]}

----------------------------------------------------------------------------
(* Trees that differ from a good one in one node. *)

NodeKinds ==
  {<<"Base", "Base", -1>>, <<"Base", "a", -2>>, <<"", "a", -1>>, <<"vector", "", -1>>, <<"UInt8", "data", 1>>, <<"UInt8", "a", 4>>,
   <<"char", "data", 1>>, <<"char", "size", 1>>, <<"int", "size", 4>>, <<"int", "size", 2>>,
   <<"Array", "Array", -1>>, <<"Array", "a", -1>>, <<"Base", "Array", -1>>, <<"Array", "Array", 4>>,
   <<"string", "data", -1>>, <<"string", "a", 4>>}
Good ==
  {<<Root, Leaf(1, "UInt8", "a", 1)>>, <<Root>> \o Bytes(1, "a", FALSE) \o Text(1, "b"),
   Bytes(0, "Base", FALSE) \o <<Leaf(1, "UInt8", "a", 1)>>, List(0, "Base", Text(2, "data"), FALSE)}
Bad == UNION {{[g EXCEPT ![i] = <<level>> \o kind \o <<FALSE>>] :
                 i \in DOMAIN g, level \in 0..3, kind \in NodeKinds} : g \in Good}

Blank == ObjectCase(Literals(<<Root, Leaf(1, "UInt8", "a", 1)>>), S(<<L(1)>>), FALSE, <<>>)
BadObjects ==
  {[Blank EXCEPT !.nodes = Literals(b), !.written = FALSE, !.scarce = FALSE,
                 !.object = <<1, 0, 0, 0, 2, 2, 2, 2, 1>>] : b \in Bad}

----------------------------------------------------------------------------
(* Types in a stream.  Their own table has three names. *)

Own == <<"vector", "a", "b">>
OwnTable == FlattenSeq([k \in DOMAIN Own |-> Append(MCSpell(Own[k]), 0)])
Offset(name) ==
  IF \E k \in 1..CommonCount : MCTreeNames[k] = name
  THEN CommonBit + Len(Texts(1, (CHOOSE k \in 1..CommonCount : MCTreeNames[k] = name) - 1))
  ELSE Len(FlattenSeq([k \in 1..((CHOOSE k \in DOMAIN Own : Own[k] = name) - 1)
                         |-> Append(MCSpell(Own[k]), 0)]))
Stored(x) ==
  [Literal(x) EXCEPT !.typeBits = Offset(x[2]), !.nameBits = Offset(x[3]), !.type = Unnamed,
                     !.name = Unnamed, !.index = x[1], !.opaque = 27]
StoredTree(xs) == [i \in DOMAIN xs |-> Stored(xs[i])]

Hash16 == [k \in 1..16 |-> k % 4]
Simple == <<Root, Leaf(1, "UInt8", "a", 1), Leaf(1, "int", "b", 4)>>
Listed0 == <<Root>> \o Bytes(1, "a", TRUE)
TypeOf(class, script, hashed, xs) ==
  [NoType EXCEPT !.class = class, !.script = script, !.typeHash = Hash16, !.nodes = StoredTree(xs),
                 !.scriptHash = IF hashed THEN Reverse(Hash16) ELSE <<>>, !.table = OwnTable,
                 !.dependencies = <<5, -1>>, !.names = <<<<1, 2>>, <<>>, <<3>>>>]

TypeCase(t, version, hasTree, ref, big) ==
  [Blank EXCEPT !.type = t, !.version = version, !.hasTree = hasTree, !.ref = ref, !.big = big,
                !.bytes = WriteType(t, version, hasTree, ref, big), !.row = RowOf(t, hasTree, big),
                !.nodes = <<>>, !.written = FALSE, !.object = <<2, 1, 0, 0, 0, 3>>]

\* Where the code looks for the hash of a script.
ScriptOf(version, class, script, ref) ==
  IF version < 17 THEN class < 0 ELSE class = 114 \/ (ref /\ script # NoScript)

GoodTypes ==
  {TypeCase(TypeOf(class, script, ScriptOf(version, class, script, ref), xs), version, hasTree, ref, big) :
     class \in {-1, 114, 5}, script \in {2, 15}, version \in {15, 16, 17, 18, 21, 22},
     hasTree \in BOOLEAN, ref \in BOOLEAN, big \in {FALSE}, xs \in {Simple}}
  \cup {TypeCase(TypeOf(114, 1, version > 15, xs), version, TRUE, ref, TRUE) :
           version \in {15, 18, 22}, ref \in BOOLEAN, xs \in {Simple, Listed0}}

\* One thing is wrong, or as small as it may be.
Flaws(t) ==
  {[t EXCEPT !.stripped = n] : n \in {1, 2}} \cup {[t EXCEPT !.dependencies = <<>>]}
  \cup {[t EXCEPT !.nodes[2].typeBits = n] : n \in {0, 1, 3, 5, 60, 128, 129, 128 + Len(MCCommonBytes) - 1, 200}}
  \cup {[t EXCEPT !.nodes[2].nameBits = n] : n \in {1, 2, Len(OwnTable) - 1, Len(OwnTable)}}
  \cup {[t EXCEPT !.nodes[i].level = n] : i \in 1..2, n \in 0..3}
  \cup {[t EXCEPT !.table = SubSeq(@, 1, n)] : n \in {0, 2, Len(OwnTable) - 2, Len(OwnTable) - 1}}
  \cup {[t EXCEPT !.nodes = <<>>], [t EXCEPT !.nodes[2].width = -2], [t EXCEPT !.nodes[2].width = 2]}
FlawedTypes ==
  {[TypeCase(t, version, TRUE, ref, FALSE) EXCEPT !.scarce = t.dependencies = <<>>] :
     t \in Flaws(TypeOf(5, 15, FALSE, Simple)), version \in {21, 22}, ref \in BOOLEAN}

\* The count of nodes, the size of the table, and the first level, overwritten.
CountsAt == 4 + 1 + 2 + 16
OverwrittenTypes ==
  {[TypeCase(TypeOf(5, 15, FALSE, Simple), 22, TRUE, ref, FALSE) EXCEPT !.bytes[k] = b, !.intact = FALSE,
                                                                        !.version = 21] :
     k \in CountsAt + 1 .. CountsAt + 12, b \in 0..3, ref \in BOOLEAN}

MCTreeCases ==
  WrittenObjects \cup UNION {Damaged(c) : c \in WrittenObjects} \cup BadObjects
  \cup GoodTypes \cup FlawedTypes \cup OverwrittenTypes

----------------------------------------------------------------------------
(* The registry and its files, or types and objects. *)

TypesInit ==
  \/ FileInit /\ treeCase = Blank /\ tree = EmptyTree /\ treeValue = NoValue /\ treeHeap = 0
              /\ treeAnswer = [op |-> "files"]
  \/ TreeInit /\ Init /\ handle = [file |-> "types"]

TypesNext ==
  \/ treeAnswer.op = "files" /\ FileNext /\ UNCHANGED treeVars
  \/ treeAnswer.op # "files" /\ TreeNext /\ UNCHANGED fileVars

TypesSpec == TypesInit /\ [][TypesNext]_<<fileVars, treeVars>>

----------------------------------------------------------------------------
(* Settings. *)
SettingsOf(lists, apis) ==
  [NoSettings EXCEPT !.lists = lists, !.guid = [k \in 1..GuidSize |-> k % 4],
                     !.flags = [k \in 1..FlagCount |-> k % 2], !.version = Supported, !.apis = apis]
SomeSettings ==
  {SettingsOf(<<<<<<1, 2>>, <<3>>>>, <<>>, <<<<>>>>, <<>>>>, <<2, -1>>),
   SettingsOf(<<<<>>, <<<<1, 1, 1, 1>>>>, <<>>, <<<<2>>>>>>, <<>>)}

MCEarlier ==
  {NoSettings} \cup {[s EXCEPT !.decoded = TRUE, !.pathId = 9, !.versionHeld = Len(Supported) + 1,
                               !.apisHeld = WordSize * Len(s.apis)] : s \in SomeSettings}

Type141 == [class |-> BuildSettings, ref |-> FALSE, script |-> NoScriptIndex, stripped |-> FALSE,
            scripted |-> FALSE, hash |-> TypeHash]
Object141(offset, size) ==
  [class |-> BuildSettings, type |-> 0, script |-> NoScriptIndex, offset |-> offset, size |-> size, pathId |-> 7]
Other1 == [class |-> 1, type |-> 0, script |-> NoScriptIndex, offset |-> 0, size |-> 2, pathId |-> 3]

SettingsFile(bytes, big) ==
  [readable |-> TRUE, sound |-> TRUE, version |-> FileVersion, unity |-> Supported, big |-> big,
   types |-> <<Type141>>, objects |-> <<Other1, Object141(2, Len(bytes))>>, data |-> <<3, 3>> \o bytes \o <<2>>]
SettingsCase(file, written) == [file |-> file, written |-> written]

WholeFiles == {SettingsFile(WriteSettings(s, big), big) : s \in SomeSettings, big \in BOOLEAN}
WrongTypes ==
  {[Type141 EXCEPT !.class = 1], [Type141 EXCEPT !.ref = TRUE], [Type141 EXCEPT !.script = 2],
   [Type141 EXCEPT !.stripped = TRUE], [Type141 EXCEPT !.scripted = TRUE], [Type141 EXCEPT !.hash = "other"]}
WrongFiles(f) ==
  {[f EXCEPT !.readable = FALSE], [f EXCEPT !.sound = FALSE], [f EXCEPT !.version = 21],
   [f EXCEPT !.unity = <<2, 1>>], [f EXCEPT !.objects = <<Other1>>],
   [f EXCEPT !.objects = @ \o <<@[2]>>], [f EXCEPT !.types = <<>>]}
  \cup {[f EXCEPT !.types[1] = t] : t \in WrongTypes}
  \cup {[f EXCEPT !.objects[2].script = 2, !.types[1].script = 2]}
  \cup {[f EXCEPT !.objects[2].type = k] : k \in {-1, 1}}
  \cup {[f EXCEPT !.objects[2].size = k] : k \in {0, 3} \cup {f.objects[2].size + d : d \in {-4, -1, 1, 2}}}
  \cup {[f EXCEPT !.objects[2].offset = k] : k \in {1, 3, Len(f.data), Len(f.data) + 1}}

\* One byte of the object is another one, or it ends early.
DamagedFiles(f) ==
  {[f EXCEPT !.data[k] = b] : k \in 3 .. Len(f.data) - 1, b \in 0..3}
  \cup {SettingsFile(SubSeq(f.data, 3, 2 + n), f.big) : n \in 1..f.objects[2].size}

MCSettingsCases ==
  {SettingsCase(f, TRUE) : f \in WholeFiles}
  \cup {SettingsCase(f, FALSE) : f \in UNION {WrongFiles(g) \cup DamagedFiles(g) : g \in WholeFiles} \ WholeFiles}

----------------------------------------------------------------------------
(* The registry and its files, types and objects, or settings. *)

InSettings == treeAnswer.op = "settings"

BuildInit ==
  /\ SettingsInit
  /\ \/ settings = NoSettings /\ TypesInit
     \/ /\ Init /\ handle = [file |-> "types"]
        /\ treeCase = Blank /\ tree = EmptyTree /\ treeValue = NoValue /\ treeHeap = 0
        /\ treeAnswer = [op |-> "settings"]

BuildNext ==
  \/ ~InSettings /\ TypesNext /\ UNCHANGED settingsVars
  \/ InSettings /\ SettingsNext /\ UNCHANGED <<fileVars, treeVars>>

BuildSpec == BuildInit /\ [][BuildNext]_<<fileVars, treeVars, settingsVars>>
=============================================================================

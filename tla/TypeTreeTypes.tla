---------------------------- MODULE TypeTreeTypes ----------------------------
(* src/src/io/typetree.c, types: the tree of a type read from a stream, or made
   from the rows of a directory or a metadata tail, its names bound to their
   bytes, and the grammar that it must obey before values are read with it.

   Nodes and bytes count from 1.  A string is the sequence of its bytes; names
   are written in digits, so that any part of a stream can be read as any
   other.  The bit 0x4000 of the flags is AlignBit, and the most significant
   bit of an offset selects the common table. *)
EXTENDS ByteStream

LOCAL INSTANCE SequencesExt

CONSTANTS
  Spell(_),      (* the bytes of a name *)
  CommonBytes,   (* g_common_string_table *)
  NodeSize,      (* sizeof(TypeTreeNode) *)
  MonoBehaviour  (* 114 *)

AlignBit == 64
CommonBit == Radix ^ 4 \div 2
NoScript == Radix ^ 2 - 1   \* 0xffff
IntMax == Radix ^ 4 \div 2 - 1

Spelled(names) == {Spell(n) : n \in names}
Wide1 == Spelled({"SInt8", "UInt8", "bool", "char"})
Wide2 == Spelled({"SInt16", "UInt16", "short", "unsigned short"})
Wide4 == Spelled({"SInt32", "UInt32", "int", "unsigned int", "RenderingLayerMask",
                  "Type*", "BitField", "float"})
Wide8 == Spelled({"SInt64", "UInt64", "long long", "unsigned long long", "FileSize", "double"})

\* scalar_wire_size; 0 for other types.
WireSize(type) ==
  CASE type \in Wide1 -> 1 [] type \in Wide2 -> 2 [] type \in Wide4 -> 4 [] type \in Wide8 -> 8
    [] OTHER -> 0

HasChildren(nodes, i) == i < Len(nodes) /\ nodes[i + 1].level > nodes[i].level

\* The first node behind the subtree of node i.
SubtreeEnd(nodes, i) ==
  CHOOSE end \in i + 1 .. Len(nodes) + 1 :
    /\ \A j \in i + 1 .. end - 1 : nodes[j].level > nodes[i].level
    /\ end <= Len(nodes) => nodes[end].level <= nodes[i].level

Is(node, type, name) == node.type = Spell(type) /\ node.name = Spell(name)
Marked(node) == node.type = Spell("Array") \/ node.name = Spell("Array")

\* The extent of an array checked by its first two children only.
ValidArrayOpen(nodes, i) ==
  /\ Is(nodes[i], "Array", "Array") /\ nodes[i].width = -1
  /\ i > 1 /\ nodes[i - 1].level + 1 = nodes[i].level /\ i + 2 <= Len(nodes)
  /\ \A j \in {i + 1, i + 2} : nodes[j].level = nodes[i].level + 1
  /\ Is(nodes[i + 1], "int", "size") /\ nodes[i + 1].width = 4 /\ ~HasChildren(nodes, i + 1)
  /\ nodes[i + 2].name = Spell("data")

ValidArray(nodes, i) ==
  /\ Is(nodes[i], "Array", "Array") /\ nodes[i].width = -1
  /\ i > 1 /\ nodes[i - 1].level + 1 = nodes[i].level /\ i + 2 <= Len(nodes)
  /\ LET size == nodes[i + 1]
         data == nodes[i + 2]
     IN /\ size.level = nodes[i].level + 1 /\ data.level = nodes[i].level + 1
        /\ Is(size, "int", "size") /\ size.width = 4 /\ ~HasChildren(nodes, i + 1)
        /\ data.name = Spell("data")
        /\ SubtreeEnd(nodes, i + 2) = SubtreeEnd(nodes, i)
        /\ nodes[i - 1].type = Spell("string") =>
             data.type = Spell("char") /\ data.width = 1 /\ ~HasChildren(nodes, i + 2)

ValidNode(nodes, i) ==
  LET node == nodes[i]
      inner == HasChildren(nodes, i)
  IN /\ node.type # <<>> /\ node.name # <<>> /\ node.width >= -1
     /\ IF i = 1 THEN node.level = 0 ELSE node.level \in 1..(nodes[i - 1].level + 1)
     /\ WireSize(node.type) # 0 => ~inner /\ node.width = WireSize(node.type)
     /\ Marked(node) => ValidArray(nodes, i)
     /\ IF node.type = Spell("string")
        THEN node.width = -1 /\ inner /\ ValidArray(nodes, i + 1)
        ELSE IF inner THEN Marked(nodes[i + 1]) => ValidArray(nodes, i + 1)
        ELSE WireSize(node.type) # 0 \/ node.type = Spell("Array")

ValidSchema(nodes) == nodes # <<>> /\ \A i \in DOMAIN nodes : ValidNode(nodes, i)

----------------------------------------------------------------------------
(* Names. *)

Unnamed == <<-1>>   \* NULL

NameIn(table, at) ==
  IF at < Len(table) /\ (at > 0 => table[at] = 0) /\ \E j \in at + 1 .. Len(table) : table[j] = 0
  THEN LET end == CHOOSE j \in at + 1 .. Len(table) :
                    table[j] = 0 /\ \A k \in at + 1 .. j - 1 : table[k] # 0
       IN SubSeq(table, at + 1, end - 1)
  ELSE Unnamed

ResolveName(table, offset) ==
  IF offset >= CommonBit THEN NameIn(CommonBytes, offset - CommonBit) ELSE NameIn(table, offset)

\* Every offset is resolved before any name is bound.
BindNames(tree) ==
  LET Resolves(n) == /\ ResolveName(tree.table, n.typeBits) # Unnamed
                     /\ ResolveName(tree.table, n.nameBits) # Unnamed
  IN IF tree.nodes # <<>> /\ \A i \in DOMAIN tree.nodes : Resolves(tree.nodes[i])
     THEN [ok |-> TRUE,
           tree |-> [tree EXCEPT !.nodes =
             [i \in DOMAIN tree.nodes |->
               [tree.nodes[i] EXCEPT !.type = ResolveName(tree.table, tree.nodes[i].typeBits),
                                     !.name = ResolveName(tree.table, tree.nodes[i].nameBits)]]]]
     ELSE [ok |-> FALSE, tree |-> tree]

----------------------------------------------------------------------------
(* The type itself.  Of the names of a reference type those read so far are
   there; held names the other parts that are in an allocation. *)

EmptyTree ==
  [class |-> 0, stripped |-> FALSE, script |-> 0, scriptHash |-> <<>>, typeHash |-> <<>>,
   ref |-> FALSE, nodes |-> <<>>, count |-> 0, table |-> <<>>, tableSize |-> 0,
   dependencies |-> <<>>, dependencyCount |-> 0, names |-> <<>>, held |-> {}]

\* strlen.
TextLength(bytes) == CHOOSE n \in 0..Len(bytes) :
  /\ \A k \in 1..n : bytes[k] # 0
  /\ n < Len(bytes) => bytes[n + 1] = 0

\* typetree_free_type: every size is computed again from the type.
FreeTree(s, tree) ==
  LET Part(name, size) == IF name \in tree.held THEN size ELSE 0
  IN [s |-> Release(s, Part("nodes", tree.count * NodeSize) + Part("table", tree.tableSize)
                       + Part("dependencies", 4 * tree.dependencyCount)
                       + FoldLeft(LAMBDA n, name : n + TextLength(name) + 1, 0, tree.names)),
      tree |-> [tree EXCEPT !.nodes = <<>>, !.count = 0, !.table = <<>>, !.tableSize = 0,
                            !.dependencies = <<>>, !.dependencyCount = 0, !.names = <<>>,
                            !.held = {}]]

ReadNode(s, version) ==
  Using(TakeNumbers(s, <<2, 1, 1, 4, 4, 4, 4, 4>>), LAMBDA q :
    Using(IF version >= 18 THEN TakeBytes(q.s, 8) ELSE q.s, LAMBDA last :
      [s |-> last,
       node |-> [edition |-> q.numbers[1], level |-> q.numbers[2], flags |-> q.numbers[3],
                 typeBits |-> q.numbers[4], nameBits |-> q.numbers[5], type |-> Unnamed,
                 name |-> Unnamed, width |-> SignedOf(q.numbers[6], 4), index |-> q.numbers[7],
                 meta |-> q.numbers[8],
                 opaque |-> IF version >= 18 THEN NumberOf(last.bytes, FALSE) ELSE 0]]))

ReadNodes(r, version, count) ==
  LET size == IF version >= 18 THEN 32 ELSE 24
      a == Allocate(r.s, count * NodeSize)
      Next(q, i) ==
        IF ~q.s.ok THEN q
        ELSE LET n == ReadNode(q.s, version)
                 deep == IF i = 1 THEN 0 ELSE q.tree.nodes[i - 1].level + 1
             IN IF n.s.ok /\ n.node.level <= deep
                THEN [s |-> n.s, tree |-> [q.tree EXCEPT !.nodes = Append(@, n.node)]]
                ELSE [q EXCEPT !.s = Fail(@)]
      Counted == [r.tree EXCEPT !.count = count]
  IN IF count = 0 \/ count > IntMax \/ count > Remaining(r.s) \div size THEN [r EXCEPT !.s = Fail(@)]
     ELSE IF ~a.ok THEN [s |-> a, tree |-> Counted]
     ELSE FoldLeft(Next, [s |-> a, tree |-> [Counted EXCEPT !.held = @ \cup {"nodes"}]],
                   [i \in 1..count |-> i])

ReadTable(r, size) ==
  LET a == Allocate(r.s, size)
      t == TakeBytes(a, size)
      tree == [r.tree EXCEPT !.tableSize = size]
  IN IF ~r.s.ok THEN r
     ELSE IF size = 0 THEN [r EXCEPT !.tree = tree]
     ELSE IF size > Remaining(r.s) THEN [s |-> Fail(r.s), tree |-> tree]
     ELSE [s |-> t, tree |-> IF a.ok THEN [tree EXCEPT !.table = t.bytes, !.held = @ \cup {"table"}]
                             ELSE tree]

ReadTree(r, version, count, size) ==
  Using(ReadTable(ReadNodes(r, version, count), size), LAMBDA t :
    LET bound == BindNames(t.tree)
    IN IF ~t.s.ok THEN t
       ELSE [s |-> IF bound.ok THEN t.s ELSE Fail(t.s), tree |-> bound.tree])

ReadDependencies(r, count) ==
  LET a == Allocate(r.s, 4 * count)
      Next(q, i) ==
        LET t == TakeNumber(q.s, 4)
        IN [s |-> t, tree |-> IF t.ok
                              THEN [q.tree EXCEPT !.dependencies = Append(@, SignedOf(t.number, 4))]
                              ELSE q.tree]
      Counted == [r.tree EXCEPT !.dependencyCount = count]
  IN IF ~r.s.ok \/ count > IntMax \/ count > Remaining(r.s) \div 4 THEN [r EXCEPT !.s = Fail(@)]
     ELSE IF count = 0 \/ ~a.ok THEN [s |-> IF count = 0 THEN r.s ELSE a, tree |-> Counted]
     ELSE FoldLeft(Next, [s |-> a, tree |-> [Counted EXCEPT !.held = @ \cup {"dependencies"}]],
                   [i \in 1..count |-> i])

ReadName(r) ==
  LET t == TakeText(r.s)
  IN [s |-> t, tree |-> IF t.ok THEN [r.tree EXCEPT !.names = Append(@, t.bytes)] ELSE r.tree]

\* A reader that frees only what the grammar rejects.
JudgeGrammar(r) ==
  IF ~r.s.ok \/ ValidSchema(r.tree.nodes) THEN r
  ELSE LET f == FreeTree(r.s, r.tree) IN [s |-> Fail(f.s), tree |-> f.tree]

\* The last steps of all three: a tree is there, and it obeys the grammar.
Judge(r) ==
  IF r.s.ok /\ ValidSchema(r.tree.nodes) THEN r
  ELSE LET f == FreeTree(r.s, r.tree) IN [s |-> Fail(f.s), tree |-> f.tree]

ReadTrailer(r, version, ref) ==
  IF ~r.s.ok \/ version < 21 THEN r
  ELSE IF ref THEN ReadName(ReadName(ReadName(r)))
  ELSE LET count == TakeNumber(r.s, 4)
       IN ReadDependencies([r EXCEPT !.s = count], count.number)

\* Class, whether it is stripped, and script; later versions have more of them.
ReadKind(start, version, ref) ==
  Using(TakeNumber(start, 4), LAMBDA class :
    Using(IF version >= 16 THEN TakeNumber(class, 1) ELSE class, LAMBDA stripped :
      Using(IF version >= 16 /\ stripped.number > 1 THEN Fail(stripped)
           ELSE IF version >= 17 THEN TakeNumber(stripped, 2) ELSE stripped, LAMBDA script :
        [s |-> script,
         tree |-> [EmptyTree EXCEPT !.class = SignedOf(class.number, 4), !.ref = ref,
                                    !.stripped = version >= 16 /\ stripped.number = 1,
                                    !.script = IF version >= 17 THEN script.number ELSE NoScript]])))

\* The hash of a script only where there is one, and the hash of the type.
ReadHashes(r, version) ==
  LET hashed == \/ version < 17 /\ r.tree.class < 0
                \/ version >= 17 /\ r.tree.class = MonoBehaviour
                \/ r.tree.ref /\ r.tree.script # NoScript
  IN Using(IF hashed THEN TakeBytes(r.s, 16) ELSE r.s, LAMBDA first :
       Using(TakeBytes(first, 16), LAMBDA second :
         [s |-> second,
          tree |-> IF second.ok
                   THEN [r.tree EXCEPT !.scriptHash = IF hashed THEN first.bytes ELSE <<>>,
                                       !.typeHash = second.bytes]
                   ELSE EmptyTree]))

ReadType(start, version, hasTree, ref) ==
  Using(ReadHashes(ReadKind(start, version, ref), version), LAMBDA r :
    IF ~r.s.ok \/ ~hasTree THEN r
    ELSE Using(TakeNumbers(r.s, <<4, 4>>), LAMBDA q :
      IF ~q.s.ok THEN [s |-> q.s, tree |-> EmptyTree]
      ELSE Judge(ReadTrailer(ReadTree([s |-> q.s, tree |-> r.tree], version,
                                      q.numbers[1], q.numbers[2]), version, ref))))

----------------------------------------------------------------------------
(* A row of a directory or a metadata tail has the same parts as spans. *)

CopyText(r, bytes) ==
  LET a == Allocate(r.s, Len(bytes))
  IN IF ~r.s.ok \/ bytes = <<>> \/ bytes[Len(bytes)] # 0 THEN [r EXCEPT !.s = Fail(@)]
     ELSE IF ~a.ok THEN [r EXCEPT !.s = a]
     ELSE [s |-> a, tree |-> [r.tree EXCEPT !.names = Append(@, Front(bytes))]]

\* The stream of a span starts anew, over the same heap.
Over(s, bytes) == [s EXCEPT !.data = bytes, !.at = 0]
UsedUp(r) == IF r.s.ok /\ Remaining(r.s) > 0 THEN [r EXCEPT !.s = Fail(@)] ELSE r

MaterializeType(row, ref, big, memory) ==
  LET s == OpenStream(row.nodes \o row.strings, big, memory)
      tree == [EmptyTree EXCEPT !.class = SignedOf(row.class, 4), !.stripped = row.stripped = 1,
                                !.script = row.script, !.scriptHash = row.scriptHash,
                                !.typeHash = row.typeHash, !.ref = ref]
      Trailed(t) == IF ~t.s.ok THEN t
                    ELSE IF ref THEN FoldLeft(CopyText, t, row.names)
                    ELSE UsedUp(ReadDependencies([t EXCEPT !.s = Over(@, row.dependencies)],
                                                 row.dependencyCount))
  IN IF row.stripped > 1 THEN [s |-> Fail(s), tree |-> EmptyTree]
     ELSE IF ~row.hasTree THEN [s |-> s, tree |-> tree]
     ELSE Using(Judge(Trailed(UsedUp(ReadTree([s |-> s, tree |-> tree], 22, row.count, row.size)))),
               LAMBDA r : IF r.s.ok THEN r ELSE [r EXCEPT !.tree = EmptyTree])
=============================================================================

--------------------------- MODULE TypeTreeReading ---------------------------
(* A caller that reads the tree of a type, or makes it from the rows of a
   directory or a metadata tail, reads an object with it in each of the three
   ways that bytes can be kept, and frees what it holds.  Streams end early,
   and allocations fail. *)
EXTENDS TypeTreeValues

LOCAL INSTANCE SequencesExt
LOCAL INSTANCE FiniteSetsExt

(* A case has a type that was written, [type, version, hasTree, ref, big, bytes,
   row], or nodes that are there already; and the bytes of an object of that
   type, with its value where it was written for one, and other values of the
   type. *)
CONSTANTS TreeCases, MaxMemory

VARIABLES
  treeCase,
  tree,       (* the type the caller holds *)
  treeValue,  (* the value it holds *)
  treeHeap,   (* bytes in allocations *)
  treeAnswer  (* the call that was just made, and its result *)

treeVars == <<treeCase, tree, treeValue, treeHeap, treeAnswer>>

NothingAsked == [op |-> "none"]

TreeInit ==
  /\ treeCase \in TreeCases
  /\ tree = EmptyTree /\ treeValue = NoValue /\ treeHeap = 0
  /\ treeAnswer = NothingAsked

\* All of the bytes and too little memory, or enough of it and too few bytes.
Shortages(bytes) ==
  IF ~treeCase.scarce THEN {[cut |-> Len(bytes), memory |-> MaxMemory]} ELSE
  {[cut |-> Len(bytes), memory |-> m] : m \in 0..MaxMemory}
  \cup {[cut |-> n, memory |-> MaxMemory] : n \in 0..Len(bytes)}
Stream(bytes, short) == OpenStream(SubSeq(bytes, 1, short.cut), treeCase.big, short.memory)

HoldType(op, short, r) ==
  /\ tree' = IF r.s.ok THEN r.tree ELSE tree
  /\ treeHeap' = treeHeap + r.s.held
  /\ treeAnswer' = [op |-> op, short |-> short, result |-> r]
  /\ UNCHANGED <<treeCase, treeValue>>

AskReadType ==
  /\ treeAnswer = NothingAsked /\ tree = EmptyTree /\ treeCase.nodes = <<>>
  /\ \E short \in Shortages(treeCase.bytes) :
       HoldType("read", short, ReadType(Stream(treeCase.bytes, short), treeCase.version,
                                        treeCase.hasTree, treeCase.ref))

AskMaterializeType ==
  /\ treeAnswer = NothingAsked /\ tree = EmptyTree /\ treeCase.nodes = <<>>
  /\ treeCase.version = 22
  /\ \E memory \in 0..MaxMemory :
       HoldType("materialize", [cut |-> Len(treeCase.bytes), memory |-> memory],
                MaterializeType(treeCase.row, treeCase.ref, treeCase.big, memory))

NodesHeld == IF treeCase.nodes = <<>> THEN tree.nodes ELSE treeCase.nodes

AskParseValue ==
  /\ treeAnswer = NothingAsked /\ treeValue = NoValue
  /\ \E flags \in Flags, i \in {1} \cup treeCase.from, short \in Shortages(treeCase.object) :
       /\ i > 1 => short.cut = Len(treeCase.object)
       /\ LET r == ParseValue(NodesHeld, i, Stream(treeCase.object, short), flags)
          IN /\ treeValue' = IF r.s.ok THEN r.value ELSE treeValue
             /\ treeHeap' = treeHeap + r.s.held
             /\ treeAnswer' = [op |-> "parse", short |-> short, flags |-> flags, from |-> i, result |-> r]
  /\ UNCHANGED <<treeCase, tree>>

FreeValue ==
  /\ treeAnswer = NothingAsked /\ treeValue # NoValue
  /\ treeValue' = NoValue
  /\ treeHeap' = treeHeap - SizeOf(treeValue)
  /\ UNCHANGED <<treeCase, tree, treeAnswer>>

\* A value borrows its names from the type.
FreeType ==
  /\ treeAnswer = NothingAsked /\ tree # EmptyTree /\ treeValue = NoValue
  /\ tree' = EmptyTree
  /\ treeHeap' = treeHeap + FreeTree(OpenStream(<<>>, FALSE, 0), tree).s.held
  /\ UNCHANGED <<treeCase, treeValue, treeAnswer>>

GoOn ==
  /\ treeAnswer # NothingAsked
  /\ treeAnswer' = NothingAsked
  /\ UNCHANGED <<treeCase, tree, treeValue, treeHeap>>

TreeNext ==
  \/ AskReadType \/ AskMaterializeType \/ AskParseValue \/ FreeValue \/ FreeType \/ GoOn

----------------------------------------------------------------------------
(* The programs that wrote the bytes. *)

Bit(flag) == IF flag THEN 1 ELSE 0

WriteNodeRow(n, version, big) ==
  Digits(n.edition, 2, big) \o <<n.level, n.flags>> \o Digits(n.typeBits, 4, big)
  \o Digits(n.nameBits, 4, big) \o Digits(n.width, 4, big) \o Digits(n.index, 4, big)
  \o Digits(n.meta, 4, big) \o (IF version < 18 THEN <<>> ELSE Digits(n.opaque, 8, FALSE))

WriteNodes(t, version, big) == FlattenSeq([i \in DOMAIN t.nodes |-> WriteNodeRow(t.nodes[i], version, big)])
WriteWords(words, big) == FlattenSeq([i \in DOMAIN words |-> Digits(words[i], 4, big)])
WriteNames(t) == FlattenSeq([i \in DOMAIN t.names |-> Append(t.names[i], 0)])

WriteType(t, version, hasTree, ref, big) ==
  Digits(t.class, 4, big)
  \o (IF version < 16 THEN <<>> ELSE <<t.stripped>>)
  \o (IF version < 17 THEN <<>> ELSE Digits(t.script, 2, big))
  \o t.scriptHash \o t.typeHash
  \o (IF ~hasTree THEN <<>>
      ELSE Digits(Len(t.nodes), 4, big) \o Digits(Len(t.table), 4, big)
           \o WriteNodes(t, version, big) \o t.table
           \o (IF version < 21 THEN <<>>
               ELSE IF ref THEN WriteNames(t)
               ELSE Digits(Len(t.dependencies), 4, big) \o WriteWords(t.dependencies, big)))

\* What a directory or a tail retains of the same type.
RowOf(t, hasTree, big) ==
  [class |-> t.class % (Radix ^ 4), stripped |-> t.stripped, script |-> t.script,
   scriptHash |-> t.scriptHash, typeHash |-> t.typeHash, hasTree |-> hasTree,
   nodes |-> WriteNodes(t, 22, big), strings |-> t.table, count |-> Len(t.nodes), size |-> Len(t.table),
   dependencies |-> WriteWords(t.dependencies, big), dependencyCount |-> Len(t.dependencies),
   names |-> [i \in DOMAIN t.names |-> Append(t.names[i], 0)]]

\* A value under its node, behind what is already written; padding may be anything.
Anything == -1
Padded(out, aligned) ==
  IF aligned THEN out \o [k \in 1..((4 - (Len(out) % 4)) % 4) |-> Anything] ELSE out

Kids(nodes, i) == {j \in DOMAIN nodes : j > i /\ nodes[j].level = nodes[i].level + 1
                                        /\ \A k \in i + 1 .. j : nodes[k].level > nodes[i].level}

RECURSIVE WriteValue(_, _, _, _, _, _)
WriteValue(nodes, i, v, out, element, big) ==
  LET kids == SetToSortSeq(Kids(nodes, i), <)
      count == Digits(Len(v.parts), 4, big)
      own == Aligns(nodes[i]) /\ ~element
  IN IF kids = <<>> THEN Padded(out \o Digits(v.number, nodes[i].width, big), own)
     ELSE IF v.kind = "STRING" THEN Padded(out \o Digits(Len(v.bytes), 4, big) \o v.bytes, TRUE)
     ELSE IF v.kind = "ARRAY"
     THEN LET data == CHOOSE j \in Kids(nodes, kids[1]) : nodes[j].name = Spell("data")
          IN Padded(FoldLeft(LAMBDA o, w : WriteValue(nodes, data, w, o, TRUE, big), out \o count, v.parts),
                    own \/ Aligns(nodes[data]) \/ Aligns(nodes[kids[1]]))
     ELSE Padded(FoldLeft(LAMBDA o, k : WriteValue(nodes, kids[k], v.parts[k], o, FALSE, big), out,
                          [k \in DOMAIN kids |-> k]), own)

Agrees(bytes, pattern) ==
  /\ Len(bytes) >= Len(pattern)
  /\ \A k \in DOMAIN pattern : pattern[k] \in {Anything, bytes[k]}

\* A value however it is kept, as if each byte of an array had a value of its own.
RECURSIVE Expanded(_)
Expanded(v) ==
  IF v.storage = "PACKED"
  THEN [v EXCEPT !.storage = "VALUES", !.owned = FALSE, !.bytes = <<>>,
                 !.parts = [k \in DOMAIN v.bytes |->
                   [NoValue EXCEPT !.kind = "INT", !.unsigned = TRUE, !.number = v.bytes[k],
                                   !.name = Spell("data"), !.type = Spell("UInt8")]]]
  ELSE [v EXCEPT !.parts = [k \in DOMAIN v.parts |-> Expanded(v.parts[k])]]

----------------------------------------------------------------------------
(* Which types may be had. *)

Parent(nodes, i) == Max({j \in 1 .. i - 1 : nodes[j].level < nodes[i].level})
FirstKid(nodes, i) == Min(Kids(nodes, i))

\* The grammar, over the tree and not over its preorder.
Grammar(nodes) ==
  LET Leaf(i) == Kids(nodes, i) = {}
      Array(i) == /\ Is(nodes[i], "Array", "Array") /\ nodes[i].width = -1
                  /\ i # 1 /\ FirstKid(nodes, Parent(nodes, i)) = i
                  /\ \E size, data \in Kids(nodes, i) :
                       /\ size < data /\ Kids(nodes, i) = {size, data}
                       /\ Is(nodes[size], "int", "size") /\ Leaf(size)
                       /\ nodes[data].name = Spell("data")
      Text(i) == /\ nodes[i].width = -1 /\ ~Leaf(i) /\ Marked(nodes[FirstKid(nodes, i)])
                 /\ \E data \in Kids(nodes, FirstKid(nodes, i)) :
                      nodes[data].type = Spell("char") /\ Leaf(data)
  IN /\ nodes # <<>> /\ {i \in DOMAIN nodes : nodes[i].level = 0} = {1}
     /\ \A i \in DOMAIN nodes \ {1} : nodes[Parent(nodes, i)].level = nodes[i].level - 1
     /\ \A i \in DOMAIN nodes :
          /\ nodes[i].type # <<>> /\ nodes[i].name # <<>> /\ nodes[i].width >= -1
          /\ Marked(nodes[i]) => Array(i)
          /\ IF WireSize(nodes[i].type) > 0
             THEN Leaf(i) /\ nodes[i].width = WireSize(nodes[i].type)
             ELSE ~Leaf(i)
          /\ nodes[i].type = Spell("string") => Text(i)

\* The bytes of a table that an offset names, if it names the start of a text.
Named(t, bits) ==
  LET table == IF bits < CommonBit THEN t.table ELSE CommonBytes
      at == bits % CommonBit
      texts == {b \in 0 .. Len(table) - 1 : b = 0 \/ table[b] = 0}
      ends == {j \in DOMAIN table : j > at /\ table[j] = 0}
  IN IF at \in texts /\ ends # {} THEN SubSeq(table, at + 1, Min(ends) - 1) ELSE Unnamed

NodesOf(t) ==
  [i \in DOMAIN t.nodes |-> [t.nodes[i] EXCEPT !.type = Named(t, t.nodes[i].typeBits),
                                               !.name = Named(t, t.nodes[i].nameBits)]]

Obtainable(c) ==
  /\ c.version >= 16 => c.type.stripped \in 0..1
  /\ c.hasTree =>
       /\ \A i \in DOMAIN c.type.nodes : Unnamed \notin {NodesOf(c.type)[i].type, NodesOf(c.type)[i].name}
       /\ Grammar(NodesOf(c.type))

\* Allocations of a type: its nodes, its table, and what follows them.
Pieces(c) ==
  IF ~c.hasTree THEN 0
  ELSE 1 + Bit(c.type.table # <<>>)
       + (IF c.version < 21 THEN 0 ELSE IF c.ref THEN 3 ELSE Bit(c.type.dependencies # <<>>))

Carries(t, c) ==
  /\ t.class = c.type.class /\ t.typeHash = c.type.typeHash /\ t.ref = c.ref
  /\ t.script = IF c.version < 17 THEN NoScript ELSE c.type.script
  /\ t.stripped = (c.version >= 16 /\ c.type.stripped = 1)
  /\ t.scriptHash = c.type.scriptHash
  /\ t.nodes = IF ~c.hasTree THEN <<>>
               ELSE [i \in DOMAIN c.type.nodes |->
                       [NodesOf(c.type)[i] EXCEPT !.opaque = IF c.version < 18 THEN 0 ELSE @]]
  /\ t.dependencies = IF c.hasTree /\ ~c.ref /\ c.version >= 21 THEN c.type.dependencies ELSE <<>>
  /\ t.names = IF c.hasTree /\ c.ref /\ c.version >= 21 THEN c.type.names ELSE <<>>

Reads == treeAnswer.op \in {"read", "materialize"}

(* Both ways to a type give the type that was written, with every name bound
   to its bytes, if all of it is there, its tree obeys the grammar and there
   is memory; or nothing.  Whatever was read, failed half way or was freed, the
   heap holds what the caller holds: each part is freed with the size it was
   allocated with. *)
TypesExact ==
  /\ treeHeap = SizeOf(treeValue) - FreeTree(OpenStream(<<>>, FALSE, 0), tree).s.held
  /\ Reads =>
       LET c == treeCase
           r == treeAnswer.result
       IN IF c.intact
          THEN /\ r.s.ok <=> /\ Obtainable(c) /\ treeAnswer.short.memory >= Pieces(c)
                             /\ treeAnswer.short.cut = Len(c.bytes)
               /\ r.s.ok => Carries(r.tree, c) /\ (treeAnswer.op = "read" => r.s.at = Len(c.bytes))
          ELSE r.s.ok /\ treeAnswer.op = "read" => r.tree.nodes = <<>> \/ Grammar(r.tree.nodes)

----------------------------------------------------------------------------
(* What the bytes of an object mean. *)

RECURSIVE AllocationsOf(_, _)
AllocationsOf(v, flags) ==
  IF v.kind = "STRING" THEN 1
  ELSE IF v.parts = <<>> THEN 0
  ELSE IF flags # "DEFAULT" /\ v.kind = "ARRAY" /\ v.parts[1].type = Spell("UInt8")
  THEN Bit(flags = "PACK")
  ELSE FoldLeft(LAMBDA n, w : n + AllocationsOf(w, flags), 1, v.parts)

(* Exactly what was written for a value is read as that value, whichever way
   its bytes are kept and whatever the padding holds; a cut or an allocation
   that fails leaves nothing behind.  Of other bytes, what is accepted says
   what the value says; and as every element takes a byte at least, a count
   never allocates out of proportion to the bytes that are there. *)
ParsedAsWritten ==
  treeAnswer.op = "parse" =>
    LET c == treeCase
        r == treeAnswer.result
        short == treeAnswer.short
        Expected == WriteValue(NodesHeld, treeAnswer.from, Expanded(r.value), <<>>, FALSE, c.big)
        Whole == WriteValue(NodesHeld, 1, c.value, <<>>, FALSE, c.big)
    IN /\ ValidSchema(NodesHeld) <=> Grammar(NodesHeld)
       /\ r.s.ok => r.s.at = Len(Expected) /\ Agrees(SubSeq(c.object, 1, r.s.at), Expected)
       /\ ~r.s.ok => r.s.held = 0
       /\ NodesHeld # <<>> =>
            r.s.peak <= (Max({NodesHeld[i].level : i \in DOMAIN NodesHeld}) + 1)
                        * (ValueSize + 1) * (Len(c.object) + 1)
       /\ c.written /\ treeAnswer.from = 1 =>
            /\ r.s.ok <=> /\ Grammar(NodesHeld) /\ treeAnswer.flags \in {"DEFAULT", "PACK", "BORROW"}
                          /\ short.cut >= Len(Whole)
                          /\ short.memory >= AllocationsOf(c.value, treeAnswer.flags)
            /\ r.s.ok => Expanded(r.value) = c.value

RECURSIVE Below(_)
\* The values in a value with their paths; of two with one name the first.
Below(v) ==
  IF v.kind # "STRUCT" THEN {}
  ELSE UNION {LET name == v.parts[k].name
              IN {<<name, v.parts[k]>>}
                 \cup {<<name \o <<0>> \o b[1], b[2]>> : b \in Below(v.parts[k])}
              : k \in {k \in DOMAIN v.parts : \A j \in 1 .. k - 1 : v.parts[j].name # v.parts[k].name}}

AskedAlike(v, w) ==
  LET n == Len(w.parts)
  IN /\ Expanded(v) = w /\ GetInt(v) = GetInt(w) /\ GetUint(v) = GetUint(w)
     /\ (GetArray(v) = <<>>) = (GetArray(w) = <<>>)
     /\ w.kind = "ARRAY" =>
          /\ \A k \in 0 .. n + 1 : /\ ArrayGet(v, k, GetInt) = ArrayGet(w, k, GetInt)
                                   /\ ArrayGet(v, k, GetUint) = ArrayGet(w, k, GetUint)
          /\ \A o, m \in 0 .. n + 1 : CopyBytes(v, o, m) = CopyBytes(w, o, m)
          /\ ByteSpan(v) # <<>> => ByteSpan(v) = CopyBytes(w, 0, n)

RECURSIVE Nodes(_)
Nodes(v) == FoldLeft(LAMBDA n, w : n + Nodes(w), 1, v.parts)
RECURSIVE Deep(_)
Deep(v) == IF v.parts = <<>> \/ (v.kind = "ARRAY" /\ ExpandedBytes(v)) THEN 1
           ELSE 1 + Max({Deep(v.parts[k]) : k \in DOMAIN v.parts})
RECURSIVE Printable(_)
Printable(v) == /\ Len(v.bytes) <= MaxString /\ \A k \in DOMAIN v.bytes : v.bytes[k] # 0
                /\ \A k \in DOMAIN v.parts : Printable(v.parts[k])

(* "Packed UInt8 arrays and equivalent expanded UInt8 arrays share an
   encoding": a digest exists within the limits and tells any two values of a
   type apart, and neither it nor any question for a member, an element or a
   range of bytes can tell how the bytes of an array are kept. *)
KeptAnyWay ==
  treeAnswer.op = "parse" /\ treeAnswer.result.s.ok /\ treeCase.written /\ treeAnswer.from = 1 =>
    LET v == treeAnswer.result.value
        w == treeCase.value
    IN /\ AskedAlike(v, w)
       /\ \A b \in Below(w) :
            LET found == FindPath(v, <<0>> \o b[1] \o <<0, 0>>)
            IN found # <<>> /\ AskedAlike(found[1], b[2])
       /\ Digest(v) = Digest(w)
       /\ Digest(v) # <<>> <=> Nodes(w) <= MaxNodes /\ Deep(w) <= MaxDepth /\ Printable(w)
       /\ Digest(v) # <<>> => \A o \in treeCase.others \ {w} : Digest(o) # Digest(v)
=============================================================================

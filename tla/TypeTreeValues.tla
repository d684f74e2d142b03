---------------------------- MODULE TypeTreeValues ----------------------------
(* src/src/io/typetree.c, values: what the bytes of an object mean under the
   tree of its type, and src/src/io/typetree_value_digest.c, the identity of a
   decoded value.

   An array of bytes is kept in one of three ways: a value for each byte, a
   copy of the bytes, or the bytes of the stream themselves.  Every value has
   the fields of all kinds, and those of other kinds are empty; a floating
   point number is the number its bits make. *)
EXTENDS TypeTreeTypes

LOCAL INSTANCE SequencesExt

CONSTANTS
  ValueSize,                      (* sizeof(TypeTreeValue) *)
  MaxNodes, MaxDepth, MaxString   (* VALUE_DIGEST_MAX_NODES and so on *)

SignedTypes == Spelled({"SInt8", "SInt16", "SInt32", "SInt64", "int", "short", "long long"})
UnsignedTypes ==
  Spelled({"UInt8", "UInt16", "UInt32", "UInt64", "unsigned int", "unsigned short",
           "unsigned long long", "FileSize", "RenderingLayerMask", "Type*", "BitField",
           "bool", "char"})

NoValue ==
  [kind |-> "NONE", name |-> Unnamed, type |-> Unnamed, unsigned |-> FALSE, number |-> 0,
   bytes |-> <<>>, parts |-> <<>>, count |-> 0, storage |-> "VALUES", owned |-> FALSE]
\* What memset leaves of a value that was not reached: an integer 0 without a name.
Zeroed == [NoValue EXCEPT !.kind = "INT"]

Aligns(node) == (node.meta \div AlignBit) % 2 = 1
Settle(s, aligned) == IF s.ok /\ aligned THEN AlignTo(s, 4) ELSE s

----------------------------------------------------------------------------
(* typetree_free_value: what the fields of a value say is in allocations. *)

RECURSIVE SizeOf(_)
Parts(v) == FoldLeft(LAMBDA n, part : n + SizeOf(part), Len(v.parts) * ValueSize, v.parts)
SizeOf(v) ==
  CASE v.kind = "STRING" -> Len(v.bytes) + 1
    [] v.kind = "ARRAY" /\ v.storage = "PACKED" -> IF v.owned THEN v.count ELSE 0
    [] v.kind \in {"ARRAY", "STRUCT"} -> Parts(v)
    [] OTHER -> 0

Discard(r) == [r EXCEPT !.s = Fail(Release(@, SizeOf(r.value))), !.value.kind = "NONE"]
Settled(r) == IF r.s.ok THEN r ELSE Discard(r)

----------------------------------------------------------------------------
(* typetree_parse_value_internal.  A result has the stream and the value. *)

ReadLeaf(node, s, v, inArray) ==
  LET signed == node.type \in SignedTypes
      unsigned == node.type \in UnsignedTypes
      float == \/ node.width = 4 /\ node.type = Spell("float")
               \/ node.width = 8 /\ node.type = Spell("double")
      t == IF node.width \in {1, 2, 4, 8} THEN TakeNumber(s, node.width) ELSE Fail(s)
      end == Settle(t, ~inArray /\ Aligns(node))
  IN IF ~t.ok \/ ~(signed \/ unsigned \/ float) THEN [s |-> Fail(t), value |-> v]
     ELSE [s |-> end,
           value |-> [v EXCEPT !.kind = IF float THEN "FLOAT" ELSE "INT", !.unsigned = unsigned,
                               !.number = IF signed /\ ~float THEN SignedOf(t.number, node.width)
                                          ELSE t.number]]

ReadString(s, v) ==
  LET size == TakeNumber(s, 4)
      a == Allocate(size, size.number + 1)
      t == TakeBytes(a, size.number)
      r == [s |-> Settle(t, TRUE),
            value |-> [v EXCEPT !.kind = "STRING", !.bytes = t.bytes]]
  IN IF ~size.ok \/ size.number > Remaining(size) THEN [s |-> Fail(size), value |-> v]
     ELSE IF ~a.ok THEN [s |-> a, value |-> v]
     ELSE Settled(r)

\* A count is compared with its type only.
ImpossibleHuge(n, s) == n > IntMax

\* Every element takes a byte at least.
Impossible(n, s) == n > IntMax \/ n > Remaining(s)

ReadPacked(s, v, n, mode) ==
  LET a == IF mode = "BORROW" \/ n = 0 THEN s ELSE Allocate(s, n)
      t == TakeBytes(a, n)
      packed == [v EXCEPT !.storage = "PACKED"]
  IN IF ~a.ok THEN [s |-> a, value |-> packed]
     ELSE [s |-> t, value |-> [packed EXCEPT !.bytes = t.bytes, !.owned = mode = "PACK" /\ n > 0]]

RECURSIVE ParseNode(_, _, _, _, _)

ReadElements(nodes, i, s, v, n, mode) ==
  LET a == IF n = 0 THEN s ELSE Allocate(s, n * ValueSize)
      Next(q, k) ==
        IF ~q.s.ok THEN q
        ELSE LET r == ParseNode(nodes, i, q.s, mode, TRUE)
             IN [s |-> r.s, value |-> [q.value EXCEPT !.parts[k] = r.value]]
  IN IF ~a.ok THEN [s |-> a, value |-> v]
     ELSE FoldLeft(Next, [s |-> a, value |-> [v EXCEPT !.parts = [k \in 1..n |-> Zeroed]]],
                   [k \in 1..n |-> k])

ReadArray(nodes, i, s, v, mode, inArray) ==
  LET data == nodes[i + 3]
      size == TakeNumber(s, 4)
      n == size.number
      array == [v EXCEPT !.kind = "ARRAY", !.count = n]
      packs == /\ mode # "DEFAULT" /\ data.width = 1 /\ data.type = Spell("UInt8")
               /\ ~HasChildren(nodes, i + 3)
      r == IF packs THEN ReadPacked(size, array, n, mode)
           ELSE ReadElements(nodes, i + 3, size, array, n, mode)
      aligned == Aligns(nodes[i + 1]) \/ Aligns(data) \/ (~inArray /\ Aligns(nodes[i]))
  IN IF ~size.ok \/ Impossible(n, size) THEN [s |-> Fail(size), value |-> v]
     ELSE Settled([r EXCEPT !.s = Settle(@, aligned)])

ReadStruct(nodes, i, s, v, mode, inArray) ==
  LET children == {j \in i + 1 .. SubtreeEnd(nodes, i) - 1 : nodes[j].level = nodes[i].level + 1}
      order == SetToSortSeq(children, <)
      n == Len(order)
      a == Allocate(s, n * ValueSize)
      Next(q, k) ==
        IF ~q.s.ok THEN q
        ELSE LET r == ParseNode(nodes, order[k], q.s, mode, FALSE)
             IN [s |-> r.s, value |-> [q.value EXCEPT !.parts[k] = r.value]]
      Blank == [v EXCEPT !.kind = "STRUCT", !.count = n]
      r == FoldLeft(Next, [s |-> a, value |-> [Blank EXCEPT !.parts = [k \in 1..n |-> Zeroed]]],
                    [k \in 1..n |-> k])
  IN IF ~a.ok THEN [s |-> a, value |-> [Blank EXCEPT !.kind = "NONE"]]
     ELSE Settled([r EXCEPT !.s = Settle(@, ~inArray /\ Aligns(nodes[i]))])

ParseNode(nodes, i, s, mode, inArray) ==
  LET v == [NoValue EXCEPT !.name = nodes[i].name, !.type = nodes[i].type]
  IN IF ~HasChildren(nodes, i) THEN ReadLeaf(nodes[i], s, v, inArray)
     ELSE IF nodes[i].type = Spell("string") THEN ReadString(s, v)
     ELSE IF Marked(nodes[i + 1]) THEN ReadArray(nodes, i, s, v, mode, inArray)
     ELSE ReadStruct(nodes, i, s, v, mode, inArray)

Flags == {"DEFAULT", "PACK", "BORROW", "PACK|BORROW", "UNKNOWN"}

\* typetree_parse_value and typetree_parse_value_ex, from a node of the caller's.
ParseValue(nodes, i, s, flags) ==
  IF flags \in {"PACK|BORROW", "UNKNOWN"} \/ ~ValidSchema(nodes) \/ i \notin DOMAIN nodes
  THEN [s |-> Fail(s), value |-> NoValue]
  ELSE ParseNode(nodes, i, s, flags, FALSE)

----------------------------------------------------------------------------
(* What callers ask of a value.  An answer is a sequence of at most one. *)

Filter(answer, Test(_)) == IF answer # <<>> /\ Test(answer[1]) THEN answer ELSE <<>>

FindChild(v, name) ==
  LET named == {k \in DOMAIN v.parts : v.parts[k].name = name}
  IN IF v.kind = "STRUCT" /\ named # {}
     THEN <<v.parts[CHOOSE k \in named : \A j \in named : k <= j]>> ELSE <<>>

\* A path has 0 where it has '/' or '.'.
FindPath(v, path) ==
  LET Descend(q) == [at |-> IF q.at = <<>> \/ q.word = <<>> THEN q.at
                            ELSE FindChild(q.at[1], q.word),
                     word |-> <<>>]
      Next(q, c) == IF c = 0 THEN Descend(q) ELSE [q EXCEPT !.word = Append(@, c)]
  IN Descend(FoldLeft(Next, [at |-> <<v>>, word |-> <<>>], path)).at

RECURSIVE GetArray(_)
GetArray(v) ==
  LET marked == Filter(FindChild(v, Spell("Array")), LAMBDA c : c.kind = "ARRAY")
      data == FindChild(v, Spell("data"))
  IN IF v.kind = "ARRAY" THEN <<v>>
     ELSE IF marked # <<>> \/ data = <<>> THEN marked
     ELSE GetArray(data[1])

Int64Max == Radix ^ 8 \div 2 - 1
GetInt(v)  == IF v.kind = "INT" /\ v.number <= Int64Max THEN <<v.number>> ELSE <<>>
GetUint(v) == IF v.kind = "INT" /\ v.number >= 0 THEN <<v.number>> ELSE <<>>

ArrayGet(v, k, Get(_)) ==
  LET array == GetArray(v)
  IN IF array = <<>> \/ k \notin 1..array[1].count THEN <<>>
     ELSE IF array[1].storage = "PACKED" THEN <<array[1].bytes[k]>>
     ELSE Get(array[1].parts[k])

ByteSpan(v) ==
  LET array == Filter(GetArray(v), LAMBDA a : a.storage = "PACKED")
  IN IF array = <<>> THEN <<>> ELSE <<array[1].bytes>>

CopyBytes(v, offset, n) ==
  LET array == GetArray(v)
      taken == [k \in 1..n |-> array[1].parts[offset + k]]
  IN IF array = <<>> \/ offset > array[1].count \/ n > array[1].count - offset THEN <<>>
     ELSE IF array[1].storage = "PACKED" THEN <<SubSeq(array[1].bytes, offset + 1, offset + n)>>
     ELSE IF \A k \in 1..n : GetUint(taken[k]) # <<>> /\ taken[k].number < Radix
     THEN <<[k \in 1..n |-> taken[k].number]>> ELSE <<>>

----------------------------------------------------------------------------
(* typetree_value_digest: the bytes that are hashed.  SHA-256 itself is taken
   to tell them apart. *)

Word(n) == [k \in 1..8 |-> (n \div (Radix ^ (k - 1))) % Radix]

Hash(d, bytes) == IF d.ok THEN [d EXCEPT !.hashed = @ \o bytes] ELSE d
HashText(d, text) ==
  LET n == TextLength(text)
  IN IF n > MaxString THEN [d EXCEPT !.ok = FALSE] ELSE Hash(d, Word(n) \o SubSeq(text, 1, n))

KindCode == [INT |-> 0, FLOAT |-> 1, STRING |-> 2, ARRAY |-> 3, STRUCT |-> 4, NONE |-> 5]

\* Are the values of an array bytes one by one?
ExpandedBytes(v) ==
  \A k \in DOMAIN v.parts :
    v.parts[k].kind = "INT" /\ v.parts[k].unsigned /\ v.parts[k].number < Radix
      /\ v.parts[k].type = Spell("UInt8")

RECURSIVE HashValue(_, _, _)
HashParts(d, v, depth) == FoldLeft(LAMBDA h, part : HashValue(h, part, depth + 1), d, v.parts)

\* Bytes that are marked so only where they are packed.
HashArrayAsStored(d, v, depth) ==
  LET h == Hash(d, Word(v.count) \o Word(IF v.storage = "PACKED" THEN 1 ELSE 0))
  IN IF v.count > d.left THEN [d EXCEPT !.ok = FALSE]
     ELSE IF v.storage = "VALUES" THEN HashParts(h, v, depth)
     ELSE Hash([h EXCEPT !.left = @ - v.count], v.bytes)

HashArray(d, v, depth) ==
  LET packed == v.storage = "PACKED"
      bytes == packed \/ ExpandedBytes(v)
      h == Hash(d, Word(v.count) \o Word(IF bytes THEN 1 ELSE 0))
  IN IF v.count > d.left THEN [d EXCEPT !.ok = FALSE]
     ELSE IF ~bytes THEN HashParts(h, v, depth)
     ELSE Hash([h EXCEPT !.left = @ - v.count],
               IF packed THEN v.bytes ELSE [k \in DOMAIN v.parts |-> v.parts[k].number])

HashValue(d, v, depth) ==
  LET h == HashText(HashText(Hash([d EXCEPT !.left = @ - 1], Word(KindCode[v.kind])), v.name), v.type)
  IN IF ~d.ok \/ depth >= MaxDepth \/ d.left = 0 THEN [d EXCEPT !.ok = FALSE]
     ELSE CASE v.kind = "INT" -> Hash(h, Word(IF v.unsigned THEN 1 ELSE 0) \o Word(v.number))
            [] v.kind = "FLOAT" -> Hash(h, Word(v.number))
            [] v.kind = "STRING" -> IF TextLength(v.bytes) < Len(v.bytes) THEN [h EXCEPT !.ok = FALSE]
                                    ELSE HashText(h, v.bytes)
            [] v.kind = "STRUCT" -> IF v.count > h.left THEN [h EXCEPT !.ok = FALSE]
                                    ELSE HashParts(Hash(h, Word(v.count)), v, depth)
            [] v.kind = "ARRAY" -> HashArray(h, v, depth)
            [] OTHER -> h

\* The bytes of a digest, or none.
Digest(v) ==
  LET d == HashValue([ok |-> TRUE, left |-> MaxNodes, hashed |-> <<>>], v, 0)
  IN IF d.ok THEN <<d.hashed>> ELSE <<>>
=============================================================================

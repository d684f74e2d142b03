--------------------------- MODULE BundleArchive ---------------------------
(***************************************************************************)
(* src/src/io/bundle_archive.c and lz4_decompress.c: opening a UnityFS     *)
(* archive from memory, and views of its members.                          *)
(*                                                                         *)
(* The bytes of an archive are cells: of the header, of padding, of the    *)
(* block info, bytes of data, and in compressed blocks one cell for each   *)
(* sequence of an LZ4 block or for an LZMA stream.  Where a size or an     *)
(* offset is wrong, other cells are read.  What may fail is a set of at    *)
(* most one result.                                                        *)
(***************************************************************************)
EXTENDS Integers, SequencesExt

CONSTANTS
  Plans,         \* the archives that were written, by what is in them
  Inputs,        \* the files a caller may open
  Blocks, Sizes, \* LZ4 blocks, and how much they are announced to unpack to
  Alignment,     \* 16 in the code
  InfoMinimum,   \* 20
  FinalLiterals, LastMatchDistance  \* 5 and 12

VARIABLES
  archive,   \* the BundleArchive of the caller
  viewed     \* the call on it that was answered last, and its answer

archiveVars == <<archive, viewed>>

NoArchive == [live |-> FALSE, payload |-> <<>>, entries |-> <<>>]

BundleInit == /\ archive = NoArchive
              /\ viewed = [call |-> [op |-> "none"], ok |-> "OK", data |-> <<>>]

----------------------------------------------------------------------------
(* lz4_decompress.c.  A sequence is its literals and a match: so many bytes,
   starting so far back in the output; the last one may have no match, and
   one that is cut ends before its match is complete. *)

Byte(n) == [kind |-> "byte", n |-> n]
IsSequence(c) == c.kind = "lz4"

(* Mutant of Match: the bytes are taken from what was there before. *)
MatchOnce(out, c) ==
  out \o [j \in 1..c.match |-> IF j <= c.offset THEN out[Len(out) - c.offset + j] ELSE Byte(0)]

(* Bytes that were just written are available to the rest of the match. *)
Match(out, c) ==
  LET copied[j \in 1..c.match] ==
        IF j <= c.offset THEN out[Len(out) - c.offset + j] ELSE copied[j - c.offset]
  IN out \o copied

(* A sequence in the middle of a block whose output has room for size bytes. *)
Middle(size, so, c) ==
  LET out == so.out \o c.literals
  IN IF ~so.ok \/ c.cut \/ Len(out) > size
        \/ c.offset = 0 \/ c.offset > Len(out) \/ Len(out) + c.match > size
     THEN [so EXCEPT !.ok = FALSE]
     ELSE [ok |-> TRUE, out |-> Match(out, c), last |-> Len(out), matched |-> TRUE]

Lz4(cells, size, exact) ==
  LET ends == cells # <<>> /\ Last(cells).match = 0
      before == FoldLeft(LAMBDA so, c : Middle(size, so, c),
                         [ok |-> TRUE, out |-> <<>>, last |-> 0, matched |-> FALSE],
                         IF ends THEN Front(cells) ELSE cells)
      out == before.out \o Last(cells).literals
  IN CASE ~before.ok -> {}
       [] before.ok /\ ~ends -> IF exact THEN {} ELSE {before.out}
       [] OTHER ->
            IF \/ Last(cells).cut \/ Len(out) > size
               \/ exact /\ \/ Len(out) # size
                           \/ before.matched /\
                                \/ Len(Last(cells).literals) < FinalLiterals
                                \/ Len(out) - before.last < LastMatchDistance
            THEN {} ELSE {out}

(* decompress_block: the whole block, and as much as was announced. *)
Decompress(method, cells, size) ==
  CASE method = "stored" -> IF Len(cells) = size THEN {cells} ELSE {}
    [] method = "lzma" ->
         {cells[i].plain : i \in {j \in DOMAIN cells :
            Len(cells) = 1 /\ cells[j].kind = "lzma" /\ Len(cells[j].plain) = size}}
    [] method = "lz4" ->
         IF cells = <<>> THEN IF size = 0 THEN {<<>>} ELSE {}
         ELSE IF \A i \in DOMAIN cells : IsSequence(cells[i])
         THEN {out \in Lz4(cells, size, FALSE) : Len(out) = size}
         ELSE {}
    [] OTHER -> {}

----------------------------------------------------------------------------
(* bundle_open. *)

Aligned(n) == ((n + Alignment - 1) \div Alignment) * Alignment
Read(f, at, size) == SubSeq(f.cells, at + 1, at + size)

InfoAt(f) == IF f.flags.atEnd THEN f.total - f.packed ELSE Aligned(f.head)

(* The header fits the input, and the block info lies after it. *)
HeaderFits(f) ==
  /\ f.dialect /\ f.flags.combined /\ ~f.flags.unknown
  /\ f.total = Len(f.cells) /\ f.packed # 0 /\ f.unpacked >= InfoMinimum
  /\ Aligned(f.head) <= f.total
  /\ InfoAt(f) >= Aligned(f.head) /\ f.packed <= f.total - InfoAt(f)

(* The cells where it should be are those of a block info. *)
InfoHolds(f) ==
  /\ Read(f, InfoAt(f), f.packed) = f.info.cells
  /\ f.unpacked = f.info.size
  /\ f.flags.method \in {"stored", "lzma", "lz4"}
  /\ f.flags.method = "stored" => f.packed = f.unpacked
  /\ f.info.whole
  /\ \A i \in DOMAIN f.info.blocks : f.info.blocks[i].known

(* Mutant of DataStart: the padding after the block info is forgotten. *)
DataStartUnpadded(f) == IF f.flags.atEnd THEN Aligned(f.head) ELSE InfoAt(f) + f.packed

DataStart(f) ==
  LET start == IF f.flags.atEnd THEN Aligned(f.head) ELSE InfoAt(f) + f.packed
  IN IF f.flags.padded THEN Aligned(start) ELSE start
DataEnd(f) == IF f.flags.atEnd THEN InfoAt(f) ELSE f.total

(* Where each block begins, and what all of them unpack to. *)
BlockAt(f) ==
  LET at[i \in 1..Len(f.info.blocks) + 1] ==
        IF i = 1 THEN DataStart(f) ELSE at[i-1] + f.info.blocks[i-1].packed
  IN at

Unpacked(f) ==
  LET blocks == f.info.blocks
      upto[i \in 0..Len(blocks)] ==
        IF i = 0 THEN {<<>>}
        ELSE {out \o more : out \in upto[i-1],
                more \in Decompress(blocks[i].method,
                                    Read(f, BlockAt(f)[i], blocks[i].packed),
                                    blocks[i].unpacked)}
  IN upto[Len(blocks)]

BlocksCover(f) ==
  DataStart(f) <= DataEnd(f) /\ BlockAt(f)[Len(f.info.blocks) + 1] = DataEnd(f)

EntriesFit(f, payload) ==
  \A i \in DOMAIN f.info.entries :
    f.info.entries[i].offset + f.info.entries[i].size <= Len(payload)

Payloads(f) ==
  IF HeaderFits(f) /\ InfoHolds(f) /\ BlocksCover(f)
  THEN {p \in Unpacked(f) : EntriesFit(f, p)} ELSE {}

Answered(call, ok, data) == viewed' = [call |-> call, ok |-> ok, data |-> data]

(* Any of the allocations may fail; whatever fails, nothing is left open. *)
BundleOpen(f) ==
  /\ ~archive.live
  /\ \/ \E p \in Payloads(f) :
          /\ archive' = [live |-> TRUE, payload |-> p, entries |-> f.info.entries]
          /\ Answered([op |-> "open", file |-> f], "OK", <<>>)
     \/ /\ archive' = NoArchive
        /\ Answered([op |-> "open", file |-> f],
                    IF Payloads(f) = {} THEN "REFUSED" ELSE "NO_MEMORY", <<>>)

(* bundle_get_member_view. *)
View(i) ==
  IF i \in DOMAIN archive.entries
  THEN LET e == archive.entries[i]
       IN {SubSeq(archive.payload, e.offset + 1, e.offset + e.size)}
  ELSE {}

BundleView(i) ==
  /\ \/ \E data \in View(i) : Answered([op |-> "member", index |-> i], "OK", data)
     \/ View(i) = {} /\ Answered([op |-> "member", index |-> i], "REFUSED", <<>>)
  /\ UNCHANGED archive

(* bundle_get_file_view: a name that occurs twice names nothing. *)
NamedOnly(entries, name) ==
  {i \in DOMAIN entries : \A j \in DOMAIN entries : entries[j].name = name <=> i = j}

BundleNamed(name) ==
  LET data == UNION {View(i) : i \in NamedOnly(archive.entries, name)}
  IN /\ \/ \E d \in data : Answered([op |-> "file", name |-> name], "OK", d)
        \/ data = {} /\ Answered([op |-> "file", name |-> name], "REFUSED", <<>>)
     /\ UNCHANGED archive

(* lz4_decompress_safe and lz4_decompress_exact for themselves. *)
Lz4Call(cells, size, exact) ==
  LET call == [op |-> "lz4", cells |-> cells, size |-> size, exact |-> exact]
      out == Lz4(cells, size, exact)
  IN /\ \/ \E data \in out : Answered(call, "OK", data)
        \/ out = {} /\ Answered(call, "REFUSED", <<>>)
     /\ UNCHANGED archive

(* bundle_close. *)
BundleClose ==
  /\ archive.live
  /\ archive' = NoArchive
  /\ Answered([op |-> "close"], "OK", <<>>)

Names == {archive.entries[i].name : i \in DOMAIN archive.entries} \cup {"unheard of"}

(* A caller opens one archive after another, until one is refused. *)
Ready == viewed.call.op \in {"none", "close"}

BundleNext ==
  \/ Ready /\ \E f \in Inputs : BundleOpen(f)
  \/ \E i \in 1..Len(archive.entries) + 1 : BundleView(i)
  \/ \E name \in Names : BundleNamed(name)
  \/ Ready /\ \E cells \in Blocks, size \in Sizes, exact \in BOOLEAN : Lz4Call(cells, size, exact)
  \/ BundleClose

BundleSpec == BundleInit /\ [][BundleNext]_archiveVars

----------------------------------------------------------------------------
(* The program that wrote the archives: it puts one part after the other. *)

Padding(n) == [i \in 1..n |-> [kind |-> "pad"]]
Padded(cells) == cells \o Padding(Aligned(Len(cells)) - Len(cells))
Joined(parts) == FlattenSeq(parts)

Write(plan) ==
  LET header == Padded([i \in 1..plan.head |-> [kind |-> "head"]])
      info == [i \in 1..plan.packed |-> [kind |-> "info", n |-> i]]
      data == Joined([i \in DOMAIN plan.blocks |-> plan.blocks[i].cells])
      gap(cells) == IF plan.padded THEN Padded(cells) ELSE cells
      cells == IF plan.atEnd THEN gap(header) \o data \o info
               ELSE gap(header \o info) \o data
  IN [dialect |-> TRUE, head |-> plan.head, total |-> Len(cells), cells |-> cells,
      packed |-> plan.packed, unpacked |-> plan.size,
      flags |-> [combined |-> TRUE, unknown |-> FALSE, atEnd |-> plan.atEnd,
                 padded |-> plan.padded, method |-> plan.method],
      info |-> [cells |-> info, size |-> plan.size, whole |-> TRUE, entries |-> plan.entries,
                blocks |-> [i \in DOMAIN plan.blocks |->
                              [packed |-> Len(plan.blocks[i].cells),
                               unpacked |-> Len(plan.blocks[i].plain),
                               method |-> plan.blocks[i].method, known |-> TRUE]]]]

Written == {Write(plan) : plan \in Plans}

----------------------------------------------------------------------------
(* Properties. *)

Plain(plan) == Joined([i \in DOMAIN plan.blocks |-> plan.blocks[i].plain])

(* What LZ4 says of a block and its output, without building it: the literals
   are where they belong, and each byte of a match is the one that lies so far
   before it. *)
Starts(cells) ==
  LET at[i \in 1..Len(cells) + 1] ==
        IF i = 1 THEN 0 ELSE at[i-1] + Len(cells[i-1].literals) + cells[i-1].match
  IN at

Expands(cells, out) ==
  /\ Len(out) = Starts(cells)[Len(cells) + 1]
  /\ \A i \in DOMAIN cells :
       LET start == Starts(cells)[i]
           literals == Len(cells[i].literals)
       IN /\ SubSeq(out, start + 1, start + literals) = cells[i].literals
          /\ \A p \in start + literals + 1 .. start + literals + cells[i].match :
               out[p] = out[p - cells[i].offset]

(* A block is legal if every sequence is whole and its match begins in what
   precedes it; an exact one has all of
   its announced size and the end that encoders must leave. *)
Legal(cells, size, exact) ==
  LET n == Len(cells)
      total == Starts(cells)[n + 1]
      matches == {i \in DOMAIN cells : cells[i].match > 0}
      MatchAt(i) == Starts(cells)[i] + Len(cells[i].literals)
  IN /\ total <= size /\ \A i \in DOMAIN cells : ~cells[i].cut
     /\ \A i \in matches : cells[i].offset \in 1..MatchAt(i)
     /\ exact => /\ total = size /\ n > 0 /\ n \notin matches
                 /\ \A i \in matches : /\ Len(cells[n].literals) >= FinalLiterals
                                        /\ total - MatchAt(i) >= LastMatchDistance

(* Both entry points accept exactly the legal blocks, and deliver what the
   block says, also where a match overlaps its own output. *)
Lz4Exact ==
  viewed.call.op = "lz4" =>
    /\ viewed.ok = "OK" <=> Legal(viewed.call.cells, viewed.call.size, viewed.call.exact)
    /\ viewed.ok = "OK" => Expands(viewed.call.cells, viewed.data)

(* A call that has the memory it needs opens exactly the files that were
   written as archives, to exactly the bytes that were put into them; each
   member is delivered as it was stored, whichever way and wherever it lies,
   and by name if no other member has its name.  The blocks themselves are decoded
   as LZ4 says. *)
BundleExact ==
  /\ Lz4Exact
  /\ viewed.call.op = "open" /\ viewed.ok # "NO_MEMORY" =>
       IF viewed.ok = "OK"
       THEN \E plan \in Plans :
              Write(plan) = viewed.call.file /\ archive.payload = Plain(plan)
       ELSE viewed.call.file \notin Written /\ ~archive.live
  /\ viewed.call.op = "member" =>
       IF viewed.call.index \in DOMAIN archive.entries
       THEN viewed.ok = "OK" /\ viewed.data = archive.entries[viewed.call.index].holds
       ELSE viewed.ok = "REFUSED"
  /\ viewed.call.op = "file" =>
       LET named == {i \in DOMAIN archive.entries : archive.entries[i].name = viewed.call.name}
       IN IF Cardinality(named) = 1
          THEN viewed.ok = "OK" /\ \E i \in named : viewed.data = archive.entries[i].holds
          ELSE viewed.ok = "REFUSED"
=============================================================================

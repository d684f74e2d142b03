-------------------------- MODULE SerializedTables --------------------------
(* A caller of the directory, the metadata tail and the reference index of one
   serialized file: it creates and disposes of them in any order, runs out of
   memory or budget, asks for references, and may break the premise that the
   file does not change between the two passes of a construction. *)
EXTENDS MetadataTail

LOCAL INSTANCE FiniteSetsExt

CONSTANTS
  Sources,                          (* files *)
  DirectoryCalls(_), TailCalls(_),  (* the arguments tried for a file *)
  IndexCalls(_), QueryCalls(_)

VARIABLES
  backing,              (* the file *)
  directory, tail, index,
  match,                (* the caller's out_match *)
  heap,                 (* bytes in allocations *)
  last                  (* the call that was just made, and its result *)

vars == <<backing, directory, tail, index, match, heap, last>>

NoCall == [op |-> "none"]

Init ==
  /\ backing \in Sources
  /\ directory = Empty /\ tail = Empty /\ index = Empty
  /\ match = NoMatch /\ heap = 0 /\ last = NoCall

Occupied == Built(Reject(Start(0), "INVALID_STATE", "NONE"), NoneCounted, 0, 0)

Record(op, call, parent, before, result) ==
  last' = [op |-> op, call |-> call, parent |-> parent, before |-> before, result |-> result]

CreateDirectory ==
  /\ last = NoCall
  /\ \E call \in DirectoryCalls(backing) :
       \E r \in {IF directory.live /\ call.mapped <= call.logical THEN Occupied
                ELSE BuildDirectory(backing, call.replayed, call.mapped, call.logical,
                                    call.engine, call.caps, call.memory)} :
         /\ directory' = IF r.status = "OK"
                         THEN [live |-> TRUE, src |-> call.replayed, end |-> r.end,
                               engine |-> call.engine, bytes |-> r.allocated]
                         ELSE directory
         /\ heap' = heap + r.allocated - r.freed
         /\ Record("directory", call, Empty, directory.live, r)
  /\ UNCHANGED <<backing, tail, index, match>>

(* A caller goes on only with a directory of the file as it is. *)
CreateTail ==
  /\ last = NoCall
  /\ directory.live => directory.src = backing
  /\ \E call \in TailCalls(backing) :
       \E r \in {IF tail.live /\ directory.live /\ call.mapped <= call.logical THEN Occupied
                ELSE BuildTail(directory, call.replayed, call.same, call.mapped, call.logical,
                               call.caps, call.memory)} :
         /\ tail' = IF r.status = "OK"
                    THEN [live |-> TRUE, flag |-> directory.src.flag,
                          refs |-> SubSeq(call.replayed.refs, 1, call.replayed.refCount),
                          torn |-> call.replayed # backing,
                          engine |-> directory.engine, bytes |-> r.allocated]
                    ELSE tail
         /\ heap' = heap + r.allocated - r.freed
         /\ Record("tail", call, directory, tail.live, r)
  /\ UNCHANGED <<backing, directory, index, match>>

CreateIndex ==
  /\ last = NoCall
  /\ tail.live => ~tail.torn
  /\ \E call \in IndexCalls(backing) :
       \E r \in {IF index.live /\ tail.live THEN Occupied
                ELSE BuildIndex(tail, call.caps, call.memory)} :
         /\ index' = IF r.status = "OK"
                     THEN [live |-> TRUE, refs |-> tail.refs, bytes |-> r.allocated]
                     ELSE index
         /\ heap' = heap + r.allocated - r.freed
         /\ Record("index", call, tail, index.live, r)
  /\ UNCHANGED <<backing, directory, tail, match>>

Query ==
  /\ last = NoCall
  /\ \E call \in QueryCalls(backing) :
       \E r \in {RunQuery(index, call.key, call.caps)} :
         /\ match' = IF r.status = "OK" THEN Matches(index.refs, call.key) ELSE match
         /\ Record("query", call, index, match, r)
  /\ UNCHANGED <<backing, directory, tail, index, heap>>

(* Disposal frees what the view says was retained. *)
Freed(handle) == IF handle.live THEN handle.bytes ELSE 0

DisposeDirectory ==
  /\ last = NoCall
  /\ directory' = Empty /\ heap' = heap - Freed(directory)
  /\ UNCHANGED <<backing, tail, index, match, last>>

DisposeTail ==
  /\ last = NoCall
  /\ tail' = Empty /\ heap' = heap - Freed(tail)
  /\ UNCHANGED <<backing, directory, index, match, last>>

DisposeIndex ==
  /\ last = NoCall
  /\ index' = Empty /\ heap' = heap - Freed(index)
  /\ UNCHANGED <<backing, directory, tail, match, last>>

(* The caller has read the result. *)
Proceed == last # NoCall /\ last' = NoCall
           /\ UNCHANGED <<backing, directory, tail, index, match, heap>>

Next == \/ CreateDirectory \/ CreateTail \/ CreateIndex \/ Query
        \/ DisposeDirectory \/ DisposeTail \/ DisposeIndex \/ Proceed

Spec == Init /\ [][Next]_vars

----------------------------------------------------------------------------
(* What the headers promise, in closed form. *)

Sum(n, F(_)) == MapThenSumSet(F, 1..n)
Padding(pos) == (HeaderBytes - pos) % 4

HashBytes(t) == IF t.class = "script" \/ ~t.negative THEN 32 ELSE 16
TreeBytes(t) == 8 + 32 * t.nodes + t.strings

PrefixEnd(s) == HeaderBytes + Len(s.version) + 6

TypeBytes(s, i) ==
  LET t == s.types[i]
  IN 7 + HashBytes(t) + IF s.flag = 1 THEN TreeBytes(t) + 4 + 4 * t.deps ELSE 0

TypesEnd(s) == PrefixEnd(s) + 4 + Sum(s.typeCount, LAMBDA i : TypeBytes(s, i))

DirectoryEnd(s) ==
  TypesEnd(s) + 4 + IF s.objectCount = 0 THEN 0
                    ELSE Padding(TypesEnd(s) + 4) + 24 * s.objectCount

DirectoryWork(s, bytes) ==
  HeaderBytes + (Len(s.version) + 6) + 1 + Len(s.version)
  + 2 * (DirectoryEnd(s) - PrefixEnd(s) + s.typeCount + s.objectCount) + bytes + 2

ShapeKnown(t, flag) == ~(t.class = "none" /\ t.negative) /\ (flag = 1 => t.nodes > 0)

PrefixGenuine(s) ==
  /\ s.format = 22 /\ s.endian <= 1 /\ HeaderBytes <= s.size
  /\ s.end <= s.data /\ s.data <= s.size /\ s.flag <= 1

DirectoryGenuine(s) ==
  /\ PrefixGenuine(s)
  /\ s.typeCount <= Int32Max /\ s.objectCount <= Int32Max
  /\ \A i \in 1..s.typeCount :
       /\ ShapeKnown(s.types[i], s.flag)
       /\ s.flag = 1 => s.types[i].deps <= Int32Max
  /\ \A i \in 1..s.objectCount :
       /\ s.objects[i].type < s.typeCount
       /\ s.objects[i].offset + s.objects[i].bytes <= s.size - s.data

Within(kinds, caps) == \A k \in DOMAIN kinds : kinds[k] <= caps[k]

TreeCounts(s, rows, n) ==
  IF s.flag = 0 THEN [NODES |-> 0, STRING_BYTES |-> 0]
  ELSE [NODES |-> Sum(n, LAMBDA i : rows[i].nodes),
        STRING_BYTES |-> Sum(n, LAMBDA i : rows[i].strings)]

DirectoryAdmitted(s, call) ==
  LET bytes == DirectorySize.owner + s.typeCount * DirectorySize.type
                                   + s.objectCount * DirectorySize.object
  IN /\ DirectoryGenuine(s)
     /\ call.logical = s.size /\ call.mapped <= call.logical
     /\ call.engine \in DOMAIN EngineVersions /\ s.version = EngineVersions[call.engine]
     /\ DirectoryEnd(s) <= s.end /\ DirectoryEnd(s) <= call.mapped
     /\ HeaderBytes <= call.mapped
     /\ Within(TreeCounts(s, s.types, s.typeCount), call.caps)
     /\ Within([VERSION_BYTES |-> Len(s.version) + 1, TYPES |-> s.typeCount,
                OBJECTS |-> s.objectCount, BYTES |-> DirectoryEnd(s) - HeaderBytes,
                DEPENDENCIES |-> IF s.flag = 0 THEN 0
                                 ELSE Sum(s.typeCount, LAMBDA i : s.types[i].deps),
                RETAINED_BYTES |-> bytes, WORK |-> DirectoryWork(s, bytes)], call.caps)

(* Of the directory: the bytes are those the tables take, the work is
   P+V+2*(D+T+O)+R+2. *)
DirectoryExact ==
  last.op = "directory" /\ last.call.replayed = backing =>
    LET r == last.result
    IN /\ r.status = "OK" <=>
            DirectoryAdmitted(backing, last.call) /\ last.call.memory /\ ~last.before
       /\ r.status = "OK" =>
            /\ r.work = DirectoryWork(backing, r.allocated)
            /\ r.end = DirectoryEnd(backing)

NameBytes(r) == Len(r.names[1]) + Len(r.names[2]) + Len(r.names[3]) + 3

ReferenceBytes(s, i) ==
  LET r == s.refs[i]
  IN 7 + HashBytes(r) + IF s.flag = 1 THEN TreeBytes(r) + NameBytes(r) ELSE 0

ScriptsEnd(s) ==
  DirectoryEnd(s) + 4 + IF s.scriptCount = 0 THEN 0
                        ELSE Padding(DirectoryEnd(s) + 4) + 12 * s.scriptCount

StringBytes(s) ==
  Sum(s.externalCount, LAMBDA i : s.externals[i].lead + s.externals[i].path + 2)
  + (IF s.flag = 1 THEN Sum(s.refCount, LAMBDA i : NameBytes(s.refs[i])) ELSE 0)
  + s.user + 1

TailEnd(s) ==
  ScriptsEnd(s) + 4
  + Sum(s.externalCount, LAMBDA i : 22 + s.externals[i].lead + s.externals[i].path) + 4
  + Sum(s.refCount, LAMBDA i : ReferenceBytes(s, i)) + s.user + 1

TailWork(s, bytes) ==
  2 * (TailEnd(s) - DirectoryEnd(s) + s.scriptCount + s.externalCount + s.refCount) + bytes + 3

TailAdmitted(s, call) ==
  LET bytes == TailSize.owner + s.scriptCount * TailSize.script
               + s.externalCount * TailSize.external + s.refCount * TailSize.reference
  IN /\ call.same /\ call.logical = s.size /\ call.mapped <= call.logical
     /\ s.scriptCount <= Int32Max /\ s.externalCount <= Int32Max /\ s.refCount <= Int32Max
     /\ \A i \in 1..s.refCount : ShapeKnown(s.refs[i], s.flag)
     /\ TailEnd(s) = s.end /\ TailEnd(s) <= call.mapped
     /\ Within(TreeCounts(s, s.refs, s.refCount), call.caps)
     /\ Within([SCRIPTS |-> s.scriptCount, EXTERNALS |-> s.externalCount,
                REFERENCE_TYPES |-> s.refCount, TERMINATED |-> StringBytes(s),
                BYTES |-> TailEnd(s) - DirectoryEnd(s),
                RETAINED_BYTES |-> bytes, WORK |-> TailWork(s, bytes)], call.caps)

(* Of the tail and the index: the work is 2*(B+S+E+R)+A+3 and A+2*N+3. *)
TailExact ==
  /\ last.op = "tail" /\ last.call.replayed = backing =>
       LET r == last.result
       IN /\ r.status = "OK" <=> /\ last.parent.live /\ TailAdmitted(backing, last.call)
                                 /\ last.call.memory /\ ~last.before
          /\ r.status = "OK" => r.work = TailWork(backing, r.allocated)
  /\ last.op = "index" =>
       LET r == last.result
           n == backing.refCount
           bytes == IndexSize.owner + n * IndexSize.row
       IN /\ r.status = "OK" <=>
               /\ last.parent.live /\ last.call.memory /\ ~last.before
               /\ last.parent.engine = CatalogueEngine /\ (n > 0 => backing.flag = 1)
               /\ Within([REFERENCE_TYPES |-> n, RETAINED_BYTES |-> bytes,
                          IDENTITY_BYTES |-> Sum(n, LAMBDA i : NameBytes(backing.refs[i])),
                          WORK |-> bytes + 2 * n + 3], last.call.caps)
          /\ r.status = "OK" => r.work = bytes + 2 * n + 3

(* A query says how many rows carry the name and which are the first two, or
   leaves the caller's match alone; its work is 2+N+C+B. *)
QueryExact ==
  last.op = "query" =>
    LET c     == last.call
        refs  == IF last.parent.live THEN last.parent.refs ELSE <<>>
        found == {i \in 1..Len(refs) : refs[i].names = c.key}
        Common(i) == {k \in Components : SubSeq(refs[i].names, 1, k - 1) = SubSeq(c.key, 1, k - 1)}
        Cost(i) == 1 + Cardinality(Common(i))
                   + MapThenSumSet(LAMBDA k : IF Len(refs[i].names[k]) = Len(c.key[k])
                                              THEN Len(c.key[k]) ELSE 0, Common(i))
        work  == 2 + Sum(Len(refs), Cost)
    IN /\ last.result.status = "OK" <=>
            /\ last.parent.live /\ work <= c.caps["WORK"]
            /\ \A k \in Components : Len(c.key[k]) <= c.caps["COMPONENT_BYTES"]
            /\ Len(c.key[1]) + Len(c.key[2]) + Len(c.key[3]) <= c.caps["KEY_BYTES"]
       /\ IF last.result.status = "OK"
          THEN /\ last.result.work = work
               /\ match.count = Cardinality(found)
               /\ match.first = IF found = {} THEN 0 ELSE Min(found)
               /\ match.second = IF Cardinality(found) < 2 THEN 0
                                 ELSE Min(found \ {Min(found)})
          ELSE match = last.before

\* Even if the file changes between the passes, the second one completes no
\* row beyond the table that was allocated for it, and a construction that
\* succeeds has filled its tables; one that fails, in either pass, has freed
\* everything: memory is held by live handles only.
ReplayStaysInside ==
  /\ last.op \in {"directory", "tail", "index"} /\ last.result.allocated > 0 =>
       /\ \A k \in Kinds : last.result.rows[k] <= last.result.capacity[k]
       /\ last.result.status = "OK" => last.result.rows = last.result.capacity
  /\ heap = Freed(directory) + Freed(tail) + Freed(index)

(* How much of the file is mapped decides nothing but INCOMPLETE_MAPPING: any
   other answer is the one for the whole file, and with the whole file mapped
   a caller that maps more and tries again gets an answer. *)
MappingIrrelevant ==
  last.op \in {"directory", "tail"} /\ ~last.before /\ last.call.mapped <= last.call.logical =>
    LET c == last.call
        Incomplete(r) == "INCOMPLETE_MAPPING" \in {r.status, r.limit}
    IN \A whole \in {IF last.op = "directory"
                     THEN BuildDirectory(backing, c.replayed, c.logical, c.logical, c.engine,
                                         c.caps, c.memory)
                     ELSE BuildTail(last.parent, c.replayed, c.same, c.logical, c.logical,
                                    c.caps, c.memory)} :
         /\ ~Incomplete(last.result) => last.result = whole
         /\ HeaderBytes <= c.logical => ~Incomplete(whole)

(* serialized_file_directory.h, _metadata_tail.h and _reference_index.h: each
   create function accepts exactly the genuine files within every limit, each
   quantity counted once although the file is read twice, and does exactly the
   work it announces; the tail must use up the metadata to the last byte, and
   a query answers for all rows that carry the name.  A file that changes between
   the two passes leads nothing outside of its tables, a failure in either pass
   leaves nothing behind, and how much of the file is mapped decides nothing
   but whether the caller has to map more. *)
TablesExact ==
  DirectoryExact /\ TailExact /\ QueryExact /\ ReplayStaysInside /\ MappingIrrelevant

=============================================================================

--------------------------- MODULE SerializedFile ---------------------------
(***************************************************************************)
(* src/src/io/serialized_file.c: opening player data files over a schema   *)
(* registry.  A file either embeds the schema of each of its types, and a  *)
(* pinned one teaches them to the registry, or it has none, and takes them *)
(* from the registry: all at once when it is opened, or class by class     *)
(* afterwards.                                                             *)
(*                                                                         *)
(* How bytes become rows is the subject of SerializedTables; a file is     *)
(* what its rows say, and whether they could be read at all.               *)
(***************************************************************************)
EXTENDS SchemaRegistry, FiniteSets, TLC

CONSTANTS
  Files,      \* the inputs: what the bytes of each hold
  Engines,    \* the engine versions whose layout is known
  ClassOf,    \* the class of types with given traits
  Classes,
  MaxOffset   \* INT64_MAX

None == "none"       \* a type row without nodes

FileFormat == 22     \* no other one can be read

(* Every row of a type has traits; a pinned file with schemas is one of the
   inputs the caller answers for. *)
Rows == [traits : Traits, nodes : Schemas \cup {None}]
KeyOf(f, row) ==
  [format |-> FileFormat, version |-> Files[f].version, traits |-> row.traits]
Pairs(f, rows) == {<<KeyOf(f, rows[i]), rows[i].nodes>> : i \in DOMAIN rows}

ASSUME FilesAssumption ==
  \A f \in DOMAIN Files :
    /\ Files[f].types \in Seq(Rows) /\ Files[f].refs \in Seq(Rows)
    /\ Files[f].pinned /\ Files[f].tree /\ Files[f].version \in Engines =>
         Pairs(f, Files[f].types) \cup Pairs(f, Files[f].refs) \subseteq Pinned

VARIABLES
  handle      \* the SerializedFile of the caller

fileVars == <<vars, handle>>

Closed == [file |-> None]

Modes == {"metadata", "ordinary", "untrusted", "pinned", "imported"}

FileInit == Init /\ handle = Closed

----------------------------------------------------------------------------
(* read_metadata and validate_object_table. *)

EndOf(o) == o.offset + o.size

DisjointRanges(objects) ==
  LET sorted == SortSeq(objects, LAMBDA a, b : a.offset < b.offset
                          \/ (a.offset = b.offset /\ EndOf(a) < EndOf(b)))
      filled == SelectSeq(sorted, LAMBDA o : o.size # 0)
  IN \A i \in 2..Len(filled) : filled[i].offset >= EndOf(filled[i-1])

DistinctPaths(objects) ==
  LET sorted == SortSeq(objects, LAMBDA a, b : a.path < b.path)
  IN \A i \in 2..Len(sorted) : sorted[i-1].path # sorted[i].path

(* The directory is tried with one engine version, then with the other; the
   rows must fit the wider types of the file in memory. *)
ReadableFiles ==
  {f \in DOMAIN Files :
     LET file == Files[f]
     IN /\ file.whole
        /\ file.version \in Engines
        /\ \A i \in DOMAIN file.objects : file.objects[i].offset <= MaxOffset
        /\ DistinctPaths(file.objects)
        /\ DisjointRanges(file.objects)}
Readable(f) == f \in ReadableFiles

----------------------------------------------------------------------------
(* apply_schema_registry. *)

AllKnown(es, f, rows) == \A i \in DOMAIN rows : Holding(es, KeyOf(f, rows[i])) # {}

(* typetree_schema_registry_lookup. *)
Lookup(es, k) == es[CHOOSE i \in Holding(es, k) : TRUE].schema

(* resolve_type_array. *)
Resolved(es, f, rows) ==
  [i \in DOMAIN rows |-> [rows[i] EXCEPT !.nodes = Lookup(es, KeyOf(f, rows[i]))]]

(* learn_type_array: one row after the other, up to the first that is refused. *)
WithRow(sofar, k, nodes) ==
  LET status == LearnStatus(sofar.entries, k, nodes)
  IN IF sofar.status # "OK" THEN sofar
     ELSE IF status # "OK" THEN [sofar EXCEPT !.status = status]
     ELSE IF Holding(sofar.entries, k) # {} THEN sofar
     ELSE [status |-> "OK",
           entries |-> Insert(sofar.entries, [key |-> k, schema |-> nodes]),
           capacity |-> Grown(sofar.capacity, Len(sofar.entries) + 1)]

Learning(start, f, rows) ==
  LET learn[i \in 0..Len(rows)] ==
        IF i = 0 THEN start
        ELSE WithRow(learn[i-1], KeyOf(f, rows[i]), rows[i].nodes)
  IN learn

Learned(start, f, rows) == Learning(start, f, rows)[Len(rows)]

(* clone_schema_registry: the registry, written and read again. *)
Clones(es) ==
  {[status |-> ImportStatus(w), entries |-> w.body, capacity |-> Grown(0, w.count)] :
     w \in Written(es)}

----------------------------------------------------------------------------
(* serialized_file_open_metadata and serialized_file_open_with_schema_registry_ex,
   with no registry ("ordinary") or with that of program r.  A call is
   refused for what it was given, or fails for want of memory: false both times. *)

AnswerOpen(r, f, mode, status) ==
  last' = [call |-> "open", status |-> status, by |-> r, file |-> f, mode |-> mode]

Opened(f, types, refs) == [file |-> f, types |-> types, refs |-> refs]

OpenFails(r, f, mode, status) ==
  /\ AnswerOpen(r, f, mode, status)
  /\ handle' = Closed
  /\ UNCHANGED <<entries, capacity>>

(* Mutant of OpenPinned: the caller's registry learns row by row. *)
OpenPinnedInPlace(r, f) ==
  LET file == Files[f]
      result == Learned([status |-> "OK", entries |-> entries[r], capacity |-> capacity[r]],
                        f, file.types \o file.refs)
  IN /\ entries' = [entries EXCEPT ![r] = result.entries]
     /\ capacity' = [capacity EXCEPT ![r] = result.capacity]
     /\ IF result.status = "OK"
        THEN /\ AnswerOpen(r, f, "pinned", "OK")
             /\ handle' = Opened(f, file.types, file.refs)
        ELSE /\ AnswerOpen(r, f, "pinned", "REFUSED")
             /\ handle' = Closed

(* A copy of the registry learns the rows, and replaces it when none failed. *)
OpenPinned(r, f) ==
  LET file == Files[f]
  IN \E clone \in Clones(entries[r]) :
       LET result == Learned(Learned(clone, f, file.types), f, file.refs)
       IN \/ /\ result.status = "OK"
             /\ entries' = [entries EXCEPT ![r] = result.entries]
             /\ capacity' = [capacity EXCEPT ![r] = result.capacity]
             /\ AnswerOpen(r, f, "pinned", "OK")
             /\ handle' = Opened(f, file.types, file.refs)
          \/ result.status # "OK" /\ OpenFails(r, f, "pinned", "REFUSED")

OpenTreeless(r, f, mode) ==
  LET file == Files[f]
  IN \/ /\ mode # "ordinary"
        /\ AllKnown(entries[r], f, file.types) /\ AllKnown(entries[r], f, file.refs)
        /\ AnswerOpen(r, f, mode, "OK")
        /\ handle' = Opened(f, Resolved(entries[r], f, file.types),
                               Resolved(entries[r], f, file.refs))
        /\ UNCHANGED <<entries, capacity>>
     \/ /\ \/ mode = "ordinary"
           \/ ~AllKnown(entries[r], f, file.types)
           \/ ~AllKnown(entries[r], f, file.refs)
        /\ OpenFails(r, f, mode, "REFUSED")

OpenAsItIs(r, f, mode) ==
  /\ AnswerOpen(r, f, mode, "OK")
  /\ handle' = Opened(f, Files[f].types, Files[f].refs)
  /\ UNCHANGED <<entries, capacity>>

(* A handle in use is not opened again, and a caller says "pinned" about
   pinned inputs only. *)
Open(r, f, mode) ==
  /\ handle = Closed
  /\ mode = "pinned" => Files[f].pinned
  /\ \/ /\ mode = "imported" \/ ~Readable(f)
        /\ OpenFails(r, f, mode, "REFUSED")
     \/ /\ mode # "imported" /\ Readable(f)
        /\ IF mode = "metadata" THEN OpenAsItIs(r, f, mode)
           ELSE IF ~Files[f].tree THEN OpenTreeless(r, f, mode)
           ELSE IF mode = "pinned" THEN OpenPinned(r, f)
           ELSE OpenAsItIs(r, f, mode)
     \/ mode # "imported" /\ OpenFails(r, f, mode, "ALLOCATION_FAILED")

----------------------------------------------------------------------------
(* serialized_file_resolve_class_schema. *)

Wanting(rows, class) ==
  {i \in DOMAIN rows : ClassOf[rows[i].traits] = class /\ rows[i].nodes = None}

Missing(es, f, rows, class) ==
  {i \in Wanting(rows, class) : Holding(es, KeyOf(f, rows[i])) = {}}

Filled(es, f, rows, wanted) ==
  [i \in DOMAIN rows |->
     IF i \in wanted THEN [rows[i] EXCEPT !.nodes = Lookup(es, KeyOf(f, rows[i]))]
     ELSE rows[i]]

ClassStatus(es, class, given) ==
  IF handle = Closed THEN "INVALID_ARGUMENT"
  ELSE IF Wanting(handle.types, class) = {} /\ Wanting(handle.refs, class) = {} THEN "OK"
  ELSE IF ~given THEN "INVALID_ARGUMENT"
  ELSE IF Missing(es, handle.file, handle.types, class) # {}
          \/ Missing(es, handle.file, handle.refs, class) # {} THEN "NOT_FOUND"
  ELSE "OK"

AnswerClass(r, class, status) ==
  last' = [call |-> "resolve", status |-> status, by |-> r, class |-> class]

(* Mutant of ResolveClass: rows are replaced as their schemas are found. *)
ResolveClassAsFound(r, class, given) ==
  LET es == entries[r]
      found(rows) == Wanting(rows, class) \ Missing(es, handle.file, rows, class)
      status == ClassStatus(es, class, given)
  IN /\ AnswerClass(r, class, status)
     /\ handle' = IF handle = Closed \/ ~given THEN handle
                  ELSE [handle EXCEPT !.types = Filled(es, handle.file, @, found(@)),
                                      !.refs = Filled(es, handle.file, @, found(@))]
     /\ UNCHANGED <<entries, capacity>>

(* All schemas are looked up before the first row is replaced. *)
ResolveClass(r, class, given) ==
  LET es == entries[r]
      status == ClassStatus(es, class, given)
  IN /\ \/ /\ status = "OK"
           /\ AnswerClass(r, class, "OK")
           /\ handle' = Opened(handle.file,
                Filled(es, handle.file, handle.types, Wanting(handle.types, class)),
                Filled(es, handle.file, handle.refs, Wanting(handle.refs, class)))
        \/ /\ status # "OK"
           /\ AnswerClass(r, class, status)
           /\ UNCHANGED handle
        \/ /\ handle # Closed /\ given
           /\ Wanting(handle.types, class) \cup Wanting(handle.refs, class) # {}
           /\ AnswerClass(r, class, "ALLOCATION_FAILED")
           /\ UNCHANGED handle
     /\ UNCHANGED <<entries, capacity>>

(* serialized_file_close. *)
Close ==
  /\ handle # Closed
  /\ handle' = Closed
  /\ Answer("close", "OK")
  /\ UNCHANGED <<entries, capacity>>

FileNext ==
  \/ \E r \in Registries :
       \/ \E f \in DOMAIN Files, mode \in Modes : Open(r, f, mode)
       \/ \E class \in Classes, given \in BOOLEAN : ResolveClass(r, class, given)
  \/ Close
  \/ Next /\ UNCHANGED handle

FileSpec == FileInit /\ [][FileNext]_fileVars

----------------------------------------------------------------------------
(* Properties. *)

(* What a file must be for it to be opened: no two objects share their PathID
   or a byte. *)
SoundFiles ==
  {f \in DOMAIN Files :
     LET file == Files[f]
         Bytes(o) == o.offset .. EndOf(o) - 1
     IN /\ file.whole /\ file.version \in Engines
        /\ \A i, j \in DOMAIN file.objects :
             i # j => /\ file.objects[i].path # file.objects[j].path
                      /\ Bytes(file.objects[i]) \cap Bytes(file.objects[j]) = {}
        /\ \A i \in DOMAIN file.objects : file.objects[i].offset <= MaxOffset}
Sound(f) == f \in SoundFiles

(* What a registry binds once it knows the schemas of f, too. *)
Taught(es, f) == Bound(es) \cup Pairs(f, Files[f].types \o Files[f].refs)

Teachable(es, f) ==
  LET all == Taught(es, f)
  IN /\ \A p, q \in all : p[1] = q[1] => p = q
     /\ \A p \in all : Valid(p[1], p[2])
     /\ Cardinality(all) <= MaxEntries

(* "PINNED_INPUT transactionally learns embedded schemas after complete
   metadata validation", "TypeTree-disabled files must resolve every serialized
   type", "Embedded schemas ... never mutate the registry": a call that has
   the memory it needs opens exactly the files with which all of its promise
   can be kept, keeps all of it, and otherwise nothing: whatever rows come
   first, no part of a file is learned or handed out. *)
OpenExact ==
  [][last'.call = "open" /\ last'.status # "ALLOCATION_FAILED" =>
       LET f == last'.file
           mode == last'.mode
           es == entries[last'.by]
           file == Files[f]
           learns == file.tree /\ mode = "pinned"
           ok == /\ Sound(f) /\ mode # "imported"
                 /\ ~file.tree /\ mode # "metadata" =>
                      mode # "ordinary" /\ \A i \in DOMAIN (file.types \o file.refs) :
                        \E p \in Bound(es) : p[1] = KeyOf(f, (file.types \o file.refs)[i])
                 /\ learns => Teachable(es, f)
       IN /\ last'.status = (IF ok THEN "OK" ELSE "REFUSED")
          /\ Bound(entries'[last'.by]) = IF ok /\ learns THEN Taught(es, f) ELSE Bound(es)
          /\ ok /\ ~file.tree /\ mode # "metadata" =>
               Pairs(f, handle'.types \o handle'.refs) \subseteq Bound(es)
          /\ ~ok => handle' = Closed]_fileVars

(* "Transactionally resolves every unresolved type/ref-type record for one
   exact class ID ... A miss leaves the SerializedFile unchanged.  Embedded
   TypeTrees and already-resolved records are preserved", also when the
   registry was changed, emptied or replaced since the file was opened. *)
ResolvesAllOrNothing ==
  [][last'.call = "resolve" /\ handle # Closed =>
       LET row(h, i) == (h.types \o h.refs)[i]
           wanted == {i \in DOMAIN (handle.types \o handle.refs) :
                        ClassOf[row(handle, i).traits] = last'.class /\ row(handle, i).nodes = None}
           bound == Bound(entries[last'.by])
       IN \A i \in DOMAIN (handle.types \o handle.refs) :
            IF i \in wanted /\ last'.status = "OK"
            THEN <<KeyOf(handle.file, row(handle, i)), row(handle', i).nodes>> \in bound
            ELSE row(handle', i) = row(handle, i)]_fileVars
=============================================================================

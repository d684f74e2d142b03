------------------------ MODULE SerializedDirectory ------------------------
(* The physical prefix and the ordinary directory of a serialized file
   (io/serialized_file_prefix.c, io/serialized_file_directory.c).
   A source is what the file says: the header's declarations, the version,
   the tree flag, the counts and the rows that follow them. *)
EXTENDS MeteredReader

CONSTANTS
  EngineVersions,  (* the version bytes each engine selection requires *)
  DirectorySize    (* sizeof and alignof of the owner and its rows *)

(* query_header: layout checks in the code's order, against the size the
   caller claims.  An overflowing metadata size ends past any data offset. *)
HeaderProgram(src, mapped, logical) ==
  When(logical < HeaderBytes, Refuse("MALFORMED_LAYOUT"))
  \o When(mapped < HeaderBytes, Refuse("INCOMPLETE_MAPPING"))
  \o <<Charge(HeaderBytes)>>
  \o When(src.format # 22, Refuse("UNSUPPORTED_VERSION"))
  \o When(src.endian > 1, Refuse("UNSUPPORTED_ENDIAN"))
  \o When(src.size # logical \/ src.data > src.size \/ src.end > src.data,
          Refuse("MALFORMED_LAYOUT"))

(* serialized_file_prefix_query: the version up to its NUL, the platform and
   the tree flag. *)
PrefixQuery(src, mapped, logical, caps) ==
  LET b == [end |-> src.end, mapped |-> mapped, origin |-> HeaderBytes,
            bytes |-> src.end, caps |-> caps]
  IN Run(b, Start(HeaderBytes),
         HeaderProgram(src, mapped, logical)
         \o Terminated("VERSION_BYTES", Len(src.version))
         \o <<Field(4), Field(1), Charge(1)>>)

(* admit_prefix: the version is compared byte by byte, each one charged. *)
VersionProgram(version, engine) ==
  IF engine \notin DOMAIN EngineVersions
  THEN <<Refuse("UNSUPPORTED_ENGINE_VERSION")>>
  ELSE LET expected == EngineVersions[engine]
           Differs(i) == i > Len(expected) \/ version[i] # expected[i]
           Compare(i) == <<Charge(1)>> \o When(Differs(i), Refuse("UNSUPPORTED_ENGINE_VERSION"))
       IN TableRows(Len(version), [i \in 1..Len(version) |-> i], Compare)
          \o When(Len(version) # Len(expected), Refuse("UNSUPPORTED_ENGINE_VERSION"))

(* The prefix's own limits have held; the byte limit is this owner's. *)
AdmitPrefix(src, mapped, logical, engine, caps) ==
  LET prefix == PrefixQuery(src, mapped, logical, caps)
      b      == [end |-> src.end, mapped |-> mapped, origin |-> HeaderBytes,
                 bytes |-> caps["BYTES"], caps |-> caps]
  IN IF prefix.status # "OK" THEN Reject(prefix, "PREFIX_REJECTED", prefix.status)
     ELSE Run(b, Again(prefix, prefix.pos),
              VersionProgram(src.version, engine)
              \o When(src.flag > 1, Refuse("UNSUPPORTED_TREE_FLAG"))
              \o When(prefix.pos - HeaderBytes > caps["BYTES"], Exceeds("BYTES")))

----------------------------------------------------------------------------
(* scan_type *)
TypeProgram(t, flag) ==
  TypePrefix(t)
  \o (IF flag = 0 THEN <<>>
      ELSE TypeTree(t) \o <<Field(4)>>
           \o When(t.deps > Int32Max, Refuse("MALFORMED_METADATA"))
           \o <<Tally("DEPENDENCIES", t.deps), Field(4 * t.deps)>>)
  \o <<Row("TYPES")>>

(* Mutant of ObjectProgram: an object may name the type after the last. *)
ObjectOneTooMany(o, src) ==
  <<Field(24)>>
  \o When(o.offset > src.size - src.data \/ o.bytes > src.size - src.data - o.offset,
          Refuse("MALFORMED_METADATA"))
  \o When(o.type > src.typeCount, Refuse("MALFORMED_METADATA"))
  \o <<Row("OBJECTS")>>

(* scan_object: ranges and type ordinals are checked after the row is read. *)
ObjectProgram(o, src) ==
  <<Field(24)>>
  \o When(o.offset > src.size - src.data \/ o.bytes > src.size - src.data - o.offset,
          Refuse("MALFORMED_METADATA"))
  \o When(o.type >= src.typeCount, Refuse("MALFORMED_METADATA"))
  \o <<Row("OBJECTS")>>

(* scan_directory: an empty object table has no padding. *)
DirectoryProgram(src, caps, capacity) ==
  TableCount(src.typeCount, "TYPES", caps, capacity)
  \o TableRows(src.typeCount, src.types, LAMBDA t : TypeProgram(t, src.flag))
  \o TableCount(src.objectCount, "OBJECTS", caps, capacity)
  \o When(src.objectCount # 0, Align)
  \o TableRows(src.objectCount, src.objects, LAMBDA o : ObjectProgram(o, src))

DirectoryBytes(rows) ==
  AppendArray(
    AppendArray(DirectorySize.owner,
                [align |-> DirectorySize.align, count |-> rows["TYPES"],
                 width |-> DirectorySize.type]),
    [align |-> DirectorySize.align, count |-> rows["OBJECTS"],
     width |-> DirectorySize.object])

(* serialized_file_directory_create.  Each pass reads a byte at most once, so
   what two passes may see of a backing that changes is two sources. *)
BuildDirectory(src, replayed, mapped, logical, engine, caps, memory) ==
  IF mapped > logical
  THEN Built(Reject(Start(0), "INVALID_ARGUMENT", "NONE"), NoneCounted, 0, 0)
  ELSE LET m == AdmitPrefix(src, mapped, logical, engine, caps)
           b == [end |-> src.end, mapped |-> mapped, origin |-> HeaderBytes,
                 bytes |-> caps["BYTES"], caps |-> caps]
       IN IF m.status # "OK" THEN Built(m, NoneCounted, 0, 0)
          ELSE Construct(b, m, DirectoryProgram(src, caps, <<>>),
                         LAMBDA rows : DirectoryProgram(replayed, caps, rows),
                         DirectoryBytes, memory)
=============================================================================

---------------------------- MODULE MetadataTail ----------------------------
(* The tables behind the objects of a serialized file and the catalogue of
   its reference types (io/serialized_file_metadata_tail.c,
   io/serialized_file_reference_index.c). *)
EXTENDS SerializedDirectory

CONSTANTS
  TailSize, IndexSize,   (* sizeof and alignof of the owners and their rows *)
  CatalogueEngine        (* the only engine the index supports *)

Empty == [live |-> FALSE]

Components == 1..3       (* class, namespace, assembly *)

----------------------------------------------------------------------------
(* scan_script *)
ScriptProgram == <<Field(4), Align, Field(8), Row("SCRIPTS")>>

(* scan_external *)
ExternalProgram(x) ==
  Terminated("TERMINATED", x.lead) \o <<Field(16), Field(4)>>
  \o Terminated("TERMINATED", x.path) \o <<Row("EXTERNALS")>>

(* scan_reference_type: names are present with trees only. *)
ReferenceProgram(r, flag) ==
  TypePrefix(r)
  \o (IF flag = 0 THEN <<>>
      ELSE TypeTree(r) \o Terminated("TERMINATED", Len(r.names[1]))
                       \o Terminated("TERMINATED", Len(r.names[2]))
                       \o Terminated("TERMINATED", Len(r.names[3])))
  \o <<Row("REFERENCE_TYPES")>>

(* scan_tail: the metadata ends with the user information. *)
TailProgram(src, caps, capacity) ==
  TableCount(src.scriptCount, "SCRIPTS", caps, capacity)
  \o TableRows(src.scriptCount, src.scripts, LAMBDA s : ScriptProgram)
  \o TableCount(src.externalCount, "EXTERNALS", caps, capacity)
  \o TableRows(src.externalCount, src.externals, ExternalProgram)
  \o TableCount(src.refCount, "REFERENCE_TYPES", caps, capacity)
  \o TableRows(src.refCount, src.refs, LAMBDA r : ReferenceProgram(r, src.flag))
  \o Terminated("TERMINATED", src.user) \o <<Exhausted>>

TailBytes(rows) ==
  LET Append3(total, count, width) ==
        AppendArray(total, [align |-> TailSize.align, count |-> count, width |-> width])
  IN Append3(Append3(Append3(TailSize.owner, rows["SCRIPTS"], TailSize.script),
                     rows["EXTERNALS"], TailSize.external),
             rows["REFERENCE_TYPES"], TailSize.reference)

(* serialized_file_metadata_tail_create over the directory d.  same says that
   the caller passes the mapping the directory was made from. *)
BuildTail(d, replayed, same, mapped, logical, caps, memory) ==
  IF mapped > logical
  THEN Built(Reject(Start(0), "INVALID_ARGUMENT", "NONE"), NoneCounted, 0, 0)
  ELSE IF ~d.live THEN Built(Reject(Start(0), "INVALID_STATE", "NONE"), NoneCounted, 0, 0)
  ELSE LET b == [end |-> d.src.end, mapped |-> mapped, origin |-> d.end,
                 bytes |-> caps["BYTES"], caps |-> caps]
           m == Run(b, Start(d.end),
                    <<Charge(1)>> \o When(~same \/ logical # d.src.size,
                                          Refuse("SOURCE_MISMATCH")))
       IN IF m.status # "OK" THEN Built(m, NoneCounted, 0, 0)
          ELSE Construct(b, m, TailProgram(d.src, caps, <<>>),
                         LAMBDA rows : TailProgram(replayed, caps, rows),
                         TailBytes, memory)

----------------------------------------------------------------------------
(* The catalogue of reference types. *)

(* select_domain *)
DomainProgram(t, caps) ==
  <<Charge(1)>> \o When(t.engine # CatalogueEngine, Refuse("UNSUPPORTED_ENGINE"))
  \o When(Len(t.refs) > caps["REFERENCE_TYPES"], Exceeds("REFERENCE_TYPES"))
  \o When(t.refs # <<>> /\ t.flag = 0, Refuse("IDENTITIES_UNAVAILABLE"))

(* preflight_row: the names of a genuine tail's row are where the tail found
   them, so only their sizes matter. *)
PreflightRow(r) ==
  <<Row("REFERENCE_TYPES")>>
  \o [k \in Components |-> Tally("IDENTITY_BYTES", Len(r.names[k]) + 1)]

IndexBytes(rows) ==
  AppendArray(IndexSize.owner, [align |-> IndexSize.align, count |-> rows["REFERENCE_TYPES"],
                                width |-> IndexSize.row])

(* serialized_file_reference_index_create: the second pass copies the rows. *)
BuildIndex(t, caps, memory) ==
  IF ~t.live THEN Built(Reject(Start(0), "INVALID_STATE", "NONE"), NoneCounted, 0, 0)
  ELSE LET b == [end |-> 0, mapped |-> 0, origin |-> 0, bytes |-> 0, caps |-> caps]
           m == Run(b, Start(0), DomainProgram(t, caps))
           Copy(rows) == TableRows(Len(t.refs), t.refs, LAMBDA r : <<Row("REFERENCE_TYPES")>>)
       IN IF m.status # "OK" THEN Built(m, NoneCounted, 0, 0)
          ELSE Construct(b, m, TableRows(Len(t.refs), t.refs, PreflightRow), Copy,
                         IndexBytes, memory)

(* query_row: a component is reached when those before it are equal; bytes of
   equal length are charged before they are compared. *)
QueryRow(r, key) ==
  LET Reached(k) == \A j \in 1..(k - 1) : r.names[j] = key[j]
      Compare(k) == IF ~Reached(k) THEN <<>>
                    ELSE <<Charge(1)>> \o When(Len(r.names[k]) = Len(key[k]) /\ key[k] # <<>>,
                                               Charge(Len(key[k])))
  IN <<Charge(1)>> \o Compare(1) \o Compare(2) \o Compare(3)

(* serialized_file_reference_index_query: every row is looked at, also after
   a second match. *)
QueryProgram(refs, key, caps) ==
  LET Part(k) == When(Len(key[k]) > caps["COMPONENT_BYTES"], Exceeds("COMPONENT_BYTES"))
                 \o <<Tally("KEY_BYTES", Len(key[k]))>>
  IN <<Charge(1)>> \o Part(1) \o Part(2) \o Part(3)
     \o TableRows(Len(refs), refs, LAMBDA r : QueryRow(r, key)) \o <<Charge(1)>>

NoMatch == [count |-> 0, first |-> 0, second |-> 0]

(* Mutant of AddMatch: the second match takes the place of the first. *)
AddMatchLast(match, i) ==
  CASE match.count = 0 -> [match EXCEPT !.first = i, !.count = 1]
    [] match.count > 0 -> [match EXCEPT !.first = i, !.second = match.first, !.count = @ + 1]

AddMatch(match, i) ==
  CASE match.count = 0 -> [match EXCEPT !.first = i, !.count = 1]
    [] match.count = 1 -> [match EXCEPT !.second = i, !.count = 2]
    [] match.count > 1 -> [match EXCEPT !.count = @ + 1]

Matches(refs, key) ==
  LET match[i \in 0..Len(refs)] ==
        IF i = 0 THEN NoMatch
        ELSE IF refs[i].names = key THEN AddMatch(match[i - 1], i) ELSE match[i - 1]
  IN match[Len(refs)]

RunQuery(x, key, caps) ==
  LET b == [end |-> 0, mapped |-> 0, origin |-> 0, bytes |-> 0, caps |-> caps]
  IN IF ~x.live THEN Reject(Start(0), "INVALID_STATE", "NONE")
     ELSE Run(b, Start(0), QueryProgram(x.refs, key, caps))
=============================================================================

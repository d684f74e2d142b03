--------------------------- MODULE SchemaRegistry ---------------------------
(***************************************************************************)
(* src/src/io/typetree_schema_registry.c: the cache of TypeTree schemas.   *)
(* Several programs each own a registry; they learn schemas from inputs,   *)
(* bind them to further engine versions, and pass whole registries on as   *)
(* canonical images (the file itself is RegistryFile's subject).           *)
(*                                                                         *)
(* A key is the version of the file format, the engine version, and all    *)
(* its other components, each ordered: compare_keys decides by the first   *)
(* that differs, in this order.                                            *)
(***************************************************************************)
EXTENDS Naturals, Sequences

CONSTANTS
  Registries,      \* the programs
  Formats,         \* components of a key, as naturals: file formats,
  Versions, Traits,\* engine versions, and what else is in it
  Schemas,         \* schemas that may be found under a key
  Pinned,          \* <<key, schema>> pairs of inputs the callers have pinned
  Malformed,       \* <<key, schema>> pairs validate_schema rejects
  Known,           \* reviewed profiles: the schemas of each known shape, which
                   \* belongs to an engine version and traits, in any format
  InitialCapacity, \* 8 in the code
  MaxEntries,      \* 65536 in the code
  Images           \* what a file to import may hold, whoever wrote it

Keys == [format : Formats, version : Versions, traits : Traits]
Entries == [key : Keys, schema : Schemas]

ASSUME RegistryAssumption ==
  /\ Formats \subseteq Nat /\ Versions \subseteq Nat /\ Traits \subseteq Nat
  /\ Pinned \subseteq Keys \X Schemas /\ Malformed \subseteq Keys \X Schemas
  /\ DOMAIN Known \subseteq Versions \X Traits
  /\ \A shape \in DOMAIN Known : Known[shape] \subseteq Schemas
  /\ InitialCapacity \in Nat \ {0} /\ MaxEntries \in Nat \ {0}
  /\ InitialCapacity <= MaxEntries
  /\ Images \subseteq [count : Nat, digest : Seq(Entries), body : Seq(Entries)]

VARIABLES
  entries,   \* each registry's entries, an array in canonical order
  capacity,  \* and its allocated length
  last       \* the call that was answered last, and its status

vars == <<entries, capacity, last>>

Status == {"OK", "NOT_FOUND", "INVALID_ARGUMENT", "INVALID_SCHEMA",
           "KEY_CONFLICT", "ALLOCATION_FAILED", "INVALID_FORMAT",
           "DIGEST_MISMATCH", "LIMIT_EXCEEDED", "REFUSED"}

Init ==
  /\ entries = [r \in Registries |-> <<>>]
  /\ capacity = [r \in Registries |-> 0]
  /\ last = [call |-> "init", status |-> "OK"]

Answer(call, status) == last' = [call |-> call, status |-> status]

(* compare_keys(k, l) < 0. *)
Less(k, l) ==
  \/ k.format < l.format
  \/ k.format = l.format /\ k.version < l.version
  \/ k.format = l.format /\ k.version = l.version /\ k.traits < l.traits

Holding(es, k) == {i \in DOMAIN es : es[i].key = k}

(* typetree_schema_validate_known_profile, and validate_schema with it. *)
Profile(k, s) ==
  LET shape == <<k.version, k.traits>>
  IN IF shape \notin DOMAIN Known THEN "UNKNOWN"
     ELSE IF s \in Known[shape] THEN "VALID" ELSE "INVALID"
Valid(k, s) == <<k, s>> \notin Malformed /\ Profile(k, s) # "INVALID"

----------------------------------------------------------------------------
(* typetree_schema_registry_learn. *)

(* registry_reserve: the array doubles, up to the limit. *)
Grown(c, required) ==
  LET start == IF c = 0 THEN InitialCapacity ELSE c
      enough == {m \in required..MaxEntries : \E n \in 0..required : m = start * 2^n}
  IN IF required <= c THEN c
     ELSE IF enough = {} THEN MaxEntries
     ELSE CHOOSE m \in enough : \A o \in enough : m <= o

(* Mutant of Insert: new entries are appended. *)
InsertLast(es, e) == Append(es, e)

(* The new entry goes before the first one with a greater key. *)
Place(es, k) ==
  CHOOSE i \in 1..Len(es) + 1 :
    /\ i = Len(es) + 1 \/ Less(k, es[i].key)
    /\ \A j \in 1..i - 1 : ~Less(k, es[j].key)

Insert(es, e) ==
  LET at == Place(es, e.key)
  IN [i \in 1..Len(es) + 1 |-> IF i < at THEN es[i] ELSE IF i = at THEN e ELSE es[i-1]]

LearnStatus(es, k, s) ==
  IF ~Valid(k, s) THEN "INVALID_SCHEMA"
  ELSE IF \E i \in Holding(es, k) : es[i].schema # s THEN "KEY_CONFLICT"
  ELSE IF Holding(es, k) = {} /\ Len(es) = MaxEntries THEN "LIMIT_EXCEEDED"
  ELSE "OK"

(* Mutant of LearnInto: a known key gets the new schema. *)
LearnOverwrites(call, r, k, s) ==
  LET known == Holding(entries[r], k)
  IN /\ Valid(k, s)
     /\ Answer(call, "OK")
     /\ entries' = [entries EXCEPT ![r] =
          IF known = {} THEN Insert(@, [key |-> k, schema |-> s])
          ELSE [i \in DOMAIN @ |-> IF i \in known THEN [@[i] EXCEPT !.schema = s]
                                   ELSE @[i]]]
     /\ capacity' = [capacity EXCEPT ![r] = Grown(@, Len(entries[r]) + 1)]

(* What learn does once the provenance is accepted: any of its three
   allocations may fail before the array changes. *)
LearnInto(call, r, k, s) ==
  LET status == LearnStatus(entries[r], k, s)
      new == status = "OK" /\ Holding(entries[r], k) = {}
  IN \/ /\ new
        /\ entries' = [entries EXCEPT ![r] = Insert(@, [key |-> k, schema |-> s])]
        /\ capacity' = [capacity EXCEPT ![r] = Grown(@, Len(entries[r]) + 1)]
        /\ Answer(call, "OK")
     \/ /\ new
        /\ Answer(call, "ALLOCATION_FAILED")
        /\ UNCHANGED <<entries, capacity>>
     \/ /\ ~new
        /\ Answer(call, status)
        /\ UNCHANGED <<entries, capacity>>

(* A caller says PINNED_INPUT about pinned inputs only. *)
Learn(r, k, s) == <<k, s>> \in Pinned /\ LearnInto("learn", r, k, s)

(* Of any other provenance nothing is learned, whatever the schema. *)
LearnUnpinned ==
  /\ Answer("learn", "INVALID_ARGUMENT")
  /\ UNCHANGED <<entries, capacity>>

----------------------------------------------------------------------------
(* typetree_schema_registry_bind_exact_version. *)

(* The scan stops at the destination key itself, if it is there. *)
Scanned(es, k) == {i \in DOMAIN es : \A h \in Holding(es, k) : i < h}

(* Mutant of Alike: an entry of another file format will do. *)
AlikeInAnyFormat(es, k) == {i \in Scanned(es, k) : es[i].key.traits = k.traits}

(* schema_keys_match_except_unity_version. *)
SameButVersion(k, l) == k.format = l.format /\ k.traits = l.traits

Alike(es, k) == {i \in Scanned(es, k) : SameButVersion(es[i].key, k)}
Evidence(es, k) == {es[i].schema : i \in Alike(es, k)}

(* Mutant of BindStatus: an engine version without a reviewed profile will do. *)
BindStatusUnreviewed(es, k) ==
  IF \E s, t \in Evidence(es, k) : s # t THEN "KEY_CONFLICT"
  ELSE IF Holding(es, k) # {} THEN "OK"
  ELSE IF Evidence(es, k) = {} THEN "NOT_FOUND"
  ELSE "learn"

(* Mutant of BindStatus: entries that disagree are not noticed. *)
BindStatusPicks(es, k) ==
  IF Holding(es, k) # {} THEN "OK"
  ELSE IF Evidence(es, k) = {} THEN "NOT_FOUND"
  ELSE IF \E s \in Evidence(es, k) : Profile(k, s) # "VALID" THEN "INVALID_SCHEMA"
  ELSE "learn"

BindStatus(es, k) ==
  IF \E s, t \in Evidence(es, k) : s # t THEN "KEY_CONFLICT"
  ELSE IF Holding(es, k) # {} THEN "OK"
  ELSE IF Evidence(es, k) = {} THEN "NOT_FOUND"
  ELSE IF \E s \in Evidence(es, k) : Profile(k, s) # "VALID" THEN "INVALID_SCHEMA"
  ELSE "learn"

Bind(r, k) ==
  LET status == BindStatus(entries[r], k)
  IN \/ /\ status = "learn"
        /\ \E s \in Evidence(entries[r], k) : LearnInto("bind", r, k, s)
     \/ /\ status # "learn"
        /\ Answer("bind", status)
        /\ UNCHANGED <<entries, capacity>>

----------------------------------------------------------------------------
(* typetree_schema_registry_serialize.  The digest stands for the bytes it was
   computed from; the count is in the header, which the digest does not cover. *)

Ordered(es) == \A i \in 2..Len(es) : Less(es[i-1].key, es[i].key)

Image(es) == [count |-> Len(es), digest |-> es, body |-> es]

(* The entries are sorted once more before they are written: all are there. *)
Sorted(es) ==
  LET all == {es[i] : i \in DOMAIN es}
  IN {f \in [DOMAIN es -> all] : Ordered(f) /\ all \subseteq {f[i] : i \in DOMAIN es}}

Written(es) == {Image(sorted) : sorted \in Sorted(es)}

AnswerImage(call, status, image) ==
  last' = [call |-> call, status |-> status, image |-> image]

Export(r) ==
  /\ \/ \E image \in Written(entries[r]) : AnswerImage("export", "OK", image)
     \/ Answer("export", "ALLOCATION_FAILED")
  /\ UNCHANGED <<entries, capacity>>

(* typetree_schema_registry_deserialize_replace. *)
BadRecords(body, count) ==
  {i \in 1..count :
     \/ i > Len(body)
     \/ i > 1 /\ ~Less(body[i-1].key, body[i].key)
     \/ ~Valid(body[i].key, body[i].schema)}

RecordStatus(body, i) ==
  IF i > Len(body) \/ (i > 1 /\ ~Less(body[i-1].key, body[i].key))
  THEN "INVALID_FORMAT" ELSE "INVALID_SCHEMA"

ImportStatus(image) ==
  LET bad == BadRecords(image.body, image.count)
  IN IF image.count > MaxEntries THEN "LIMIT_EXCEEDED"
     ELSE IF image.digest # image.body THEN "DIGEST_MISMATCH"
     ELSE IF bad # {}
     THEN RecordStatus(image.body, CHOOSE i \in bad : \A j \in bad : i <= j)
     ELSE IF image.count # Len(image.body) THEN "INVALID_FORMAT"
     ELSE "OK"

(* Mutant of Import: the old registry is given up before the records are read. *)
ImportInPlace(r, image) ==
  LET status == ImportStatus(image)
  IN /\ AnswerImage("import", status, image)
     /\ entries' = [entries EXCEPT ![r] = IF status = "OK" THEN image.body ELSE <<>>]
     /\ capacity' = [capacity EXCEPT ![r] = IF status = "OK"
                                            THEN Grown(0, image.count) ELSE 0]

(* The records go to a registry of their own, which replaces the old one when
   every check has passed. *)
Import(r, image) ==
  LET status == ImportStatus(image)
  IN \/ /\ status = "OK"
        /\ entries' = [entries EXCEPT ![r] = SubSeq(image.body, 1, image.count)]
        /\ capacity' = [capacity EXCEPT ![r] = Grown(0, image.count)]
        /\ AnswerImage("import", "OK", image)
     \/ /\ AnswerImage("import",
             IF status = "OK" THEN "ALLOCATION_FAILED" ELSE status, image)
        /\ UNCHANGED <<entries, capacity>>

(* typetree_schema_registry_dispose. *)
Dispose(r) ==
  /\ entries' = [entries EXCEPT ![r] = <<>>]
  /\ capacity' = [capacity EXCEPT ![r] = 0]
  /\ Answer("dispose", "OK")

Next ==
  \/ \E r \in Registries, k \in Keys :
       \/ \E s \in Schemas : Learn(r, k, s)
       \/ Bind(r, k)
  \/ LearnUnpinned
  \/ \E r \in Registries :
       \/ Export(r) \/ Dispose(r)
       \/ \E image \in Images \cup UNION {Written(entries[o]) : o \in Registries} :
            Import(r, image)

Spec == Init /\ [][Next]_vars

----------------------------------------------------------------------------
(* Properties. *)

(* Every variable keeps its type. *)
TypeOK ==
  /\ entries \in [Registries -> Seq(Entries)]
  /\ capacity \in [Registries -> 0..MaxEntries]
  /\ last.status \in Status

(* "in the same canonical key order as registry serialization": the array is
   strictly ordered, so no key is bound twice, whatever was learned, bound and
   imported before; and it fits what was allocated for it. *)
Canonical ==
  /\ TypeOK
  /\ \A r \in Registries : Ordered(entries[r]) /\ Len(entries[r]) <= capacity[r]

Bound(es) == {<<es[i].key, es[i].schema>> : i \in DOMAIN es}

(* What came from outside under a key: a pinned input, or an image that passes
   every check, whose entries its writer answers for. *)
Trusted ==
  Pinned \cup UNION {Bound(image.body) : image \in {i \in Images : ImportStatus(i) = "OK"}}

Authorised(k, s) ==
  /\ Valid(k, s)
  /\ \/ <<k, s>> \in Trusted
     \/ /\ Profile(k, s) = "VALID"
        /\ \E v \in Versions : <<[k EXCEPT !.version = v], s>> \in Trusted

(* "A schema is never synthesized": each entry came from outside under its very
   key, or under one "identical except for unity_version" (the file format
   included), the new engine version having a reviewed profile for it.  And the
   array is canonical. *)
Authority ==
  /\ Canonical
  /\ \A r \in Registries : \A i \in DOMAIN entries[r] :
       Authorised(entries[r][i].key, entries[r][i].schema)

(* "the same key with different schema bytes is a hard conflict": what a
   registry binds it keeps binding to the same schema, until it is replaced or
   disposed of as a whole; and a binding to a further version never picks
   between schemas: all entries that differ in it only agreed when it was made. *)
NeverRebound ==
  [][\A r \in Registries :
       LET old == Bound(entries[r])
           new == Bound(entries'[r])
       IN /\ old \subseteq new
             \/ (last'.call \in {"import", "dispose"} /\ last'.status = "OK")
          /\ last'.call = "bind" =>
               \A n \in new \ old, o \in old :
                 SameButVersion(o[1], n[1]) => o[2] = n[2]]_vars

(* "Strict, transactional replacement": an image is accepted only if it is, bit
   for bit, what the imported registry would be written as, so that nothing of
   it is ignored; and a call that fails, wherever it does, changes no registry. *)
Transactional ==
  [][/\ last'.call = "import" /\ last'.status = "OK" =>
          \E r \in Registries : Image(entries'[r]) = last'.image
     /\ last'.status # "OK" => entries' = entries /\ capacity' = capacity]_vars
=============================================================================

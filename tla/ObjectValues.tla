---------------------------- MODULE ObjectValues ----------------------------
(* The values of an object of a supported type: a TextAsset, or a
   MonoBehaviour with one field (io/serialized_file_values.c).  The payload is
   read once to see whether it fits and once more into the allocation.
   An object is given by where its payload lies and by the lengths that its
   strings, by the ordinal of the value, announce in either pass; integers are spans whose bits nothing
   decides on.  In the tables -1 stands for SIZE_MAX, ordinals start at 0. *)
EXTENDS SchemaCompiler, TLC

LOCAL INSTANCE SequencesExt

CONSTANTS
  Spelled(_),       (* the bytes of a name *)
  ObjectMax,        (* INT32_MAX, of payloads and of lengths in them *)
  ValuesSize        (* of the storage and of a value *)

(* Type, name, level, flags, width, meta flags; parent, first child, next
   sibling, children, end.  "" admits any name. *)
TextAssetNodes == <<
  <<"TextAsset", "Base", 0, 0, -1, \h8000, -1, 1, -1, 2, 9>>,
  <<"string", "m_Name", 1, 0, -1, \h88001, 0, 2, 5, 1, 5>>,
  <<"Array", "Array", 2, 1, -1, \h84001, 1, 3, -1, 2, 5>>,
  <<"int", "size", 3, 0, 4, \h80001, 2, -1, 4, 0, 4>>,
  <<"char", "data", 3, 0, 1, \h80001, 2, -1, -1, 0, 5>>,
  <<"string", "m_Script", 1, 0, -1, \h4008001, 0, 6, -1, 1, 9>>,
  <<"Array", "Array", 2, 1, -1, \h4004001, 5, 7, -1, 2, 9>>,
  <<"int", "size", 3, 0, 4, \h4000001, 6, -1, 8, 0, 8>>,
  <<"char", "data", 3, 0, 1, \h4000001, 6, -1, -1, 0, 9>> >>

MonoBehaviourNodes == <<
  <<"MonoBehaviour", "Base", 0, 0, -1, \h8000, -1, 1, -1, 5, 13>>,
  <<"PPtr<GameObject>", "m_GameObject", 1, 0, 12, \h41, 0, 2, 4, 2, 4>>,
  <<"int", "m_FileID", 2, 0, 4, \h41, 1, -1, 3, 0, 3>>,
  <<"SInt64", "m_PathID", 2, 0, 8, \h41, 1, -1, -1, 0, 4>>,
  <<"UInt8", "m_Enabled", 1, 0, 1, \h4101, 0, -1, 5, 0, 5>>,
  <<"PPtr<MonoScript>", "m_Script", 1, 0, 12, 0, 0, 6, 8, 2, 8>>,
  <<"int", "m_FileID", 2, 0, 4, \h800001, 5, -1, 7, 0, 7>>,
  <<"SInt64", "m_PathID", 2, 0, 8, \h800001, 5, -1, -1, 0, 8>>,
  <<"string", "m_Name", 1, 0, -1, \h88001, 0, 9, 12, 1, 12>>,
  <<"Array", "Array", 2, 1, -1, \h84001, 8, 10, -1, 2, 12>>,
  <<"int", "size", 3, 0, 4, \h80001, 9, -1, 11, 0, 11>>,
  <<"char", "data", 3, 0, 1, \h80001, 9, -1, -1, 0, 12>>,
  <<"int", "", 1, 0, 4, 0, 0, -1, -1, 0, 13>> >>

TextReferenceTail == <<
  <<"PPtr<$TextAsset>", "", 1, 0, 12, 0, 0, 13, -1, 2, 15>>,
  <<"int", "m_FileID", 2, 0, 4, \h800001, 12, -1, 14, 0, 14>>,
  <<"SInt64", "m_PathID", 2, 0, 8, \h800001, 12, -1, -1, 0, 15>> >>

(* Schema node, kind; parent, first child, next sibling, children, end. *)
TextAssetRoles == <<
  <<0, "CONTAINER", -1, 1, -1, 2, 3>>, <<1, "STRING", 0, -1, 2, 0, 2>>,
  <<5, "STRING", 0, -1, -1, 0, 3>> >>

MonoBehaviourRoles == <<
  <<0, "CONTAINER", -1, 1, -1, 5, 10>>, <<1, "CONTAINER", 0, 2, 4, 2, 4>>,
  <<2, "SIGNED", 1, -1, 3, 0, 3>>, <<3, "SIGNED", 1, -1, -1, 0, 4>>,
  <<4, "UNSIGNED", 0, -1, 5, 0, 5>>, <<5, "CONTAINER", 0, 6, 8, 2, 8>>,
  <<6, "SIGNED", 5, -1, 7, 0, 7>>, <<7, "SIGNED", 5, -1, -1, 0, 8>>,
  <<8, "STRING", 0, -1, 9, 0, 9>>, <<12, "SIGNED", 0, -1, -1, 0, 10>> >>

TextReferenceRoles == <<
  <<12, "CONTAINER", 0, 10, -1, 2, 12>>, <<13, "SIGNED", 9, -1, 11, 0, 11>>,
  <<14, "SIGNED", 9, -1, -1, 0, 12>> >>

(* The variant changes the tail and where the root ends. *)
Profile ==
  [text |-> [nodes |-> TextAssetNodes, roles |-> TextAssetRoles, depth |-> 1,
             fields |-> <<1, 2>>],
   mono |-> [nodes |-> MonoBehaviourNodes, roles |-> MonoBehaviourRoles, depth |-> 2,
             fields |-> <<1, 4, 5, 8, 9>>],
   reference |->
     [nodes |-> [SubSeq(MonoBehaviourNodes, 1, 12) EXCEPT ![1][11] = 15] \o TextReferenceTail,
      roles |-> [SubSeq(MonoBehaviourRoles, 1, 9) EXCEPT ![1][7] = 12] \o TextReferenceRoles,
      depth |-> 2, fields |-> <<1, 4, 5, 8, 9>>]]

----------------------------------------------------------------------------
(* Does the schema fit? *)

NodeMatches(node, x) ==
  /\ node.usual
  /\ <<node.level, node.flags, node.width, node.meta>> = SubSeq(x, 3, 6)
  /\ <<node.parent - 1, node.first - 1, node.next - 1, node.children, node.end - 1>> = SubSeq(x, 7, 11)

CommonPrefix(a, b) ==
  Min({k \in 0..Len(a) : k = Len(a) \/ a[k + 1] # b[k + 1]})

(* A unit, and one for every byte up to the one that differs. *)
NameMatches(b, m, actual, expected) ==
  Then(PayUnits(b, m, 1), LAMBDA p :
    IF expected = "" THEN p
    ELSE Then(Require(p, Len(actual) = Len(Spelled(expected)), "UNSUPPORTED_SCHEMA"), LAMBDA q :
      LET same == CommonPrefix(Spelled(expected), actual)
      IN Then(PayUnits(b, q, Min({same + 1, Len(actual)})),
              LAMBDA r : Require(r, same = Len(actual), "UNSUPPORTED_SCHEMA"))))

QualifyNode(b, m, node, x) ==
  Then(PayUnits(b, m, 1), LAMBDA p :
    Then(Require(p, NodeMatches(node, x), "UNSUPPORTED_SCHEMA"), LAMBDA q :
      Then(NameMatches(b, q, node.type, x[1]), LAMBDA r : NameMatches(b, r, node.name, x[2]))))

HasHash(row) == row.class = 114 \/ row.script <= 32767
IsTextAsset(row) == row.class = 49 /\ row.script = 65535 /\ ~row.stripped /\ ~HasHash(row)
IsMonoBehaviour(row) == row.class = 114 /\ row.script <= 32767 /\ ~row.stripped /\ HasHash(row)

ProfileOf(schema) ==
  IF IsTextAsset(schema.row) THEN "text"
  ELSE IF Len(schema.nodes) = 15 THEN "reference" ELSE "mono"

QualifyProfile(b, m, schema, context, ordinary) ==
  LET nodes == Profile[ProfileOf(schema)].nodes
  IN Then(Require(m, IsTextAsset(schema.row) \/ (ordinary /\ IsMonoBehaviour(schema.row)),
                  "UNSUPPORTED_TYPE"), LAMBDA p :
       Then(Require(p, /\ Len(schema.nodes) = Len(nodes) /\ context.registry = 0
                       /\ context.stop = Len(nodes) + 1, "UNSUPPORTED_SCHEMA"), LAMBDA q :
         Loop(q, Len(nodes), LAMBDA r, i : QualifyNode(b, r, schema.nodes[i], nodes[i]))))

(* The nested query has the work that is left. *)
UseContext(b, m, schema, kind) ==
  Using(QueryContext(schema, kind, b.caps["WORK"] - m.work), LAMBDA nested :
    LET paid == [m EXCEPT !.work = @ + nested.work]
    IN CASE nested.status = "OK" -> [meter |-> paid, context |-> nested.context]
         [] nested.status = "LIMIT_EXCEEDED" ->
              [meter |-> Reject(paid, "LIMIT_EXCEEDED", "WORK"), context |-> NoContext]
         [] OTHER -> [meter |-> Reject(paid, "CONTEXT_REJECTED", "NONE"), context |-> NoContext])

QualifySchema(b, m, schema, ordinary) ==
  Using(UseContext(b, m, schema, "ORDINARY_OBJECT"), LAMBDA used :
    Then(used.meter, LAMBDA p : QualifyProfile(b, p, schema, used.context, ordinary)))

----------------------------------------------------------------------------
(* A pass over the payload. *)

Cursor(m, object) ==
  [work |-> m.work, status |-> m.status, limit |-> m.limit, pos |-> object.offset,
   strings |-> 0, padding |-> 0, numbers |-> 0, values |-> [v \in {} |-> 0]]

Ends(object) == object.offset + object.bytes

TakeSpan(b, m, object, width) ==
  Then(Require(m, width <= Ends(object) - m.pos, "TRUNCATED_OBJECT"), LAMBDA p :
    Then(Pay(b, p, width + 1), LAMBDA q : [q EXCEPT !.pos = @ + width]))

ReadPadding(b, m, object) ==
  LET n == (-m.pos) % 4
  IN Then(Cap(b, [m EXCEPT !.padding = @ + n], m.padding + n, "PADDING"),
          LAMBDA p : TakeSpan(b, p, object, n))

CompleteValue(b, m, ordinal, start) ==
  Then(Pay(b, m, 1), LAMBDA p :
    [p EXCEPT !.values = (ordinal :> [from |-> start, to |-> p.pos]) @@ @])

(* Mutant of ReadBytes: the total is not what is left of the limit. *)
ReadBytesEach(b, m, object, length) ==
  Then(TakeSpan(b, m, object, 4), LAMBDA p :
    Then(Require(p, length <= ObjectMax, "UNSUPPORTED_STRING_LENGTH"), LAMBDA q :
      Then(Cap(b, q, length, "STRING"), LAMBDA r :
        Then(Cap(b, [r EXCEPT !.strings = @ + length], length, "TOTAL_STRING"), LAMBDA s :
          Then(TakeSpan(b, s, object, length), LAMBDA t : ReadPadding(b, t, object))))))

(* A length, as many bytes, and padding. *)
ReadBytes(b, m, object, length) ==
  Then(TakeSpan(b, m, object, 4), LAMBDA p :
    Then(Require(p, length <= ObjectMax, "UNSUPPORTED_STRING_LENGTH"), LAMBDA q :
      Then(Cap(b, q, length, "STRING"), LAMBDA r :
        Then(Cap(b, [r EXCEPT !.strings = @ + length], r.strings + length, "TOTAL_STRING"),
             LAMBDA s :
          Then(TakeSpan(b, s, object, length), LAMBDA t : ReadPadding(b, t, object))))))

ReadString(b, m, object, length, ordinal) ==
  Then(ReadBytes(b, m, object, length), LAMBDA p : CompleteValue(b, p, ordinal, m.pos))

Aligned(meta) == (meta \div \h4000) % 2 = 1

(* A number of the width and with the meta flags of node x. *)
ReadNumber(b, m, object, x, limit, total) ==
  Then(Cap(b, m, x[5], limit), LAMBDA p :
    Then(Cap(b, [p EXCEPT !.numbers = @ + x[5]], p.numbers + x[5], total), LAMBDA q :
      Then(TakeSpan(b, q, object, x[5]),
           LAMBDA r : IF Aligned(x[6]) THEN ReadPadding(b, r, object) ELSE r)))

ReadInteger(b, m, object, x, ordinal) ==
  Then(ReadNumber(b, m, object, x, "INTEGER", "TOTAL_INTEGER"),
       LAMBDA p : CompleteValue(b, p, ordinal, m.pos))

(* A field of the root: a string, an integer, or a pair of integers. *)
ReadField(b, m, object, lengths, profile, ordinal) ==
  LET role == profile.roles[ordinal + 1]
      Integer(p, v) == ReadInteger(b, p, object, profile.nodes[profile.roles[v + 1][1] + 1], v)
  IN CASE role[2] = "STRING" -> ReadString(b, m, object, lengths[ordinal], ordinal)
       [] role[2] \in {"SIGNED", "UNSIGNED"} -> Integer(m, ordinal)
       [] role[2] = "CONTAINER" ->
            Then(Loop(m, role[7] - role[4], LAMBDA p, i : Integer(p, role[4] + i - 1)),
                 LAMBDA p : CompleteValue(b, p, ordinal, m.pos))

ParsePayload(b, m, object, lengths, profile) ==
  Then(Loop(Cursor(m, object), Len(profile.fields),
            LAMBDA p, i : ReadField(b, p, object, lengths, profile, profile.fields[i])),
       LAMBDA p : Then(Require(p, p.pos = Ends(object), "TRAILING_OBJECT_BYTES"),
                       LAMBDA q : CompleteValue(b, q, 0, object.offset)))

----------------------------------------------------------------------------
(* Creation. *)

SameOriginalType(directory, object, schema) ==
  /\ schema.kind = "ORDINARY" /\ schema.file = directory.file /\ schema.ordinal = object.type

AdmitObject(m, directory, call, object) ==
  Then(Require(m, directory.rows[object.type].hasTree, "NO_EMBEDDED_SCHEMA"), LAMBDA p :
    Then(Require(p, call.same /\ call.mapped <= directory.size, "SOURCE_MISMATCH"), LAMBDA q :
      Then(Require(q, object.bytes <= ObjectMax, "UNSUPPORTED_OBJECT_SIZE"), LAMBDA r :
        Require(r, Ends(object) <= call.mapped, "INCOMPLETE_MAPPING"))))

AdmitSource(m, directory, schema, call) ==
  LET object == directory.objects[call.object]
  IN Then(Require(m, directory.engine = SchemaEngine, "UNSUPPORTED_ENGINE"), LAMBDA p :
       Then(Require(p, directory.endian = 0, "UNSUPPORTED_ENDIAN"), LAMBDA q :
         Then(Require(q, call.object \in DOMAIN directory.objects, "INVALID_ARGUMENT"), LAMBDA r :
           Then(AdmitObject(r, directory, call, object), LAMBDA s :
             Then(Require(s, schema.live, "INVALID_STATE"), LAMBDA t :
               Require(t, SameOriginalType(directory, object, schema), "SOURCE_MISMATCH"))))))

AdmitPayload(b, m, object, profile) ==
  Then(Require(m, object.offset % 4 = 0, "UNSUPPORTED_OBJECT_ALIGNMENT"), LAMBDA p :
    Then(Cap(b, p, object.bytes, "PAYLOAD"), LAMBDA q :
      Then(Cap(b, q, Len(profile.roles), "VALUES"),
           LAMBDA r : Cap(b, r, profile.depth, "DEPTH"))))

ValuesBytes(profile) == ValuesSize.storage + Len(profile.roles) * ValuesSize.value

NoValues == [live |-> FALSE]

ValuesResult(m, values, allocated, freed) ==
  [status |-> m.status, limit |-> m.limit, work |-> m.work, values |-> values,
   allocated |-> allocated, freed |-> freed]

(* m is the meter after the first pass and the charge for the allocation. *)
FillValues(b, m, object, profile, schema) ==
  LET bytes == ValuesBytes(profile)
  IN Using(Then(ParsePayload(b, m, object, object.again, profile), LAMBDA p : Pay(b, p, 1)),
          LAMBDA second :
       IF second.status # "OK" THEN ValuesResult(second, NoValues, bytes, bytes)
       ELSE ValuesResult(second,
              [live |-> TRUE, bytes |-> bytes, profile |-> ProfileOf(schema),
               values |-> second.values, strings |-> second.strings, padding |-> second.padding,
               numbers |-> second.numbers], bytes, 0))

CreateValues(directory, schema, call, output) ==
  LET b       == [caps |-> call.caps]
      object  == directory.objects[call.object]
      profile == Profile[ProfileOf(schema)]
      fitting ==
        Then(Require(Idle, directory.live /\ ~output.live, "INVALID_STATE"), LAMBDA m :
          Then(Pay(b, m, 1), LAMBDA p :
            Then(AdmitSource(p, directory, schema, call), LAMBDA q :
              Then(QualifySchema(b, q, schema, call.ordinary), LAMBDA r :
                Then(AdmitPayload(b, r, object, profile), LAMBDA s :
                  Then(ParsePayload(b, s, object, object.lengths, profile),
                       LAMBDA t : Pay(b, t, 1)))))))
      planned ==
        Then(fitting, LAMBDA m :
          Then(Cap(b, m, ValuesBytes(profile), "RETAINED"),
               LAMBDA p : Pay(b, p, ValuesBytes(profile))))
  IN Using(planned, LAMBDA m :
       CASE m.status # "OK" -> ValuesResult(m, NoValues, 0, 0)
         [] m.status = "OK" /\ ~call.memory ->
              ValuesResult(Reject(m, "ALLOCATION_FAILED", "NONE"), NoValues, 0, 0)
         [] m.status = "OK" /\ call.memory -> FillValues(b, m, object, profile, schema))
=============================================================================

--------------------------- MODULE PlayerSettings ----------------------------
(* src/src/io/unity_player_build_settings.c: the build settings of a player,
   decoded from the one object of a serialized file that has them, into a
   destination that may hold earlier ones.  Strings that the code only counts
   are kept, so that a property can say which bytes were accepted.

   A file is given by what the decoder looks at: whether its metadata could be
   read, whether its record is structurally valid, version, Unity version, the
   order of bytes, types, objects and the data that the objects are in. *)
EXTENDS ByteStream, FiniteSets

LOCAL INSTANCE SequencesExt

CONSTANTS SettingsCases,   \* files, and whether their object was written as settings
          Earlier,         \* what the destination may hold before
          SettingsMemory   \* bound on the allocations that succeed

VARIABLES settings,        \* the destination
          settingsHeap,    \* bytes in allocations
          settingsAnswer   \* the call that was just made

settingsVars == <<settings, settingsHeap, settingsAnswer>>

BuildSettings == 141
NoScriptIndex == 65535
FileVersion   == 22
Supported     == <<2, 1, 3>>    \* "2021.3.35f1"
TypeHash      == "build settings"
FlagCount     == 15
GuidSize      == 16
WordSize      == 4

NoSettings ==
  [decoded |-> FALSE, pathId |-> 0, size |-> 0, lists |-> <<>>, guid |-> <<>>, flags |-> <<>>,
   version |-> <<>>, apis |-> <<>>, versionHeld |-> 0, apisHeld |-> 0]

HeldBy(s) == s.versionHeld + s.apisHeld

----------------------------------------------------------------------------
(* The reader.  The first refusal stays. *)

Refuse(r, status) == [r EXCEPT !.status = IF @ = "OK" THEN status ELSE @]
Refined(r, from, to) == [r EXCEPT !.status = IF @ = from THEN to ELSE @]
Fine(r) == r.status = "OK"

ReadWord(r) ==
  LET t == TakeNumber(r.s, WordSize)
  IN IF ~Fine(r) THEN r
     ELSE IF ~t.ok THEN Refuse(r, "PAYLOAD_TRUNCATED")
     ELSE [r EXCEPT !.s = t, !.number = SignedOf(t.number, WordSize)]

ReadSome(r, n) ==
  LET t == TakeBytes(r.s, n)
  IN IF ~Fine(r) THEN r ELSE IF ~t.ok THEN Refuse(r, "PAYLOAD_TRUNCATED") ELSE [r EXCEPT !.s = t]

Padding(at) == (WordSize - (at % WordSize)) % WordSize
Ahead(s, n) == SubSeq(s.data, s.at + 1, s.at + n)
Skipped(r, n) == [r EXCEPT !.s = Skip(@, n)]

\* The padding is skipped unread.
AlignAnyhow(r) ==
  LET n == Padding(r.s.at)
  IN IF ~Fine(r) THEN r
     ELSE IF n > Remaining(r.s) THEN Refuse(r, "PAYLOAD_TRUNCATED") ELSE Skipped(r, n)

AlignZero(r) ==
  LET n == Padding(r.s.at)
  IN IF ~Fine(r) THEN r
     ELSE IF n > Remaining(r.s) THEN Refuse(r, "PAYLOAD_TRUNCATED")
     ELSE IF \E b \in ToSet(Ahead(r.s, n)) : b # 0 THEN Refuse(r, "ALIGNMENT_INVALID")
     ELSE Skipped(r, n)

TextView(r) ==
  Using(ReadWord(r), LAMBDA n :
    LET text == Ahead(n.s, n.number)
        all  == AlignZero([Skipped(n, n.number) EXCEPT !.text = text])
    IN IF ~Fine(r) THEN r
       ELSE IF ~Fine(n) THEN Refined(n, "PAYLOAD_TRUNCATED", "STRING_TRUNCATED")
       ELSE IF n.number < 0 THEN Refuse(n, "STRING_LENGTH_INVALID")
       ELSE IF n.number > Remaining(n.s) THEN Refuse(n, "STRING_TRUNCATED")
       ELSE IF 0 \in ToSet(text) THEN Refuse(n, "STRING_CONTAINS_NUL")
       ELSE Refined(all, "PAYLOAD_TRUNCATED", "STRING_TRUNCATED"))

TextArray(r) ==
  LET Listed(m, k) == Using(TextView(m), LAMBDA t :
                        IF Fine(t) THEN [t EXCEPT !.list = Append(@, t.text)] ELSE t)
      Filed(m) == IF Fine(m) THEN [m EXCEPT !.out.lists = Append(@, m.list)] ELSE m
  IN Using(ReadWord(r), LAMBDA n :
       IF ~Fine(n) THEN n
       ELSE IF n.number < 0 \/ n.number > Remaining(n.s) \div WordSize THEN Refuse(n, "COUNT_INVALID")
       ELSE Filed(FoldLeft(Listed, [n EXCEPT !.list = <<>>], [k \in 1..n.number |-> k])))

ReadFlag(r) ==
  LET t == ReadSome(r, 1)
  IN IF ~Fine(t) THEN t
     ELSE IF t.s.bytes[1] > 1 THEN Refuse(t, "BOOLEAN_INVALID")
     ELSE [t EXCEPT !.out.flags = Append(@, t.s.bytes[1])]

ReadGuid(r) == LET t == ReadSome(r, GuidSize) IN IF Fine(t) THEN [t EXCEPT !.out.guid = t.s.bytes] ELSE t

Times(Op(_), n, r) == FoldLeft(LAMBDA t, k : Op(t), r, [k \in 1..n |-> k])

\* An allocation that out keeps from now on.
Keeping(r, n) == [r EXCEPT !.s = Allocate(@, n)]

ReadVersion(r, file) ==
  Using(TextView(r), LAMBDA t :
    LET m == Keeping(t, Len(t.text) + 1)
    IN IF ~Fine(t) THEN t
       ELSE IF t.text # file.unity THEN Refuse(t, "VERSION_MISMATCH")
       ELSE IF ~m.s.ok THEN Refuse(t, "ALLOCATION_FAILED")
       ELSE [m EXCEPT !.out.version = t.text, !.out.versionHeld = Len(t.text) + 1])

ReadApis(r) ==
  LET n == ReadWord(r)
      m == Keeping(n, n.number * WordSize)
      Api(t) == LET w == ReadWord(t) IN IF Fine(w) THEN [w EXCEPT !.out.apis = Append(@, w.number)] ELSE w
  IN IF ~Fine(n) THEN n
     ELSE IF n.number < 0 \/ n.number > Remaining(n.s) \div WordSize THEN Refuse(n, "COUNT_INVALID")
     ELSE IF n.number = 0 THEN n
     ELSE IF ~m.s.ok THEN Refuse(n, "ALLOCATION_FAILED")
     ELSE Times(Api, n.number, [m EXCEPT !.out.apisHeld = n.number * WordSize])

----------------------------------------------------------------------------
(* decode_payload and the two entry points. *)

ObjectsOf(file) == {k \in DOMAIN file.objects : file.objects[k].class = BuildSettings}
InRange(file, object) ==
  object.offset <= Len(file.data) /\ object.size <= Len(file.data) - object.offset /\ object.size # 0

TypeIdentity(file, object) ==
  IF object.type + 1 \notin DOMAIN file.types THEN "TYPE_INDEX_INVALID"
  ELSE LET type == file.types[object.type + 1]
       IN IF type.class # BuildSettings \/ type.ref \/ type.script # object.script
          THEN "TYPE_RECORD_MISMATCH"
          ELSE IF type.stripped \/ type.script # NoScriptIndex \/ type.scripted \/ type.hash # TypeHash
          THEN "TYPE_IDENTITY_UNSUPPORTED" ELSE "OK"

ObjectBytes(file, object) == SubSeq(file.data, object.offset + 1, object.offset + object.size)

Reader(bytes, file, object, memory) ==
  [s |-> OpenStream(bytes, file.big, memory), status |-> "OK", number |-> 0, text |-> <<>>, list |-> <<>>,
   out |-> [NoSettings EXCEPT !.pathId = object.pathId, !.size = object.size]]

DecodePayload(file, object, memory) ==
  LET first == Reader(ObjectBytes(file, object), file, object, memory)
      none  == Reader(<<>>, file, object, memory)
      lists == ReadGuid(Times(TextArray, 4, first))
      flags == AlignZero(Times(ReadFlag, FlagCount, lists))
      Exhausted(r) == IF ~Fine(r) THEN r
                      ELSE IF Remaining(r.s) # 0 THEN Refuse(r, "OBJECT_BYTES_NOT_EXHAUSTED")
                      ELSE [r EXCEPT !.out.decoded = TRUE]
  IN IF ~InRange(file, object) THEN Refuse(none, "OBJECT_RANGE_INVALID")
     ELSE IF TypeIdentity(file, object) # "OK" THEN Refuse(none, TypeIdentity(file, object))
     ELSE Exhausted(AlignZero(ReadApis(ReadVersion(flags, file))))

\* What is refused before the object is looked at.
Unsuitable(file, readsMetadata) ==
  CASE readsMetadata /\ ~file.readable -> "INVALID_SERIALIZED_FILE"
    [] ~file.sound -> "INVALID_SERIALIZED_FILE"
    [] file.version # FileVersion -> "UNSUPPORTED_FILE_VERSION"
    [] file.unity # Supported -> "UNSUPPORTED_UNITY_VERSION"
    [] Cardinality(ObjectsOf(file)) > 1 -> "DUPLICATE"
    [] ObjectsOf(file) = {} -> "MISSING"
    [] OTHER -> "OK"

Asked(status, case, memory) ==
  settingsAnswer' = [op |-> "decode", status |-> status, case |-> case, memory |-> memory, before |-> settings]

FirstObject(file) == file.objects[CHOOSE k \in ObjectsOf(file) : TRUE]

\* The destination is given up before the new settings are known to be whole.
DecodeSettingsInPlace(case, readsMetadata, memory) ==
  LET refused == Unsuitable(case.file, readsMetadata)
  IN IF refused # "OK"
     THEN Asked(refused, case, memory) /\ UNCHANGED <<settings, settingsHeap>>
     ELSE \E r \in {DecodePayload(case.file, FirstObject(case.file), memory)} :
          /\ Asked(r.status, case, memory)
          /\ settings' = r.out
          /\ settingsHeap' = settingsHeap - HeldBy(settings) + r.s.held

DecodeSettings(case, readsMetadata, memory) ==
  LET refused == Unsuitable(case.file, readsMetadata)
  IN IF refused # "OK"
     THEN Asked(refused, case, memory) /\ UNCHANGED <<settings, settingsHeap>>
     ELSE \E r \in {DecodePayload(case.file, FirstObject(case.file), memory)} :
       /\ Asked(r.status, case, memory)
       /\ \/ ~Fine(r) /\ UNCHANGED settings
             /\ settingsHeap' = settingsHeap + r.s.held - HeldBy(r.out)
          \/ Fine(r) /\ settings' = r.out
             /\ settingsHeap' = settingsHeap - HeldBy(settings) + r.s.held

DisposeSettings ==
  /\ settingsHeap' = settingsHeap - HeldBy(settings)
  /\ settings' = NoSettings
  /\ settingsAnswer' = [op |-> "disposed"]

\* A destination that holds nothing, or settings that were decoded before.
SettingsInit ==
  /\ settings \in Earlier /\ settingsHeap = HeldBy(settings)
  /\ settingsAnswer = [op |-> "none"]

\* One more file is decoded, and the destination is given up.
SettingsNext ==
  \/ /\ settingsAnswer.op = "none"
     /\ \E case \in SettingsCases, readsMetadata \in BOOLEAN, memory \in 0..SettingsMemory :
          DecodeSettings(case, readsMetadata, memory)
  \/ settingsAnswer.op = "decode" /\ DisposeSettings

----------------------------------------------------------------------------
(* The program that wrote an object. *)

OnWord(bytes) == bytes \o [k \in 1..Padding(Len(bytes)) |-> 0]
WriteText(text, big) == OnWord(Digits(Len(text), WordSize, big) \o text)
WriteList(texts, big) ==
  Digits(Len(texts), WordSize, big) \o FlattenSeq([k \in DOMAIN texts |-> WriteText(texts[k], big)])
WriteSettings(s, big) ==
  FlattenSeq([k \in DOMAIN s.lists |-> WriteList(s.lists[k], big)]) \o s.guid \o OnWord(s.flags)
  \o WriteText(s.version, big) \o Digits(Len(s.apis), WordSize, big)
  \o FlattenSeq([k \in DOMAIN s.apis |-> Digits(s.apis[k], WordSize, big)])

(* "Failure leaves it unchanged; success replaces it": a decoder that refuses a file or
   runs out of memory anywhere leaves the earlier settings and their memory as
   they were.  Settings that it accepts are those of the file's only object of
   their class, whole: written again they give every byte of it.  What was
   written as settings is accepted when there is memory for it. *)
SettingsWhole ==
  /\ settingsHeap = HeldBy(settings)
  /\ settings # NoSettings => settings.decoded
  /\ settingsAnswer.op = "decode" =>
       LET case == settingsAnswer.case
       IN IF settingsAnswer.status = "OK"
          THEN LET object == FirstObject(case.file)
               IN /\ Cardinality(ObjectsOf(case.file)) = 1
                  /\ settings.pathId = object.pathId /\ settings.version = case.file.unity
                  /\ WriteSettings(settings, case.file.big) = ObjectBytes(case.file, object)
          ELSE /\ settings = settingsAnswer.before
               /\ ~(case.written /\ settingsAnswer.memory = SettingsMemory)
=============================================================================

----------------------------- MODULE TextHelpers -----------------------------
(* The functions on text of src/src/common: ascii_glob.c, utf8.c and
   relative_path.c.  A text is a sequence of bytes; an offset counts the bytes
   before a place, as in the code.  Null arguments and failed allocations are
   left out. *)
EXTENDS Integers, Sequences, FiniteSets

LOCAL INSTANCE SequencesExt
LOCAL INSTANCE FiniteSetsExt

CONSTANTS Patterns,    \* texts to use as glob patterns
          Subjects,    \* texts to match them against
          Encodings,   \* byte sequences to decode
          PathTexts,   \* texts to validate as relative paths
          PathPairs    \* pairs of paths to compare

VARIABLE textCall      \* the call that was made, with its result

Bang    == 33
Star    == 42
Dash    == 45
Dot     == 46
Slash   == 47
Query   == 63
Opening == 91
Escape  == 92
Closing == 93
Caret   == 94

----------------------------------------------------------------------------
(* ascii_glob.c.  A pattern is read into items: a run of any bytes, or one byte
   that is in a set, or is not. *)

AnyRun == [kind |-> "run", bytes |-> {}, negated |-> FALSE]
OneOf(bytes, negated) == [kind |-> "one", bytes |-> bytes, negated |-> negated]
Malformed == [kind |-> "malformed", bytes |-> {}, negated |-> FALSE]

NoAtom == [ok |-> FALSE, value |-> 0, next |-> 0]
ClassAtom(p, i, end) ==
  IF i >= end \/ p[i] = Dash \/ (p[i] = Escape /\ i + 1 >= end) THEN NoAtom
  ELSE IF p[i] = Escape THEN [ok |-> TRUE, value |-> p[i + 1], next |-> i + 2]
  ELSE [ok |-> TRUE, value |-> p[i], next |-> i + 1]

\* The first closing bracket that is not escaped, or 0.
ClosingAt(p, from) ==
  LET At[i \in from .. Len(p) + 1] ==
        IF i > Len(p) \/ (p[i] = Escape /\ i = Len(p)) THEN 0
        ELSE IF p[i] = Closing THEN i
        ELSE At[IF p[i] = Escape THEN i + 2 ELSE i + 1]
  IN At[from]

NoContent == [ok |-> FALSE, bytes |-> {}]
\* A hyphen may stand anywhere in a class.
ClassContentLoose(p, from, end) ==
  LET With(bytes, c) == [c EXCEPT !.bytes = @ \cup bytes]
      At[i \in from .. end] ==
        IF i = end THEN [ok |-> TRUE, bytes |-> {}]
        ELSE IF p[i] = Dash THEN With({Dash}, At[i + 1])
        ELSE LET first == ClassAtom(p, i, end)
                 last  == ClassAtom(p, first.next + 1, end)
             IN IF ~first.ok THEN NoContent
                ELSE IF first.next + 1 < end /\ p[first.next] = Dash
                THEN IF ~last.ok \/ first.value > last.value THEN NoContent
                     ELSE With(first.value .. last.value, At[last.next])
                ELSE With({first.value}, At[first.next])
  IN At[from]

ClassContent(p, from, end) ==
  LET With(bytes, c) == [c EXCEPT !.bytes = @ \cup bytes]
      At[i \in from .. end] ==
        IF i = end THEN [ok |-> TRUE, bytes |-> {}]
        ELSE IF p[i] = Dash
        THEN IF i # from /\ i + 1 # end THEN NoContent ELSE With({Dash}, At[i + 1])
        ELSE LET first == ClassAtom(p, i, end)
                 last  == ClassAtom(p, first.next + 1, end)
             IN IF ~first.ok THEN NoContent
                ELSE IF first.next + 1 < end /\ p[first.next] = Dash
                THEN IF ~last.ok \/ first.value > last.value THEN NoContent
                     ELSE With(first.value .. last.value, At[last.next])
                ELSE With({first.value}, At[first.next])
  IN At[from]

\* The class that begins at i, and where the pattern goes on.
Class(p, i) ==
  LET negated == i < Len(p) /\ p[i + 1] \in {Bang, Caret}
      from    == IF negated THEN i + 2 ELSE i + 1
      end     == ClosingAt(p, from)
      content == ClassContent(p, from, end)
  IN IF end = 0 \/ end = from THEN [item |-> Malformed, next |-> 0]
     ELSE IF ~content.ok THEN [item |-> Malformed, next |-> 0]
     ELSE [item |-> OneOf(content.bytes, negated), next |-> end + 1]

GlobItems(p) ==
  LET At[i \in 1 .. Len(p) + 1] ==
        IF i > Len(p) THEN <<>>
        ELSE IF p[i] = Star
        THEN LET rest == At[i + 1]
             IN IF rest # <<>> /\ rest[1] = AnyRun THEN rest ELSE <<AnyRun>> \o rest
        ELSE IF p[i] = Query THEN <<OneOf({}, TRUE)>> \o At[i + 1]
        ELSE IF p[i] = Opening
        THEN LET class == Class(p, i)
             IN IF class.item = Malformed THEN <<Malformed>> ELSE <<class.item>> \o At[class.next]
        ELSE IF p[i] # Escape THEN <<OneOf({p[i]}, FALSE)>> \o At[i + 1]
        ELSE IF i = Len(p) THEN <<Malformed>>
        ELSE <<OneOf({p[i + 1]}, FALSE)>> \o At[i + 2]
  IN At[1]

Takes(item, byte) == (byte \in item.bytes) # item.negated

\* row[n]: the items so far match the first n bytes of the text.
NextRow(row, item, text) ==
  LET Run[n \in DOMAIN row] == row[n] \/ (n > 0 /\ Run[n - 1])
  IN IF item = AnyRun THEN Run
     ELSE [n \in DOMAIN row |-> n > 0 /\ row[n - 1] /\ Takes(item, text[n])]

AsciiGlobMatch(p, text) ==
  LET first == [n \in 0 .. Len(text) |-> n = 0]
  IN FoldLeft(LAMBDA row, item : NextRow(row, item, text), first, GlobItems(p))[Len(text)]

AsciiGlobValidate(p) == Malformed \notin ToSet(GlobItems(p))

----------------------------------------------------------------------------
(* utf8.c. *)

Continuation(byte) == 128 <= byte /\ byte <= 191

\* A surrogate is taken for a scalar value.
SecondFitsLoosely(first, second) ==
  /\ first = 224 => second >= 160
  /\ first = 240 => second >= 144
  /\ first = 244 => second <= 143

\* Neither too long for its value, nor a surrogate, nor past the last scalar value.
SecondFits(first, second) ==
  /\ first = 224 => second >= 160
  /\ first = 237 => second <= 159
  /\ first = 240 => second >= 144
  /\ first = 244 => second <= 143

Undecoded == [ok |-> FALSE, scalar |-> 0, size |-> 0]
Decoded(scalar, size) == [ok |-> TRUE, scalar |-> scalar, size |-> size]

Utf8DecodeOne(b) ==
  LET first == b[1]
      Follows(n) == Len(b) >= n /\ (\A k \in 2..n : Continuation(b[k])) /\ SecondFits(first, b[2])
      Low(k) == b[k] % 64
  IN CASE b = <<>> -> Undecoded
       [] b # <<>> /\ first <= 127 -> Decoded(first, 1)
       [] b # <<>> /\ 194 <= first /\ first <= 223 /\ Follows(2) ->
            Decoded((first % 32) * 64 + Low(2), 2)
       [] b # <<>> /\ 224 <= first /\ first <= 239 /\ Follows(3) ->
            Decoded((first % 16) * 4096 + Low(2) * 64 + Low(3), 3)
       [] b # <<>> /\ 240 <= first /\ first <= 244 /\ Follows(4) ->
            Decoded((first % 8) * 262144 + Low(2) * 4096 + Low(3) * 64 + Low(4), 4)
       [] OTHER -> Undecoded

From(b, i) == SubSeq(b, i, Len(b))

Utf8Validate(b) ==
  LET At[i \in 1 .. Len(b) + 1] ==
        LET one == Utf8DecodeOne(From(b, i))
        IN IF i > Len(b) THEN [ok |-> TRUE, offset |-> -1]
           ELSE IF ~one.ok THEN [ok |-> FALSE, offset |-> i - 1]
           ELSE At[i + one.size]
  IN At[1]

----------------------------------------------------------------------------
(* relative_path.c. *)

Answer(status, offset) == [status |-> status, offset |-> offset]

\* Where the component that a byte belongs to begins.
ComponentBegin(p, i) == Max({0} \cup {k \in 1 .. i - 1 : p[k] = Slash}) + 1

ComponentResult(p, begin, end) ==
  LET component == SubSeq(p, begin, end - 1)
  IN IF component = <<>> THEN Answer("EMPTY_COMPONENT", begin - 1)
     ELSE IF component \in {<<Dot>>, <<Dot, Dot>>} THEN Answer("DOT_COMPONENT", begin - 1)
     ELSE Answer("OK", -1)

RelativePathValidate(p) ==
  LET At[i \in 1 .. Len(p) + 1] ==
        LET component == ComponentResult(p, ComponentBegin(p, i), i)
            one       == Utf8DecodeOne(From(p, i))
        IN IF i > Len(p) THEN component
           ELSE IF p[i] = Slash
           THEN IF component.status # "OK" THEN component ELSE At[i + 1]
           ELSE IF p[i] = Escape THEN Answer("BACKSLASH", i - 1)
           ELSE IF p[i] < 32 THEN Answer("CONTROL_CHARACTER", i - 1)
           ELSE IF ~one.ok THEN Answer("INVALID_UTF8", i - 1)
           ELSE At[i + one.size]
  IN IF p = <<>> THEN Answer("EMPTY", 0) ELSE At[1]

CompareBytes(left, right) ==
  LET common == IF Len(left) < Len(right) THEN Len(left) ELSE Len(right)
      differ == {k \in 1..common : left[k] # right[k]}
  IN IF differ # {} THEN IF left[Min(differ)] < right[Min(differ)] THEN -1 ELSE 1
     ELSE IF Len(left) < Len(right) THEN -1
     ELSE IF Len(left) > Len(right) THEN 1 ELSE 0

\* A path that only begins with the same bytes is taken for one below.
BeginsAlike(candidate, root) ==
  root # <<>> /\ Len(candidate) >= Len(root) /\ SubSeq(candidate, 1, Len(root)) = root

EqualOrDescendant(candidate, root) ==
  /\ root # <<>> /\ Len(candidate) >= Len(root)
  /\ SubSeq(candidate, 1, Len(root)) = root
  /\ Len(candidate) = Len(root) \/ candidate[Len(root) + 1] = Slash

----------------------------------------------------------------------------
(* One call of each function. *)

Idle == textCall = [op |-> "none"]

Glob(p) ==
  textCall' = [op |-> "glob", pattern |-> p, valid |-> AsciiGlobValidate(p),
               matched |-> IF AsciiGlobValidate(p) THEN {t \in Subjects : AsciiGlobMatch(p, t)} ELSE {}]

Decode(b) ==
  textCall' = [op |-> "utf8", bytes |-> b, one |-> Utf8DecodeOne(b), whole |-> Utf8Validate(b)]

ValidatePath(p) ==
  textCall' = [op |-> "path", path |-> p, result |-> RelativePathValidate(p)]

ComparePaths(pair) ==
  textCall' = [op |-> "compare", pair |-> pair, order |-> CompareBytes(pair[1], pair[2]),
               below |-> EqualOrDescendant(pair[1], pair[2])]

TextInit == Idle
TextNext ==
  /\ Idle
  /\ \/ \E p \in Patterns : Glob(p)
     \/ \E b \in Encodings : Decode(b)
     \/ \E p \in PathTexts : ValidatePath(p)
     \/ \E pair \in PathPairs : ComparePaths(pair)

----------------------------------------------------------------------------
(* What a text means, without reading it from left to right: it is cut into
   pieces, and each piece is one of a few things. *)

InOrder(numbers) ==
  [k \in 1..Cardinality(numbers) |->
     CHOOSE n \in numbers : Cardinality({m \in numbers : m <= n}) = k]

Cuts(s) ==
  LET Pieces(inner) ==
        LET ends == InOrder(inner \cup {Len(s)})
        IN [k \in DOMAIN ends |-> SubSeq(s, IF k = 1 THEN 1 ELSE ends[k - 1] + 1, ends[k])]
  IN IF s = <<>> THEN {<<>>} ELSE {Pieces(inner) : inner \in SUBSET (1 .. Len(s) - 1)}

\* An item of a class: a byte, an escaped byte, a range, or a hyphen at an edge.
IsAtom(x) == \/ Len(x) = 1 /\ x[1] \notin {Dash, Escape, Closing}
             \/ Len(x) = 2 /\ x[1] = Escape
IsRange(x) ==
  \E k \in 2 .. Len(x) - 1 :
    /\ x[k] = Dash /\ IsAtom(SubSeq(x, 1, k - 1)) /\ IsAtom(From(x, k + 1))
    /\ x[k - 1] <= x[Len(x)]
ClassBytes(x) == IF IsRange(x) THEN x[IF x[1] = Escape THEN 2 ELSE 1] .. x[Len(x)] ELSE {x[Len(x)]}
ClassCuts(body) ==
  {c \in Cuts(body) :
     \A k \in DOMAIN c : IsAtom(c[k]) \/ IsRange(c[k]) \/ (c[k] = <<Dash>> /\ k \in {1, Len(c)})}

IsClass(x) == Len(x) >= 3 /\ x[1] = Opening /\ x[Len(x)] = Closing
ClassBody(x) == SubSeq(x, IF x[2] \in {Bang, Caret} THEN 3 ELSE 2, Len(x) - 1)

\* The bytes that an item of a pattern other than a star stands for, among all.
PieceBytes(x, all) ==
  IF x = <<Query>> THEN {all}
  ELSE IF Len(x) = 1 THEN IF x[1] \in {Star, Opening, Escape} THEN {} ELSE {{x[1]}}
  ELSE IF Len(x) = 2 THEN IF x[1] = Escape THEN {{x[2]}} ELSE {}
  ELSE IF ~IsClass(x) \/ ClassBody(x) = <<>> THEN {}
  ELSE {LET bytes == UNION {ClassBytes(c[k]) : k \in DOMAIN c}
        IN IF x[2] \in {Bang, Caret} THEN all \ bytes ELSE bytes : c \in ClassCuts(ClassBody(x))}

Readings(p, all) == {c \in Cuts(p) : \A k \in DOMAIN c : c[k] = <<Star>> \/ PieceBytes(c[k], all) # {}}

\* Each item has its part of the text: a star any part, the others one byte.
Fits(reading, text, all) ==
  \E ends \in [0 .. Len(reading) -> 0 .. Len(text)] :
    /\ ends[0] = 0 /\ ends[Len(reading)] = Len(text)
    /\ \A k \in DOMAIN reading :
         IF reading[k] = <<Star>> THEN ends[k - 1] <= ends[k]
         ELSE ends[k] = ends[k - 1] + 1 /\ \A bytes \in PieceBytes(reading[k], all) : text[ends[k]] \in bytes

GlobExact ==
  textCall.op = "glob" =>
    LET all == UNION {ToSet(t) : t \in Subjects}
        readings == Readings(textCall.pattern, all)
    IN /\ textCall.valid <=> readings # {}
       /\ \A r \in readings : textCall.matched = {t \in Subjects : Fits(r, t, all)}

\* The encoding of a Unicode scalar value, and the value bytes would encode.
Encoding(s) ==
  CASE s < 128 -> <<s>>
    [] 128 <= s /\ s < 2048 -> <<192 + s \div 64, 128 + (s % 64)>>
    [] 2048 <= s /\ s < 65536 -> <<224 + s \div 4096, 128 + ((s \div 64) % 64), 128 + (s % 64)>>
    [] OTHER -> <<240 + s \div 262144, 128 + ((s \div 4096) % 64), 128 + ((s \div 64) % 64), 128 + (s % 64)>>
IsScalar(s) == s \in 0..1114111 /\ s \notin 55296..57343
Payload(x) ==
  IF Len(x) = 1 THEN x[1]
  ELSE FoldLeft(LAMBDA n, byte : n * 64 + (byte % 64), x[1] % (2 ^ (7 - Len(x))), Tail(x))
IsEncoding(x) == Len(x) \in 1..4 /\ IsScalar(Payload(x)) /\ Encoding(Payload(x)) = x
WellFormed(b) == \E c \in Cuts(b) : \A k \in DOMAIN c : IsEncoding(c[k])
Prefix(s, n) == SubSeq(s, 1, n)

Utf8Exact ==
  textCall.op = "utf8" =>
    LET b == textCall.bytes
        sizes == {n \in 1..Len(b) : IsEncoding(Prefix(b, n))}
    IN /\ textCall.one = IF sizes = {} THEN Undecoded
                         ELSE Decoded(Payload(Prefix(b, Max(sizes))), Max(sizes))
       /\ Cardinality(sizes) <= 1
       /\ textCall.whole.ok <=> WellFormed(b)
       /\ ~textCall.whole.ok =>
            textCall.whole.offset = Max({n \in 0..Len(b) : WellFormed(Prefix(b, n))})

Parts(p) ==
  LET ends == InOrder({k \in DOMAIN p : p[k] = Slash} \cup {Len(p) + 1})
  IN [k \in DOMAIN ends |-> SubSeq(p, IF k = 1 THEN 1 ELSE ends[k - 1] + 1, ends[k] - 1)]
IsRelativePath(p) ==
  /\ p # <<>> /\ WellFormed(p)
  /\ \A k \in DOMAIN p : p[k] >= 32 /\ p[k] # Escape
  /\ \A k \in DOMAIN Parts(p) : Parts(p)[k] \notin {<<>>, <<Dot>>, <<Dot, Dot>>}

\* A refusal names a fault that is there, with nothing wrong before it.
Faulty(p, result) ==
  LET i == result.offset + 1
      begins == i = 1 \/ (i - 1 \in DOMAIN p /\ p[i - 1] = Slash)
      before == SubSeq(p, 1, ComponentBegin(p, i) - 2)
  IN /\ before = <<>> \/ IsRelativePath(before)
     /\ CASE result.status = "EMPTY" -> p = <<>>
          [] result.status = "EMPTY_COMPONENT" -> begins /\ (i > Len(p) \/ p[i] = Slash)
          [] result.status = "DOT_COMPONENT" -> begins /\ Parts(From(p, i))[1] \in {<<Dot>>, <<Dot, Dot>>}
          [] result.status = "BACKSLASH" -> p[i] = Escape
          [] result.status = "CONTROL_CHARACTER" -> p[i] < 32
          [] result.status = "INVALID_UTF8" -> \A n \in i..Len(p) : ~IsEncoding(SubSeq(p, i, n))
          [] OTHER -> FALSE

PathExact ==
  textCall.op = "path" =>
    IF IsRelativePath(textCall.path) THEN textCall.result = Answer("OK", -1)
    ELSE Faulty(textCall.path, textCall.result)

\* Among relative paths the order is total and a directory comes before what it holds.
CompareExact ==
  textCall.op = "compare" =>
    LET candidate == textCall.pair[1]
        root      == textCall.pair[2]
    IN /\ textCall.order = 0 <=> candidate = root
       /\ textCall.order = -CompareBytes(root, candidate)
       /\ textCall.below <=> /\ Len(Parts(root)) <= Len(Parts(candidate))
                             /\ Prefix(Parts(candidate), Len(Parts(root))) = Parts(root)
       /\ textCall.below => textCall.order >= 0

(* Each function answers what its header says it does, whatever the bytes: a
   pattern matches a text when the text can be divided among the items of its
   grammar, and is malformed when it has no reading in it; a byte sequence
   decodes when it is the shortest encoding of a scalar value; a refused path
   is refused for the first thing that is wrong with it; a path is below
   another when its components begin with the other's. *)
TextExact == GlobExact /\ Utf8Exact /\ PathExact /\ CompareExact
=============================================================================

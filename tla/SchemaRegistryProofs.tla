------------------------ MODULE SchemaRegistryProofs ------------------------
(***************************************************************************)
(* Theorems about SchemaRegistry for any number of programs, keys, schemas *)
(* and images: no entry is synthesized, no key is bound twice or anew, and *)
(* an image is taken over whole or not at all.                             *)
(***************************************************************************)
EXTENDS SerializedFile, NumberLemmas, SequenceTheorems

----------------------------------------------------------------------------
(* The order of keys. *)

(* Of two keys that differ one is less. *)
LEMMA LessTotal ==
  ASSUME NEW k \in Keys, NEW l \in Keys, k # l
  PROVE  Less(k, l) \/ Less(l, k)
<1>1. /\ k.format \in Nat /\ k.version \in Nat /\ k.traits \in Nat
      /\ l.format \in Nat /\ l.version \in Nat /\ l.traits \in Nat
  BY RegistryAssumption DEF Keys
<1>2. k.format # l.format \/ k.version # l.version \/ k.traits # l.traits
  BY DEF Keys
<1>3. QED
  BY <1>1, <1>2 DEF Less

(* What an array of entries consists of. *)
LEMMA EntriesTyped ==
  ASSUME NEW es \in Seq(Entries)
  PROVE  /\ Len(es) \in Nat /\ DOMAIN es = 1..Len(es)
         /\ \A i \in 1..Len(es) :
              es[i] \in Entries /\ es[i].key \in Keys /\ es[i].schema \in Schemas
<1>1. Len(es) \in Nat /\ DOMAIN es = 1..Len(es) /\ \A i \in 1..Len(es) : es[i] \in Entries
  OBVIOUS
<1>2. \A e \in Entries : e.key \in Keys /\ e.schema \in Schemas
  BY DEF Entries
<1>3. QED
  BY <1>1, <1>2

(* There is a place for every key: all before it are less or equal, and the
   one after it is greater. *)
LEMMA PlaceExact ==
  ASSUME NEW es \in Seq(Entries), NEW k
  PROVE  /\ Place(es, k) \in 1..Len(es) + 1
         /\ Place(es, k) # Len(es) + 1 => Less(k, es[Place(es, k)].key)
         /\ \A j \in 1..Place(es, k) - 1 : ~Less(k, es[j].key)
<1> DEFINE greater == {i \in 1..Len(es) + 1 : i = Len(es) + 1 \/ Less(k, es[i].key)}
           Is(i) == /\ i = Len(es) + 1 \/ Less(k, es[i].key)
                    /\ \A j \in 1..i - 1 : ~Less(k, es[j].key)
<1>0. Len(es) \in Nat
  BY EntriesTyped
<1>1. Len(es) + 1 \in greater /\ greater \subseteq Nat
  BY <1>0
<1>2. PICK i \in greater : \A j \in greater : i <= j
  <2> HIDE DEF greater
  <2>1. QED
    BY <1>1, LeastNumber
<1>3. i \in 1..Len(es) + 1 /\ (i = Len(es) + 1 \/ Less(k, es[i].key))
  BY <1>2
<1>4. ASSUME NEW j \in 1..i - 1 PROVE ~Less(k, es[j].key)
  <2>1. j \in 1..Len(es) + 1 /\ ~(i <= j)
    BY <1>0, <1>3
  <2>2. QED
    BY <1>2, <2>1
<1>5. Is(i)
  BY <1>3, <1>4
<1>6. Place(es, k) = CHOOSE n \in 1..Len(es) + 1 : Is(n)
  BY DEF Place
<1> HIDE DEF Is
<1>7. Place(es, k) \in 1..Len(es) + 1 /\ Is(Place(es, k))
  BY <1>3, <1>5, <1>6
<1>8. QED
  BY <1>7 DEF Is

----------------------------------------------------------------------------
(* Arrays of entries. *)

(* A new entry is put between the others, which keep their order. *)
LEMMA InsertExact ==
  ASSUME NEW es \in Seq(Entries), NEW e \in Entries
  PROVE  /\ Insert(es, e) \in Seq(Entries)
         /\ Len(Insert(es, e)) = Len(es) + 1
         /\ Insert(es, e)[Place(es, e.key)] = e
         /\ \A i \in 1..Len(es) + 1 :
              /\ i < Place(es, e.key) => Insert(es, e)[i] = es[i]
              /\ i > Place(es, e.key) => Insert(es, e)[i] = es[i-1]
<1> DEFINE at == Place(es, e.key)
           n == Len(es)
<1>1. n \in Nat /\ at \in 1..n + 1 /\ \A i \in 1..n : es[i] \in Entries
  BY EntriesTyped, PlaceExact
<1>2. Insert(es, e) = [i \in 1..n + 1 |-> IF i < at THEN es[i] ELSE IF i = at THEN e ELSE es[i-1]]
  BY DEF Insert
<1> HIDE DEF at, n
<1>3. ASSUME NEW i \in 1..n + 1
      PROVE  /\ i < at => Insert(es, e)[i] = es[i] /\ i \in 1..n
             /\ i = at => Insert(es, e)[i] = e
             /\ i > at => Insert(es, e)[i] = es[i-1] /\ i - 1 \in 1..n
  BY <1>1, <1>2
<1>4. \A i \in 1..n + 1 : Insert(es, e)[i] \in Entries
  BY <1>1, <1>3
<1>5. Insert(es, e) \in [1..n + 1 -> Entries] /\ n + 1 \in Nat
  BY <1>1, <1>2, <1>4
<1>6. Insert(es, e) \in Seq(Entries) /\ Len(Insert(es, e)) = n + 1
  BY <1>5
<1>7. QED
  BY <1>1, <1>3, <1>6 DEF at, n

(* So it binds what it bound before, and the new pair. *)
LEMMA InsertBinds ==
  ASSUME NEW es \in Seq(Entries), NEW e \in Entries
  PROVE  Bound(Insert(es, e)) = Bound(es) \cup {<<e.key, e.schema>>}
<1> DEFINE at == Place(es, e.key)
           n == Len(es)
           new == Insert(es, e)
<1>1. n \in Nat /\ at \in 1..n + 1 /\ DOMAIN es = 1..n
  BY EntriesTyped, PlaceExact
<1>2. /\ DOMAIN new = 1..n + 1 /\ new[at] = e
      /\ \A i \in 1..n + 1 : /\ i < at => new[i] = es[i]
                             /\ i > at => new[i] = es[i-1]
  <2>1. new \in Seq(Entries) /\ Len(new) = n + 1
    BY InsertExact
  <2>2. DOMAIN new = 1..n + 1
    BY <2>1
  <2>3. QED
    BY <2>2, InsertExact
<1> HIDE DEF at, n, new
<1>3. ASSUME NEW i \in DOMAIN es PROVE \E j \in DOMAIN new : new[j] = es[i]
  <2>1. i \in 1..n + 1 /\ i + 1 \in 1..n + 1 /\ (i + 1) - 1 = i
    BY <1>1
  <2>2. CASE i < at
    BY <1>2, <2>1, <2>2
  <2>3. CASE ~(i < at)
    <3>1. i + 1 > at
      BY <1>1, <2>3
    <3>2. new[i+1] = es[i]
      BY <1>2, <2>1, <3>1
    <3>3. QED
      BY <1>2, <2>1, <3>2
  <2>4. QED
    BY <2>2, <2>3
<1>4. ASSUME NEW j \in DOMAIN new PROVE new[j] = e \/ \E i \in DOMAIN es : new[j] = es[i]
  <2>1. j \in 1..n + 1
    BY <1>2
  <2>2. CASE j < at
    <3>1. j \in DOMAIN es
      BY <1>1, <2>1, <2>2
    <3>2. QED
      BY <1>2, <2>1, <2>2, <3>1
  <2>3. CASE j > at
    <3>1. j - 1 \in DOMAIN es
      BY <1>1, <2>1, <2>3
    <3>2. QED
      BY <1>2, <2>1, <2>3, <3>1
  <2>4. QED
    BY <1>1, <1>2, <2>1, <2>2, <2>3
<1>5. at \in DOMAIN new
  BY <1>1, <1>2
<1>6. Bound(new) = Bound(es) \cup {<<e.key, e.schema>>}
  <2>1. ASSUME NEW p \in Bound(new) PROVE p \in Bound(es) \cup {<<e.key, e.schema>>}
    BY <1>4 DEF Bound
  <2>2. ASSUME NEW p \in Bound(es) PROVE p \in Bound(new)
    BY <1>3 DEF Bound
  <2>3. <<e.key, e.schema>> \in Bound(new)
    BY <1>2, <1>5 DEF Bound
  <2>4. QED
    BY <2>1, <2>2, <2>3
<1>7. QED
  BY <1>6 DEF new

(* And it is in order, if the array was and did not have the key. *)
LEMMA InsertOrdered ==
  ASSUME NEW es \in Seq(Entries), NEW e \in Entries,
         Ordered(es), Holding(es, e.key) = {}
  PROVE  Ordered(Insert(es, e))
<1> DEFINE at == Place(es, e.key)
           n == Len(es)
           new == Insert(es, e)
<1>1. /\ n \in Nat /\ at \in 1..n + 1 /\ DOMAIN es = 1..n
      /\ \A i \in 1..n : es[i].key \in Keys /\ es[i].key # e.key
      /\ at # n + 1 => Less(e.key, es[at].key)
      /\ \A j \in 1..at - 1 : ~Less(e.key, es[j].key)
      /\ e.key \in Keys
  BY EntriesTyped, PlaceExact DEF Entries, Holding
<1>2. /\ Len(new) = n + 1 /\ new[at] = e
      /\ \A i \in 1..n + 1 : /\ i < at => new[i] = es[i]
                             /\ i > at => new[i] = es[i-1]
  BY InsertExact
<1>3. \A i \in 2..n : Less(es[i-1].key, es[i].key)
  BY DEF Ordered
<1> HIDE DEF at, n, new
<1>4. ASSUME NEW i \in 2..n + 1 PROVE Less(new[i-1].key, new[i].key)
  <2>1. i \in 1..n + 1 /\ i - 1 \in 1..n + 1
    BY <1>1
  <2>2. CASE i < at
    <3>1. i - 1 < at /\ i \in 2..n
      BY <1>1, <2>1, <2>2
    <3>2. QED
      BY <1>2, <1>3, <2>1, <2>2, <3>1
  <2>3. CASE i = at
    <3>1. i - 1 < at /\ i - 1 \in 1..n /\ i - 1 \in 1..at - 1
      BY <1>1, <2>1, <2>3
    <3>2. Less(es[i-1].key, e.key)
      BY <1>1, <3>1, LessTotal
    <3>3. QED
      BY <1>2, <2>1, <2>3, <3>1, <3>2
  <2>4. CASE i - 1 = at
    <3>1. i > at /\ at # n + 1
      BY <1>1, <2>1, <2>4
    <3>2. QED
      BY <1>1, <1>2, <2>1, <2>4, <3>1
  <2>5. CASE i - 1 > at
    <3>1. i > at /\ i - 1 \in 2..n
      BY <1>1, <2>1, <2>5
    <3>2. new[i] = es[i-1] /\ new[i-1] = es[(i-1)-1]
      BY <1>2, <2>1, <2>5, <3>1
    <3>3. QED
      BY <1>3, <3>1, <3>2
  <2>6. QED
    BY <1>1, <2>1, <2>2, <2>3, <2>4, <2>5
<1>5. QED
  BY <1>2, <1>4 DEF Ordered, new

(* The allocation grows to hold what is required, and never past the limit. *)
LEMMA GrownEnough ==
  ASSUME NEW c \in 0..MaxEntries, NEW required \in 0..MaxEntries
  PROVE  Grown(c, required) \in 0..MaxEntries /\ required <= Grown(c, required)
<1> DEFINE start == IF c = 0 THEN InitialCapacity ELSE c
           enough == {m \in required..MaxEntries : \E n \in 0..required : m = start * 2^n}
           least == CHOOSE m \in enough : \A o \in enough : m <= o
<1>1. Grown(c, required) = IF required <= c THEN c
                           ELSE IF enough = {} THEN MaxEntries ELSE least
  BY DEF Grown
<1>2. MaxEntries \in Nat /\ enough \subseteq required..MaxEntries
  BY RegistryAssumption
<1> HIDE DEF enough
<1>3. ASSUME enough # {} PROVE least \in enough
  <2>1. enough \subseteq Nat
    BY <1>2
  <2>2. \E m \in enough : \A o \in enough : m <= o
    BY <1>3, <2>1, LeastNumber
  <2>3. QED
    BY <2>2
<1> HIDE DEF least
<1>4. CASE required <= c
  BY <1>1, <1>4
<1>5. CASE ~(required <= c) /\ enough = {}
  BY <1>1, <1>2, <1>5
<1>6. CASE ~(required <= c) /\ enough # {}
  <2>1. least \in required..MaxEntries
    BY <1>2, <1>3, <1>6
  <2>2. QED
    BY <1>1, <1>2, <1>6, <2>1
<1>7. QED
  BY <1>4, <1>5, <1>6

----------------------------------------------------------------------------
(* The inductive invariant, of one registry at a time. *)

(* An array in order that fits, of entries that came from outside. *)
Kept(es, c) ==
  /\ es \in Seq(Entries)
  /\ c \in 0..MaxEntries
  /\ Len(es) <= c
  /\ Ordered(es)
  /\ \A i \in DOMAIN es : Authorised(es[i].key, es[i].schema)

(* What a learn adds was not there, fits, and is authorised. *)
LEMMA LearnKeeps ==
  ASSUME NEW es, NEW c, Kept(es, c), NEW k \in Keys, NEW s \in Schemas,
         LearnStatus(es, k, s) = "OK", Holding(es, k) = {},
         Valid(k, s) => Authorised(k, s)
  PROVE  Kept(Insert(es, [key |-> k, schema |-> s]), Grown(c, Len(es) + 1))
<1> DEFINE e == [key |-> k, schema |-> s]
           new == Insert(es, e)
<1>1. es \in Seq(Entries) /\ e \in Entries /\ e.key = k /\ e.schema = s
  BY DEF Kept, Entries
<1>2. Valid(k, s) /\ Len(es) # MaxEntries
  BY DEF LearnStatus
<1>3. new \in Seq(Entries) /\ Len(new) = Len(es) + 1
  BY <1>1, InsertExact
<1>4. Ordered(new)
  BY <1>1, InsertOrdered DEF Kept
<1>5. Bound(new) = Bound(es) \cup {<<k, s>>}
  BY <1>1, InsertBinds
<1>6. \A i \in DOMAIN new : Authorised(new[i].key, new[i].schema)
  <2>1. \A p \in Bound(es) : Authorised(p[1], p[2])
    BY DEF Kept, Bound
  <2>2. \A p \in Bound(new) : Authorised(p[1], p[2])
    BY <1>2, <1>5, <2>1
  <2> HIDE DEF new
  <2>3. \A i \in DOMAIN new : <<new[i].key, new[i].schema>> \in Bound(new)
    BY DEF Bound
  <2>4. QED
    BY <2>2, <2>3
<1>7. Grown(c, Len(es) + 1) \in 0..MaxEntries /\ Len(es) + 1 <= Grown(c, Len(es) + 1)
  <2>1. /\ Len(es) \in Nat /\ MaxEntries \in Nat
        /\ c \in 0..MaxEntries /\ Len(es) <= c
    BY <1>1, EntriesTyped, RegistryAssumption DEF Kept
  <2>2. Len(es) + 1 \in 0..MaxEntries
    BY <1>2, <2>1
  <2>3. QED
    BY <2>1, <2>2, GrownEnough
<1> HIDE DEF e, new
<1>8. Kept(new, Grown(c, Len(es) + 1))
  BY <1>3, <1>4, <1>6, <1>7 DEF Kept
<1>9. QED
  BY <1>8 DEF new, e

(* A binding repeats what is bound under a key of the same file format that
   differs in the engine version. *)
LEMMA BindAuthorised ==
  ASSUME NEW es, NEW c, Kept(es, c), NEW k \in Keys, NEW s \in Evidence(es, k),
         BindStatus(es, k) = "learn", Valid(k, s)
  PROVE  s \in Schemas /\ Authorised(k, s)
<1>1. Profile(k, s) = "VALID"
  BY DEF BindStatus
<1>2. PICK i \in Alike(es, k) : s = es[i].schema
  BY DEF Evidence
<1>3. i \in DOMAIN es /\ es[i].key.format = k.format /\ es[i].key.traits = k.traits
  BY <1>2 DEF Alike, Scanned, SameButVersion
<1>4. es[i].key \in Keys /\ es[i].schema \in Schemas
  BY <1>3, EntriesTyped DEF Kept
<1>5. \A v \in Versions : [es[i].key EXCEPT !.version = v] = [k EXCEPT !.version = v]
  BY <1>3, <1>4 DEF Keys
<1>6. /\ es[i].key.version \in Versions
      /\ [es[i].key EXCEPT !.version = es[i].key.version] = es[i].key
  BY <1>4 DEF Keys
<1>7. Authorised(es[i].key, s)
  BY <1>2, <1>3 DEF Kept
<1>8. \E v \in Versions : <<[k EXCEPT !.version = v], s>> \in Trusted
  <2>1. CASE <<es[i].key, s>> \in Trusted
    <3>1. [k EXCEPT !.version = es[i].key.version] = es[i].key
      BY <1>5, <1>6
    <3>2. QED
      BY <1>6, <2>1, <3>1
  <2>2. CASE \E v \in Versions : <<[es[i].key EXCEPT !.version = v], s>> \in Trusted
    BY <1>5, <2>2
  <2>3. QED
    BY <1>7, <2>1, <2>2 DEF Authorised
<1>9. QED
  BY <1>1, <1>2, <1>4, <1>8 DEF Authorised

(* What a registry is written as holds its entries, and nothing else. *)
LEMMA WrittenExact ==
  ASSUME NEW es \in Seq(Entries), NEW image \in Written(es)
  PROVE  /\ image.body \in Seq(Entries) /\ Len(image.body) = Len(es)
         /\ image = Image(image.body) /\ image.count = Len(image.body)
         /\ Ordered(image.body)
         /\ \A i \in DOMAIN image.body : \E j \in DOMAIN es : image.body[i] = es[j]
         /\ \A j \in DOMAIN es : \E i \in DOMAIN image.body : image.body[i] = es[j]
<1>1. PICK f \in [DOMAIN es -> {es[i] : i \in DOMAIN es}] :
        /\ Ordered(f) /\ image = Image(f)
        /\ {es[i] : i \in DOMAIN es} \subseteq {f[i] : i \in DOMAIN es}
  BY DEF Written, Sorted
<1>2. /\ Len(es) \in Nat /\ DOMAIN es = 1..Len(es)
      /\ {es[i] : i \in DOMAIN es} \subseteq Entries
  BY EntriesTyped
<1>3. f \in [1..Len(es) -> Entries]
  BY <1>1, <1>2
<1>4. f \in Seq(Entries) /\ Len(f) = Len(es)
  BY <1>2, <1>3
<1>5. image.body = f /\ image.count = Len(f)
  BY <1>1 DEF Image
<1>6. \A j \in DOMAIN es : \E i \in DOMAIN f : f[i] = es[j]
  BY <1>1
<1>7. \A i \in DOMAIN f : \E j \in DOMAIN es : f[i] = es[j]
  BY <1>1
<1>8. QED
  BY <1>1, <1>4, <1>5, <1>6, <1>7

(* The records of an image that passes every check are its whole body, in
   order, few enough and valid. *)
LEMMA ImportExact ==
  ASSUME NEW image, image.body \in Seq(Entries), image.count \in Nat,
         ImportStatus(image) = "OK"
  PROVE  /\ image.count = Len(image.body) /\ image.digest = image.body
         /\ image.count \in 0..MaxEntries
         /\ SubSeq(image.body, 1, image.count) = image.body
         /\ Ordered(image.body)
         /\ \A i \in DOMAIN image.body : Valid(image.body[i].key, image.body[i].schema)
<1> DEFINE body == image.body
           count == image.count
           bad == BadRecords(body, count)
<1>1. /\ ~(count > MaxEntries) /\ image.digest = body
      /\ bad = {} /\ count = Len(body)
  <2>1. \A i : RecordStatus(body, i) # "OK"
    BY DEF RecordStatus
  <2> HIDE DEF bad
  <2>2. ImportStatus(image) =
          IF count > MaxEntries THEN "LIMIT_EXCEEDED"
          ELSE IF image.digest # body THEN "DIGEST_MISMATCH"
          ELSE IF bad # {}
          THEN RecordStatus(body, CHOOSE i \in bad : \A j \in bad : i <= j)
          ELSE IF count # Len(body) THEN "INVALID_FORMAT"
          ELSE "OK"
    BY DEF ImportStatus, bad
  <2> HIDE DEF body, count
  <2>3. QED
    BY <2>1, <2>2
<1>2. DOMAIN body = 1..count /\ MaxEntries \in Nat
  BY <1>1, EntriesTyped, RegistryAssumption
<1>3. \A i \in 1..count : /\ ~(i > 1 /\ ~Less(body[i-1].key, body[i].key))
                          /\ Valid(body[i].key, body[i].schema)
  BY <1>1 DEF BadRecords
<1>4. Ordered(body)
  <2>1. \A i \in 2..Len(body) : i \in 1..count /\ i > 1
    BY <1>1
  <2>2. QED
    BY <1>3, <2>1 DEF Ordered
<1>5. SubSeq(body, 1, count) = body
  <2>1. \A i \in 1..count : body[i] \in Entries
    BY <1>1, EntriesTyped
  <2>2. /\ SubSeq(body, 1, count) \in Seq(Entries)
        /\ Len(SubSeq(body, 1, count)) = count
        /\ \A i \in 1..count : SubSeq(body, 1, count)[i] = body[i]
    <3>1. \A i \in 1..count : 1 + i - 1 = i
      OBVIOUS
    <3>2. count - 1 + 1 = count /\ (1 <= count \/ count = 0)
      OBVIOUS
    <3>3. 1 \in Int /\ count \in Int
      OBVIOUS
    <3>4. /\ SubSeq(body, 1, count) \in Seq(Entries)
          /\ Len(SubSeq(body, 1, count)) = IF 1 <= count THEN count - 1 + 1 ELSE 0
          /\ \A i \in 1..count - 1 + 1 : SubSeq(body, 1, count)[i] = body[1 + i - 1]
      BY <2>1, <3>3, SubSeqProperties
    <3>5. QED
      BY <3>1, <3>2, <3>4
  <2>3. body \in Seq(Entries) /\ count = Len(body)
    BY <1>1
  <2> HIDE DEF body, count
  <2>4. QED
    BY <2>2, <2>3, SeqEqual
<1>6. count \in 0..MaxEntries
  BY <1>1, <1>2
<1>7. QED
  BY <1>1, <1>2, <1>3, <1>4, <1>5, <1>6

----------------------------------------------------------------------------
(* What a step does to the registries. *)

(* An import takes the whole array over, which is what an image holds of
   entries from outside, or of another registry's. *)
LEMMA ImportKeeps ==
  ASSUME NEW image, ImportStatus(image) = "OK",
         \/ image \in Images
         \/ \E es, c : Kept(es, c) /\ image \in Written(es)
  PROVE  /\ Kept(image.body, Grown(0, image.count))
         /\ SubSeq(image.body, 1, image.count) = image.body
         /\ image = Image(image.body)
<1>1. CASE image \in Images
  <2>1. /\ image \in [count : Nat, digest : Seq(Entries), body : Seq(Entries)]
        /\ image.body \in Seq(Entries) /\ image.count \in Nat
    BY <1>1, RegistryAssumption
  <2>2. /\ image.count = Len(image.body) /\ image.digest = image.body
        /\ image.count \in 0..MaxEntries
        /\ SubSeq(image.body, 1, image.count) = image.body
        /\ Ordered(image.body)
        /\ \A i \in DOMAIN image.body : Valid(image.body[i].key, image.body[i].schema)
    BY <2>1, ImportExact
  <2>3. image = Image(image.body)
    BY <2>1, <2>2 DEF Image
  <2>4. Bound(image.body) \subseteq Trusted
    BY <1>1 DEF Trusted
  <2>5. \A i \in DOMAIN image.body : Authorised(image.body[i].key, image.body[i].schema)
    BY <2>2, <2>4 DEF Bound, Authorised
  <2>6. Grown(0, image.count) \in 0..MaxEntries /\ image.count <= Grown(0, image.count)
    <3>1. 0 \in 0..MaxEntries
      BY RegistryAssumption
    <3>2. QED
      BY <2>2, <3>1, GrownEnough
  <2>7. QED
    BY <2>1, <2>2, <2>3, <2>5, <2>6 DEF Kept
<1>2. ASSUME NEW es, NEW c, Kept(es, c), image \in Written(es)
      PROVE  /\ Kept(image.body, Grown(0, image.count))
             /\ SubSeq(image.body, 1, image.count) = image.body
             /\ image = Image(image.body)
  <2>1. es \in Seq(Entries)
    BY <1>2 DEF Kept
  <2>2. /\ image.body \in Seq(Entries)
        /\ image = Image(image.body) /\ image.count = Len(image.body)
        /\ \A i \in DOMAIN image.body : \E j \in DOMAIN es : image.body[i] = es[j]
    BY <1>2, <2>1, WrittenExact
  <2>3. image.count \in Nat
    BY <2>2, EntriesTyped
  <2>4. /\ image.count \in 0..MaxEntries
        /\ SubSeq(image.body, 1, image.count) = image.body
        /\ Ordered(image.body)
    BY <2>2, <2>3, ImportExact
  <2>5. \A i \in DOMAIN image.body : Authorised(image.body[i].key, image.body[i].schema)
    BY <1>2, <2>2 DEF Kept
  <2>6. Grown(0, image.count) \in 0..MaxEntries /\ image.count <= Grown(0, image.count)
    <3>1. 0 \in 0..MaxEntries
      BY RegistryAssumption
    <3>2. QED
      BY <2>4, <3>1, GrownEnough
  <2>7. QED
    BY <2>2, <2>4, <2>5, <2>6 DEF Kept
<1>3. QED
  BY <1>1, <1>2

(* Authority, registry by registry. *)
IInv ==
  /\ entries = [r \in Registries |-> entries[r]]
  /\ capacity = [r \in Registries |-> capacity[r]]
  /\ \A r \in Registries : Kept(entries[r], capacity[r])
  /\ last.status \in Status

LEMMA InvariantIsAuthority ==
  IInv <=> Authority
<1>1. ASSUME IInv PROVE Authority
  <2>1. \A r \in Registries : /\ entries[r] \in Seq(Entries)
                              /\ capacity[r] \in 0..MaxEntries
                              /\ Ordered(entries[r]) /\ Len(entries[r]) <= capacity[r]
                              /\ \A i \in DOMAIN entries[r] :
                                   Authorised(entries[r][i].key, entries[r][i].schema)
    BY <1>1 DEF IInv, Kept
  <2>2. entries \in [Registries -> Seq(Entries)] /\ capacity \in [Registries -> 0..MaxEntries]
    BY <1>1, <2>1 DEF IInv
  <2>3. QED
    BY <1>1, <2>1, <2>2 DEF IInv, Authority, Canonical, TypeOK
<1>2. ASSUME Authority PROVE IInv
  <2>1. entries \in [Registries -> Seq(Entries)] /\ capacity \in [Registries -> 0..MaxEntries]
    BY <1>2 DEF Authority, Canonical, TypeOK
  <2>2. \A r \in Registries : Kept(entries[r], capacity[r])
    BY <1>2, <2>1 DEF Authority, Canonical, Kept
  <2>3. QED
    BY <1>2, <2>1, <2>2 DEF IInv, Authority, Canonical, TypeOK
<1>3. QED
  BY <1>1, <1>2

(* One registry gets other contents, the others keep theirs. *)
LEMMA OneChanges ==
  ASSUME IInv, NEW r \in Registries, NEW es, NEW c, Kept(es, c),
         entries' = [entries EXCEPT ![r] = es],
         capacity' = [capacity EXCEPT ![r] = c],
         last'.status \in Status
  PROVE  IInv'
<1>1. \A o \in Registries : Kept(entries'[o], capacity'[o])
  <2>1. ASSUME NEW o \in Registries PROVE Kept(entries'[o], capacity'[o])
    <3>1. CASE o = r
      BY <3>1 DEF IInv
    <3>2. CASE o # r
      <4>1. entries'[o] = entries[o] /\ capacity'[o] = capacity[o]
        BY <3>2 DEF IInv
      <4>2. QED
        BY <4>1 DEF IInv
    <3>3. QED
      BY <3>1, <3>2
  <2>2. QED
    BY <2>1
<1>2. QED
  BY <1>1 DEF IInv

LEMMA NoneChanges ==
  ASSUME IInv, UNCHANGED <<entries, capacity>>, last'.status \in Status
  PROVE  IInv'
BY DEF IInv

(* A learn, by whoever calls it, inserts one authorised entry or none. *)
LEMMA LearnIntoKeeps ==
  ASSUME IInv, NEW call, NEW r \in Registries, NEW k \in Keys, NEW s \in Schemas,
         Valid(k, s) => Authorised(k, s), LearnInto(call, r, k, s)
  PROVE  IInv'
<1> DEFINE status == LearnStatus(entries[r], k, s)
           new == status = "OK" /\ Holding(entries[r], k) = {}
<1>1. status \in Status
  BY DEF LearnStatus, Status
<1>2. CASE /\ new
           /\ entries' = [entries EXCEPT ![r] = Insert(@, [key |-> k, schema |-> s])]
           /\ capacity' = [capacity EXCEPT ![r] = Grown(@, Len(entries[r]) + 1)]
           /\ Answer(call, "OK")
  <2>1. Kept(entries[r], capacity[r])
    BY DEF IInv
  <2>2. Kept(Insert(entries[r], [key |-> k, schema |-> s]), Grown(capacity[r], Len(entries[r]) + 1))
    BY <1>2, <2>1, LearnKeeps
  <2>3. last'.status \in Status
    BY <1>2 DEF Answer, Status
  <2>4. QED
    BY <1>2, <2>2, <2>3, OneChanges
<1>3. CASE UNCHANGED <<entries, capacity>> /\ Answer(call, "ALLOCATION_FAILED")
  BY <1>3, NoneChanges DEF Answer, Status
<1>4. CASE UNCHANGED <<entries, capacity>> /\ Answer(call, status)
  <2>1. last'.status \in Status
    BY <1>1, <1>4 DEF Answer
  <2>2. QED
    BY <1>4, <2>1, NoneChanges
<1>5. QED
  BY <1>2, <1>3, <1>4 DEF LearnInto

(* The image a registry is written as comes from that registry. *)
Sources == Images \cup UNION {Written(entries[o]) : o \in Registries}

LEMMA SourcesKept ==
  ASSUME IInv, NEW image \in Sources, ImportStatus(image) = "OK"
  PROVE  /\ Kept(image.body, Grown(0, image.count))
         /\ SubSeq(image.body, 1, image.count) = image.body
         /\ image = Image(image.body)
<1>1. CASE image \in Images
  BY <1>1, ImportKeeps
<1>2. ASSUME NEW o \in Registries, image \in Written(entries[o])
      PROVE  \E es, c : Kept(es, c) /\ image \in Written(es)
  <2>1. Kept(entries[o], capacity[o])
    BY DEF IInv
  <2>2. QED
    BY <1>2, <2>1
<1>3. image \in Images \/ \E es, c : Kept(es, c) /\ image \in Written(es)
  BY <1>2 DEF Sources
<1>4. QED
  BY <1>3, ImportKeeps

(* Every status is one of the statuses. *)
LEMMA StatusTyped ==
  /\ \A image : ImportStatus(image) \in Status
  /\ \A es, k : BindStatus(es, k) # "learn" => BindStatus(es, k) \in Status
<1>1. \A body, i : RecordStatus(body, i) \in Status
  BY DEF RecordStatus, Status
<1>2. \A image : ImportStatus(image) \in Status
  BY <1>1, Zenon DEF ImportStatus, Status
<1>3. \A es, k : BindStatus(es, k) # "learn" => BindStatus(es, k) \in Status
  BY Zenon DEF BindStatus, Status
<1>4. QED
  BY <1>2, <1>3

(* Each call keeps the registries as they must be. *)
LEMMA StepKeeps ==
  ASSUME IInv, [Next]_vars
  PROVE  IInv'
<1>1. ASSUME NEW r \in Registries, NEW k \in Keys, NEW s \in Schemas, Learn(r, k, s)
      PROVE  IInv'
  <2>1. Valid(k, s) => Authorised(k, s)
    BY <1>1 DEF Learn, Authorised, Trusted
  <2>2. QED
    BY <1>1, <2>1, LearnIntoKeeps DEF Learn
<1>2. ASSUME NEW r \in Registries, NEW k \in Keys, Bind(r, k)
      PROVE  IInv'
  <2>1. ASSUME BindStatus(entries[r], k) = "learn", NEW s \in Evidence(entries[r], k),
               LearnInto("bind", r, k, s)
        PROVE  IInv'
    <3>1. Kept(entries[r], capacity[r])
      BY DEF IInv
    <3>2. s \in Schemas /\ (Valid(k, s) => Authorised(k, s))
      <4>1. PICK i \in DOMAIN entries[r] : s = entries[r][i].schema
        BY <2>1 DEF Evidence, Alike, Scanned
      <4>2. s \in Schemas
        BY <3>1, <4>1, EntriesTyped DEF Kept
      <4>3. Valid(k, s) => Authorised(k, s)
        BY <2>1, <3>1, BindAuthorised
      <4>4. QED
        BY <4>2, <4>3
    <3>3. QED
      BY <2>1, <3>2, LearnIntoKeeps
  <2>2. CASE /\ BindStatus(entries[r], k) # "learn"
             /\ Answer("bind", BindStatus(entries[r], k))
             /\ UNCHANGED <<entries, capacity>>
    <3>1. last'.status \in Status
      BY <2>2, StatusTyped DEF Answer
    <3>2. QED
      BY <2>2, <3>1, NoneChanges
  <2>3. QED
    BY <1>2, <2>1, <2>2 DEF Bind
<1>3. CASE LearnUnpinned
  BY <1>3, NoneChanges DEF LearnUnpinned, Answer, Status
<1>4. ASSUME NEW r \in Registries, Export(r) PROVE IInv'
  BY <1>4, NoneChanges DEF Export, AnswerImage, Answer, Status
<1>5. ASSUME NEW r \in Registries, Dispose(r) PROVE IInv'
  <2>1. Kept(<<>>, 0)
    BY RegistryAssumption DEF Kept, Ordered
  <2>2. QED
    BY <1>5, <2>1, OneChanges DEF Dispose, Answer, Status
<1>6. ASSUME NEW r \in Registries, NEW image \in Sources, Import(r, image)
      PROVE  IInv'
  <2>1. CASE /\ ImportStatus(image) = "OK"
             /\ entries' = [entries EXCEPT ![r] = SubSeq(image.body, 1, image.count)]
             /\ capacity' = [capacity EXCEPT ![r] = Grown(0, image.count)]
             /\ AnswerImage("import", "OK", image)
    <3>1. /\ Kept(image.body, Grown(0, image.count))
          /\ SubSeq(image.body, 1, image.count) = image.body
      BY <2>1, SourcesKept
    <3>2. last'.status \in Status
      BY <2>1 DEF AnswerImage, Status
    <3>3. QED
      BY <2>1, <3>1, <3>2, OneChanges
  <2>2. CASE /\ AnswerImage("import", IF ImportStatus(image) = "OK"
                                      THEN "ALLOCATION_FAILED" ELSE ImportStatus(image), image)
             /\ UNCHANGED <<entries, capacity>>
    <3>1. last'.status \in Status
      BY <2>2, StatusTyped DEF AnswerImage, Status
    <3>2. QED
      BY <2>2, <3>1, NoneChanges
  <2>3. QED
    BY <1>6, <2>1, <2>2 DEF Import
<1>7. CASE UNCHANGED vars
  BY <1>7 DEF vars, IInv
<1>8. QED
  BY <1>1, <1>2, <1>3, <1>4, <1>5, <1>6, <1>7 DEF Next, Sources

LEMMA InitKeeps ==
  Init => IInv
<1>1. Kept(<<>>, 0)
  BY RegistryAssumption DEF Kept, Ordered
<1>2. QED
  BY <1>1 DEF Init, IInv, Status

(* No registry ever holds an entry that nobody brought from outside, or two of
   one key, or more than was allocated. *)
THEOREM AuthorityHolds == Spec => []Authority
<1>1. IInv /\ [Next]_vars => IInv'
  BY StepKeeps
<1>2. QED
  BY InitKeeps, <1>1, InvariantIsAuthority, PTL DEF Spec

----------------------------------------------------------------------------
(* What a step may do to the bindings. *)

(* A learn binds one further pair in one registry, or nothing. *)
LEMMA LearnIntoBinds ==
  ASSUME IInv, NEW call, NEW r \in Registries, NEW k \in Keys, NEW s \in Schemas,
         LearnInto(call, r, k, s), NEW o \in Registries
  PROVE  /\ last'.call = call
         /\ Bound(entries[o]) \subseteq Bound(entries'[o])
         /\ Bound(entries'[o]) \ Bound(entries[o]) \subseteq {<<k, s>>}
         /\ Bound(entries'[o]) # Bound(entries[o]) => o = r
<1>1. last'.call = call
  BY DEF LearnInto, Answer
<1>2. CASE UNCHANGED entries
  BY <1>1, <1>2
<1>3. CASE entries' = [entries EXCEPT ![r] = Insert(@, [key |-> k, schema |-> s])]
  <2>1. CASE o # r
    BY <1>1, <1>3, <2>1 DEF IInv
  <2>2. CASE o = r
    <3> DEFINE e == [key |-> k, schema |-> s]
    <3>1. entries'[r] = Insert(entries[r], e)
      BY <1>3 DEF IInv
    <3>2. entries[r] \in Seq(Entries) /\ e \in Entries /\ e.key = k /\ e.schema = s
      BY DEF IInv, Kept, Entries
    <3>3. Bound(entries'[r]) = Bound(entries[r]) \cup {<<k, s>>}
      <4> HIDE DEF e
      <4>1. QED
        BY <3>1, <3>2, InsertBinds
    <3>4. QED
      BY <1>1, <2>2, <3>3
  <2>3. QED
    BY <2>1, <2>2
<1>4. QED
  BY <1>2, <1>3 DEF LearnInto

(* The step of one registry, as NeverRebound wants it. *)
Keeps(r) ==
  LET old == Bound(entries[r])
      new == Bound(entries'[r])
  IN /\ old \subseteq new
        \/ (last'.call \in {"import", "dispose"} /\ last'.status = "OK")
     /\ last'.call = "bind" =>
          \A n \in new \ old, o \in old :
            SameButVersion(o[1], n[1]) => o[2] = n[2]

AllKeep == \A r \in Registries : Keeps(r)

(* A binding finds all entries that differ in the engine version to agree. *)
LEMMA BindAgrees ==
  ASSUME NEW es, NEW k, BindStatus(es, k) = "learn", NEW s \in Evidence(es, k),
         NEW p \in Bound(es), SameButVersion(p[1], k)
  PROVE  p[2] = s
<1>1. Holding(es, k) = {} /\ ~ \E a, b \in Evidence(es, k) : a # b
  BY DEF BindStatus
<1>2. PICK i \in DOMAIN es : p = <<es[i].key, es[i].schema>>
  BY DEF Bound
<1>3. i \in Alike(es, k)
  BY <1>1, <1>2 DEF Alike, Scanned
<1>4. p[2] \in Evidence(es, k)
  BY <1>2, <1>3 DEF Evidence
<1>5. QED
  BY <1>1, <1>4

LEMMA StepKeepsBindings ==
  ASSUME IInv, Next, NEW o \in Registries
  PROVE  Keeps(o)
<1>1. ASSUME NEW r \in Registries, NEW k \in Keys, NEW s \in Schemas, Learn(r, k, s)
      PROVE  Keeps(o)
  <2>1. LearnInto("learn", r, k, s)
    BY <1>1 DEF Learn
  <2>2. last'.call = "learn" /\ Bound(entries[o]) \subseteq Bound(entries'[o])
    BY <2>1, LearnIntoBinds
  <2>3. QED
    BY <2>2 DEF Keeps
<1>2. ASSUME NEW r \in Registries, NEW k \in Keys, Bind(r, k)
      PROVE  Keeps(o)
  <2>1. ASSUME BindStatus(entries[r], k) = "learn", NEW s \in Evidence(entries[r], k),
               LearnInto("bind", r, k, s)
        PROVE  Keeps(o)
    <3>1. s \in Schemas
      <4>1. PICK i \in DOMAIN entries[r] : s = entries[r][i].schema
        BY <2>1 DEF Evidence, Alike, Scanned
      <4>2. QED
        BY <4>1, EntriesTyped DEF IInv, Kept
    <3>2. /\ Bound(entries[o]) \subseteq Bound(entries'[o])
          /\ Bound(entries'[o]) \ Bound(entries[o]) \subseteq {<<k, s>>}
          /\ Bound(entries'[o]) # Bound(entries[o]) => o = r
      BY <2>1, <3>1, LearnIntoBinds
    <3>3. ASSUME NEW n \in Bound(entries'[o]) \ Bound(entries[o]), NEW p \in Bound(entries[o]),
                 SameButVersion(p[1], n[1])
          PROVE  p[2] = n[2]
      <4>1. n = <<k, s>> /\ o = r
        BY <3>2
      <4>2. p \in Bound(entries[r]) /\ SameButVersion(p[1], k)
        BY <3>3, <4>1
      <4>3. p[2] = s
        BY <2>1, <4>2, BindAgrees
      <4>4. QED
        BY <4>1, <4>3
    <3>4. QED
      BY <3>2, <3>3 DEF Keeps
  <2>2. CASE UNCHANGED entries
    BY <2>2 DEF Keeps
  <2>3. QED
    BY <1>2, <2>1, <2>2 DEF Bind
<1>3. CASE LearnUnpinned
  BY <1>3 DEF LearnUnpinned, Keeps
<1>4. ASSUME NEW r \in Registries, Export(r) PROVE Keeps(o)
  BY <1>4 DEF Export, Keeps
<1>5. ASSUME NEW r \in Registries, Dispose(r) PROVE Keeps(o)
  BY <1>5 DEF Dispose, Answer, Keeps
<1>6. ASSUME NEW r \in Registries, NEW image, Import(r, image)
      PROVE  Keeps(o)
  <2>1. CASE AnswerImage("import", "OK", image)
    BY <2>1 DEF AnswerImage, Keeps
  <2>2. CASE UNCHANGED entries
    BY <2>2 DEF Keeps
  <2>3. QED
    BY <1>6, <2>1, <2>2 DEF Import
<1>7. QED
  BY <1>1, <1>2, <1>3, <1>4, <1>5, <1>6 DEF Next

(* What a registry binds stays bound to the same schema until it is replaced
   or disposed of, and a binding to a further version never picks. *)
THEOREM NeverReboundHolds == Spec => NeverRebound
<1>1. IInv /\ [Next]_vars => [AllKeep]_vars
  BY StepKeepsBindings DEF AllKeep
<1>2. QED
  BY AuthorityHolds, InvariantIsAuthority, <1>1, PTL DEF Spec, NeverRebound, AllKeep, Keeps

(* The step of any call, as Transactional wants it. *)
WholeOrNothing ==
  /\ last'.call = "import" /\ last'.status = "OK" =>
       \E r \in Registries : Image(entries'[r]) = last'.image
  /\ last'.status # "OK" => entries' = entries /\ capacity' = capacity

LEMMA StepWholeOrNothing ==
  ASSUME IInv, Next
  PROVE  WholeOrNothing
<1>1. ASSUME NEW call \in {"learn", "bind"}, NEW r, NEW k, NEW s, LearnInto(call, r, k, s)
      PROVE  WholeOrNothing
  BY <1>1 DEF LearnInto, Answer, WholeOrNothing
<1>2. ASSUME NEW r \in Registries, NEW k \in Keys, Bind(r, k)
      PROVE  WholeOrNothing
  BY <1>1, <1>2 DEF Bind, Answer, WholeOrNothing
<1>3. CASE LearnUnpinned
  BY <1>3 DEF LearnUnpinned, Answer, WholeOrNothing
<1>4. ASSUME NEW r \in Registries, Export(r) PROVE WholeOrNothing
  BY <1>4 DEF Export, AnswerImage, Answer, WholeOrNothing
<1>5. ASSUME NEW r \in Registries, Dispose(r) PROVE WholeOrNothing
  BY <1>5 DEF Dispose, Answer, WholeOrNothing
<1>6. ASSUME NEW r \in Registries, NEW image \in Sources, Import(r, image)
      PROVE  WholeOrNothing
  <2>1. CASE /\ ImportStatus(image) = "OK"
             /\ entries' = [entries EXCEPT ![r] = SubSeq(image.body, 1, image.count)]
             /\ AnswerImage("import", "OK", image)
    <3>1. image = Image(image.body) /\ SubSeq(image.body, 1, image.count) = image.body
      BY <2>1, SourcesKept
    <3>2. entries'[r] = image.body
      BY <2>1, <3>1 DEF IInv
    <3>3. last'.image = image /\ last'.status = "OK"
      BY <2>1 DEF AnswerImage
    <3>4. QED
      BY <3>1, <3>2, <3>3 DEF WholeOrNothing
  <2>2. CASE /\ AnswerImage("import", IF ImportStatus(image) = "OK"
                                      THEN "ALLOCATION_FAILED" ELSE ImportStatus(image), image)
             /\ UNCHANGED <<entries, capacity>>
    BY <2>2 DEF AnswerImage, WholeOrNothing
  <2>3. QED
    BY <1>6, <2>1, <2>2 DEF Import
<1>7. QED
  BY <1>1, <1>2, <1>3, <1>4, <1>5, <1>6 DEF Next, Learn, Sources

(* An accepted image is, bit for bit, what the new registry is written as, and
   a call that fails changes no registry. *)
THEOREM TransactionalHolds == Spec => Transactional
<1>1. IInv /\ [Next]_vars => [WholeOrNothing]_vars
  BY StepWholeOrNothing
<1>2. QED
  BY AuthorityHolds, InvariantIsAuthority, <1>1, PTL DEF Spec, Transactional, WholeOrNothing

----------------------------------------------------------------------------
(* The registries under the files that are opened over them. *)

(* Registries that are kept, and bind no less than es does. *)
Growing(es) ==
  {x \in [status : Status, entries : Seq(Entries), capacity : 0..MaxEntries] :
     Kept(x.entries, x.capacity) /\ Bound(es) \subseteq Bound(x.entries)}

(* A row of a pinned input leaves the registry kept, with all its bindings. *)
LEMMA WithRowKeeps ==
  ASSUME NEW es, NEW x \in Growing(es), NEW k, NEW s, <<k, s>> \in Pinned
  PROVE  WithRow(x, k, s) \in Growing(es)
<1> DEFINE status == LearnStatus(x.entries, k, s)
           e == [key |-> k, schema |-> s]
           new == Insert(x.entries, e)
           room == Grown(x.capacity, Len(x.entries) + 1)
<1>1. /\ x \in [status : Status, entries : Seq(Entries), capacity : 0..MaxEntries]
      /\ Kept(x.entries, x.capacity) /\ Bound(es) \subseteq Bound(x.entries)
      /\ x.entries \in Seq(Entries)
  BY DEF Growing
<1>2. k \in Keys /\ s \in Schemas /\ (Valid(k, s) => Authorised(k, s))
  BY RegistryAssumption DEF Authorised, Trusted
<1>3. status \in Status
  BY DEF LearnStatus, Status
<1>4. [x EXCEPT !.status = status] \in Growing(es)
  <2> HIDE DEF status
  <2>1. /\ [x EXCEPT !.status = status] \in
             [status : Status, entries : Seq(Entries), capacity : 0..MaxEntries]
        /\ [x EXCEPT !.status = status].entries = x.entries
        /\ [x EXCEPT !.status = status].capacity = x.capacity
    BY <1>1, <1>3
  <2>2. QED
    BY <1>1, <2>1 DEF Growing
<1>5. ASSUME status = "OK", Holding(x.entries, k) = {}
      PROVE  [status |-> "OK", entries |-> new, capacity |-> room] \in Growing(es)
  <2>1. Kept(new, room)
    BY <1>1, <1>2, <1>5, LearnKeeps
  <2>2. Bound(new) = Bound(x.entries) \cup {<<k, s>>}
    <3>1. e \in Entries /\ e.key = k /\ e.schema = s
      BY <1>2 DEF Entries
    <3>2. Bound(new) = Bound(x.entries) \cup {<<e.key, e.schema>>}
      BY <1>1, <3>1, InsertBinds
    <3> HIDE DEF e, new
    <3>3. QED
      BY <3>1, <3>2
  <2> HIDE DEF new, room
  <2>3. QED
    BY <1>1, <2>1, <2>2 DEF Growing, Kept, Status
<1> HIDE DEF status
<1>6. CASE x.status # "OK"
  BY <1>6 DEF WithRow, status
<1>7. CASE x.status = "OK" /\ status # "OK"
  BY <1>4, <1>7 DEF WithRow, status
<1>8. CASE x.status = "OK" /\ status = "OK" /\ Holding(x.entries, k) # {}
  BY <1>8 DEF WithRow, status
<1>9. CASE x.status = "OK" /\ status = "OK" /\ Holding(x.entries, k) = {}
  BY <1>5, <1>9 DEF WithRow, status
<1>10. QED
  BY <1>6, <1>7, <1>8, <1>9

(* So do all rows of a pinned input. *)
LEMMA LearnedKeeps ==
  ASSUME NEW es, NEW start \in Growing(es), NEW f, NEW rows \in Seq(Rows),
         Pairs(f, rows) \subseteq Pinned
  PROVE  Learned(start, f, rows) \in Growing(es)
<1> DEFINE S == Growing(es)
           n == Len(rows)
           Row(x, i) == WithRow(x, KeyOf(f, rows[i]), rows[i].nodes)
           step == [i \in 1..n |-> [x \in S |-> Row(x, i)]]
           Is(g) == g = [i \in 0..n |-> IF i = 0 THEN start ELSE Row(g[i-1], i)]
<1>1. n \in Nat /\ DOMAIN rows = 1..n
  OBVIOUS
<1>2. ASSUME NEW x \in S, NEW i \in 1..n PROVE Row(x, i) \in S
  <2>1. <<KeyOf(f, rows[i]), rows[i].nodes>> \in Pinned
    BY <1>1 DEF Pairs
  <2>2. QED
    BY <2>1, WithRowKeeps
<1> HIDE DEF S, n, Row
<1>3. step \in [1..n -> [S -> S]]
  BY <1>2
<1>4. start \in S
  BY DEF S
<1>5. PICK g : Iterates(g, n, S, start, step)
  <2> HIDE DEF step
  <2>1. QED
    BY <1>1, <1>3, <1>4, RecursionUpTo, Zenon
<1>6. g \in [0..n -> S] /\ g[0] = start /\ \A i \in 1..n : g[i] = step[i][g[i-1]]
  <2> HIDE DEF step
  <2>1. QED
    BY <1>5 DEF Iterates
<1>7. ASSUME NEW i \in 1..n PROVE g[i] = Row(g[i-1], i)
  <2>1. i - 1 \in 0..n
    BY <1>1
  <2>2. g[i-1] \in S
    BY <1>6, <2>1
  <2>3. step[i][g[i-1]] = Row(g[i-1], i)
    BY <2>2
  <2>4. QED
    BY <1>6, <2>3
<1>8. Is(g)
  <2>1. \A i \in 0..n : i # 0 => i \in 1..n
    BY <1>1
  <2>2. QED
    BY <1>6, <1>7, <2>1
<1>9. Learning(start, f, rows) = CHOOSE h : Is(h)
  BY DEF Learning, n, Row
<1> DEFINE h == Learning(start, f, rows)
<1>10. Is(h)
  <2> HIDE DEF Is
  <2>1. QED
    BY <1>8, <1>9
<1>11. h[0] = start /\ \A i \in 1..n : h[i] = Row(h[i-1], i)
  <2> HIDE DEF h
  <2>1. QED
    BY <1>1, <1>10
<1>12. h[n] \in S
  <2> HIDE DEF h
  <2> DEFINE T == {i \in 0..n : h[i] \in S}
  <2>1. 0 \in T
    BY <1>1, <1>4, <1>11
  <2>2. ASSUME NEW i \in 1..n, i - 1 \in T PROVE i \in T
    BY <1>2, <1>11, <2>2
  <2>3. \A i \in 0..n : i \in T
    <3> HIDE DEF T
    <3>1. QED
      BY <1>1, <2>1, <2>2, InductionUpTo
  <2>4. QED
    BY <1>1, <2>3
<1>13. QED
  BY <1>12 DEF Learned, h, n, S

(* A copy of a registry, taught the rows of a pinned input, binds no less. *)
LEMMA TaughtKeeps ==
  ASSUME NEW es, NEW c, Kept(es, c), NEW clone \in Clones(es),
         NEW f \in DOMAIN Files,
         Files[f].pinned, Files[f].tree, Files[f].version \in Engines
  PROVE  Learned(Learned(clone, f, Files[f].types), f, Files[f].refs) \in Growing(es)
<1>1. PICK w \in Written(es) :
        clone = [status |-> ImportStatus(w), entries |-> w.body, capacity |-> Grown(0, w.count)]
  BY DEF Clones
<1>2. es \in Seq(Entries) /\ Len(es) \in 0..MaxEntries
  <2>1. es \in Seq(Entries) /\ c \in 0..MaxEntries /\ Len(es) <= c
    BY DEF Kept
  <2>2. Len(es) \in Nat /\ MaxEntries \in Nat
    BY <2>1, EntriesTyped, RegistryAssumption
  <2>3. QED
    BY <2>1, <2>2
<1>3. /\ w.body \in Seq(Entries) /\ w.count = Len(es) /\ Len(w.body) = Len(es)
      /\ Ordered(w.body)
      /\ \A i \in DOMAIN w.body : \E j \in DOMAIN es : w.body[i] = es[j]
  BY <1>1, <1>2, WrittenExact
<1>4. Grown(0, w.count) \in 0..MaxEntries /\ w.count <= Grown(0, w.count)
  <2>1. 0 \in 0..MaxEntries
    BY RegistryAssumption
  <2>2. QED
    BY <1>2, <1>3, <2>1, GrownEnough
<1>5. Kept(w.body, Grown(0, w.count))
  <2>1. \A i \in DOMAIN w.body : Authorised(w.body[i].key, w.body[i].schema)
    BY <1>3 DEF Kept
  <2>2. QED
    BY <1>3, <1>4, <2>1 DEF Kept
<1>6. Bound(es) \subseteq Bound(w.body)
  <2>1. \A j \in DOMAIN es : \E i \in DOMAIN w.body : w.body[i] = es[j]
    BY <1>1, <1>2, WrittenExact
  <2>2. QED
    BY <2>1 DEF Bound
<1>7. clone \in Growing(es)
  BY <1>1, <1>3, <1>4, <1>5, <1>6, StatusTyped DEF Growing
<1>8. /\ Files[f].types \in Seq(Rows) /\ Files[f].refs \in Seq(Rows)
      /\ Pairs(f, Files[f].types) \subseteq Pinned /\ Pairs(f, Files[f].refs) \subseteq Pinned
  BY FilesAssumption
<1>9. Learned(clone, f, Files[f].types) \in Growing(es)
  BY <1>7, <1>8, LearnedKeeps
<1>10. QED
  BY <1>8, <1>9, LearnedKeeps

(* An open by program r leaves r's registry kept, with all its bindings, and
   changes no other; a call that fails changes none. *)
LEMMA OpenDoes ==
  ASSUME IInv, NEW r \in Registries, NEW f \in DOMAIN Files, NEW mode \in Modes,
         Open(r, f, mode)
  PROVE  /\ last'.call = "open" /\ last'.status \in Status
         /\ \/ UNCHANGED <<entries, capacity>>
            \/ /\ last'.status = "OK"
               /\ \E x \in Growing(entries[r]) :
                    /\ entries' = [entries EXCEPT ![r] = x.entries]
                    /\ capacity' = [capacity EXCEPT ![r] = x.capacity]
<1>1. ASSUME NEW status \in {"REFUSED", "ALLOCATION_FAILED"}, OpenFails(r, f, mode, status)
      PROVE  /\ last'.call = "open" /\ last'.status \in Status
             /\ UNCHANGED <<entries, capacity>>
  BY <1>1 DEF OpenFails, AnswerOpen, Status
<1>2. ASSUME OpenAsItIs(r, f, mode)
      PROVE  /\ last'.call = "open" /\ last'.status \in Status
             /\ UNCHANGED <<entries, capacity>>
  BY <1>2 DEF OpenAsItIs, AnswerOpen, Status
<1>3. ASSUME OpenTreeless(r, f, mode)
      PROVE  /\ last'.call = "open" /\ last'.status \in Status
             /\ UNCHANGED <<entries, capacity>>
  BY <1>1, <1>3 DEF OpenTreeless, AnswerOpen, Status
<1>4. ASSUME OpenPinned(r, f), mode = "pinned", Files[f].pinned, Files[f].tree,
             Files[f].version \in Engines
      PROVE  /\ last'.call = "open" /\ last'.status \in Status
             /\ \/ UNCHANGED <<entries, capacity>>
                \/ /\ last'.status = "OK"
                   /\ \E x \in Growing(entries[r]) :
                        /\ entries' = [entries EXCEPT ![r] = x.entries]
                        /\ capacity' = [capacity EXCEPT ![r] = x.capacity]
  <2> DEFINE Result(clone) == Learned(Learned(clone, f, Files[f].types), f, Files[f].refs)
  <2>1. PICK clone \in Clones(entries[r]) :
          \/ /\ Result(clone).status = "OK"
             /\ entries' = [entries EXCEPT ![r] = Result(clone).entries]
             /\ capacity' = [capacity EXCEPT ![r] = Result(clone).capacity]
             /\ AnswerOpen(r, f, "pinned", "OK")
          \/ OpenFails(r, f, "pinned", "REFUSED")
    BY <1>4, Zenon DEF OpenPinned
  <2>2. Result(clone) \in Growing(entries[r])
    <3>1. Kept(entries[r], capacity[r])
      BY DEF IInv
    <3>2. QED
      BY <1>4, <3>1, TaughtKeeps
  <2>3. CASE OpenFails(r, f, "pinned", "REFUSED")
    BY <1>1, <1>4, <2>3
  <2>4. CASE /\ entries' = [entries EXCEPT ![r] = Result(clone).entries]
             /\ capacity' = [capacity EXCEPT ![r] = Result(clone).capacity]
             /\ AnswerOpen(r, f, "pinned", "OK")
    <3>1. last'.call = "open" /\ last'.status = "OK" /\ "OK" \in Status
      BY <2>4 DEF AnswerOpen, Status
    <3> HIDE DEF Result
    <3>2. QED
      BY <2>2, <2>4, <3>1
  <2>5. QED
    BY <2>1, <2>3, <2>4
<1>5. Readable(f) => Files[f].version \in Engines
  BY DEF Readable, ReadableFiles
<1>6. QED
  BY <1>1, <1>2, <1>3, <1>4, <1>5 DEF Open

(* Resolving a class and closing a file change no registry. *)
LEMMA ResolveDoes ==
  ASSUME NEW r, NEW class, NEW given, ResolveClass(r, class, given)
  PROVE  /\ last'.call = "resolve" /\ last'.status \in Status
         /\ UNCHANGED <<entries, capacity>>
<1>1. ClassStatus(entries[r], class, given) \in Status
  BY DEF ClassStatus, Status
<1>2. UNCHANGED <<entries, capacity>>
  BY DEF ResolveClass
<1>3. \E status \in Status : AnswerClass(r, class, status)
  BY <1>1 DEF ResolveClass, Status
<1>4. QED
  BY <1>2, <1>3 DEF AnswerClass

LEMMA CloseDoes ==
  ASSUME Close
  PROVE  /\ last'.call = "close" /\ last'.status \in Status
         /\ UNCHANGED <<entries, capacity>>
BY DEF Close, Answer, Status

(* The calls for files keep the registries as they must be, too. *)
LEMMA FileStepKeeps ==
  ASSUME IInv, [FileNext]_fileVars
  PROVE  IInv'
<1>1. ASSUME NEW r \in Registries, NEW f \in DOMAIN Files, NEW mode \in Modes,
             Open(r, f, mode)
      PROVE  IInv'
  <2>1. last'.status \in Status
    BY <1>1, OpenDoes
  <2>2. CASE UNCHANGED <<entries, capacity>>
    BY <2>1, <2>2, NoneChanges
  <2>3. ASSUME NEW x \in Growing(entries[r]),
               entries' = [entries EXCEPT ![r] = x.entries],
               capacity' = [capacity EXCEPT ![r] = x.capacity]
        PROVE  IInv'
    <3>1. Kept(x.entries, x.capacity)
      BY DEF Growing
    <3>2. QED
      BY <2>1, <2>3, <3>1, OneChanges
  <2>4. QED
    BY <1>1, <2>2, <2>3, OpenDoes
<1>2. ASSUME NEW r, NEW class, NEW given, ResolveClass(r, class, given)
      PROVE  IInv'
  BY <1>2, ResolveDoes, NoneChanges
<1>3. CASE Close
  BY <1>3, CloseDoes, NoneChanges
<1>4. CASE Next
  BY <1>4, StepKeeps
<1>5. CASE UNCHANGED fileVars
  BY <1>5, StepKeeps DEF fileVars
<1>6. QED
  BY <1>1, <1>2, <1>3, <1>4, <1>5 DEF FileNext

(* Whatever files are opened over a registry, it holds nothing that nobody
   brought from outside. *)
THEOREM AuthorityUnderFiles == FileSpec => []Authority
<1>1. FileInit => IInv
  BY InitKeeps DEF FileInit
<1>2. IInv /\ [FileNext]_fileVars => IInv'
  BY FileStepKeeps
<1>3. QED
  BY <1>1, <1>2, InvariantIsAuthority, PTL DEF FileSpec

(* Nor does an open take a binding back, or pick. *)
THEOREM NeverReboundUnderFiles == FileSpec => NeverRebound
<1>1. IInv /\ [FileNext]_fileVars => [AllKeep]_vars
  <2>1. ASSUME IInv, NEW o \in Registries, NEW r \in Registries, NEW f \in DOMAIN Files,
               NEW mode \in Modes, Open(r, f, mode)
        PROVE  Keeps(o)
    <3>1. last'.call = "open"
      BY <2>1, OpenDoes
    <3>2. Bound(entries[o]) \subseteq Bound(entries'[o])
      <4>1. CASE UNCHANGED entries
        BY <4>1
      <4>2. ASSUME NEW x \in Growing(entries[r]), entries' = [entries EXCEPT ![r] = x.entries]
            PROVE  Bound(entries[o]) \subseteq Bound(entries'[o])
        <5>1. CASE o = r
          <6>1. entries'[o] = x.entries
            BY <2>1, <4>2, <5>1 DEF IInv
          <6>2. QED
            BY <5>1, <6>1 DEF Growing
        <5>2. CASE o # r
          BY <2>1, <4>2, <5>2 DEF IInv
        <5>3. QED
          BY <5>1, <5>2
      <4>3. QED
        BY <2>1, <4>1, <4>2, OpenDoes
    <3>3. QED
      BY <3>1, <3>2 DEF Keeps
  <2>2. ASSUME NEW o \in Registries, NEW r, NEW class, NEW given, ResolveClass(r, class, given)
        PROVE  Keeps(o)
    BY <2>2, ResolveDoes DEF Keeps
  <2>3. ASSUME NEW o \in Registries, Close
        PROVE  Keeps(o)
    BY <2>3, CloseDoes DEF Keeps
  <2>4. ASSUME UNCHANGED fileVars PROVE UNCHANGED vars
    BY <2>4 DEF fileVars
  <2>5. QED
    BY <2>1, <2>2, <2>3, <2>4, StepKeepsBindings DEF FileNext, AllKeep
<1>2. QED
  BY AuthorityUnderFiles, InvariantIsAuthority, <1>1, PTL DEF FileSpec, NeverRebound, AllKeep, Keeps

(* A file that is refused, at whichever of its rows, has taught nothing. *)
THEOREM TransactionalUnderFiles == FileSpec => Transactional
<1>1. IInv /\ [FileNext]_fileVars => [WholeOrNothing]_vars
  <2>1. ASSUME IInv, NEW r \in Registries, NEW f \in DOMAIN Files,
               NEW mode \in Modes, Open(r, f, mode)
        PROVE  WholeOrNothing
    <3>1. last'.call = "open" /\ (UNCHANGED <<entries, capacity>> \/ last'.status = "OK")
      BY <2>1, OpenDoes
    <3>2. QED
      BY <3>1 DEF WholeOrNothing
  <2>2. ASSUME NEW r, NEW class, NEW given, ResolveClass(r, class, given)
        PROVE  WholeOrNothing
    BY <2>2, ResolveDoes DEF WholeOrNothing
  <2>3. ASSUME Close PROVE WholeOrNothing
    BY <2>3, CloseDoes DEF WholeOrNothing
  <2>4. ASSUME UNCHANGED fileVars PROVE UNCHANGED vars
    BY <2>4 DEF fileVars
  <2>5. QED
    BY <2>1, <2>2, <2>3, <2>4, StepWholeOrNothing DEF FileNext
<1>2. QED
  BY AuthorityUnderFiles, InvariantIsAuthority, <1>1, PTL DEF FileSpec, Transactional, WholeOrNothing

----------------------------------------------------------------------------
(* The rows of an open file. *)

(* A schema that is looked up is one the registry binds to the key. *)
LEMMA LookupBound ==
  ASSUME NEW es \in Seq(Entries), NEW k, Holding(es, k) # {}
  PROVE  Lookup(es, k) \in Schemas /\ <<k, Lookup(es, k)>> \in Bound(es)
<1> DEFINE i == CHOOSE i \in Holding(es, k) : TRUE
<1>1. i \in Holding(es, k)
  OBVIOUS
<1>2. i \in DOMAIN es /\ es[i].key = k
  BY <1>1 DEF Holding
<1>3. Lookup(es, k) = es[i].schema
  BY DEF Lookup
<1> HIDE DEF i
<1>4. es[i].schema \in Schemas
  BY <1>2, EntriesTyped
<1>5. QED
  BY <1>2, <1>3, <1>4 DEF Bound

LEMMA RowsTyped ==
  ASSUME NEW row \in Rows, NEW s \in Schemas
  PROVE  /\ [row EXCEPT !.nodes = s] \in Rows
         /\ [row EXCEPT !.nodes = s].nodes = s
BY DEF Rows

(* Rows that are wanted get schemas of their keys, the others stay. *)
Fills(es, f, rows, wanted, new) ==
  /\ new \in Seq(Rows) /\ Len(new) = Len(rows)
  /\ \A i \in DOMAIN rows :
       IF i \in wanted THEN <<KeyOf(f, rows[i]), new[i].nodes>> \in Bound(es)
       ELSE new[i] = rows[i]

LEMMA FilledExact ==
  ASSUME NEW es \in Seq(Entries), NEW f, NEW rows \in Seq(Rows), NEW wanted,
         \A i \in DOMAIN rows : i \in wanted => Holding(es, KeyOf(f, rows[i])) # {}
  PROVE  Fills(es, f, rows, wanted, Filled(es, f, rows, wanted))
<1> DEFINE new == Filled(es, f, rows, wanted)
           n == Len(rows)
<1>1. n \in Nat /\ DOMAIN rows = 1..n /\ \A i \in 1..n : rows[i] \in Rows
  OBVIOUS
<1>2. /\ DOMAIN new = 1..n
      /\ new = [i \in 1..n |-> new[i]]
      /\ \A i \in 1..n : new[i] = IF i \in wanted
                                  THEN [rows[i] EXCEPT !.nodes = Lookup(es, KeyOf(f, rows[i]))]
                                  ELSE rows[i]
  BY <1>1 DEF Filled
<1> HIDE DEF new, n
<1>3. ASSUME NEW i \in 1..n, i \in wanted
      PROVE  new[i] \in Rows /\ <<KeyOf(f, rows[i]), new[i].nodes>> \in Bound(es)
  <2> DEFINE k == KeyOf(f, rows[i])
  <2>1. Lookup(es, k) \in Schemas /\ <<k, Lookup(es, k)>> \in Bound(es)
    BY <1>1, <1>3, LookupBound
  <2>2. rows[i] \in Rows /\ new[i] = [rows[i] EXCEPT !.nodes = Lookup(es, k)]
    BY <1>1, <1>2, <1>3
  <2> HIDE DEF k
  <2>3. new[i] \in Rows /\ new[i].nodes = Lookup(es, k)
    BY <2>1, <2>2, RowsTyped
  <2>4. QED
    BY <2>1, <2>3 DEF k
<1>4. \A i \in 1..n : new[i] \in Rows
  BY <1>1, <1>2, <1>3
<1>5. new \in Seq(Rows) /\ Len(new) = n
  <2>1. new \in [1..n -> Rows]
    BY <1>2, <1>4
  <2>2. QED
    BY <1>1, <2>1
<1>6. \A i \in DOMAIN rows :
        IF i \in wanted THEN <<KeyOf(f, rows[i]), new[i].nodes>> \in Bound(es)
        ELSE new[i] = rows[i]
  BY <1>1, <1>2, <1>3
<1>7. QED
  BY <1>5, <1>6 DEF Fills, new, n

(* The rows of an opened file are rows. *)
HandleTyped ==
  handle # Closed =>
    /\ handle = Opened(handle.file, handle.types, handle.refs)
    /\ handle.types \in Seq(Rows) /\ handle.refs \in Seq(Rows)

LEMMA OpenedTyped ==
  ASSUME NEW f, NEW types \in Seq(Rows), NEW refs \in Seq(Rows), handle' = Opened(f, types, refs)
  PROVE  HandleTyped'
BY DEF HandleTyped, Opened

LEMMA ResolvedTyped ==
  ASSUME NEW es \in Seq(Entries), NEW f, NEW rows \in Seq(Rows), AllKnown(es, f, rows)
  PROVE  Resolved(es, f, rows) \in Seq(Rows)
<1>1. Len(rows) \in Nat /\ DOMAIN rows = 1..Len(rows) /\ \A i \in 1..Len(rows) : rows[i] \in Rows
  OBVIOUS
<1>2. ASSUME NEW i \in 1..Len(rows)
      PROVE  [rows[i] EXCEPT !.nodes = Lookup(es, KeyOf(f, rows[i]))] \in Rows
  <2>1. Lookup(es, KeyOf(f, rows[i])) \in Schemas
    BY <1>1, LookupBound DEF AllKnown
  <2>2. QED
    BY <1>1, <2>1, RowsTyped
<1>3. Resolved(es, f, rows) \in [1..Len(rows) -> Rows]
  BY <1>1, <1>2 DEF Resolved
<1>4. QED
  BY <1>1, <1>3

(* What a resolved class changes about the rows of a file. *)
LEMMA ResolveOk ==
  ASSUME IInv, HandleTyped, NEW r \in Registries, NEW class, NEW given,
         ClassStatus(entries[r], class, given) = "OK"
  PROVE  /\ handle.types \in Seq(Rows) /\ handle.refs \in Seq(Rows)
         /\ Fills(entries[r], handle.file, handle.types, Wanting(handle.types, class),
                  Filled(entries[r], handle.file, handle.types, Wanting(handle.types, class)))
         /\ Fills(entries[r], handle.file, handle.refs, Wanting(handle.refs, class),
                  Filled(entries[r], handle.file, handle.refs, Wanting(handle.refs, class)))
<1>1. /\ handle.types \in Seq(Rows) /\ handle.refs \in Seq(Rows)
      /\ entries[r] \in Seq(Entries)
  BY DEF ClassStatus, HandleTyped, IInv, Kept
<1>2. \/ Wanting(handle.types, class) = {} /\ Wanting(handle.refs, class) = {}
      \/ /\ Missing(entries[r], handle.file, handle.types, class) = {}
         /\ Missing(entries[r], handle.file, handle.refs, class) = {}
  BY DEF ClassStatus
<1>3. /\ \A i \in Wanting(handle.types, class) :
           Holding(entries[r], KeyOf(handle.file, handle.types[i])) # {}
      /\ \A i \in Wanting(handle.refs, class) :
           Holding(entries[r], KeyOf(handle.file, handle.refs[i])) # {}
  BY <1>2 DEF Missing
<1>4. Fills(entries[r], handle.file, handle.types, Wanting(handle.types, class),
            Filled(entries[r], handle.file, handle.types, Wanting(handle.types, class)))
  BY <1>1, <1>3, FilledExact
<1>5. Fills(entries[r], handle.file, handle.refs, Wanting(handle.refs, class),
            Filled(entries[r], handle.file, handle.refs, Wanting(handle.refs, class)))
  BY <1>1, <1>3, FilledExact
<1>6. QED
  BY <1>1, <1>4, <1>5

FileInv == IInv /\ HandleTyped

LEMMA FileInvariantStep ==
  ASSUME FileInv, [FileNext]_fileVars
  PROVE  FileInv'
<1>1. IInv /\ HandleTyped /\ IInv'
  BY FileStepKeeps DEF FileInv
<1>2. ASSUME handle' = Closed \/ handle' = handle PROVE HandleTyped'
  BY <1>1, <1>2 DEF HandleTyped
<1>3. ASSUME NEW r \in Registries, NEW f \in DOMAIN Files, NEW mode \in Modes,
             Open(r, f, mode)
      PROVE  HandleTyped'
  <2>1. Files[f].types \in Seq(Rows) /\ Files[f].refs \in Seq(Rows) /\ entries[r] \in Seq(Entries)
    BY <1>1, FilesAssumption DEF IInv, Kept
  <2>2. ASSUME NEW status, OpenFails(r, f, mode, status)
        PROVE  HandleTyped'
    BY <1>2, <2>2 DEF OpenFails
  <2>3. CASE OpenAsItIs(r, f, mode)
    BY <2>1, <2>3, OpenedTyped DEF OpenAsItIs
  <2>4. CASE OpenTreeless(r, f, mode)
    <3>1. CASE /\ AllKnown(entries[r], f, Files[f].types)
               /\ AllKnown(entries[r], f, Files[f].refs)
               /\ handle' = Opened(f, Resolved(entries[r], f, Files[f].types),
                                      Resolved(entries[r], f, Files[f].refs))
      <4>1. /\ Resolved(entries[r], f, Files[f].types) \in Seq(Rows)
            /\ Resolved(entries[r], f, Files[f].refs) \in Seq(Rows)
        BY <2>1, <3>1, ResolvedTyped
      <4>2. QED
        BY <3>1, <4>1, OpenedTyped
    <3>2. QED
      BY <2>2, <2>4, <3>1, Zenon DEF OpenTreeless
  <2>5. CASE OpenPinned(r, f)
    <3>1. CASE handle' = Opened(f, Files[f].types, Files[f].refs)
      BY <2>1, <3>1, OpenedTyped
    <3>2. CASE handle' = Closed
      BY <1>2, <3>2
    <3>3. QED
      BY <2>5, <3>1, <3>2, Zenon DEF OpenPinned, OpenFails
  <2>6. QED
    BY <1>3, <2>2, <2>3, <2>4, <2>5 DEF Open
<1>4. ASSUME NEW r \in Registries, NEW class, NEW given, ResolveClass(r, class, given)
      PROVE  HandleTyped'
  <2> DEFINE types == Filled(entries[r], handle.file, handle.types, Wanting(handle.types, class))
             refs == Filled(entries[r], handle.file, handle.refs, Wanting(handle.refs, class))
  <2>1. CASE ClassStatus(entries[r], class, given) = "OK"
             /\ handle' = Opened(handle.file, types, refs)
    <3>1. types \in Seq(Rows) /\ refs \in Seq(Rows)
      BY <1>1, <2>1, ResolveOk DEF Fills
    <3> HIDE DEF types, refs
    <3>2. QED
      BY <2>1, <3>1, OpenedTyped
  <2>2. QED
    BY <1>2, <1>4, <2>1, Zenon DEF ResolveClass
<1>5. CASE Close
  BY <1>1, <1>2, <1>5 DEF Close, FileInv
<1>6. CASE UNCHANGED handle
  BY <1>1, <1>2, <1>6 DEF FileInv
<1>7. QED
  BY <1>1, <1>3, <1>4, <1>5, <1>6 DEF FileInv, FileNext, fileVars

----------------------------------------------------------------------------
(* A class is resolved whole or not at all, whatever became of the registry
   since the file was opened. *)
ResolvesWhole ==
  last'.call = "resolve" /\ handle # Closed =>
    LET row(h, i) == (h.types \o h.refs)[i]
        wanted == {i \in DOMAIN (handle.types \o handle.refs) :
                     ClassOf[row(handle, i).traits] = last'.class /\ row(handle, i).nodes = None}
        bound == Bound(entries[last'.by])
    IN \A i \in DOMAIN (handle.types \o handle.refs) :
         IF i \in wanted /\ last'.status = "OK"
         THEN <<KeyOf(handle.file, row(handle, i)), row(handle', i).nodes>> \in bound
         ELSE row(handle', i) = row(handle, i)

LEMMA ResolveStep ==
  ASSUME FileInv, NEW r \in Registries, NEW class, NEW given, ResolveClass(r, class, given)
  PROVE  ResolvesWhole
<1> DEFINE types == Filled(entries[r], handle.file, handle.types, Wanting(handle.types, class))
           refs == Filled(entries[r], handle.file, handle.refs, Wanting(handle.refs, class))
<1>1. CASE last'.status # "OK" /\ handle' = handle
  BY <1>1 DEF ResolvesWhole
<1>2. CASE /\ ClassStatus(entries[r], class, given) = "OK"
           /\ AnswerClass(r, class, "OK")
           /\ handle' = Opened(handle.file, types, refs)
  <2> DEFINE t == handle.types
             u == handle.refs
             es == entries[r]
             n == Len(t)
             m == Len(u)
  <2>0. /\ t \in Seq(Rows) /\ u \in Seq(Rows)
        /\ Fills(es, handle.file, t, Wanting(t, class), types)
        /\ Fills(es, handle.file, u, Wanting(u, class), refs)
    BY <1>2, ResolveOk DEF FileInv
  <2>1. n \in Nat /\ m \in Nat /\ DOMAIN t = 1..n /\ DOMAIN u = 1..m
    BY <2>0
  <2>4. handle'.types = types /\ handle'.refs = refs
    BY <1>2 DEF Opened
  <2>5. last'.class = class /\ last'.status = "OK" /\ last'.by = r
    BY <1>2 DEF AnswerClass
  <2> HIDE DEF t, u, es, types, refs
  <2>2. /\ types \in Seq(Rows) /\ Len(types) = n
        /\ \A i \in 1..n : IF i \in Wanting(t, class)
                           THEN <<KeyOf(handle.file, t[i]), types[i].nodes>> \in Bound(es)
                           ELSE types[i] = t[i]
    BY <2>0, <2>1 DEF Fills
  <2>3. /\ refs \in Seq(Rows) /\ Len(refs) = m
        /\ \A i \in 1..m : IF i \in Wanting(u, class)
                           THEN <<KeyOf(handle.file, u[i]), refs[i].nodes>> \in Bound(es)
                           ELSE refs[i] = u[i]
    BY <2>0, <2>1 DEF Fills
  <2>6. /\ t \o u \in Seq(Rows) /\ Len(t \o u) = n + m
        /\ \A i \in 1..n + m : (t \o u)[i] = IF i <= n THEN t[i] ELSE u[i-n]
    BY <2>0, ConcatProperties DEF n, m
  <2>7. \A i \in 1..n + m : (types \o refs)[i] = IF i <= n THEN types[i] ELSE refs[i-n]
    BY <2>2, <2>3, ConcatProperties
  <2> HIDE DEF n, m
  <2>8. DOMAIN (t \o u) = 1..n + m
    BY <2>1, <2>6
  <2>9. ASSUME NEW i \in 1..n + m
        PROVE  IF ClassOf[(t \o u)[i].traits] = class /\ (t \o u)[i].nodes = None
               THEN <<KeyOf(handle.file, (t \o u)[i]), (types \o refs)[i].nodes>> \in Bound(es)
               ELSE (types \o refs)[i] = (t \o u)[i]
    <3>1. CASE i <= n
      <4>1. i \in 1..n
        BY <2>1, <3>1
      <4>2. (t \o u)[i] = t[i] /\ (types \o refs)[i] = types[i]
        BY <2>6, <2>7, <3>1
      <4>3. i \in Wanting(t, class) <=> ClassOf[t[i].traits] = class /\ t[i].nodes = None
        BY <2>1, <4>1 DEF Wanting
      <4>4. QED
        BY <2>2, <4>1, <4>2, <4>3
    <3>2. CASE ~(i <= n)
      <4>1. i - n \in 1..m
        BY <2>1, <3>2
      <4>2. (t \o u)[i] = u[i-n] /\ (types \o refs)[i] = refs[i-n]
        BY <2>6, <2>7, <3>2
      <4>3. i - n \in Wanting(u, class) <=> ClassOf[u[i-n].traits] = class /\ u[i-n].nodes = None
        BY <2>1, <4>1 DEF Wanting
      <4>4. QED
        BY <2>3, <4>1, <4>2, <4>3
    <3>3. QED
      BY <3>1, <3>2
  <2>10. QED
    BY <2>4, <2>5, <2>8, <2>9 DEF ResolvesWhole, t, u, es
<1>3. \/ last'.status # "OK" /\ UNCHANGED handle
      \/ /\ ClassStatus(entries[r], class, given) = "OK"
         /\ AnswerClass(r, class, "OK")
         /\ handle' = Opened(handle.file, types, refs)
  <2> HIDE DEF types, refs
  <2>1. \A status : AnswerClass(r, class, status) => last'.status = status
    BY DEF AnswerClass
  <2>2. QED
    BY <2>1 DEF ResolveClass, types, refs
<1>4. QED
  BY <1>1, <1>2, <1>3

(* The registry's own calls say what they are. *)
LEMMA NextCalls ==
  ASSUME Next
  PROVE  last'.call # "resolve"
<1>1. \A call, status : Answer(call, status) => last'.call = call
  BY DEF Answer
<1>2. \A call, status, image : AnswerImage(call, status, image) => last'.call = call
  BY DEF AnswerImage
<1>3. ASSUME NEW r, NEW k, NEW s, Learn(r, k, s) PROVE last'.call = "learn"
  BY <1>1, <1>3, Zenon DEF Learn, LearnInto
<1>4. ASSUME NEW r, NEW k, Bind(r, k) PROVE last'.call = "bind"
  BY <1>1, <1>4, Zenon DEF Bind, LearnInto
<1>5. ASSUME LearnUnpinned PROVE last'.call = "learn"
  BY <1>1, <1>5 DEF LearnUnpinned
<1>6. ASSUME NEW r, Export(r) PROVE last'.call = "export"
  BY <1>1, <1>2, <1>6, Zenon DEF Export
<1>7. ASSUME NEW r, Dispose(r) PROVE last'.call = "dispose"
  BY <1>1, <1>7 DEF Dispose
<1>8. ASSUME NEW r, NEW image, Import(r, image) PROVE last'.call = "import"
  <2> DEFINE failed == IF ImportStatus(image) = "OK" THEN "ALLOCATION_FAILED" ELSE ImportStatus(image)
  <2>1. AnswerImage("import", "OK", image) \/ AnswerImage("import", failed, image)
    BY <1>8 DEF Import
  <2> HIDE DEF failed
  <2>2. QED
    BY <1>2, <2>1
<1>9. QED
  BY <1>3, <1>4, <1>5, <1>6, <1>7, <1>8 DEF Next

(* Of the files that are open, too: the registry may have been changed, emptied
   or replaced in between. *)
THEOREM ResolvesAllOrNothingHolds == FileSpec => ResolvesAllOrNothing
<1>1. FileInit => FileInv
  BY InitKeeps DEF FileInit, FileInv, HandleTyped
<1>2. FileInv /\ [FileNext]_fileVars => FileInv'
  BY FileInvariantStep
<1>3. FileInv /\ [FileNext]_fileVars => [ResolvesWhole]_fileVars
  <2>1. ASSUME FileInv, FileNext PROVE ResolvesWhole
    <3>1. ASSUME NEW r \in Registries, NEW f \in DOMAIN Files, NEW mode \in Modes,
                 Open(r, f, mode)
          PROVE  ResolvesWhole
      <4>1. last'.call = "open"
        BY <2>1, <3>1, OpenDoes DEF FileInv
      <4>2. QED
        BY <4>1 DEF ResolvesWhole
    <3>2. ASSUME NEW r \in Registries, NEW class, NEW given, ResolveClass(r, class, given)
          PROVE  ResolvesWhole
      BY <2>1, <3>2, ResolveStep
    <3>3. CASE Close
      BY <3>3, CloseDoes DEF ResolvesWhole
    <3>4. CASE Next
      <4>1. last'.call # "resolve"
        BY <3>4, NextCalls
      <4>2. QED
        BY <4>1 DEF ResolvesWhole
    <3>5. QED
      BY <2>1, <3>1, <3>2, <3>3, <3>4 DEF FileNext
  <2>2. QED
    BY <2>1
<1>4. QED
  BY <1>1, <1>2, <1>3, PTL DEF FileSpec, ResolvesAllOrNothing, ResolvesWhole
=============================================================================

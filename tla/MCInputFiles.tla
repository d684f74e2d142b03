---------------------------- MODULE MCInputFiles ----------------------------
(* What a tool asks about the files it was given: where references lead, and
   what archives hold, and whether a file is still what it was when it was
   captured.  The three never meet, so a run asks about one of them. *)
EXTENDS PPtrResolver, BundleArchive, UnityInput

(* Graphs: a level below the data directory of a game, with files of the same
   name in, above and beside its directory and outside of the scope; members of
   two bundles; and scopes spelled in several ways. *)
Listed(S) == FoldSet(LAMBDA x, list : Append(list, x), <<>>, S)

L(parts) == Locator(parts)
A(parts) == [Locator(parts) EXCEPT !.absolute = TRUE]
Arc(parts) == [Locator(parts) EXCEPT !.scheme = "archive"]

Loose(root, outer) ==
  [root |-> root, outer |-> outer, member |-> NoLocator, bundle |-> FALSE,
   guid |-> "none", objects |-> <<1>>, externals |-> <<>>]
Member(root, outer, member) ==
  [Loose(root, outer) EXCEPT !.bundle = TRUE, !.member = member]
To(virtual, path) == [virtual |-> virtual, path |-> path, guid |-> "zero", type |-> 0]

Words == {"t", "u", "v", "m", "..", "."}
Spellings ==
  {L(s) : s \in UNION {[1..n -> Words] : n \in 0..2}}
  \cup {L(<<"..", "..", "t">>), L(<<"..", "l", "t">>), L(<<"..", "..", "..", "h", "t">>),
        L(<<"..", "..", "..", "..", "t">>), L(<<"a", "..", "t">>), A(<<"g", "t">>), A(<<>>),
        L([i \in 1..11 |-> "."]), BuiltinExtra, DefaultResources, DefaultTarget}
Plainly == {To(NoLocator, l) : l \in Spellings}
Externals ==
  Listed(
    Plainly
    \cup {[x EXCEPT !.guid = g] : x \in {To(NoLocator, L(<<"t">>)), To(NoLocator, L(<<"u">>)),
                                         To(NoLocator, BuiltinExtra),
                                         To(NoLocator, DefaultResources)},
                                  g \in {"x", "extra", "default"}}
    \cup {[To(NoLocator, BuiltinExtra) EXCEPT !.guid = "extra", !.type = 1],
          To(L(<<"foo">>), L(<<"t">>))})

(* The same tree from the root of the file system or from where one is. *)
Game(root, At(_), near, dup) ==
  LET file(parts) == Loose(root, At(parts))
  IN <<[file(<<"m", "l", "s">>) EXCEPT !.externals = Externals, !.objects = <<1, 2>>]>>
     \o SelectSeq(<<file(<<"m", "l", "t">>), file(<<"m", "t">>), file(<<"t">>)>>,
                  LAMBDA n : n.outer \in {At(p) : p \in near})
     \o (IF dup THEN <<file(<<"m", ".", "u">>), file(<<"m", "u">>), file(<<"u">>)>>
         ELSE <<[file(<<"m", "u">>) EXCEPT !.guid = "x"], [file(<<"u">>) EXCEPT !.guid = "y"]>>)
     \o <<Loose(At(<<"m">>), At(<<"m", "v">>)), Member(root, At(<<"m", "l", "v">>), L(<<"v">>)),
          file(<<"Resources", "unity_builtin_extra">>),
          file(<<"m", "Resources", "unity default resources">>)>>

Near == {<<"m", "l", "t">>, <<"m", "t">>, <<"t">>}
Games ==
  {Game(A(<<"g">>), LAMBDA p : A(<<"g">> \o p), near, TRUE) :
     near \in {Near, Near \ {<<"m", "l", "t">>}, {<<"t">>}}}
  \cup {Game(root, LAMBDA p : A(<<"g">> \o p), Near \ {<<"m", "l", "t">>}, TRUE) :
          root \in {A(<<>>), A(<<"g", "m", "..">>), A(<<"g", "m">>), L(<<"g">>), A(<<"..">>), NoLocator}}
  \cup {Game(root, LAMBDA p : L(p), {<<"t">>}, dup) :
          root \in {L(<<".">>), L(<<"m">>), L(<<"m", "l", "s">>)}, dup \in BOOLEAN}
  \cup {Append(Game(A(<<"g">>), LAMBDA p : A(<<"g">> \o p), {}, FALSE),
               Loose(A(<<"h">>), A(<<"h", "t">>)))}

IntoArchives ==
  Listed(
    {To(v, p) : v \in {NoLocator, Arc(<<>>), Arc(<<"C">>), Arc(<<"C", "t">>), Arc(<<"..">>),
                       L(<<"foo">>)},
                p \in {Arc(<<"C", "t">>), Arc(<<"t">>), Arc(<<"C", ".", "x", "..", "t">>),
                       Arc(<<>>), L(<<"t">>), L(<<"C", "t">>),
                       [A(<<"C", "t">>) EXCEPT !.scheme = "archive"], A(<<"t">>)}}
    \cup {[To(Arc(<<"C">>), L(<<"t">>)) EXCEPT !.guid = "x"]})

Bundle(root, outer, bundled, others) ==
  <<[Member(root, outer, L(<<"C", "s">>)) EXCEPT !.bundle = bundled, !.externals = IntoArchives],
    Member(root, A(<<"g", "other">>), L(<<"t">>)), Member(root, outer, NoLocator)>> \o others

Bundles ==
  LET g == A(<<"g">>) b == A(<<"g", "b">>)
  IN {Bundle(g, b, bundled, others) : bundled \in BOOLEAN, others \in
        {<<Member(g, A(<<"g", "x", "..", "b">>), L(<<"C", "t">>)), Loose(g, b),
           Loose(g, A(<<"g", "t">>))>>,
         <<Member(g, b, L(<<"t">>)), Member(g, b, L(<<"C", ".", "t">>)),
           [Member(g, b, L(<<"C", "t">>)) EXCEPT !.guid = "x"]>>,
         <<Member(A(<<>>), b, L(<<"t">>)), Member(g, b, A(<<"t">>))>>}}

MCGraphs == Listed(Games \cup Bundles)

----------------------------------------------------------------------------
(* Archives of up to three blocks, in every layout, and inputs that differ
   from them in one or two respects. *)
B(s) == [i \in DOMAIN s |-> Byte(s[i])]
Seq4(literals, offset, match) ==
  [kind |-> "lz4", literals |-> B(literals), offset |-> offset, match |-> match, cut |-> FALSE]
Stored(s) == [method |-> "stored", cells |-> B(s), plain |-> B(s)]
Lz4Block(cells, s) == [method |-> "lz4", cells |-> cells, plain |-> B(s)]
Lzma(s) == [method |-> "lzma", cells |-> <<[kind |-> "lzma", plain |-> B(s)]>>, plain |-> B(s)]

Overlapping == Lz4Block(<<Seq4(<<1, 2>>, 1, 3), Seq4(<<3>>, 0, 0)>>, <<1, 2, 2, 2, 2, 3>>)

(* A member that spans blocks, one that ends with the payload, empty ones in
   the middle and at the end, and two of one name. *)
Entry(name, offset, s) == [name |-> name, offset |-> offset, size |-> Len(s), holds |-> B(s)]
Entries(s) ==
  <<Entry("a", 0, s), Entry("b", Len(s) - 1, <<s[Len(s)]>>), Entry("c", 1, <<>>),
    Entry("d", Len(s), <<>>), Entry("e", 1, SubSeq(s, 2, 3)), Entry("e", 0, <<s[1]>>)>>

Contents ==
  {[blocks |-> <<Overlapping>>, entries |-> Entries(<<1, 2, 2, 2, 2, 3>>)],
   [blocks |-> <<Stored(<<7>>), Overlapping, Lzma(<<5, 6>>)>>,
    entries |-> Entries(<<7, 1, 2, 2, 2, 2, 3, 5, 6>>)],
   [blocks |-> <<Stored(<<4, 5, 6>>), Stored(<<>>)>>, entries |-> Entries(<<4, 5, 6>>)],
   [blocks |-> <<>>, entries |-> <<Entry("d", 0, <<>>)>>]}

MCPlans ==
  {[blocks |-> c.blocks, entries |-> c.entries, head |-> h, packed |-> p,
    size |-> p + m, method |-> IF m = 0 THEN "stored" ELSE "lz4", atEnd |-> e, padded |-> a] :
     c \in Contents, h \in {3, 4}, p \in {3, 4}, m \in {0, 2}, e \in BOOLEAN, a \in BOOLEAN}

Blocked(f) == f.info.blocks # <<>>
Damaged(f) ==
  {[f EXCEPT !.total = @ + d] : d \in {-1, 1}} \cup {[f EXCEPT !.packed = @ + d] : d \in {-1, 1}}
  \cup {[f EXCEPT !.unpacked = @ + d] : d \in {-1, 1}}
  \cup {[f EXCEPT !.cells = Append(@, [kind |-> "pad"]), !.total = @ + d] : d \in {0, 1}}
  \cup {[f EXCEPT !.cells = Front(@), !.total = @ - d] : d \in {0, 1}}
  \cup {[f EXCEPT !.flags[k] = ~@] : k \in {"combined", "unknown", "atEnd"}}
  \cup {[f EXCEPT !.flags.method = "lzham"], [f EXCEPT !.packed = 0], [f EXCEPT !.dialect = FALSE],
        [f EXCEPT !.info.whole = FALSE], [f EXCEPT !.packed = f.total + 1],
        [f EXCEPT !.head = @ + 5], [f EXCEPT !.unpacked = 2, !.info.size = 2]}
  \cup {[f EXCEPT !.info.entries[1].size = @ + 1],
        [f EXCEPT !.info.entries = Append(@, [Entry("x", 99, <<>>) EXCEPT !.size = 1])]}
  \cup {[f EXCEPT !.info.blocks[1].packed = @ + d] : d \in IF Blocked(f) THEN {-1, 1} ELSE {}}
  \cup {[f EXCEPT !.info.blocks[1].unpacked = @ + d] : d \in IF Blocked(f) THEN {-1, 1} ELSE {}}
  \cup {[f EXCEPT !.info.blocks[1].known = FALSE] : d \in IF Blocked(f) THEN {1} ELSE {}}
  \cup {[f EXCEPT !.info.blocks[1].packed = @ + 1, !.info.blocks[2].packed = @ - 1] :
          d \in IF Len(f.info.blocks) > 1 /\ f.info.blocks[2].packed > 0 THEN {1} ELSE {}}

MCInputs == Written \cup UNION {Damaged(f) : f \in Written}

(* LZ4 blocks of up to three sequences. *)
Sequence(n) == {Seq4(l, o, m) : l \in {<<>>, <<n>>, <<n, n + 1>>}, o \in 0..3, m \in {2, 4}}
Final(n) == {Seq4(l, 0, 0) : l \in {<<>>, <<n>>, <<n, n + 1>>, <<n, n + 1, n + 2>>}}
Cut(n) == {[Seq4(<<n>>, 1, 2) EXCEPT !.cut = TRUE]}
MCBlocks ==
  {<<>>} \cup {<<a>> : a \in Sequence(1) \cup Final(1) \cup Cut(1)}
  \cup {<<a, b>> : a \in Sequence(1), b \in Sequence(4) \cup Final(4) \cup Cut(4)}
  \cup {<<Seq4(<<1, 2>>, o, 2), b, c>> : o \in {1, 2}, b \in Sequence(3), c \in Final(7)}

----------------------------------------------------------------------------
(* A file that is rewritten in place, extended and replaced by one of the same
   or of other content: serialized files, archives, and what is neither. *)
Header(magic, version, size) == [magic |-> magic, version |-> version, size |-> size]
Chunk(n) == Header("tail", n, 0)
V22(n) == <<Header("serialized", 22, 2), Chunk(n)>>
Bundled(n) == <<Header("UnityFS", 0, 0), Chunk(n)>>

M(flags, data) == [flags |-> flags, resource |-> FALSE, data |-> data]
Resource == [M({}, <<Chunk(1)>>) EXCEPT !.resource = TRUE]
Whole == <<Resource, M({"SERIALIZED"}, V22(3)), M({"DIRECTORY"}, <<>>), M({"DELETED"}, <<>>),
           M({"SERIALIZED"}, V22(4))>>
Spoiled ==
  <<M({"DIRECTORY"}, V22(3)), M({"DELETED"}, V22(3)), M({"SERIALIZED"}, <<>>),
    M({"SERIALIZED"}, <<Header("serialized", 21, 1)>>), M({"UNKNOWN", "SERIALIZED"}, V22(3)),
    M({}, V22(3)), M({"SERIALIZED", "DELETED"}, V22(3))>>

Extended == Append(V22(1), Chunk(1))
Others == {<<>>, <<Header("UnityRaw", 0, 0)>>, <<Header("serialized", 21, 1)>>, <<Chunk(1)>>}
MCRewrites == {V22(2), Bundled(0), Extended}
MCContents == MCRewrites \cup Others \cup {Bundled(i) : i \in 1..Len(Spoiled) + 1}

Two(c, d) == [name |-> "f", content |-> [f |-> c, g |-> d]]
MCGiven == {Two(c, V22(2)) : c \in MCContents} \cup {Two(c, V22(1)) : c \in {V22(1), Extended}}

MCArchives ==
  [c \in MCContents \cup {V22(1)} |->
     CASE c = Bundled(0) -> {Whole}
       [] c \in {Bundled(i) : i \in DOMAIN Spoiled} -> {<<Whole[2], Spoiled[c[2].version]>>}
       [] OTHER -> {}]

----------------------------------------------------------------------------
InputInit == ResolverInit /\ BundleInit /\ SnapshotInit
InputNext ==
  \/ /\ viewed.call.op = "none" /\ tree = NoTree
     /\ ResolverNext /\ UNCHANGED <<archiveVars, inputVars>>
  \/ /\ asked.graph = 0 /\ tree = NoTree
     /\ BundleNext /\ UNCHANGED <<resolverVars, inputVars>>
  \/ /\ asked.graph = 0 /\ viewed.call.op = "none"
     /\ SnapshotNext /\ UNCHANGED <<resolverVars, archiveVars>>
InputSpec == InputInit /\ [][InputNext]_<<resolverVars, archiveVars, inputVars>>
=============================================================================

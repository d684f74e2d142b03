---------------------------- MODULE PPtrResolver ----------------------------
(***************************************************************************)
(* src/src/io/unity_pptr_resolver.c, as built for POSIX: which object a    *)
(* reference in a player file points to, among the files a caller found.   *)
(*                                                                         *)
(* A locator is a pathname as it was written: its components in order,     *)
(* whether it begins with a separator, and whether "archive:/" precedes    *)
(* it.  Its length is the number of its components.  A path is what        *)
(* normalize_path makes of a locator.  What may fail is a set of at most   *)
(* one result.                                                             *)
(***************************************************************************)
EXTENDS Integers, SequencesExt

CONSTANTS
  Graphs,        \* the graphs of nodes a caller may pass, numbered
  MaxLocator,    \* 65535 bytes in the code
  AnyClass,      \* UNITY_PPTR_TARGET_CLASS_ANY
  Classes        \* classes a caller may expect

VARIABLES
  asked,     \* the call of unity_pptr_resolve
  answer     \* and its result

resolverVars == <<asked, answer>>

Locator(parts) == [scheme |-> "none", absolute |-> FALSE, parts |-> parts]
NoLocator == Locator(<<>>)

(* The two locators of files that every player has, and where they are. *)
BuiltinExtra == Locator(<<"Resources", "unity_builtin_extra">>)
DefaultResources == Locator(<<"Library", "unity default resources">>)
DefaultTarget == Locator(<<"Resources", "unity default resources">>)

----------------------------------------------------------------------------
(* Paths. *)

Path(absolute, parts) == [absolute |-> absolute, parts |-> parts]

CanRise(p) == p.parts # <<>> /\ Last(p.parts) # ".."

(* One more component. *)
Step(p, c) ==
  CASE c = "." -> {p}
    [] c = ".." /\ CanRise(p) -> {[p EXCEPT !.parts = Front(@)]}
    [] c = ".." /\ ~CanRise(p) /\ p.absolute -> {}
    [] OTHER -> {[p EXCEPT !.parts = Append(@, c)]}

Walk(absolute, parts) ==
  IF Len(parts) > MaxLocator THEN {}
  ELSE FoldLeft(LAMBDA ps, c : UNION {Step(p, c) : p \in ps}, {Path(absolute, <<>>)}, parts)

(* normalize_path. *)
Normal(l) == IF l = NoLocator THEN {} ELSE Walk(l.absolute, l.parts)

(* path_is_within: "." holds what does not begin with "..". *)
Within(p, root) ==
  /\ p.absolute = root.absolute
  /\ \/ p = root
     \/ IF ~root.absolute /\ root.parts = <<>> THEN p.parts[1] # ".."
        ELSE IsPrefix(root.parts, p.parts)

(* parent_path, n times. *)
Up(p, n) == [p EXCEPT !.parts = SubSeq(@, 1, Len(@) - n)]
Parent(p) == IF p.parts = <<>> THEN p ELSE Up(p, 1)

(* join_path: an absolute locator is not joined. *)
Join(base, l) ==
  UNION {Walk(base.absolute, base.parts \o p.parts) : p \in {q \in Normal(l) : ~q.absolute}}

(* normalized_node_scope: the root and the path of a node, if it lies within
   its root; node_shares_scope: only if that root is the given one. *)
Scope(node) ==
  {s \in [root : Normal(node.root), outer : Normal(node.outer)] : Within(s.outer, s.root)}
Places(node, root) == {s.outer : s \in {t \in Scope(node) : t.root = root}}

GuidMatches(external, node) == external.guid \in {"zero", node.guid}

----------------------------------------------------------------------------
(* Results. *)

Result(status, e) == [status |-> status, target |-> 0, external |-> e, object |-> 0]

OutOfScope(e) == Result("OUT_OF_SCOPE", e)

(* finish_target. *)
Finish(graph, target, e, pointer, class, success) ==
  LET objects == graph[target].objects
      found == pointer.path \in DOMAIN objects
      status == CASE ~found -> "TARGET_MISSING"
                  [] found /\ class \notin {AnyClass, objects[pointer.path]} ->
                       "TARGET_WRONG_CLASS"
                  [] OTHER -> success
  IN [Result(status, e) EXCEPT !.target = target,
                               !.object = IF found THEN pointer.path ELSE 0]

(* A single match is the target; several are not told apart. *)
Pick(graph, matches, e, pointer, class, success) ==
  CASE matches = {} -> OutOfScope(e)
    [] Cardinality(matches) > 1 -> Result("AMBIGUOUS", e)
    [] OTHER -> Finish(graph, CHOOSE i \in matches : TRUE, e, pointer, class, success)

----------------------------------------------------------------------------
(* References into the bundle a file is a member of. *)

Payload(l) == [l EXCEPT !.scheme = "none"]
IsArchive(l) == l.scheme = "archive"

(* archive_locator: two complete locators must agree. *)
ArchiveLocator(external) ==
  LET virtual == IF IsArchive(external.virtual) THEN Payload(external.virtual)
                 ELSE NoLocator
      path == Payload(external.path)
      joined == [virtual EXCEPT !.parts = @ \o path.parts]
  IN CASE virtual = NoLocator ->
            {path} \ {NoLocator}
       [] virtual # NoLocator /\ IsArchive(external.path) ->
            {[path EXCEPT !.parts = p.parts] : p \in Normal(virtual) \cap Normal(path)}
       [] OTHER -> IF Len(joined.parts) > MaxLocator THEN {} ELSE {joined}

(* resolve_archive. *)
ResolveArchive(graph, source, e, external, pointer, class) ==
  LET wanted == {p \in UNION {Normal(l) : l \in ArchiveLocator(external)} : ~p.absolute}
      Members(scope) ==
        {i \in DOMAIN graph :
           /\ graph[i].bundle /\ GuidMatches(external, graph[i])
           /\ scope.outer \in Places(graph[i], scope.root)
           /\ Normal(graph[i].member) = wanted}
  IN IF ~graph[source].bundle \/ wanted = {} \/ Scope(graph[source]) = {}
     THEN OutOfScope(e)
     ELSE Pick(graph, UNION {Members(scope) : scope \in Scope(graph[source])},
               e, pointer, class, "EXTERNAL_EXACT")

----------------------------------------------------------------------------
(* References to files beside it, or above it up to the root of its scope. *)

(* The loose files at the place that the locator leads to from base. *)
MatchesFrom(graph, root, base, locator, external, builtin) ==
  {i \in DOMAIN graph :
     /\ ~graph[i].bundle /\ (builtin \/ GuidMatches(external, graph[i]))
     /\ \E p \in Join(base, locator) : Within(p, root) /\ p \in Places(graph[i], root)}

(* How many directories up the search may go: it ends at the root, and where
   the locator leads nowhere. *)
Levels(directory, root, locator) ==
  {n \in 0..Len(directory.parts) :
     \A m \in 0..n :
       /\ Within(Up(directory, m), root)
       /\ Join(Up(directory, m), locator) # {}
       /\ m < n => Up(directory, m) # root}

(* Mutant of Nearest: the search begins at the root. *)
NearestToRoot(levels) == {n \in levels : \A m \in levels : m <= n}
Nearest(levels) == {n \in levels : \A m \in levels : n <= m}

(* resolve_loose. *)
ResolveLoose(graph, source, e, locator, builtin, pointer, class) ==
  LET external == graph[source].externals[e]
      At(scope, n) == MatchesFrom(graph, scope.root, Up(Parent(scope.outer), n), locator,
                                  external, builtin)
      Hits(scope) == {n \in Levels(Parent(scope.outer), scope.root, locator) :
                        At(scope, n) # {}}
      matches == UNION {UNION {At(scope, n) : n \in Nearest(Hits(scope))} :
                          scope \in Scope(graph[source])}
  IN IF {p \in Normal(locator) : ~p.absolute} = {} THEN OutOfScope(e)
     ELSE Pick(graph, matches, e, pointer, class,
               IF builtin THEN "EXTERNAL_BUILTIN_CONTRACT" ELSE "EXTERNAL_EXACT")

(* builtin_contract: the name alone is not enough. *)
BuiltinFor(external) ==
  CASE external.path = BuiltinExtra -> [guid |-> "extra", target |-> BuiltinExtra]
    [] external.path = DefaultResources -> [guid |-> "default", target |-> DefaultTarget]
IsBuiltin(external) == external.path \in {BuiltinExtra, DefaultResources}
BuiltinHolds(external) == external.type = 0 /\ external.guid = BuiltinFor(external).guid

ResolveExternal(graph, source, pointer, class) ==
  LET e == pointer.file
      external == graph[source].externals[e]
  IN CASE external.path = NoLocator -> OutOfScope(e)
       [] IsArchive(external.virtual) \/ IsArchive(external.path) ->
            ResolveArchive(graph, source, e, external, pointer, class)
       [] external.virtual # NoLocator -> OutOfScope(e)
       [] IsBuiltin(external) ->
            IF BuiltinHolds(external)
            THEN ResolveLoose(graph, source, e, BuiltinFor(external).target, TRUE,
                              pointer, class)
            ELSE OutOfScope(e)
       [] OTHER -> ResolveLoose(graph, source, e, external.path, FALSE, pointer, class)

(* unity_pptr_resolve. *)
Resolve(graph, source, pointer, class) ==
  CASE pointer.path = 0 -> Result("NULL", 0)
    [] pointer.path # 0 /\ pointer.file \notin 0..Len(graph[source].externals) ->
         Result("INVALID_FILE_ID", 0)
    [] pointer.path # 0 /\ pointer.file = 0 ->
         Finish(graph, source, 0, pointer, class, "LOCAL")
    [] OTHER -> ResolveExternal(graph, source, pointer, class)

----------------------------------------------------------------------------
ResolverInit == /\ asked = [graph |-> 0]
                /\ answer = Result("OUT_OF_SCOPE", 0)

Pointers(node) == [file : -1 .. Len(node.externals) + 1, path : 0..2]

(* A caller has found some files, and asks one question about them: the answer
   depends on nothing that was asked before. *)
Discover ==
  /\ asked.graph = 0
  /\ \E g \in DOMAIN Graphs : asked' = [graph |-> g]
  /\ UNCHANGED answer

Asked == "source" \in DOMAIN asked

Ask(source, pointer, class) ==
  /\ asked' = [graph |-> asked.graph, source |-> source, pointer |-> pointer, class |-> class]
  /\ answer' = Resolve(Graphs[asked.graph], source, pointer, class)

ResolverNext ==
  \/ Discover
  \/ /\ asked.graph # 0 /\ ~Asked
     /\ \E source \in DOMAIN Graphs[asked.graph] :
          \E pointer \in Pointers(Graphs[asked.graph][source]), class \in Classes \cup {AnyClass} :
            Ask(source, pointer, class)

ResolverSpec == ResolverInit /\ [][ResolverNext]_resolverVars

----------------------------------------------------------------------------
(* Properties.  They speak of places: a pathname leads to a place by walking
   from the root or from the current directory, which has as many directories
   above it as a pathname may climb. *)

Above == <<"above 3", "above 2", "above 1">>

WalkFrom(place, l) ==
  FoldLeft(LAMBDA ps, c :
             IF c = "." THEN ps
             ELSE IF c # ".." THEN {[p EXCEPT !.names = Append(@, c)] : p \in ps}
             ELSE {[p EXCEPT !.names = Front(@)] : p \in {q \in ps : q.names # <<>>}},
           IF Len(l.parts) > MaxLocator THEN {} ELSE {place}, l.parts)

PlaceOf(l) ==
  IF l = NoLocator THEN {}
  ELSE WalkFrom([absolute |-> l.absolute, names |-> IF l.absolute THEN <<>> ELSE Above], l)

Inside(place, root) == place.absolute = root.absolute /\ IsPrefix(root.names, place.names)

(* What an answer may rest on: the nodes that lie in the scope of the source,
   whose GUID is the serialized one. *)
Eligible(graph, source, external) ==
  {i \in DOMAIN graph :
     /\ PlaceOf(graph[i].root) = PlaceOf(graph[source].root)
     /\ \E p \in PlaceOf(graph[i].outer), r \in PlaceOf(graph[i].root) : Inside(p, r)
     /\ IF IsBuiltin(external) /\ external.virtual = NoLocator THEN BuiltinHolds(external)
        ELSE external.guid = "zero" \/ graph[i].guid = external.guid}

(* The members of the source's bundle that an archive locator names: by its
   path below its virtual path, or by both in full. *)
MembersNamed(graph, source, external) ==
  LET Wanted(i) ==
        LET member == PlaceOf(graph[i].member)
            virtual == Payload(external.virtual)
            path == Payload(external.path)
            below == [virtual EXCEPT !.parts = @ \o path.parts]
        IN CASE ~IsArchive(external.virtual) \/ virtual = NoLocator -> member = PlaceOf(path)
             [] IsArchive(external.path) -> member = PlaceOf(path) /\ member = PlaceOf(virtual)
             [] OTHER -> member = PlaceOf(below)
  IN {i \in DOMAIN graph :
        /\ graph[i].bundle /\ graph[source].bundle
        /\ PlaceOf(graph[i].outer) = PlaceOf(graph[source].outer)
        /\ \E place \in PlaceOf(graph[i].member) : ~place.absolute
        /\ Wanted(i)}

(* The loose files the locator leads to from the n-th directory of the
   source's place. *)
LooseNamed(graph, source, locator, n) ==
  {i \in DOMAIN graph :
     /\ ~graph[i].bundle /\ ~locator.absolute
     /\ \E p \in PlaceOf(graph[source].outer) :
          PlaceOf(graph[i].outer) = WalkFrom([p EXCEPT !.names = SubSeq(@, 1, n)], locator)
     /\ PlaceOf(graph[i].outer) # {}}

(* Every file that is eligible and named from the same directory, the nearest
   one from which any is, archives and loose files never mixed. *)
Targets(graph, source, external) ==
  LET locator == IF external.path = DefaultResources THEN DefaultTarget ELSE external.path
      eligible == Eligible(graph, source, external)
      From(n) == eligible \cap LooseNamed(graph, source, locator, n)
      depths == UNION {Len(r.names) .. Len(p.names) - 1 :
                         r \in PlaceOf(graph[source].root), p \in PlaceOf(graph[source].outer)}
  IN CASE source \notin {i \in DOMAIN graph : \E p \in PlaceOf(graph[i].outer),
                                   r \in PlaceOf(graph[i].root) : Inside(p, r)}
            \/ external.path = NoLocator -> {}
       [] IsArchive(external.virtual) \/ IsArchive(external.path) ->
            eligible \cap MembersNamed(graph, source, external)
       [] external.virtual # NoLocator -> {}
       [] OTHER -> UNION {From(n) : n \in {d \in depths :
                     \A o \in depths : From(o) # {} => o <= d}}

External == asked.pointer.path # 0 /\
            asked.pointer.file \in 1..Len(Graphs[asked.graph][asked.source].externals)

(* "nearest-ancestor resolution keeps sibling player Data directories separate,
   and an equal-depth duplicate is AMBIGUOUS rather than selected by basename":
   a reference is resolved exactly when the serialized evidence singles out one
   file of the scope, and then to the object in that file. *)
ResolvesExactly ==
  Asked /\ External =>
    LET graph == Graphs[asked.graph]
        external == graph[asked.source].externals[asked.pointer.file]
        targets == Targets(graph, asked.source, external)
        objects == graph[answer.target].objects
        success == IF IsBuiltin(external) /\ external.virtual = NoLocator
                   THEN "EXTERNAL_BUILTIN_CONTRACT" ELSE "EXTERNAL_EXACT"
    IN CASE targets = {} -> answer.status = "OUT_OF_SCOPE"
         [] Cardinality(targets) > 1 -> answer.status = "AMBIGUOUS"
         [] OTHER ->
              /\ targets = {answer.target}
              /\ answer.status = success <=>
                   /\ asked.pointer.path \in DOMAIN objects
                   /\ asked.class \in {AnyClass, objects[asked.pointer.path]}
              /\ answer.status \in {success, "TARGET_MISSING", "TARGET_WRONG_CLASS"}
=============================================================================

-------------------------- MODULE MCCommonHelpers ---------------------------
(* Small instances of the helpers of src/src/common, one of which a run asks
   about: discoveries, texts, a builder in an address space of 32 bytes, and a
   digest with blocks of 5. *)
EXTENDS PathDiscovery, TextHelpers, StringBuilder, Sha256, TLC

----------------------------------------------------------------------------
(* Discoveries: two names, three levels; a directory that a link leads to and
   one not made yet. *)

Holding(entries) ==
  [d \in Directories |-> [n \in Names |->
     IF <<d, n>> \in DOMAIN entries THEN entries[<<d, n>>] ELSE "none"]]

MCLeads == [l \in Links |-> IF l = "link" THEN "away" ELSE "none"]

MCTrees ==
  {Holding(<<"top", 1>> :> "a" @@ <<"top", 2>> :> "regular"
           @@ <<"a", 1>> :> "regular" @@ <<"a", 2>> :> "b"
           @@ <<"b", 2>> :> "regular" @@ <<"away", 1>> :> "regular"),
   Holding(<<"top", 1>> :> "a" @@ <<"a", 1>> :> "link" @@ <<"a", 2>> :> "other"
           @@ <<"top", 2>> :> "link" @@ <<"away", 1>> :> "b" @@ <<"away", 2>> :> "regular"
           @@ <<"b", 1>> :> "regular")}

MCInputs == {<<<<1>>>>, <<<<1>>, <<1, 2>>>>, <<<<1, 1>>, <<1>>>>,
             <<<<1>>, <<2, 1>>>>, <<<<1, 2, 2>>, <<1, 2>>, <<2>>>>}

NoLimits == [recursive |-> TRUE, links |-> FALSE, nodes |-> FALSE,
             files |-> 0, directories |-> 0, depth |-> 0, bytes |-> 0]
MCOptions ==
  {NoLimits, [NoLimits EXCEPT !.recursive = FALSE]}
  \cup {[NoLimits EXCEPT !.links = TRUE], [NoLimits EXCEPT !.nodes = TRUE]}
  \cup {[NoLimits EXCEPT !.files = n] : n \in {1, 3}}
  \cup {[NoLimits EXCEPT !.directories = n] : n \in 1..2}
  \cup {[NoLimits EXCEPT !.depth = n] : n \in 1..2}
  \cup {[NoLimits EXCEPT !.bytes = n] : n \in {1, 3}}

MCCollections ==
  {<<>>, <<[path |-> <<1, 1>>, explicit |-> TRUE],
           [path |-> <<2>>, explicit |-> FALSE]>>}

----------------------------------------------------------------------------
(* Texts. *)
UpTo(n, bytes) == UNION {[1..k -> bytes] : k \in 0..n}

\* Classes of up to four bytes, with what may follow, and patterns without one.
InClass == {Bang, Dash, Escape, Closing, 97, 98}
MCPatterns ==
  UpTo(4, {97, 98, Star, Query, Escape, Opening})
  \cup {<<Opening>> \o body \o <<Closing>> \o more : body \in UpTo(4, InClass), more \in {<<>>, <<Star>>}}
  \cup {<<97, Star, Opening, 97, Dash, 98, Closing>>, <<Opening, Caret, 97, Dash, 98, Closing, Star>>,
        <<Star, 97, Star, 98, Star>>, <<Star, Star, 97, Query, Star, 97>>}
MCSubjects == UpTo(3, {97, 98}) \cup UpTo(1, InClass \cup {Opening, 99}) \cup {<<97, 99>>, <<97, 97, 98, 97>>}

\* The bytes at the ends of each range of UTF-8, and the next ones outside.
LeadBytes == {0, 127, 128, 191, 192, 193, 194, 223, 224, 225, 236, 237, 238, 239, 240, 241, 243, 244, 245, 255}
Others == {97, 127, 128, 143, 144, 159, 160, 191, 192}
MCEncodings ==
  {<<>>} \cup {<<first>> \o more : first \in LeadBytes, more \in UpTo(2, Others)}
  \cup {<<first>> \o more : first \in {k \in LeadBytes : k >= 237}, more \in [1..3 -> Others]}
  \cup {x \o y : x \in {<<97>>, <<195, 169>>, <<237, 159, 191>>, <<97, 195, 169>>},
                 y \in {<<97>>, <<195>>, <<195, 169>>, <<237, 160, 128>>, <<240, 144, 128>>}}

InPath == {31, Dot, Slash, Escape, 97, 195, 169}
MCPathTexts == UpTo(4, InPath) \cup UpTo(6, {Slash, Dot, 97})
SomePaths == {p \in UpTo(4, {Dash, Dot, Slash, 97}) : Len(p) < 4 \/ Slash \in {p[2], p[3]}}
ValidPaths == {p \in SomePaths : IsRelativePath(p)}
MCPathPairs == ValidPaths \X ValidPaths

----------------------------------------------------------------------------
(* A discovery, calls on text, a builder or a digest. *)

HelpersInit == TextInit /\ BuilderInit /\ ShaInit
AnyDiscovery ==
  /\ content = CHOOSE c \in Trees : TRUE
  /\ inputs = CHOOSE i \in InputLists : TRUE
  /\ options = NoLimits /\ collection = <<>>
  /\ Init

CONSTANT Subject    \* what a behaviour is about
VARIABLE subject

CommonInit ==
  /\ subject \in Subject
  /\ HelpersInit
  /\ IF subject = "discovery" THEN Init ELSE AnyDiscovery

CommonNext ==
  /\ UNCHANGED subject
  /\ \/ subject = "discovery" /\ Next /\ UNCHANGED <<textCall, builderVars, digest>>
     \/ subject = "text" /\ TextNext /\ UNCHANGED <<vars, builderVars, digest>>
     \/ subject = "builder" /\ BuilderNext /\ UNCHANGED <<vars, textCall, digest>>
     \/ subject = "digest" /\ ShaNext /\ UNCHANGED <<vars, textCall, builderVars>>

CommonSpec == CommonInit /\ [][CommonNext]_<<subject, vars, textCall, builderVars, digest>>
=============================================================================

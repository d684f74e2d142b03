--------------------------- MODULE PathDiscovery ---------------------------
(***************************************************************************)
(* src/src/common/path_discovery.c on POSIX: one common_path_discover over *)
(* directories that other programs change meanwhile, and the merge of its  *)
(* result into an earlier one.  Each lstat, open, readdir with its         *)
(* fstatat, and closedir is a step.                                        *)
(*                                                                         *)
(* Directories have an identity, which a descriptor keeps and a path does  *)
(* not: lstat and open resolve a whole path anew, through the links above  *)
(* its last name, while fstatat looks a name up in the directory that was  *)
(* opened, wherever it has been moved since.                               *)
(*                                                                         *)
(* A path is the sequence of its names, each one byte long and above '/',  *)
(* so that strcmp orders paths as sequences.  Links lead to directories    *)
(* outside the tree, or nowhere.                                           *)
(***************************************************************************)
EXTENDS Integers, SequencesExt

CONSTANTS
  Names,        \* numbers, ordered as the bytes they stand for
  MaxLength,    \* bound on the names in a path; no longer one is listed
  Directories,  \* the directories there are or may be
  Root,         \* the one that every path begins in
  Links,        \* symbolic links, told apart by where they lead
  Leads,        \* the directory that each link leads to, or "none"
  Trees,        \* the contents of the directories a call may begin with
  InputLists,   \* the input arrays
  Options,      \* the options; a limit of 0 is none
  Collections,  \* earlier results the new one is merged into
  MaxChanges    \* bound on the changes of other programs during the call

Paths == UNION {[1..n -> Names] : n \in 1..MaxLength}
Kinds == {"none", "regular", "directory", "link", "other"}

(* What an entry may be, and the kind that lstat gives it. *)
Nodes == {"none", "regular", "other"} \cup Directories \cup Links
KindOf(node) ==
  IF node \in Directories THEN "directory" ELSE IF node \in Links THEN "link" ELSE node

(* What a path leads to when directories have contents c: its names one after
   another, links followed except at the end. *)
Follow(node) == IF node \in Links THEN Leads[node] ELSE node
Lookup(c, node, name) ==
  IF Follow(node) \in Directories THEN c[Follow(node)][name] ELSE "none"
Walked(c, p) ==
  LET Place[n \in 0..Len(p)] == IF n = 0 THEN Root ELSE Lookup(c, Place[n-1], p[n])
  IN Place
NodeIn(c, p) == Walked(c, p)[Len(p)]

(* Directories that exist: the root, those that links lead to, and what lies
   in existing ones. *)
Roots == {Root} \cup ({Leads[l] : l \in Links} \ {"none"})
Existing(c) ==
  LET Down[n \in 0..Cardinality(Directories)] ==
        IF n = 0 THEN Roots
        ELSE Down[n-1] \cup ({c[d][m] : d \in Down[n-1], m \in Names} \cap Directories)
  IN Down[Cardinality(Directories)]
Empty(c, d) == \A n \in Names : c[d][n] = "none"

(* A directory lies in one place at most, and what does not exist is empty. *)
Contents == [Directories -> [Names -> Nodes]]
IsTree(c) ==
  /\ c \in Contents
  /\ IsFiniteSet({p \in Paths : NodeIn(c, p) # "none"})
  /\ \A d, e \in Directories, n, m \in Names :
       c[d][n] = c[e][m] /\ c[d][n] \in Directories => <<d, n>> = <<e, m>> /\ c[d][n] \notin Roots
  /\ \A d \in Directories \ Existing(c) : Empty(c, d)

(* strcmp's order, a path's bytes being followed by a zero. *)
Byte(p, i) == IF i <= Len(p) THEN p[i] ELSE 0
Less(p, q) ==
  \E i \in 1..MaxLength : /\ Byte(p, i) < Byte(q, i)
                          /\ \A j \in 1..(i - 1) : Byte(p, j) = Byte(q, j)

(* discovery_result_is_sorted_unique. *)
Ascends(list) == \A i, j \in DOMAIN list : i < j => Less(list[i].path, list[j].path)

ASSUME DiscoveryAssumption ==
  /\ Names \subseteq Nat \ {0} /\ MaxLength \in Nat /\ MaxChanges \in Nat
  /\ IsFiniteSet(Directories) /\ Root \in Directories /\ Leads \in [Links -> Directories \cup {"none"}]
  /\ Directories \cap Links = {} /\ {"none", "regular", "other"} \cap (Directories \cup Links) = {}
  /\ \A c \in Trees : IsTree(c)
  /\ InputLists \subseteq Seq(Paths)
  /\ Options \subseteq [recursive : BOOLEAN, links : BOOLEAN, nodes : BOOLEAN,
                        files : Nat, directories : Nat, depth : Nat, bytes : Nat]
  /\ \A c \in Collections : c \in Seq([path : Paths, explicit : BOOLEAN]) /\ Ascends(c)

VARIABLES
  content,     \* what each name leads to in each directory now
  changes,     \* changes of other programs so far
  ever, had,   \* history: what each path has led to since the call began,
               \* and each name in each directory
  options, inputs,  \* the call's arguments
  walk,        \* the call's local variables
  collection   \* an earlier result

disk == <<content, changes, ever, had>>
vars == <<disk, options, inputs, walk, collection>>

Labels == {"inputs", "next", "scan", "merge", "done"}

(* System calls and allocations may always fail of their own. *)
Faults == {"IO_ERROR", "ALLOCATION_FAILED"}
Failures == Faults \cup
  {"NOT_FOUND", "LINK_REJECTED", "UNSUPPORTED_NODE", "FILE_LIMIT_EXCEEDED",
   "DIRECTORY_LIMIT_EXCEEDED", "DEPTH_LIMIT_EXCEEDED", "PATH_LIMIT_EXCEEDED"}

(* queue and next are DirectoryQueue, files PathBuilder: what was found, and
   whether it was given explicitly.  held is the open directory; pending names
   are in it and readdir will return them, it may return optional ones. *)
Start == [pc |-> "inputs", i |-> 1, queue |-> <<>>, next |-> 1,
          files |-> <<>>, held |-> Root, pending |-> {}, optional |-> {},
          status |-> "OK", result |-> <<>>, given |-> <<>>]

Node(p) == NodeIn(content, p)
tree == [p \in Paths |-> KindOf(Node(p))]

Init ==
  /\ content \in Trees
  /\ changes = 0
  /\ ever = [p \in Paths |-> {Node(p)}]
  /\ had = [d \in Directories |-> [n \in Names |-> {content[d][n]}]]
  /\ options \in Options
  /\ inputs \in InputLists
  /\ collection \in Collections
  /\ walk = [Start EXCEPT !.given = collection]

At(label) == walk.pc = label
Bytes(p) == 2 * Len(p) - 1
Over(limit, n) == limit # 0 /\ n > limit
Fail(w, status) == [w EXCEPT !.pc = "done", !.status = status]

----------------------------------------------------------------------------
(* Finding things. *)

(* add_file: a path found again keeps its flag, or gains it. *)
AddFile(w, p, explicit) ==
  IF p \in DOMAIN w.files
  THEN [w EXCEPT !.files[p] = @ \/ explicit]
  ELSE IF Over(options.files, Cardinality(DOMAIN w.files) + 1)
  THEN Fail(w, "FILE_LIMIT_EXCEEDED")
  ELSE [w EXCEPT !.files = [q \in DOMAIN @ \cup {p} |->
                              IF q = p THEN explicit ELSE @[q]]]

(* Mutant of Queue: a directory that is there already is queued again. *)
QueueAgain(w, p, depth) ==
  IF Over(options.depth, depth) THEN Fail(w, "DEPTH_LIMIT_EXCEEDED")
  ELSE IF Over(options.directories, Len(w.queue) + 1)
  THEN Fail(w, "DIRECTORY_LIMIT_EXCEEDED")
  ELSE [w EXCEPT !.queue = Append(@, [path |-> p, depth |-> depth])]

(* queue_directory. *)
Queue(w, p, depth) ==
  LET known == {k \in DOMAIN w.queue : w.queue[k].path = p}
  IN IF known # {}
     THEN [w EXCEPT !.queue = [k \in DOMAIN @ |->
             IF k \in known /\ depth < @[k].depth
             THEN [@[k] EXCEPT !.depth = depth] ELSE @[k]]]
     ELSE IF Over(options.depth, depth) THEN Fail(w, "DEPTH_LIMIT_EXCEEDED")
     ELSE IF Over(options.directories, Len(w.queue) + 1)
     THEN Fail(w, "DIRECTORY_LIMIT_EXCEEDED")
     ELSE [w EXCEPT !.queue = Append(@, [path |-> p, depth |-> depth])]

(* An explicit input of some kind. *)
Given(w, p, kind) ==
  CASE kind = "none" -> Fail(w, "NOT_FOUND")
    [] kind = "link" -> Fail(w, "LINK_REJECTED")
    [] kind = "other" -> Fail(w, "UNSUPPORTED_NODE")
    [] kind = "regular" -> AddFile(w, p, TRUE)
    [] kind = "directory" -> Queue(w, p, 0)

(* A descendant of some kind. *)
Found(w, p, kind, depth) ==
  CASE kind = "none" -> Fail(w, "NOT_FOUND")
    [] kind = "regular" -> AddFile(w, p, FALSE)
    [] kind = "directory" -> IF options.recursive THEN Queue(w, p, depth) ELSE w
    [] kind = "link" -> IF options.links THEN Fail(w, "LINK_REJECTED") ELSE w
    [] kind = "other" -> IF options.nodes THEN Fail(w, "UNSUPPORTED_NODE") ELSE w

----------------------------------------------------------------------------
(* common_path_discover. *)

(* One explicit input: its length, its lstat, and what follows from it. *)
Input ==
  /\ At("inputs")
  /\ walk.i <= Len(inputs)
  /\ LET p == inputs[walk.i] IN
       \/ walk' = IF Over(options.bytes, Bytes(p))
                  THEN Fail(walk, "PATH_LIMIT_EXCEEDED")
                  ELSE Given([walk EXCEPT !.i = @ + 1], p, tree[p])
       \/ \E s \in Faults : walk' = Fail(walk, s)
  /\ UNCHANGED <<disk, options, inputs, collection>>

InputsDone ==
  /\ At("inputs")
  /\ walk.i > Len(inputs)
  /\ walk' = [walk EXCEPT !.pc = "next"]
  /\ UNCHANGED <<disk, options, inputs, collection>>

Held == walk.queue[walk.next - 1]
Listable(p, d) == {n \in Names : Append(p, n) \in Paths /\ content[d][n] # "none"}
Opened(p, d) == [walk EXCEPT !.pc = "scan", !.next = @ + 1, !.held = d,
                             !.pending = Listable(p, d), !.optional = {}]

(* Mutant of OpenDirectory: without O_NOFOLLOW a link in its place is followed. *)
OpenDirectoryFollowing ==
  /\ At("next")
  /\ walk.next <= Len(walk.queue)
  /\ LET p == walk.queue[walk.next].path IN
       \/ /\ Follow(Node(p)) \in Directories
          /\ walk' = Opened(p, Follow(Node(p)))
       \/ /\ Follow(Node(p)) \notin Directories
          /\ walk' = Fail(walk, "NOT_FOUND")
       \/ walk' = Fail(walk, "IO_ERROR")
  /\ UNCHANGED <<disk, options, inputs, collection>>

(* scan_directory begins: the next queued directory is opened by its path,
   whose last name must be a directory and no link. *)
OpenDirectory ==
  /\ At("next")
  /\ walk.next <= Len(walk.queue)
  /\ LET p == walk.queue[walk.next].path IN
       \/ /\ tree[p] = "directory"
          /\ walk' = Opened(p, Node(p))
       \/ /\ tree[p] # "directory"
          /\ walk' = Fail(walk, "NOT_FOUND")
       \/ /\ tree[p] = "link"
          /\ walk' = Fail(walk, "LINK_REJECTED")
       \/ walk' = Fail(walk, "IO_ERROR")
  /\ UNCHANGED <<disk, options, inputs, collection>>

(* readdir returns a name, which is joined to the directory's path and looked
   up in the held directory. *)
Entry ==
  /\ At("scan")
  /\ \E n \in walk.pending \cup walk.optional :
       LET p == Append(Held.path, n)
           w == [walk EXCEPT !.pending = @ \ {n}, !.optional = @ \ {n}]
       IN \/ walk' = IF Over(options.bytes, Bytes(p))
                     THEN Fail(w, "PATH_LIMIT_EXCEEDED")
                     ELSE Found(w, p, KindOf(content[walk.held][n]), Held.depth + 1)
          \/ \E s \in Faults : walk' = Fail(w, s)
  /\ UNCHANGED <<disk, options, inputs, collection>>

(* Mutant of EndScan: the first nameless answer of readdir ends the scan. *)
EndScanEarly ==
  /\ At("scan")
  /\ walk' = [walk EXCEPT !.pc = "next", !.pending = {}, !.optional = {}]
  /\ UNCHANGED <<disk, options, inputs, collection>>

(* readdir has no more names; closedir. *)
EndScan ==
  /\ At("scan")
  /\ \/ /\ walk.pending = {}
        /\ walk' = [walk EXCEPT !.pc = "next", !.optional = {}]
     \/ walk' = Fail(walk, "IO_ERROR")
  /\ UNCHANGED <<disk, options, inputs, collection>>

(* sort_and_deduplicate: the found files, sorted; none occurs twice. *)
Least(paths) == CHOOSE p \in paths : \A q \in paths \ {p} : Less(p, q)
Remaining(paths) ==
  LET Left[n \in 0..Cardinality(paths)] ==
        IF n = 0 THEN paths ELSE Left[n-1] \ {Least(Left[n-1])}
  IN Left
Sorted(files) ==
  [k \in 1..Cardinality(DOMAIN files) |->
     LET p == Least(Remaining(DOMAIN files)[k-1]) IN [path |-> p, explicit |-> files[p]]]

Finish ==
  /\ At("next")
  /\ walk.next > Len(walk.queue)
  /\ walk' = [walk EXCEPT !.pc = "merge", !.result = Sorted(walk.files)]
  /\ UNCHANGED <<disk, options, inputs, collection>>

----------------------------------------------------------------------------
(* common_path_discovery_result_merge. *)

(* Mutant of MergeStep: equal paths are both taken. *)
MergeStepTwice(s, d, a) ==
  LET first == s.i <= Len(d) /\ (s.j > Len(a) \/ ~Less(a[s.j].path, d[s.i].path))
  IN IF first THEN [s EXCEPT !.i = @ + 1, !.out = Append(@, d[s.i])]
     ELSE IF s.j <= Len(a) THEN [s EXCEPT !.j = @ + 1, !.out = Append(@, a[s.j])]
     ELSE s

(* The loop, for the rest of the destination from i and of the addition from j;
   equal paths are taken together. *)
FromFirst(s, d, a) == s.i <= Len(d) /\ (s.j > Len(a) \/ ~Less(a[s.j].path, d[s.i].path))
FromSecond(s, d, a) == s.j <= Len(a) /\ (s.i > Len(d) \/ ~Less(d[s.i].path, a[s.j].path))
MergeStep(s, d, a) ==
  LET first == FromFirst(s, d, a)
      second == FromSecond(s, d, a)
  IN [i |-> IF first THEN s.i + 1 ELSE s.i,
      j |-> IF second THEN s.j + 1 ELSE s.j,
      out |-> IF first THEN Append(s.out, [d[s.i] EXCEPT !.explicit = @ \/ (second /\ a[s.j].explicit)])
              ELSE IF second THEN Append(s.out, a[s.j])
              ELSE s.out]
Merging(d, a) ==
  LET Loop[n \in 0..Len(d) + Len(a)] ==
        IF n = 0 THEN [i |-> 1, j |-> 1, out |-> <<>>] ELSE MergeStep(Loop[n-1], d, a)
  IN Loop
Merged(d, a) == Merging(d, a)[Len(d) + Len(a)].out

Merge ==
  /\ At("merge")
  /\ \/ /\ walk' = [walk EXCEPT !.pc = "done"]
        /\ collection' = Merged(collection, walk.result)
     \/ /\ walk.result # <<>>
        /\ walk' = Fail(walk, "ALLOCATION_FAILED")
        /\ UNCHANGED collection
  /\ UNCHANGED <<disk, options, inputs>>

----------------------------------------------------------------------------
(* Other programs change directories, one system call at a time.  A directory
   being scanned may or may not show a name that changed since it was opened;
   a name that leads to a regular file all along is shown, also when rename
   puts another file in its place, which it does in one step. *)

Meanwhile == ~At("merge") /\ ~At("done") /\ changes < MaxChanges

(* The contents become c. *)
Becomes(c) ==
  /\ changes' = changes + 1
  /\ content' = c
  /\ ever' = [p \in Paths |-> ever[p] \cup {NodeIn(c, p)}]
  /\ had' = [d \in Directories |-> [n \in Names |-> had[d][n] \cup {c[d][n]}]]
  /\ walk' = IF ~At("scan") THEN walk
             ELSE LET touched == {n \in Names : /\ c[walk.held][n] # content[walk.held][n]
                                                /\ Append(Held.path, n) \in Paths}
                  IN [walk EXCEPT !.pending = @ \ touched, !.optional = @ \cup touched]
  /\ UNCHANGED <<options, inputs, collection>>

(* rename(2) puts files in place of files, directories of empty ones. *)
MayReplace(old, new) ==
  IF old \in Directories THEN Empty(content, old) /\ new \in Directories \cup {"none"}
  ELSE new \in Directories => old = "none"

(* An entry is created, removed, or replaced by something new. *)
ChangeEntry ==
  /\ Meanwhile
  /\ \E d \in Existing(content), n \in Names, node \in Nodes :
       /\ content[d][n] # node
       /\ MayReplace(content[d][n], node)
       /\ node \in Directories =>
            node \notin Roots /\ \A e \in Directories, m \in Names : node \notin had[e][m]
       /\ Becomes([content EXCEPT ![d][n] = node])

(* An entry is renamed, a directory with all that lies in it, but not into
   itself. *)
MoveEntry ==
  /\ Meanwhile
  /\ \E d, e \in Existing(content), n, m \in Names :
       LET without == [content EXCEPT ![d][n] = "none"]
       IN /\ content[d][n] # "none"
          /\ <<d, n>> # <<e, m>>
          /\ MayReplace(content[e][m], content[d][n])
          /\ e \in Existing(without)
          /\ Becomes([without EXCEPT ![e][m] = content[d][n]])

Discover == \/ Input \/ InputsDone \/ OpenDirectory \/ Entry \/ EndScan
            \/ Finish \/ Merge

Next == Discover \/ ChangeEntry \/ MoveEntry

Spec == Init /\ [][Next]_vars

----------------------------------------------------------------------------
(* Properties. *)

GivenPaths == {inputs[i] : i \in DOMAIN inputs}
Ancestors(p) == {SubSeq(p, 1, n) : n \in 1..(Len(p) - 1)}

(* The directories a path lies in, and those of them from an input down. *)
Through(p, from) == {q \in Ancestors(p) : Len(q) >= Len(from)}
Below(p, from) == from \in Ancestors(p) /\ (options.recursive \/ from = Front(p))

(* Paths that led to a regular file all the time, through the same directories
   all the time. *)
Throughout(p, kind) == \E node \in ever[p] : ever[p] = {node} /\ KindOf(node) = kind
Certain ==
  {p \in Paths :
     /\ Throughout(p, "regular")
     /\ \/ p \in GivenPaths
        \/ \E from \in GivenPaths :
             /\ Below(p, from)
             /\ \A q \in Through(p, from) : Throughout(q, "directory")}

(* The directories a path led to at some time, and what the last name of a path
   was at some time in those that the path above it led to. *)
LedTo(p) == ever[p] \cap Directories
Had(p) == UNION {had[d][Last(p)] : d \in LedTo(Front(p))}

(* Inputs that were regular files at some time, and paths below an input all of
   whose directories led to one at some time, the last to one that had such a
   regular file. *)
Possible ==
  {p \in Paths :
     \/ p \in GivenPaths /\ "regular" \in ever[p]
     \/ /\ \E from \in GivenPaths :
             /\ Below(p, from)
             /\ \A q \in Through(p, from) : LedTo(q) # {}
        /\ "regular" \in Had(p)}

Listed == {walk.result[k].path : k \in DOMAIN walk.result}
Succeeded == (At("done") \/ At("merge")) /\ walk.status = "OK"

(* The merge has every path of both results once, in order, marked if either
   marks it; a call that fails leaves the earlier result alone. *)
Marks(s) == {<<s[k].path, s[k].explicit>> : k \in DOMAIN s}
ExactMerge(c, d, a) ==
  LET both == Marks(d) \cup Marks(a)
  IN Ascends(c) /\ Marks(c) = {<<m[1], <<m[1], TRUE>> \in both>> : m \in both}
MergeExact ==
  At("done") => IF walk.status # "OK" THEN collection = walk.given
                ELSE ExactMerge(collection, walk.given, walk.result)

(* "Discovers regular files": a successful call lists every file that was
   there and reachable all along, in order and once.  It lists a path below an
   input only if its last name was a regular file in a directory which the path
   above led to, and one that did not do so under its own path only if that
   directory was moved or replaced meanwhile.  Exactly the files that were given
   are marked so, also when their directory was given too. *)
ListedRightly ==
  Succeeded =>
    /\ Ascends(walk.result)
    /\ Certain \subseteq Listed /\ Listed \subseteq Possible
    /\ \A p \in Listed \ GivenPaths :
         (\E d \in Directories : ever[Front(p)] = {d}) => "regular" \in ever[p]
    /\ \A k \in DOMAIN walk.result :
         LET p == walk.result[k].path
         IN /\ walk.result[k].explicit => p \in GivenPaths
            /\ p \in GivenPaths /\ Throughout(p, "regular") => walk.result[k].explicit

(* Directories to scan when nothing changes, and their depth below the nearest
   input. *)
Reached ==
  {p \in Paths :
     /\ tree[p] = "directory"
     /\ \/ p \in GivenPaths
        \/ /\ options.recursive
           /\ \E from \in GivenPaths : /\ from \in Ancestors(p)
                                       /\ \A q \in Through(p, from) : tree[q] = "directory"}
Depth(p) == CHOOSE n \in 0..MaxLength :
  /\ SubSeq(p, 1, Len(p) - n) \in GivenPaths
  /\ \A m \in 0..(n - 1) : SubSeq(p, 1, Len(p) - m) \notin GivenPaths
Shown == GivenPaths \cup {p \in Paths : tree[p] # "none" /\ Front(p) \in Reached}
Kind(kind, where) == \E p \in where : tree[p] = kind

(* On a quiet tree a call reports only a reason that is really there, each
   limit counting what its comment says, and succeeds only if there is none:
   "limits count unique exact path spellings".  Also on a tree that changes
   no more is ever found or queued than the limits allow. *)
Reasons ==
  [NOT_FOUND |-> Kind("none", GivenPaths),
   LINK_REJECTED |-> Kind("link", IF options.links THEN Shown ELSE GivenPaths),
   UNSUPPORTED_NODE |-> Kind("other", IF options.nodes THEN Shown ELSE GivenPaths),
   FILE_LIMIT_EXCEEDED |-> Over(options.files, Cardinality(Certain)),
   DIRECTORY_LIMIT_EXCEEDED |-> Over(options.directories, Cardinality(Reached)),
   DEPTH_LIMIT_EXCEEDED |-> \E p \in Reached : Over(options.depth, Depth(p)),
   PATH_LIMIT_EXCEEDED |-> \E p \in Shown : Over(options.bytes, Bytes(p))]

FailsForAReason ==
  /\ ~Over(options.files, Cardinality(DOMAIN walk.files))
  /\ ~Over(options.directories, Len(walk.queue))
  /\ (At("done") \/ At("merge")) /\ changes = 0 =>
       \A s \in DOMAIN Reasons :
         IF walk.status = "OK" THEN ~Reasons[s]
         ELSE walk.status = s => Reasons[s]

(* Whatever other programs do to the directories meanwhile, moving them included,
   a call lists every file that stayed and only what it may, or fails for a
   reason that was there; and a merge of two lists has each file of both once,
   marked if either had it marked.  This is less than "traversal never follows
   symbolic links" (path_discovery.h:10-11): when another program puts a link in
   place of a directory above a queued one, the path leads through the link, and
   O_NOFOLLOW guards its last name only. *)
ListsWhatWasThere == ListedRightly /\ FailsForAReason /\ MergeExact
=============================================================================

# UnityCommon in TLA+

UnityCommon is a C11 library for tools that read Unity player files and publish
what they extract. This directory keeps TLA+ models of its core: the parts
where processes, files, crashes and retries meet, and the readers and decoders
that must accept exactly what was written; the TLC configurations that check
them, and theorems checked by TLAPS. Line numbers are those of `src/` in the
repository; `PROJECT.json` maps every definition to the lines it stands for.

    tlc -workers 2 -config MCPublish.cfg MCAtomicPublish.tla
    tlapm OutputPublishProofs.tla

## The system

| Component | State it keeps | Operations | Hard about it |
|---|---|---|---|
| atomic publication (`common/file_io.c`) | descriptors of one call; names in a directory | `common_file_write_new_atomic` | racing publishers, moved directories, power loss, half-done failures |
| file views and readers (`common/file_io.c`) | a held file, its two stat samples, its digest | `common_file_view_open_regular` / `_close`, `common_file_read_regular`, `_read_prefix_regular` | files that change under the reader, timestamps that do not tell |
| output publication (`common/output_publish.c`) | none of its own | preflight, publish, residue question; directory trees | sets of artifacts, two tools at once, retries |
| process execution (`common/process.c`) | one child and its group | `common_process_run` | timeout against exit, process ids that are reused, descendants |
| schema registry (`io/typetree_schema_registry.c`) | sorted array of keyed schemas | learn, bind, lookup, export, import, dispose | order of learning, full tables, rejected images |
| registry file (same file) | one file on disk | `_export_file`, `_import_file_replace` | replace by rename, crash, concurrent readers and writers |
| path discovery (`common/path_discovery.c`) | queue of directories, set of files | `common_path_discover`, merge | directories that change and move during the walk, limits |
| unity input (`io/unity_input.c`) | snapshot: identity anchor, view, archive | open, visit, suspend, remap, digest, close | unmapped and mapped again later |
| serialized file (`io/serialized_file.c`) | types, objects, externals of a file | open, open_metadata, resolve_class_schema | transactional learning and resolution |
| serialized file directory, prefix, metadata tail, reference index (`io/serialized_file_directory.c`, `_prefix.c`, `_metadata_tail.c`, `_reference_index.c`, `serialized_metadata_reader_internal.c`) | one allocation each, a work meter | create, view, query, dispose | two passes that must agree, exact budgets, partly mapped files |
| serialized file schema, schema context (`io/serialized_file_schema*.c`) | one allocation, a work meter | create, query, dispose | hierarchy by levels alone, names over two string tables, exact budgets |
| values and managed values (`io/serialized_file_values.c`, `_managed_*.c`) | the same, with nested owners | create, dispose | two passes, prerequisites to give back, references by id |
| type trees (`io/typetree*.c`) | node arrays, trees of values | read or materialize a type, parse, ask, digest, free | sizes from the file, three ways to keep bytes, cleanup half way |
| bundle archive, LZ4 (`io/bundle_archive.c`, `io/lz4_decompress.c`) | block and directory tables, decompressed data | open, member views, close | overlapping ranges and copies |
| PPtr resolver (`io/unity_pptr_resolver.c`) | none; a graph of sources | resolve | nearest ancestor, ambiguity |
| player build settings (`io/unity_player_build_settings.c`) | the caller's settings | decode, dispose | all or nothing over earlier settings |
| string builder, memory counters (`common/string_builder.c`, `common.h`) | buffer, failure latch, two counters | append, clear, detach, free | growth, texts that change length, ownership of what is counted |
| byte stream (`common/stream.c`) | a cursor | reads, alignment | bounds |
| text helpers (`ascii_glob`, `relative_path`, `utf8`) | none | match, validate, normalise, compare | boundaries of ranges and classes |
| SHA-256 (`common/sha256.c`) | a block and a count | init, update, final | the last block |
| executable resources, Windows text conversion | none | lookups, conversions | |

How they interact. Tools discover paths, open a *unity input snapshot* of each,
which holds a *file view* and, for bundles, a *bundle archive*; a *serialized
file* is opened over the bytes a visit delivers, takes its types from the file
or from the *schema registry*, and PPtrs are resolved over all of them. What a
tool extracts goes to disk by *output publication*, which is a preflight with a
*file view*, one *atomic publication* per artifact and another view where the
name was taken. The registry reaches the next run of a tool through the
*registry file*. There are no threads: concurrency is between processes that
share a file system, and between a process and the kernel.

What makes them correct, component by component, is stated by the properties
below; `PROJECT.json` lists the hazards behind them, each at the line where it
bites.

## Modules

| Module | Models | Extends / instantiates |
|---|---|---|
| `WriteOnce` | what a caller may expect of a publication: a name that is written at most once, and durable before the answer | |
| `AtomicPublish` | `posix_write_new_atomic`: one action per system call, three hosts | `WriteOnce`, as its refinement |
| `WindowsPublish` | `common_file_write_new_atomic` on Windows, beside the publishers of `AtomicPublish` | `AtomicPublish` |
| `AtomicPublishProofs` | for POSIX publishers alone and for directories they share with Windows ones: types, inductive invariants, what follows from them, and that both implement `WriteOnce` | `WindowsPublish`, `FiniteSetTheorems` |
| `FileView` | the three stable readers, one action per system call | |
| `OutputPublish` | the exact publication of a set of artifacts | `WriteOnce`, for its writes |
| `OutputPublishProofs` | that verdicts are true, and that names are used as `WriteOnce` says | `OutputPublish`, TLAPS |
| `ProcessRun` | `common_process_run`, its child and the kernel | |
| `ProcessRunProofs` | limits, kills, containment, answers | `ProcessRun`, `NumberLemmas` |
| `NumberLemmas` | least numbers and bounded recursion, for the proofs | TLAPS |
| `SchemaRegistry` | the registry in memory, and images of it | |
| `SerializedFile` | opening files over a registry, resolving classes later | `SchemaRegistry` |
| `SchemaRegistryProofs` | both, for any registries, images and files | `SerializedFile`, `NumberLemmas` |
| `RegistryFile` | export and import of an image through one file | |
| `RegistryFileProofs` | durability and freshness | `RegistryFile`, TLAPS |
| `PathDiscovery` | `common_path_discover` beside directories that change and are moved, merge of results | |
| `MeteredReader` | the bounded reader, the work meter and the two-pass construction, as instructions and the machine that runs them | |
| `SerializedDirectory` | physical prefix and directory of a serialized file, as programs of that machine | `MeteredReader` |
| `MetadataTail` | metadata tail, reference index and its query | `SerializedDirectory` |
| `SerializedTables` | a caller that creates, queries and disposes of all three | `MetadataTail` |
| `SchemaCompiler` | the schema of one type, and context queries | `MeteredReader` |
| `ObjectValues` | the values of a TextAsset or a MonoBehaviour | `SchemaCompiler` |
| `ManagedValues` | those of a MonoBehaviour with managed references | `ObjectValues`, `MetadataTail` |
| `ObjectReading` | a caller that compiles, asks, decodes and disposes in any order | `ManagedValues` |
| `ByteStream` | the reader of `stream.c` with counted allocations | |
| `TypeTreeTypes` | type trees from streams and from rows, the grammar they must obey | `ByteStream` |
| `TypeTreeValues` | what an object means under a tree, questions for it, its digest | `TypeTreeTypes` |
| `TypeTreeReading` | a caller that reads types and objects and frees them, with the program that wrote them | `TypeTreeValues` |
| `PlayerSettings` | the decoder of build settings | `ByteStream` |
| `TextHelpers` | glob, UTF-8 and relative paths, each beside a reference definition | |
| `StringBuilder` | a builder and the memory counters | |
| `Sha256` | how messages become padded blocks | |
| `CommonHelperProofs` | builder, digest and discovery, for calls of any number and arguments of any size | `PathDiscovery`, `StringBuilder`, `Sha256`, `NumberLemmas` |
| `PPtrResolver` | `unity_pptr_resolve`: where a reference between files leads | |
| `BundleArchive` | opening an archive, views of its members, LZ4 | |
| `UnityInput` | a snapshot of an input file: open, visit, suspend, digest, close | |
| `InputProofs` | what a reader delivers, what a close notices, what a visitor of a snapshot gets | `FileView`, `UnityInput`, `NumberLemmas` |
| `MCInputFiles` | what a tool asks of its input files: the three above side by side | all three |
| `MCSerializedObjects`, `MCPlayerSettings`, `MCCommonHelpers` | small instances of modules that a run asks side by side | those modules |
| other `MC...` | small instances for TLC | the module of that name |

The layering is that of the code. `OutputPublish` does not repeat the system
calls of a publication: it uses `WriteOnce`, and `publish` checks that
`AtomicPublish` implements `WriteOnce` (`ImplementsWriteOnce`). Its views are
intervals whose two ends must agree; `FileView` is what justifies that.
`RegistryFile` treats an image as two halves with a digest; `SchemaRegistry`
says what an image means. `SerializedFile` adds files to `SchemaRegistry`, whose
operations stay available between any two calls on a file.

### How state and actions correspond to the code

*AtomicPublish.* `call[p]` holds the local variables of one call: `parent` is
`parent_fd`, `bound` is `temporary_bound`, `published`, `eexist` (the saved
`errno`), `destBound` is `destination_bound`, `released` is
`temporary_released`. `entry` is what the destination name denotes in each
directory, `stable` what storage says of it, `temp` the temporary name,
`cached`/`durable` the payload blocks readers see and storage keeps, `alias` a
second hard link. A file is named by its publisher. Pathnames do not appear:
`parentPath` says which directory the parent's pathname leads to right now, and
the environment may change it. The `Platform` of a publisher picks the `#if`
branches: an unnamed file and `linkat` of the descriptor on Linux,
`renameatx_np(RENAME_EXCL)` on Apple, `linkat` of a named temporary elsewhere.

*WindowsPublish.* The calls that are in `onWindows` take the Windows steps, the
others those of `AtomicPublish`, all on one directory. `anchor` is the directory
that the held parent handle denotes, while the file is created, renamed and
looked up by pathname, wherever that leads by then; `CompareParent` is the
code's comparison of the two. A file that fails its last checks is deleted
through its handle, after others may have seen it. Taken from the operating
system: a name whose deletion is pending counts as free, and `FlushFileBuffers`
of the file stores its rename. Two things these calls may do that the properties
allow for: a file that is withdrawn may have made another publisher answer
ALREADY_EXISTS, and with three moves of the parent a call may answer OK for a
file outside of the directory it holds (the run has one move).

*FileView.* `reader` holds the samples `before`, `after`, `pathBefore`,
`pathAfter` and what the two passes read (`image`, `second`); SHA-256 is taken
to be injective, so a digest is the content. `fine` and `mapped` say whether
each change gets a new timestamp and whether files may change through shared
mappings, which leave timestamps alone. `seen`, `sampled` and `since` record
what the held file contained.

*OutputPublish.* `caller[c]` walks the members with `preflight` and `report`
statuses as `output_publish.h` tells callers to. `settled` is the last touch a
host gives a published file: where a named temporary is linked and then
unlinked, the unlink changes the link count and the ctime of the file that
already has its final name.

*ProcessRun.* `parent.pc` is the place in `run_process`; `child` and `desc` are
processes, `stranger` the process that gets the child's id once kernel and
caller have let go of it.

*SchemaRegistry.* A registry is a sequence of entries (key, schema), as the
code's array is. A key is the version of the file format, the engine version and
its other components together (`traits`), ordered in this way as `compare_keys`
does. `Bind` takes as evidence only entries whose keys differ from the new one
in the engine version and in nothing else (`SameButVersion`, line 812): what is
held under another file format neither provides a schema nor contradicts one.
`Learn`, `Bind`, `Import` return the code's statuses in the code's order. Images are sequences of records with a count in the header;
`Images` are what a file may hold that no registry here was written as.

*SerializedFile.* `handle` is the caller's `SerializedFile`: which file, and the
nodes of its type and reference type rows (`None` where there are none). `Files`
says what the bytes of each input hold, `whole` whether the directory and the
tail accept them (the subject of `SerializedTables`). The five modes of `Open`
are the public open functions with their provenances. `OpenPinned` teaches a
clone, which replaces the registry when no row failed; `ResolveClass` looks every
schema up before it replaces a row. `last` is the call just answered.

*RegistryFile.* The history of the file's name is a log; `flushed` is the last
entry storage is sure of, and a power loss falls back to any entry from there.

*PathDiscovery.* `walk` holds the local variables of one call: `queue` and
`next` are `DirectoryQueue`, `files` is `PathBuilder` with the explicit flags.
A directory has an identity of its own: `content` says what each name in it leads
to, and a path is resolved from `Root`, name by name. That is how the code
meets the file system: `lstat` and `open` resolve a whole path each time, through
links that lie above its last name, while `fstatat` looks a name up in the
directory that the descriptor holds (`held`), wherever that is by now. Names that
were in it and have not changed since it was opened (`pending`) are returned by
`readdir`, the others (`optional`) may be. Other programs create, remove and
replace entries (`ChangeEntry`) and rename them, directories with all that lies in
them included (`MoveEntry`), between any two system calls. `ever` records what each
path has led to during the call, `had` what each name was in each directory.
The index of exact paths is the set it represents.

Two things follow that the properties allow for, because the code does them. When
a directory that is being read is moved, or one above it, what is found in it
from then on is still listed under the path it was queued under, where a file
created later never was. And when a link is put in place of a directory above a
queued one, `open` follows it: `O_NOFOLLOW` (line 533) guards the last name only.
So the properties bind a listed path to the directories that the path above it
led to (`Possible`), and to the path itself only where that was one directory all
the time (`ListedRightly`).

*SerializedTables.* A source is what a file says: header, version, counts and
rows. What a scanner of the code does to it is a *program*: a sequence of
instructions (a field of so many bytes, a unit of work, a quantity held against
its limit, a refusal, a completed row) in the order of the code's calls.
`Run` executes a program on a meter, which stops at the first refusal as the
code's early returns do. `Construct` is the shape that the three create
functions share: scan, plan, charge, allocate, scan again into the table, charge.
A pass reads each byte at most once, so a backing that changes between the two
passes is two sources. `directory`, `tail` and `index` are the caller's handles,
`heap` counts what `mem_alloc` gave out, `last` is the call just made. Sizes of
structures are small constants, and `Int32Max` is 7.

*SchemaCompiler, ObjectValues, ManagedValues, ObjectReading.* These run on the
same machine. A string table is a sequence of bytes, offsets have four digits of
four values (the most significant bit is 128), so that the radix order of name
requests takes its four passes over small numbers. An object says where its
payload lies and which lengths its strings announce in the first and in the
second pass; nothing else of its bytes is decided on. The profile tables of
`serialized_file_managed_profile_internal.c` and of the two decoders are tables
here too. `compiled`, `decoded` and `managed` are the caller's owners; they may
be disposed of in any order, since a decoder copies what it needs. `answer` is the
call just made with what its owner was before. The properties do not run
programs: they say in sums and sets what a call needs (`SchemaAdmitted`,
`ManagedWork`) and what it must give.

*ByteStream, TypeTreeTypes, TypeTreeValues, TypeTreeReading.* A byte has one
digit of base 4, so a number of two, four or eight bytes stays small while widths,
byte orders and alignments are the code's. Each function takes a stream and gives
it back with what it read, what is held in allocations and the largest that it
ever was (`peak`); memory is a number of allocations that succeed. Recursive
descent is recursive. A case of the run is a type as `WriteType` writes it in
every format version, or nodes that nobody wrote, with an object as `WriteValue`
writes it, one with wrong counts and one with other bytes in its padding. So the
reference definition is the writer, `Grammar` for trees that were not written,
and the wire for what is accepted beyond that.

*PlayerSettings.* The destination may hold earlier settings, which is what a
failure must leave; strings that the code only counts are kept in the model, so
that `SettingsWhole` can compare with what `WriteSettings` wrote.

*TextHelpers.* Each function of the code has a reference beside it: a glob
matches if some division of the subject does, UTF-8 is the set of encodings of
scalar values, a relative path is components joined by slashes. The functions
keep no state; an action asks about one text.

*StringBuilder.* One action per call on a builder; `malloc` and `realloc` may
fail, `tracked` has the two counters, `wanted` what a caller asked for since the
builder was empty. In an address space of 32 bytes doubling wraps soon.

*Sha256.* A byte of the message is its number in the message and what the block
held before stays in it, so that `DigestOfTheWhole` can tell a stale byte from a
padding one.

*PPtrResolver.* A graph is the caller's array of nodes. A pathname is its
components as written, so that `Normal` is what `normalize_path` does to them
and its failures are an empty set. `ResolveLoose` gathers the matches of every
directory that the code's loop may visit (`Levels`) and takes the nearest that
has one. The properties do not use these operators: they walk from a place, as a
host would, and ask which files the serialized evidence singles out.

*BundleArchive.* The cells of an archive are what its bytes mean where they lie:
a wrong size or offset reads other cells, which decompress to nothing. `Write` is
the program that wrote the archive, in each of the layouts the flags describe;
`BundleOpen` must undo it. An LZ4 sequence is one cell: its literals and its
match.

*UnityInput.* `snapshot` is the caller's `UnityInputSnapshot`: `before` is the
anchor's fstat sample, `capture` its digest, `view` the mapping (absent while it
is suspended), `members` the unpacked archive. `call` is the call under way, one
action per system call; `identity_anchor_validate` is called from six places,
and `for` says where it returns to. To open or close a view is one step, which
`FileView` justifies. `past` collects what the anchored file held, and whether
the pathname led to it, since the call began. A change of content may leave the
timestamp alone: coarse clocks, stores through a shared mapping; so may a change
of what the pathname leads to: a directory of the path that is renamed.

## Runs

| Run | Question | Size and bounds |
|---|---|---|
| `publish` | do racing publications keep the name whole, durable and written once, clean up, and implement `WriteOnce`, and does a Windows publisher among them take back only its own file? | a named-temporary (`posix`) publisher or a Windows one, with a Linux one, 2 directories, 1 block, failing calls, 1 interference, 1 power loss |
| `publish_quiet` | when nothing fails, is there exactly one winner, and does every call return? | 3 publishers, one of each host, 1 directory, 1 interference (with names in it, too) |
| `view` | is what a reader delivers what the file contained? | 2 files of up to 2 chunks, 2 changes, fine and coarse clocks |
| `output` | are verdicts about sets of artifacts true, are partial sets avoided, do equal runs succeed, does every run end? | 2 callers, 2 artifacts, 1 interference, 1 power loss |
| `output_restamp` | the documented promise on named-temporary hosts (violated) | 2 equal callers, nothing fails |
| `process` | does a timed call return, contain its descendants and kill only its own? | lists of up to 3 arguments, 2 descendants |
| `registry` | is the registry canonical, authoritative and unchanged by failures; does a file open exactly when all of its promise can be kept, and a class resolve all or nothing? Are types and objects read exactly as they were written, whichever way bytes are kept, and everything freed? Are build settings decoded whole or not at all? | 1 registry and 10 foreign images, one of them good, 18 keys (2 file formats, 3 engine versions, 3 other components), 2 schemas, 3 entries, 11 files of up to 4 rows and 3 objects; types of up to 8 nodes in every format, objects with every kind of value, all ends of a stream, up to 8 allocations; settings in both byte orders, each field broken |
| `discovery` | does a walk list what was there, report only reasons that hold, and merge exactly? Are the helpers of `common/` what their headers say? | 2 names, 3 levels, 2 trees of 5 directories, one of them outside and reached by a link, 5 lists of inputs, every option alone, 2 changes, renames included; some 4,700 patterns and classes of up to 4 bytes against 23 texts, UTF-8 at the ends of every range, paths of up to 6 bytes; 6 calls on a builder in 32 bytes of address space; messages of up to 11 bytes in blocks of 5 |
| `registry_file` | does the file always denote a whole image, and keep what was acknowledged? | 2 programs, 3 calls, 1 interference, 1 power loss |
| `input_files` | does a reference lead to the one file the evidence singles out; does an archive open exactly when it was written as one, to what was put in; do both LZ4 entry points accept the legal blocks; does a snapshot stay what was captured, whatever happens to the file? | 22 graphs of up to 11 nodes; 128 archives of up to 3 blocks and some 3300 inputs that differ from one in one or two respects; LZ4 blocks of up to 3 sequences; snapshots of 2 files of up to 3 chunks, 15 contents, archives with every kind of good and bad member, 2 changes, failing calls |
| `snapshot_digest` | the documented digest of a snapshot (violated) | the same |
| `tables` | do directory, tail and index accept exactly the genuine files within every limit, for the work they announce, whatever is mapped, and keep nothing after a failure? Do schemas, contexts, values and managed values? | 43 files of up to 3 rows a table, one argument or limit at a time at and around need, 7 changes between the passes; files of each profile, right and with one thing wrong, the same limits, objects that change between the passes |

The bounds are chosen by what a violation takes: two publishers race, a third
adds only a third loser (checked in `publish_quiet`); a mixed image takes two
chunks and one change between them, a hidden one a second change; every limit in
the code (256 arguments, 65536 bytes, registry capacity) is a constant here and
is met from both sides. In `tables` each file and each call differs from a
generous one in one respect, which is what decides each refusal. Base 4 keeps
every carry and every sign bit of a number. A block of 5 bytes with room for a length of 2
has all three cases of a last block: marker and length fit, the marker alone
fits, the block is full. 32 bytes of address space are three doublings.
`publish` writes one block: with several, half-written files are more of what
an empty one is, and the proofs cover any number, as they cover any number of
interferences where the runs allow one or two. What is asked side by
side in one run never meets: a behaviour is about one of them. Failing system
calls on an Apple host are in no run: the proofs cover them, as they cover any
mix of hosts. Names of directories, values and modes are symmetric, so those
runs use symmetry; runs with liveness do not.

A property of a run may be a conjunction of named parts, each with a comment of
its own: `TablesExact` (of files, queries, changes between the passes and what is
mapped), `ReadersSound` (with `ManagedExact`), `ListsWhatWasThere` (with
`FailsForAReason` and `MergeExact`), `OkIsTheChilds` (with `LimitsExact`),
`BundleExact` (with `Lz4Exact`), `Authority` (with `Canonical`) and
`AcknowledgedStays` (with `NamedIsWhole`). Type invariants are conjuncts of
`StableRead`, `OkIsTheChilds`, `Canonical` and `NamedIsWhole`; for
`AtomicPublish` it is proved.

Deadlock is not checked: calls return and programs stop, so every run may end.

## Fairness

A call is sequential code in a process: weak fairness of its steps says that the
process is scheduled. `publish_quiet` and `output` assume nothing else.
`process` adds that a killed child dies and that the clock reaches the deadline,
which the kernel guarantees; a child need not end by itself, and nothing in the
model makes it.

## What is proved

Eight modules hold theorems. TLC looks at small instances; these hold for every
value of the constants, from the assumptions named in the modules, which only say
what the constants are and that model values differ. Each of them rests on an
inductive invariant (`IInv`, `AInv`, `SharedInv`, `DiscoveryInv`...), which TLC checked on the small instance
before it was proved.

### Atomic publication

`AtomicPublishProofs`, for any number of publishers and directories, any payload
size, any mix of POSIX hosts and any number of interferences and power losses:

* `TypeCorrect`, `PublishInvariant`: the type invariant and the inductive one.
* `NeverPartialHolds`: the destination denotes nothing of a publisher or its
  whole payload, in memory and on storage.
* `OkSurvivesHolds`: a publication answered OK is named and durable until
  another program changes the directory.
* `NeverOverwritesHolds`: no step of a publisher changes a name that denotes
  something.
* `Implements`: where no other program plays with the names in the directory
  (`~Hostile`), every behaviour of `AtomicPublish` is one of `WriteOnce`.
* `RefusalJustifiedHolds`: ALREADY_EXISTS is never about the caller's own file,
  and the name is taken unless another program or a power loss changed that.
* `ResidueOnlyOnIoErrorHolds`: a call that ends with any other answer than
  IO_ERROR has removed its temporary name, and left a file only if it says OK.
* `OneWinnerHolds`: of callers that nothing disturbs exactly one has won when all
  are over, unless the name was taken before, and the others were told.

`NeverPartial` alone is not inductive: a state in which a call is
about to link a half-written file satisfies it. `CallInvariant` adds what each
point of a call may rely on: whatever is bound or about to be named is whole, in
memory and on storage; a temporary name denotes only its own file or a foreign
one, so that linking by name never publishes another publisher's half-written
file; between the flush of the directory and the answer the name, if it is still
the caller's, is on storage.

The refinement maps the progress and the directory of a call to the state of
`WriteOnce`, which has no system calls. A step must be one that `WriteOnce` allows
or change nothing there, so `RInv` adds that the local variables follow the place
in the code: nothing is `published` or refused before the link, the destination
is checked again only after it, no answer is given before the last steps.
`AInv` adds what the answers rest on: once a link was refused with `EEXIST` the
name stays taken, and a temporary name is gone before an answer other than
IO_ERROR. `OneWinner` rests on `CalmHolds`, an invariant of its own: until the first
disturbance the destination is where every call looks for it, a call that placed
its file finds it there, and a call that was refused finds another's.

The second half of the module is about directories that POSIX publishers share
with Windows ones (`SharedSpec`), with any of them on either side:

* `SharedInvariant`: the inductive invariant, `SharedInv`.
* `WithdrawsOnlyItsOwnHolds`: a step on Windows fills a free name, or takes back its
  own whole file before an answer that could have promised it.
* `SharedNeverPartial`, `SharedOkSurvives`, `SharedRefusalJustified`,
  `SharedResidueOnlyOnIoError`, `SharedNeverOverwrites`, `SharedImplements`: what was
  proved of POSIX publishers alone, with Windows ones among them.

`SharedInv` holds each call to the invariant of its own kind: `CallHolds` where the
system calls are POSIX, `WindowsHolds` where they are not. The work is in the
frame: what a step of one kind does to the directory must leave the other
kind's facts alone. A Windows step changes a name in two ways only. It fills a
free one with a whole file, as a POSIX link does, or it frees a name that denotes
its own file, which no other call's invariant speaks of, except that a call
which was refused because of it no longer finds the name taken. That is why
`RefusalJustified` counts a withdrawal as a change by somebody else.

### Output publication

`OutputPublishProofs`, for any callers, sets of artifacts and bytes, beside any
number of changes by others and power losses, also when views and writes fail:

* `VerdictsTrueHolds`: EMITTED, UNCHANGED, COLLISION and the answer about residue
  agree with the bytes that are there, and equal runs succeed.
* `NoKnownPartialSetHolds`: a run that knew of a collision wrote nothing.
* `NamesAreWriteOnce`: what runs do to the destinations is a behaviour of
  `WriteOnce`. With `Implements` this closes the layering: the answers of the
  publication are used only as it means them.

A verdict is about bytes read earlier, so the invariant must keep them in place:
a name that other programs leave alone never changes once it denotes something
(`Names`), so that an open view (`Held`), a preflight (`Preflights`) and a report
(`Reports`) stay true; `Stage` says which members are done, at hand, and to come.
Equal runs also need (`Agrees`) that a refused writer finds what refused it, whole
and with its bytes.

The proof attempt corrected the property. `ReportTrue` used to say of a collision,
under whatever power losses, that the name still denotes other bytes. With three
callers that is false: a power loss frees the name of a file whose flush had
not happened, and a third run puts the very bytes there that the first one
had. The model checker's two callers never show it. The clause now ends at a power
loss, as that of UNCHANGED did.

### Input files

`InputProofs`, for files of any size and any number of changes:

* `ViewInvariant`, `StableReadHolds`: where every change gets a new timestamp and
  no mapping is written through, each reader delivers the one content the file had
  from its first sample to its last.
* `CloseRehashesHolds`: whatever the clock, the close of a view notices a change
  that is still there when it samples the file.
* `SnapshotTypeSafe`, `SnapshotIsFaithful`: visitors of a snapshot get the sources
  of the one captured content, in order, and all of them if the answer is OK; no
  call answers OK about a file that was something else all the while.

In a view the samples alone say nothing; `FirstSample` adds that while the
timestamp is that of the first sample, the content has been one and what was read
is its beginning, and `SecondSample` that it had been so up to the second.

Of a snapshot the invariant says which steps can come next in each of its states
(`Lifecycle`), that what is mapped and unpacked is the content captured
(`UnpackedIsCaptured`), that a visit has delivered the first so many of its sources
(`Visited`), and what each check that a validation has passed says about the
history of file and pathname since the call began (`Judged`).

### Processes

`ProcessRunProofs`, for all argument lists and limits and any number of
descendants:

* `KillsOnlyOwnHolds`: no kill reaches a process that merely got the child's id.
* `ContainedHolds`: a timed call that answered anything but LAUNCH_FAILED has
  reaped its child and left no member of its group running.
* `OkIsTheChildsHolds`: OK is the child's own end, never the call's SIGKILL, and
  exactly the lists within the limits are forked for. The count of arguments is
  a recursive function, whose values are given step by step (`CountedDefined`).

The invariant says where the child is by the place in the parent's code: as long
as it is not reaped its id is not given away, so a kill finds it or nobody.

### Registry and registry file

`SchemaRegistryProofs`, for any registries, keys, schemas, images and files:

* `AuthorityHolds`, `NeverReboundHolds`, `TransactionalHolds`: no entry is
  synthesized and none of one key is held twice; what was bound to a further engine
  version came from outside under the same file format, and never as a pick
  among several; no binding changes while a registry lives; an image is taken over bit
  for bit or not at all.
* `AuthorityUnderFiles`, `NeverReboundUnderFiles`, `TransactionalUnderFiles`: the
  same while files are opened over the registry, in each of the five modes.
* `ResolvesAllOrNothingHolds`: a class is resolved in all of its rows or none.

Sorted arrays are what makes it hold: `Place` finds the one place of a key, an
insertion keeps the order, and two sorted arrays of the same entries are equal.

`RegistryFileProofs`, for any number of programs, calls, changes and power losses:

* `AcknowledgedStaysHolds`: an export that was answered OK is not taken back, and
  the name denotes whole images only.
* `ImportsFreshImageHolds`: an import delivers one whole image, no older than the
  latest export acknowledged before it began.

Here the invariant follows a file from its creation to its name: an export's file
is its program's own until it is renamed (`OwnFile`), everything the log holds
since is whole (`AllWhole`), and a reader holds an entry no older than the
acknowledgement it saw (`Fresher`).

### Helpers

`CommonHelperProofs` takes three parts of `common/`, each from a specification of its
own (`BuilderSpec`, `ShaSpec`, `Spec`), for any number of calls:

* `BuilderIsExact`: in an address space of any size a builder that has not failed
  holds every piece it was given, one that has holds a beginning of them and no
  later piece, and the leak counter is right.
* `DigestIsOfTheWhole`: for blocks of any size, in whatever parts a message comes,
  what is hashed are the blocks of the message, the marker, zeros and the length.
* `ListsExactly`: for any directories, links, inputs and options and any changes and
  renames by other programs between any two system calls, a discovery that
  succeeds lists what was there and reachable all along, in order and once. Below
  an input it lists only what was a regular file in a directory which the path
  above led to, and that under its own path if that was one directory all the time. It marks
  what was given, keeps to every limit, in a quiet tree fails only for a reason
  there is, and is merged exactly or not at all.

What is missing from `BuilderExact` is why a piece that `sb_ensure_capacity` let pass
fits: `Holds` adds that a buffer is longer than its text and the terminator, and
that the text ends where its length says, and `DoubledSuffices` shows that the
doubling loop ends with enough. What is missing from `DigestOfTheWhole` is that no
block is left full after an update. Both need what a loop computes, which is
a recursive function of the number of rounds; `NumberLemmas` gives its values step
by step, so each is an induction over a natural number, with a set for its range.

A discovery's invariant (`DiscoveryInv`) follows what the call knows. `Placed` says how
far it has come, `Limited` that no limit is exceeded and no directory queued twice,
`Sound` that what is found or queued was there: a file in a directory that the path
above it led to at some time (`Possible`), a directory below one that its path led
to (`PossibleDirectory`). Both only grow, so what other programs do cannot take
them back (`ChangeHolds`); `Unseen` says that the held directory is one its path
led to, which is what makes an entry read through the descriptor possible, wherever
the directory is by then. `Complete` is the other half: each
input passed and each entry of each directory read has been dealt with if it was
there throughout; and if the path of the directory being read led to one directory
throughout, that is the held one and an entry that was there is dealt with or
pending (`Scanning`). So what was certain to be found is found once the
queue is empty: from the input down, each directory on its path was queued, so it
was read, so the next one was queued (`Descends`, an induction over the length of the
path). `Depths`, `Unseen` and `Reasoned` speak of a quiet tree: a directory's
recorded depth is the distance to its nearest input, the names `readdir` has yet to
return are the directory's entries, and a call that failed had its reason. With
`ReachedQueued` that gives the converse: a call that succeeds had none.

`Less` is proved to be a total order on pathnames, `Sorted` to list a finite set
once and in this order, and a round of the merge loop to keep both lists' paths,
once each and with their marks (`MergeStepHolds`, `MergedMarks`).

### What is only model-checked

* Liveness (`EveryCallReturns`, `RunsEnd`, `CallReturns`): out of this prover's
  reach, as ENABLED is.
* Properties of modules with recursive operators, and those that compare what a
  recursion over data computes with a reference (`TablesExact`, `SchemaExact`,
  `ValuesExact`, `ReadersSound`, `TypesExact`, `ParsedAsWritten`, `KeptAnyWay`,
  `SettingsWhole`, `TextExact`, `BundleExact`, `ResolvesExactly`): induction over
  data needs theorems
  that take an operator, which no installed prover can instantiate. `OpenExact` is
  among them because the sorted objects of a file are compared with the sort.
* That signals do not interrupt a link for ever, that a call finds its parent
  directory once more before an answer, and which of two objects a reader opened,
  is in the models but is the subject of no property; `PROJECT.json` says why at each
  hazard. A program that plays with temporary names is in no run that checks
  `ResidueOnlyOnIoError`, but in its theorem.
* `GenuineView`: against coarse clocks a view is what the file once held only
  while fewer changes than the bound of the run take place (its second conjunct,
  `CloseRehashes`, needs no bound and is proved).

## Findings

`output_restamp`: `output_publish.h:38-39` says that
`common_output_publish_exact` "reports byte-identical pre-existence as
unchanged". On POSIX hosts without `O_TMPFILE` and `renameatx_np` the winner
of a race unlinks its temporary name after the file has its final one, which
changes the file's ctime. A second publisher of the same bytes that has the file
open as a view at that moment sees it change and reports `IO_ERROR`. The run
finds it with two callers and no failure; `output` shows that hosts which name
the file in one step keep the promise (`VerdictsTrue`).

`snapshot_digest`: `unity_input.h:82-83` says that
`unity_input_snapshot_digest` gives the digest of the "complete captured outer
file [...], after revalidating its held file identity, content and pathname".
`unity_input_snapshot_open` opens the pathname twice, for the anchor and for the
view, and takes the bytes of the view for those of the anchor
(`unity_input.c:711`) without comparing their sizes. A validation hashes as many
bytes of the anchored file as the view had. If the pathname leads, just when the
view is opened, to another file that the anchored one begins with, open and
digest both answer OK with bytes that the anchored file never consisted of. The
run finds it; `SnapshotFaithful` shows that nothing of the kind happens where as
much was captured as the file has.

Disagreements that no run shows: `string_builder.h:28` says that after
`sb_detach` a "StringBuilder is reset back to empty state", but a builder whose
first growth failed has no buffer, and then `sb_detach` returns a new empty text
before it comes to `sb_init` (`string_builder.c:149-153`): the builder stays
failed and refuses what is appended next. For the same reason that text is never
taken off the leak counters (`common.h:82-84`); `BuilderExact` counts it.
`unity_pptr_resolver.c:706-707` says that
"Ignoring a non-empty, non-archive virtual locator would discard serialized
identity evidence", but such a locator is ignored when the path name begins with
`archive:/`, because `archive_locator` takes it for an empty one (line 350).
`path_discovery.h:10-11` says that "Directory traversal never follows symbolic
links"; that holds as long as no other program puts a link in place of a directory
above a queued one, which `open` then follows (`path_discovery.c:533`).

## Not modelled

* The Windows branches of file views, `process.c`, path discovery, the registry
  file and the input anchor. Windows publication is modelled without its
  pathname splitting and conversion to UTF-16.
* Argument checks (null pointers, storage that overlaps), the field, row and
  offset that diagnose a refusal, and owners that were not made by their own
  create function (`SOURCE_MISMATCH`, spans outside of a file).
* Formatting, messages, and what numbers mean: floating point numbers are bits,
  the compression function of SHA-256 is taken to be injective, the CommonCrypto
  branch and hexadecimal digests are left out.
* A child that enters its group after the parent's `setpgid` failed for a reason
  of the kernel's own (`LAUNCH_FAILED`, excluded from `Contained`), and
  descendants that start a timed call themselves, whose children get a group of
  their own.
* Moves of the registry file's directory: `registry_sync_parent_directory`
  opens it by pathname.
* Scope roots that begin with `..`: there `path_is_within` compares the texts,
  by which `../..` lies within `..`, and the reference in terms of places does
  not apply. Components that end in a colon: a locator like
  that is refused for a drive letter, and one at the end of what is written so far
  gets no slash after it, on POSIX too (`unity_pptr_resolver.c:148-149, 571-572`);
  the graphs have none.
* How an archive encodes lengths and numbers; the byte format of a registry
  image.
* Of `unity_input.c`: `unity_input_probe_path`, `stable_absolute_path`, the
  anchor on Windows, and visitors that call back into their snapshot.
* Directory trees of `output_publish.c` and its joining of pathnames.
* `executable_resource.c` (a lookup in two fixed places without state),
  `windows_utf8.c` (calls of the operating system's conversions), LZMA
  (vendored), fixtures and build files.

## Plan

* `ensure_directory_tree` of `output_publish.c` beside a tree that changes;
  the Windows branches of `FileView` and `RegistryFile`.
* Proofs about `TextHelpers` once its recursions are over numbers, as those of
  `StringBuilder` and `Sha256` are.

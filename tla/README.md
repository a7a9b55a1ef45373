# elu: models and proofs

Models in TLA+ of elu, the package builder, store and registry of this
repository, model-checked with TLC on small instances and, for the properties
that matter most, proved with TLAPS for every instance. Paths below are relative
to the root of the repository; `fs_store.rs` is
`crates/elu-store/src/fs_store.rs`.

To check: `tlc -config store.cfg MCStore.tla` (likewise for the other rows of the
table of runs), `tlapm StoreProofs.tla` (likewise `InstallProofs`,
`RegistryProofs`, `ProjectProofs`, `ImportProofs`, `TreeProofs`, `StackProofs`,
`Induction`).

## The system

elu is one command-line program, `elu`, and one server. Several `elu` processes
share a store, a directory tree, without a daemon between them; a process is
sequential but for the file watcher of `build --watch`. The server is
asynchronous and handles requests concurrently over one SQLite connection behind
a mutex.

| component | state it keeps | operations | hard behaviours | what makes it correct |
|---|---|---|---|---|
| **Store** (`elu-store`) | `objects/` (blobs and manifests by hash), `diffs/` (uncompressed hash -> blob), `refs/<ns>/<name>/<version>`, `locks/gc.lock`, `tmp/` | `put_blob`, `put_manifest`, `put_ref`, `remove_ref`, `resolve_diff`, `list_refs`, `gc`, `plan_gc`, `fsck`, `fsck_repair` | processes interleave at every file access; only ref writes and gc lock; a process may die anywhere, a call may fail anywhere | a collection takes nothing that a ref needs; an index entry is written once; refs are append-only; the lock is released on every path |
| **Builders** (`elu-author` build, `elu-cli` build, `elu-import` store_manifest) | none of their own across runs; the sequence of store calls they are in | put layers, put manifest, put ref; with `--watch`, remove and put again | gc or another builder between two of their calls | every build ends; a published ref resolves; a version reported built has its ref |
| **Registry, publishing** (`elu-registry` server/publish, client/publish, db, blob_store) | tables `publish_sessions`, `package_versions`, `layers`; the blob backend | begin (opens a session, returns upload slots), upload, commit | concurrent sessions of one version; blobs are looked up outside the mutex; no SQL transaction; clients that vanish | versions are immutable; a visible version can be fetched; Ok means it is published; publishers do not block each other |
| **Registry, reading** (server fetch, search, namespace, auth; client fallback, verify) | reads the same tables; table `namespaces` | by name, by hash, list, search; a chain of registries tried in order | the filtered list is a lookup in two holds of the mutex; one registry down | what is returned is consistent and was visible to the caller |
| **Resolver** (`elu-resolver`) | per call: the visited set, the manifests in order, what every name resolved to | resolve, lock, verify, update | diamonds, cycles, pins that no longer match | dependencies before dependents; one manifest per package; the lockfile reproduces the resolution |
| **Installer** (`elu-cli` install) | the records of layers it got, for the duration of the command; else the store's | resolve, fetch what is missing, put a ref for each manifest, stack | builds, a gc or a death between any two of its steps; `has_diff` true for an entry that is empty or whose blob is gone | it ends; dependencies have their refs first; what has a ref becomes whole |
| **Layers and stacking** (`elu-layers`, `elu-stacker`, `elu-cli` stack) | a staging directory, the target | apply layers in order, run the hook, commit to the target | whiteouts, opaque directories and links in any order within a layer; two runs with one target; failure and death at every step | the union of the layers; no partial target; nothing replaced without `--force` |
| **Outputs** (`elu-outputs`) | the target file or directory, `.<target>.tmp`, which runs share | dir, tar, qcow2 | remove then rename; changes of mode after the rename | a tar is a layer again; the user's tree wins over the base |
| **Hooks** (`elu-hooks`) | the staging tree | an interpreter of ten operations | globs that match several files, links, failure halfway | a move loses nothing |
| **Project files** (`elu-cli` add, remove, lock, update) | `elu.toml`, `elu.lock` | rewrite one, then the other | a crash between the two; two commands at once | the two files agree |
| **Importers** (`elu-import`) | an artifact cache, the queue and the imported set of a closure | look up, download, cache, convert, build | a cache file written in place; circular and missing dependencies; upstream that moves on | a closure is what its package needs; what has a ref is what was published |
| **Manifest, authoring checks, command line** | none | parse, validate, canonicalise, pack; print | none | pure conversions |

How they interact. Builders, importers, the installer, the stacker and the
publishing client are clients of the store; they share it with `elu gc`,
`elu fsck --repair` and `elu refs rm` run by anyone. The store calls back into a
`ManifestReader` to learn the layers and the pinned dependencies of a manifest.
The publishing client talks to the server by HTTP. The resolver reads versions
from a `VersionSource`: the store's refs, a registry, or both. The stacker takes
the resolver's order.

`PROJECT.json` lists under `hazards`, line by line, what can go wrong in each of
these and which property would catch it.

## Modules

| module | what it is | code |
|---|---|---|
| `Store` | the shared directory tree, every call of the store as its accesses to it, failures and deaths | `fs_store.rs`, `atomic.rs` |
| `Build` | EXTENDS `Store`: builders as sequences of store calls, and a keeper that collects | `elu-author/src/build.rs`, `elu-import/src/manifest_build.rs`, `elu-cli/src/cmd/build.rs` |
| `Registry` | clients, handlers, tables and backend of the publish protocol | `elu-registry/src/{client,server}/publish.rs`, `db/sqlite.rs`, `blob_store.rs` |
| `Resolver` | the depth-first walk over a source that changes between its questions | `elu-resolver/src/{resolve,version,source,lockfile}.rs`, `elu-cli/src/source.rs` |
| `Project` | EXTENDS `Resolver`: `elu.toml`, `elu.lock` and the commands that resolve for them, builds and publishes around them | `elu-cli/src/cmd/{lock,update,add,remove,install}.rs`, `elu-cli/src/lockfile.rs`, `elu-resolver/src/lockfile.rs` |
| `VersionIndex` | the abstract registry: a publish is one step | docs/prd/registry.md, implemented by `Registry` |
| `Install` | EXTENDS `Build`: installs beside builds and a gc | `elu-cli/src/cmd/install.rs`, `elu-cli/src/source.rs`, `elu-resolver/src/resolve.rs` (fetch plan) |
| `Tree` | a file tree as a function from paths to nodes, links followed | what `elu-layers`, `elu-hooks` and `elu-outputs` ask of the file system |
| `Layers` | EXTENDS `Tree`: a layer applied entry by entry; the union it means | `elu-layers/src/{apply,whiteout}.rs`, flatten of `elu-resolver` |
| `Hooks` | EXTENDS `Tree`: the ten hook operations, modes, globs | `elu-hooks/src/` |
| `Outputs` | EXTENDS `Layers`: the archive, the mask, the merge of two trees | `elu-outputs/src/` |
| `Stack` | EXTENDS `Outputs`, `Hooks`: processes that stage and commit to one target | `elu-stacker/src/stage.rs`, `elu-cli/src/cmd/stack.rs`, `elu-outputs/src/` |
| `Import` | importers, their cache, the closure queue, the refs | `elu-import/src/` |
| `MCStore`, `MCBuild`, `MCInstall`, `MCRegistry`, `MCProject`, `MCStack`, `MCImport` | the small instances | |
| `Induction` | two facts about numbers that the proofs share: a least one, and what climbs to a bound | |
| `StoreProofs` | theorems about `Store` | |
| `RegistryProofs` | theorems about `Registry`, its refinement of `VersionIndex` | |
| `InstallProofs` | EXTENDS `StoreProofs`: theorems about `Install`, and with it `Build` | |
| `ProjectProofs` | theorems about `Project`, and with it `Resolver` | |
| `ImportProofs` | theorems about `Import` | |
| `TreeProofs` | lemmas about `Tree`, `Layers`, `Hooks`, `Outputs`: loops, paths, and what each operation keeps of a tree | |
| `StackProofs` | EXTENDS `TreeProofs`: theorems about `Stack`, its staging trees and its target | |

### Store

Contents are abstract. A manifest or a blob *is* its hash, so `objects` is a set:
a file gets its final name only by a rename after it was hashed, written and
synced under `tmp/`. What is not atomic in the code is not atomic here: a `diffs/`
entry is created empty by `create_new` and written by a second call, so
`diffs[d]` may be `Absent`, a blob, or the *process* whose file it is, still empty;
if that process dies the empty file stays for ever. `DiffOf` lets several blobs
(encodings) have the same uncompressed hash, as the index does.

`refs` are written by rename from a temporary file in the same directory; a
writer that dies between the two leaves that file behind (`strays`), and
`list_refs` reads it, and the temporary file of a writer at work (`TmpRefs`), as
one more version. `shared` and `excl` are the two modes of `flock` on `gc.lock`.
`put_ref`, `remove_ref` and `plan_gc` block; `gc` tries once and returns `GcBusy`.

One action per access: `PutBlob` / `BlobPersist` / `DiffExists` / `DiffCreate` /
`DiffWrite`; `PutManifest` / `ManifestPersist`; `PutRef` (the conflict check, before
the lock) / `RefLock` / `RefTmp` / `RefCommit`; `RemoveRef` / `RemoveLock` /
`RemoveUnlink`; `Gc` / `GcMark` / `GcScanObjects` / `GcScanDiffs` / `GcSweepObject` /
`GcSweptObjects` / `GcSweepDiff` / `GcDone`; `PlanGc` / `PlanLock` / `PlanDone`;
`FsckRepair` / `FsckRefs` / `RepairDiff` / `RepairedDiffs` / `RepairRef` /
`RepairDone`; `Fail` and `Crash`. `dead` is the list of a running gc or repair;
`kept` is history, the refs that were whole when a gc marked, and `mended` is, the
index entries that a repair unlinked since.

Abstractions:

- The mark of a gc is one step, and so is each scan, and each of fsck's two
  passes. What could move under the mark: roots cannot (see `RootsFrozenDuringGc`;
  `fsck_repair` can only take some away), and what puts add meanwhile only makes
  more live, but for a file whose own put is still under way. A mark that reads a
  manifest before it is put and a scan that finds it afterwards is represented:
  mark and scans are separate steps.
- The order in which a sweep or a repair unlinks is left open, a superset of the
  code's.
- Failed unlinks of a sweep are not a step of their own: a sweep may die at any
  point, which leaves the same files.
- Bit rot (`HashMismatch`), the `manifests/` index (written, never read) and the
  removal of day-old files of `tmp/` are left out.

### Build

A builder holds a `stage`, the manifest it builds (`goal`) and the layers it has
not put yet (`todo`). `StartBuild` settles what the source tree produces;
`BuildLayer`, `BuildManifest`, `BuildRef` start the store calls, `Advance` is a
step inside a call and moves the build on when the call returns Ok;
`BuildReject` is every early return with a report. For a watch build
(`force_ref`) a `RefConflict` leads to `ForceUnref` and `ForceRef`, whose second
conflict ends the build. The importers' `store_manifest` is the same sequence
without force. Which encoding of a layer a builder puts is left open. The
processes outside `Builder` only collect: what other calls do is the subject of
`Store`'s own runs.

### Install

An install is a client of the same store, and a step of it the start of a store call, a
step inside one (`InCall`), or a step of its own. `Resolve` is the resolution with its
listing of the store: it fails if any ref dangles; it prefers what the store has
(`HybridSource`) and asks the registries otherwise; it makes the fetch plan of what is
missing at that moment (`FetchPlan`) and keeps the records of the manifests the registry
sent (`CacheRecords`), without which a layer has no URL. `FetchManifest` and
`FetchLayer` are `execute_fetch_plan`: manifests first, what has arrived meanwhile
skipped, an index entry counted as the layer whatever it holds. `Fetched` turns to the
refs, `PutRefs` puts them in the order of the resolution, each under the name its
manifest was asked for (`AskedAs`: a pin by hash may be written under another name than
the manifest's own, `AsksFor`), and `StackLayers` ends the command. `FetchFails` is a
registry that does not answer or answers with the wrong bytes, `InstallFails` an error
or death inside a call.

Abstractions: versions and ranges (a request names one version, dependencies are
pinned; the walk is module `Resolver`); the chain of registries is the union of what
they serve, since each of them may be down at any question (a list of versions is
answered by the first that answers only); a dependency that several packages ask for is
put under the name that any one of them gives it, where the walk settles which; what
`stack` does is module `Stack`.

A consequence worth knowing, which the model shows: a gc that dies between its two
sweeps, or a `put_blob` that races a gc, leaves an index entry whose blob is gone,
or empty (docs/design/store.md:382 calls the order harmless). From then on an
install of a package with that layer skips the fetch, puts its refs, and fails to
stack, each time; the entry is live, so gc keeps it, and only `fsck --repair`
removes it. `PublishedBecomesWhole` therefore speaks of behaviours without either.

### Registry

A step of a handler is one hold of the connection's mutex, or one round of
questions to the backend. Begin: `BeginCheck` (a public manifest must not depend
on a package whose newest version is private), `BeginOpen` (is the version free?
then insert a session), `BeginSlots` (slots for what the backend lacks). Commit:
`CommitFind` (the *oldest* session of the version: the query names no order and
rows come by rowid), `CommitVerify` (the session's layers, not its manifest, are
in the backend), `CommitVersion` (is the session still there, is the version free?
then version row, layer rows, delete the session), `CommitHalfway` (a statement
after the first fails; there is no transaction).

A client reads the ref in its own store (`Built` says what may be there), posts
begin, uploads, posts commit, and waits without a timeout. `GiveUp` is a client
that dies, loses its connection or misses a blob its own store has collected; its
handler runs on, since it awaits nothing once the request is read.

Abstractions: `BeginCheck` looks at all dependencies in one step, where the code
takes the mutex two or three times per dependency (versions are only added in
between, and none of the properties is about visibility); `BeginSlots` asks the
backend in one step; `stamp` (`published_at`) is the number of the session, where
the code has whole seconds, so ties are not modelled; whether a version is private
is a property of its manifest; decoding, validation of the request, reserved
namespaces and wrong hashes of uploads are requests refused before any state
changes, and are not enumerated.

### VersionIndex

What docs/prd/registry.md promises: an index in which a publish settles a version,
its layers included, in one step whose blobs are there, and tells at most the one
who did it. `Registry!ImplementsIndex` is its specification under the mapping
`published <- versions`, `listed <- rows`, `held <- blobs`, `told <- acked`: sessions,
uploads, and handlers that look things up outside the mutex map to single steps or
to stutters. A statement that fails halfway (`PublishHalfway`) had to be in the
abstract index too: the code has no transaction.

### Tree, Layers, Hooks, Outputs

A tree is a function from paths to nodes, and `Stat`, `Lstat`, `CreateDirAll`, `Unlink`,
`Chmod` are what the system calls do, following links as they do. A layer is a sequence
of entries, `ApplyLayer` the loop of `apply` with its set of opaque directories already
cleared; a hard link is counted and left out. `Union` is the meaning docs/prd/layers.md
gives a layer, path by path and with no order of entries; the two agree on layers that
are `Regular` (no whiteout after what it would remove, for instance, no file, link or
whiteout at the root, and none of what the code treats otherwise than the document says:
hard links, opaque markers of which a deeper entry comes first) and `Plain` (nothing
written, removed or cleared through a link). `CopyTree` lays one tree over another as
the image of a qcow2 does: what stands in the way of a file or a link is removed unless
it is a directory, but a link that leads nowhere is not seen to be in the way of a file,
which is then copied through it. Directories are read in sorted order there, where the
code takes what `read_dir` gives: siblings do not interact but through links. Hook
operations work on the same trees; a glob is the set of paths it matches, in sorted
order, all found before anything changes. Every operation fails once an earlier one has
deleted the staging root, which `verify_under_staging` and the walk of a glob look for.

Names are numbers, some of which (`Hides`, `OpaqueName`) stand for whiteouts: `apply`
classifies the last name of an entry before it looks at anything else, so `EntryOf`, the
entry under which a staged path is archived, is a whiteout if the path is named like one.

Modes are data: no call fails because of one. So it is for root, as whom an image or a
system tree is built. For another user a directory whose mode takes away the owner's
`w` or `x` is closed to what comes after it, and `apply_directory` sets the mode before
the children come (apply.rs:292-304). What promises that something succeeds therefore
has open directories as its premise (`AllOpen`, or in `Regular`): the layer loop, the
archive applied again, and a move.

Three oddities are kept as the code has them: the opaque marker of a name with a leading
`./` is not honoured (`dotted`, excluded from the property), `*` also matches the
staging root itself, and the staging root has the mode 0700 of a temporary directory and
keeps it as the target. Left out: ownership, compression, sizes, mke2fs and qemu-img;
refusals by permissions; interpolation, the diff format, and the check that paths stay
inside.

### Stack

A process runs one request, step by step: `CheckTarget`, `ClearTarget`,
`FinishClear` (a removal is seen halfway, `Torn`), `CreateStaging`, `StageLayer`,
`StageHook`, the options, the base of a qcow2, the merge, the temporary file
opened and written, the commit by rename, the mask. Without owner or mode options a
`dir` output takes the fast path, which looks at the target *before* it stages. `Fail`
and `Crash` may come at any step of a process in `Faulty`. A staging directory is removed
with `let _ =` on all paths but the tar output's own: `Removes` lets that fail, at any
`GiveUp` of a process in `Faulty` and after an image was made, and `stuck` records, as
history, which removals failed. The tar output does report a failed removal, after its
rename (tar.rs:58-60), so `CommitFile` has a run that fails, and one that dies, with its
file in place. The target and the
temporary file of tar and qcow2 are shared; a file records whose bytes are in it and
who still has it open, so two writers of one inode are told apart.

### Import

An artifact is the release it was published as, a manifest its contents and the
hash its place in `made`. `Pop` takes the next package of the queue, asks upstream
(npm and pip) and queues the dependencies; `CacheGet`, `Fetch`, `CacheOpen` and
`CacheWrite` are the accesses to the cache, written in place, so that a death between
the last two leaves `Torn` bytes for ever; `Pack` makes layer and manifest,
`PutRefCheck` and `PutRefCommit` the ref. A single import is a closure of one. Two
packings of one release are one layer only on one `day`, since the archive carries
directory times.

Seen on the way, and kept as the code has it: PyPI's requirements are those of the
latest release whatever version is imported (pip.rs:335; `ClosureExact` has it as its
exception); a "latest" deb is cached under that word
for good; torn entries are never removed; a package imported again after its closure
or its day changed is refused by its own ref, and with it the rest of the command.
Not represented: npm's `@a/b` and `a-b` share a name; the cache key leaves out
`--target` and `--dist`; an uncompressed, truncated `data.tar` may unpack.

### Resolver

`Walker::visit` is recursive and awaits its source; here the recursion is `stack`,
a frame per manifest entered and not left, and every question is a step:
`VisitPinned` (a hash, fetched whatever the lock says), `VisitLocked` (a lock entry
that matches is fetched by hash, one that does not is `LockMismatch`),
`VisitListed` then `Fetch` (the highest version listed, then its manifest), `Leave`
(the frame is done, its manifest is put in order), `Settle` (the conflict check).
`Visit` records the hash under the name asked for *before* it looks whether the
manifest was visited, as the code does. `Start` takes the snapshot of the store's
refs that `build_offline_source` takes; the registry stays live, may not answer a
listing (which is then the snapshot's alone) or a fetch (which fails the walk).

Abstractions: the lockfile a walk is given is the table of what `Lockfile::lookup` finds
in it (`Locked`, and `PinFilter` for an update); a name is its alphabetical place; a
`VersionReq` is the set of versions it matches, which already leaves out pre-releases it
does not opt into; chains, URLs and layers of manifests are left out here; a manifest
has one dependency of a name; what is published carries its own name and version. (The
fetch plan is in `Install`, the flattened layer list in `Layers`.)

### Project

A command runs from `Run` to `Stop`, one at a time, and may die (`Crash`) at any
step. `Lock`, `Update`, `Add`, `Remove` resolve without a registry and end in
`WriteToml` (add and remove) and then `WriteLock`; `Install` resolves with
`elu.lock` and the registry and ends in `PutRefs`, a prefix of the refs it has to
put, whole if nothing stops it. `Update` cuts names to what follows the slash, as
the CLI does. `GiveUp` is a resolution that failed, or `--locked` refusing a change;
the flag is read there only. Builds change the store between commands (during one
they are not seen: it has its snapshot); a version is published at any time a
registry is looked at. `made` and `prior` are history: what the lock on disk was
made for and from, and the lock a command started with.

## Runs

| run | instance | states | what it shows |
|---|---|---|---|
| `store` | 2 processes making any calls, an application depending on a base, one layer in two encodings, one ref; symmetric | 550 000 | `LockMatchesCalls`, `FirstWriterWins`, `RootsFrozenDuringGc`, `GcSparesWhole` |
| `install` | three casts of two watch builders of one version, an installer and a keeper that collects, fails and dies; two registries, a dependency pinned under another name | 62 000 | `BuiltVersionHasRef`, `DependencyRefsFirst`, `EveryBuildEnds`, `PublishedBecomesWhole`, `EveryInstallEnds` |
| `registry` | 2 clients, 2 handlers, 2 packages, 4 manifests, 3 sessions, SQL failures | 219 000 | `ImplementsIndex`, `VersionsImmutable`, `ListedLayersPresent`, `AckedPublished`, `OpenedGetsPublished` |
| `project` | 3 packages of 2 versions, one version in two builds, 3 dependency graphs, up to 3 commands | 240 000 | `Resolved`, `DependenciesFirst`, `OneBuildPerPackage`, `LockReproduces`, `UpdateKeepsOthers`, `LockWritten`, `EveryCommandEnds` |
| `stack` | one process stacking layers of 3 entries or running 2 hook operations, or two committing to one target, one of which fails or dies | 59 000 | `StagedIsUnion`, `TargetComplete`, `NoLitter`, `TarIsLayer`, `NoForceKeepsTarget`, `MoveKeepsFiles`, `UserWins` |
| `import` | 2 importing processes, one of which dies, 2 commands, a cycle and a missing dependency, 2 days | 183 000 | `ClosureExact`, `ImportedIsPublished`, `EveryImportEnds` |
| `store_rebound` | as `store` | | `RefNeverRebound` fails |
| `store_repair` | as `store` | | `RepairRemovesOnlyBroken` fails |
| `build_gc` | 1 builder, 1 keeper, nothing fails | | `PublishedWhole` fails |
| `registry_stale` | 1 client | | `PublishedIsRequested` fails |
| `registry_partial` | no SQL failures | | `EntirelyPublished` fails |
| `stack_hook` | 1 process, a library and an application with a hook | | `RootHookRuns` fails |

**What the passing runs show.** In `store`: gc's exclusion works, through any
failure and death, and with it a sweep never breaks a ref that was whole at the
mark, although puts run beside it without a lock and stray files count as roots. One
thing can: a `fsck_repair` that unlinks an index entry of the ref after the mark, for a
put may then write the entry anew, with a blob that the mark did not see. The property
names it.
In `install`: the two calls of a forced ref, without a lock over both, never lose a
version's ref, whatever two watchers do, because each that removes puts again or
finds the other's; no build or install hangs behind a lock whose holder died; an
install never leaves a ref to a package before refs to its dependencies, under whatever
name they are pinned, wherever it dies and whatever is collected beside it, as long as
the versions depended on are not built twice (`PublishedOnce`, a premise: a watch build of
a dependency's version does take its ref to another manifest); and without gc, a ref that is
published over another builder's unfinished index entry becomes whole when that
builder goes on. In `registry`: any number of sessions of a
version may race, and the version has one immutable row, layers that exist, at
most one client told Ok, and no pair of publishers stuck on each other's uploads:
what anyone can see of it is an index in which a publish is one step.
In `project`: a walk that succeeds is complete, whatever is published or stops
answering in between, since two answers for one name are a conflict; it ends on
cyclic dependencies and orders all that is not on a cycle; an install of what the
lock was made for gives the very same manifests or fails, after any builds,
rebuilds and publishes; an update leaves what the packages it names do not lead to; and
a command that dies between
its two files leaves a lock for an earlier `elu.toml`, never one for a list that
was not written. Three of these hold only if every hash pin names a build of the
package it is written for (`Honest`): one build of each package, the reproduction,
and that the lock written passes `verify`. A pin under another name, which nothing
refuses, puts two versions of a package into one resolution, and two entries into
its lock: a later install with that lock, and `verify`, take the first for both. The
instance has such a pin, so that the other properties are checked with it.
In `stack`: the layer loop gives the union its document describes, for every layer
that is `Regular` and `Plain` among the orders of three entries; the target is the
old one or the whole of what one run made, unless two runs share the temporary file
of a tar or an image, or a failure cuts short the removal or the copy of a `--force`; no
operation leaves a place without its directory; without `--force` a directory replaces
nothing but an empty directory, whenever the other run commits; a run that ends leaves
its staging directory behind in two cases only (options refused after the guard was
disarmed, and the user's tree of an image), or if it could not be removed; a tar stacks
to the tree it was made of, if that tree's directories are open and nothing in it is
named as a whiteout; a move into a directory loses nothing; and a merge keeps the user's
files ("files from `user` win", qcow2/mod.rs:134) but where a link comes between: a file
whose path goes through a link of the image, and one whose directory a link of the base
or of the user leads to, which another file of the user may then overwrite.
In `import`: a closure ends on cyclic and missing dependencies and imports exactly what
its package reaches by the dependencies its manifests list, which are those of the
release imported or, for pip, of the latest; and a ref only ever names what upstream
published as that version, in spite of cache entries torn by a death and of another
process that writes the same entry.

**What the violation runs show.** Each is a promise of a document or comment that
the code does not keep, with the line of the code in `PROJECT.json`:

- `RefNeverRebound`: docs/prd/store.md:274 ("written once and never overwritten",
  caught "by comparing the incoming hash to the existing one"). The comparison is
  made before the lock is taken, and the lock is shared between put_refs.
- `RepairRemovesOnlyBroken`: docs/design/store.md:457 ("`gc` and `fsck` take the
  exclusive GC lock"). `fsck_repair` takes none, and acts on an old list.
- `PublishedWhole`: docs/prd/store.md:350 ("hold gc.lock during the whole publish
  of a new ref", "which is what v1 does"). The lock is held for the ref only.
- `PublishedIsRequested`: elu-registry/src/client/publish.rs:19 ("Publish a package
  (already present in `store` ...)"). A commit takes the oldest session of the
  version, also one an earlier attempt left.
- `EntirelyPublished`: docs/prd/registry.md:127 ("either entirely published or
  entirely absent"). Commit does not look for the manifest's blob.
- `RootHookRuns`: elu-stacker's stage.rs:56 ("Hook ops come from the root manifest", "the
  first ResolvedManifest by convention"). The resolver puts dependencies first.

**What the passing properties leave out because the code does otherwise.** Each of these
properties says what holds, and has as a premise or a named case what a document or
comment promises besides and the code does not keep:

- `GcSparesWhole`, no repair of the ref since the mark: `fsck_repair` takes no lock, as
  for `RepairRemovesOnlyBroken`.
- `UpdateKeepsOthers`, only what the named packages do not lead to: elu-resolver's
  lockfile.rs:94 and update.rs:5 have the "transitive deps" of the named packages
  re-resolved. `PinFilter` (lockfile.rs:127) keeps their pins, so they stay, or the
  update fails on them.
- `ClosureExact`, but for pip: docs/prd/importers.md:217 takes dependencies "from the
  wheel's `METADATA`"; pip.rs:335 takes those of the latest release.
- `StagedIsUnion`, `Regular` layers: docs/prd/layers.md:27 has hard links preserved, and
  apply.rs:195 makes nothing of them; layers.md:128 has an opaque directory cleared before
  the layer's entries in it, and `clear_dir_once` clears it when the first direct entry is
  met, deeper ones of the same layer included; a marker written with a leading `./` clears
  nothing.
- `TarIsLayer`, no whiteout names: docs/prd/layers.md:81 has whiteouts "never appear in
  the materialized output"; a hook may write a file of such a name, which is archived and
  taken for a whiteout by whoever applies the archive.
- `NoLitter`, its two cases and `stuck`: docs/prd/outputs.md:33 says "The staging directory
  has been cleaned up".
- `TargetComplete`, no target or a torn one with `--force`: stage.rs:76 says "`target` is
  left untouched" on any error; it is removed first.
- `MoveKeepsFiles`, a destination that is a directory: docs/prd/hooks.md:253 has
  `to = "etc/examples/"`, of which `resolve_in_staging` drops the slash, so that several
  matches are put on one path while the directory does not exist.

**Bounds.** Every interleaving hazard in the store is between two processes, one
in a call and one in another, or in the same; a third adds no new window
(the lock is the only thing three could contend for, and the proofs cover any
number). One layer in two encodings gives the index race; a two-level dependency
gives a mark that must follow a pin, a manifest whose presence decides what the
mark sees, and a layer only the dependency uses. One ref suffices for a conflict
and for a root; strays add roots.

In `install` an application and a library are served by two registries, and two
checkouts build the same version of the application with other manifests, so that an
install meets a ref it did not put, a layer whose entry another process is writing and a
dependency only it brings, pinned under a name that is not its own. `Casts` names who
acts in a behaviour: two watchers and the keeper, a watcher and an installer, an
installer and the keeper; all four at once have too many states, and the theorems about
`Install` cover any number. The keeper and the installer fail and die (`Faulty`), the
builders do not: a builder that dies between `remove_ref` and `put_ref` leaves the
version without its ref, and one that dies between `create_new` and the write leaves the
index entry empty for good; in `store` every process fails and dies.

`MaxSessions` bounds the sessions ever opened, counting begins in flight; three
allow two racing and one stale. It stops the clients in the end, so `registry` is
run without deadlock checking.

In `project` three commands are a lock, a change of it and an install with it.
The graphs are a diamond whose two sides may or may not agree on its bottom, by a
range and by a hash; a cycle through all packages; and a hash under another name.
The versions that appear later are chosen so that the store and the registry
disagree: a newer `c` and a rebuilt one only in the store, newer `a` and `b` only in
the registry. `MaxCommands` ends every behaviour, so deadlock is not checked.

In `stack` the tree has a directory with two files, a file beside it and a link to the
directory. Two entries of a layer interact if one is above, below or through the other,
and a third can see what the first two left: hence sequences of three out of thirteen
kinds, of which the first is below, in or of the directory, or the last makes a file in
it. The base of an image has a link to the directory the user's files are in, and one
that leads nowhere where the user has a file. Two hook operations are the least where
one sees the other's result. The commits are every pair of formats and options that take
different paths through the code, from four initial targets (nothing, empty, another
tree, a file), one of the two processes dying anywhere. A process runs one request and
stops, so deadlock is not checked. In `import`, `MaxCommands` is two: one command meets
what the other left or is leaving. The command that wants `1-1` and the one that wants
the latest share a name and a version number but not a release.

**Fairness.** A process inside a store call runs on (weak fairness of its steps):
the operating system schedules it, and no step before a lock waits for anything. A
process blocked in `flock` gets the lock if it is free again and again (strong
fairness): the kernel wakes its waiters; without it a stream of collections could
starve a put_ref for ever. A build or publish that has begun is continued by its
own process; a handler runs to its end; a commit is taken up if a handler keeps
coming free. A command of `project` or `import` runs on, as a process does: its
requests are answered or fail. An install runs on likewise, under strong fairness
of its steps for the lock it may wait for. `stack` states no liveness: a run of it
is a finite sequence of steps that wait for nothing. No
fairness makes anyone begin a call, a command, a build or a publish, fail or
die, nor starts a collection.

## Proofs

All constants are arbitrary: any number of processes, manifests, blobs, layers
and refs, any dependency graph (cycles included), any clients, handlers and
versions. The assumptions are `StoreAssumption`, `BuildAssumption`,
`InstallAssumption`, `RegistryAssumption`, `ResolverAssumption`,
`ProjectAssumption`, `ImportAssumption` and `StackAssumption`: the signatures of the
functions, what may be at a target at first (nothing, a tree, a whole file), and
that absent values and hashes of different kinds are different things; and
`WhiteoutAssumption`, that the names of whiteouts are names. What a property needs
besides it says itself: `PublishedOnce` is a premise of `DependencyRefsFirst`, `Regular`,
`Plain` and `AllOpen` are of the properties of trees, and `mended` is of `GcSparesWhole`.

| theorem | module | states |
|---|---|---|
| `TypeCorrect` | `StoreProofs` | `Spec => []TypeOK` |
| `FirstWriter` | `StoreProofs` | `Spec => FirstWriterWins` |
| `LockCorrect` | `StoreProofs` | `Spec => []LockMatchesCalls` |
| `RootsFrozen` | `StoreProofs` | `Spec => RootsFrozenDuringGc` |
| `GcSpares` | `StoreProofs` | `Spec => GcSparesWhole` |
| `RegistryTypeCorrect` | `RegistryProofs` | `RegistrySpec => []RegistryTypeOK` |
| `Immutable` | `RegistryProofs` | `RegistrySpec => VersionsImmutable` |
| `LayersPresent` | `RegistryProofs` | `RegistrySpec => []ListedLayersPresent` |
| `AckedStays` | `RegistryProofs` | `RegistrySpec => []AckedPublished` |
| `RegistryImplementsIndex` | `RegistryProofs` | `RegistrySpec => ImplementsIndex` |
| `InstallTypeCorrect` | `InstallProofs` | `InstallSpec => []InstallTypeOK` |
| `InstallUsesStore` | `InstallProofs` | `InstallSpec => Init /\ [][Next]_vars` |
| `InstallLocks` | `InstallProofs` | `InstallSpec => []LockMatchesCalls` |
| `DependenciesFirstOnDisk` | `InstallProofs` | `InstallSpec => []DependencyRefsFirst` |
| `BuiltRefs` | `InstallProofs` | `InstallSpec => []BuiltVersionHasRef`, if `Builder \cap Faulty = {}` |
| `ProjectTypeCorrect` | `ProjectProofs` | `Spec => []ProjectTypeOK` |
| `ResolutionCorrect` | `ProjectProofs` | `Spec => []Resolved` |
| `OrderCorrect` | `ProjectProofs` | `Spec => []DependenciesFirst` |
| `OneBuild` | `ProjectProofs` | `Spec => []OneBuildPerPackage` |
| `UpdateKeeps` | `ProjectProofs` | `Spec => []UpdateKeepsOthers` |
| `LockVerified` | `ProjectProofs` | `Spec => LockWritten` |
| `LockIsReproduced` | `ProjectProofs` | `Spec => []LockReproduces` |
| `ImportTypeCorrect` | `ImportProofs` | `ImportSpec => []ImportTypeOK` |
| `RefsArePublished` | `ImportProofs` | `ImportSpec => []ImportedIsPublished` |
| `ClosuresExact` | `ImportProofs` | `ImportSpec => []ClosureExact` |
| `StackTypeCorrect` | `StackProofs` | `StackSpec => []StackTypeOK` |
| `StagingIsRemoved` | `StackProofs` | `StackSpec => []NoLitter` |
| `TargetIsKept` | `StackProofs` | `StackSpec => NoForceKeepsTarget` |
| `TargetIsWhole` | `StackProofs` | `StackSpec => []TargetComplete` |
| `UsersFilesWin` | `StackProofs` | `StackSpec => UserWins` |
| `TarOutputIsLayer` | `StackProofs` | `StackSpec => []TarIsLayer` |
| `MovesLoseNothing` | `StackProofs` | `StackSpec => MoveKeepsFiles` |
| `LayersAreUnion` | `StackProofs` | `StackSpec => []StagedIsUnion` |

**Store.** `TypeOK` alone is not inductive: `BlobPersist` adds `arg[p]` to `objects`, so
a process inside a call must hold the argument of that call. `TypeInv` adds this per
program location. `LockMatchesCalls` is inductive with `TypeInv`; it gives
`RootsFrozen`, since a step that commits a ref holds the lock shared. `GcSpares` is the
long one. `MarkCoversClosure`: the dependency closure of a ref that is whole lies in the
marked set and is present, because the marked set is closed under the dependencies of
*present* manifests, and every manifest in that closure is present. Hence, at the mark,
nothing such a ref needs is on the lists of the gc (`Spared`). `SweepInv` says that this
stays so until the sweep ends: the ref does not move (the lock), a put adds objects and
removes none, an index entry that names a blob is not changed (`FirstWriter`'s
argument), the scans only shorten the lists, and a repair that unlinks an entry a ref
needs puts the entry into `mended`, with which the premise of the property fails from
then on. The property follows: what is unlinked is on the list, and what the ref needs
is not.

**Registry.** `RegistryInv` adds to the types what ties a client to its handler:
the handler it waits for is busy with a request for the version it publishes, and
no two clients wait for one handler. One lemma, `RegistryStep`, sums up a step: it
keeps all of this, and either leaves the tables of versions alone (`Quiet`) or
inserts one version that was free, with a subset of its session's layers
(`Publishes`), all of them when somebody is told Ok. The three properties are then
one case distinction each; `LayersPresent` also needs `Verified`: at a commit the
layers the handler looked up are still in the backend, which nothing deletes from.

`RegistryImplementsIndex` follows: a `Publishes` step is the abstract publish,
whose blobs are there by `Verified`, and everything else is a stutter or the arrival
of blobs.

**Install.** `ClientInv` is the invariant of the clients: the store's `TypeInv`, the
goals, plans and records of builders and installs, and that none of them repairs
(`NoRepair`). `StoreStep` shows with it that a step of a client is a step of `Store`
or leaves the store alone, so `InstallUsesStore`: a behaviour of `Install` is one of
`Store`, and what is proved of every behaviour of `Store` (`FirstWriter`,
`LockCorrect`, `RootsFrozen`, `GcSpares`) holds of builders and installs.
`DependenciesFirstOnDisk` is about the refs an install leaves behind whenever it
stops; the case without `PublishedOnce` is trivial, and the rest assumes it. `DepInv`
strengthens `DependencyRefsFirst` by what every process in a call
holds: one that puts a ref to a manifest a registry serves has, or is the one
putting, the refs of all its dependencies (`CallInv`, `PlanInv`); a builder that
removes a ref removes its own version's, which no dependency has (`StageInv`). The
ref of a dependency thus goes from absent to its one manifest and stays. A dependency may
be put under its own name or any it is asked for by (`KeysOf`), and `Held` says that one
of these refs leads to it; `OneForKey` that nothing else is put under them. That is what
`PublishedOnce` says, and it is needed: a builder with its own build of the dependency
could put, or force, that ref, and the order would speak of another manifest.

**Builds.** `BuiltRefs` assumes `BuildersEndTheirCalls`: a builder that dies, or gets
an error, between its `remove_ref` and its second `put_ref` does leave its version
without a ref. `BuiltVersionHasRef` speaks of the moments when no build is under way;
`BuiltInv` says what holds in between. A version some builder reported built is
`Covered`: it has its ref, or a builder of that version is on the way to putting the
ref again. An unlink of a ref keeps this true because a builder unlinks only its own
goal's ref (`OwnCall`) and only on that way, and nothing else removes refs; the second
put ends with the ref there, its own or that of another builder.

**Resolver and project files.** `SourceInv` has the types and what a command takes
from its files: every entry of the lock says what is true of its manifest
(`TruePins`, `TrueLock`), and a version is chosen only for a demand that it matches
and that neither a hash nor an entry settles (`Choosing`). `WalkIs` sums up a step:
it visits a manifest that answers the demand (`Found`), fails, chooses, leaves or
settles. `WalkInv` is the invariant of the depth-first walk. What was visited is in
order or on the stack, once (`SplitInv`). What a manifest on the stack needs is met
or still to do, and each leads to all above it (`StackInv`). What a manifest in order
needs is met by one before it or by one that leads to it (`OrderInv`): when a
manifest is put in order nothing is left to do for it, and what meets a demand of it
is in order already or below it on the stack, the only place where a cycle can close.
Every root is met or still queued (`RootInv`), and everything visited was asked for
by somebody (`FoundInv`). At the end the stack and the queue are empty and no name
has two manifests, which turns `OrderInv` into `DependenciesFirst`, and `Found` with
honest pins into `OneBuildPerPackage`; `LockVerified` follows from that. That
`CHOOSE` finds the least name, and the first entry of a lock, is `Least`: a set of
numbers has a least one, by the library's well-founded induction.

`LockReproduces` compares two walks, one of which is long over. A walk is a `Trace`:
it starts with its roots, and each state follows from the one before it and, where it
asks, from the answer (`Follows`). `TraceInv` says that the current walk is a trace
whose answers are those it was given; `MadeInv`, that the lock alone answers every
demand of the walk it was written from, which takes `OneBuildPerPackage` (`LockGives`);
`InstallInv`, that an install has the lock's entries as its pins. Then both walks have
the same roots and never differ in an answer, and `SameEnd` climbs the two traces from
the roots (`Climb`) to the one end they must have.

**Importers.** `TypeInv` says what a process holds at which step: from the look at
the cache to the commit there is a package, and its name is not imported yet; what
it packs is an artifact or torn. `GenuineInv` follows an artifact from upstream to
the ref, through a cache that others write: what an entry of the cache holds, if it
unpacks, was published under the entry's name and version (under its name only, for
the word "latest"), and so was what a process has read, whoever wrote the entry and
died. A manifest says of itself what its artifact is, since `Pack` compares the two,
which gives `RefsArePublished`. `ClosureInv` is the invariant of the queue: what an
imported manifest or the package at hand needs is imported, at hand, queued or
missed, and nothing is queued that is not needed (`Walked`); and what is imported
lies in every set of names that has the root's and is closed under the
dependencies of what is imported (`Connected`). When the queue is empty, this is
`ClosureExact`. What is queued is the result of a loop over a list (`Queued`), about
which `Climb` is used: a set of numbers that has 0 and with each number the next, up
to a bound, has all of them.

**Trees.** `StackTypeOK` says of every staging tree, and of a tree at the target, that
it is one (`IsWhole`): the root is a directory and every other place lies in one, so no
file or link ever has anything below it, whatever is unlinked, renamed, written through
links or replaced, and whichever step of an operation fails halfway. `Trees` is what
makes it inductive: the trees are finite and their links lead to paths (`Grown`), what
is left to do is made of layers and operations that were asked for. `TreeProofs` shows,
one lemma per operation, that each system call, hook operation, layer entry and copied
node takes a `Grown` tree to one: a call whose parent is no directory fails
(`CreateGrown`), a removal takes all that is below (`CutGrown`), a rename carries its
subtree along and nothing is below the place it goes to but what it carried (`MovedIs`,
`MovedBack`, `RenamedGrown`), `create_dir_all` adds places whose directories it adds
too, none of them below a file (`CreateDirAllGrown`). The loops over paths, entries,
matches and trees are recursive functions of the position, so what each step keeps is
kept to the end: `Climb` does this without induction over data. A walk's order is used
by the loops over matches and over a tree to copy: `Lexically` is a total order of paths
(`LexTotal`, `LexTrans`), a finite set of them has a first, and `InOrder` lists each of
the set once (`InOrderIs`).

The assumption is that a request is made of paths in the staging directory, which
`resolve_in_staging` and `sanitize_rel` refuse otherwise, and that a hook's link is not
the staging directory itself. A `symlink` with `replace` at `.` does replace the staging
directory by a link (hooks' symlink.rs:18), and what would come of it is not modelled.

**Stack.** `Shape` and `Where` say what a variable holds and at which step a run can be
with which format, and with which staging directories; with the latter, and with `stuck`
empty until a run ends (`Untried`), `NoLitter` is inductive. `Others` says that a step
is one run's: what the others have at hand, but for the two files, stays as it is.
`TargetIsWhole` needs to know what is committed. `Staging` ties the staging tree to the
request: it is the k-th tree of the loop over the layers, or of the loop over the hook's
operations, and what is left to do is the rest of the list. The loops are recursive
functions of the position; that each has the value its definition gives at every
position is `LoopIs`, for one function of two kinds of steps, and `Flatten` lists layers
that exist (`FlattenIs`). At the commit nothing is left, so the tree is `Staged`. Then
`OutIs` sums up what a step does to the target: it leaves it, clears it, tears it with
`--force`, or is one of the three that change it. `TreeInv` has that a tree there is
what a run stages that has committed or ended, or the old one while nobody has a mask to
apply (a mask keeps all but the modes, `MaskSame`); `TornInv` names the run that tore
it; `FileInv` says what the temporary file holds at each step of the only run that
packs, if there is only one.

**Contents of trees.** Four theorems say what a loop over a tree or over matches makes
of a staging tree; each follows one node through the steps that come after it.
`UsersFilesWin` is about a file or link `q` of the user's tree. While no link of either
tree leads above it, a name that reaches `q` or a place on its path is that place's own
(`StatAlone`), so nothing is written over `q` through a link. The copy walks a tree in
order, a directory before what is in it (`LexPrefix`) and each place once, so what is
put at `q` stays as it is, unless a link stands on its path: then it is the link that
stays (`Arrived`, `CopyTreeArrives`, `MergeArrives`). `TarOutputIsLayer` is a loop over
the entries of an archive that starts from nothing. Up to each position the tree is the
staged one cut down to the paths walked so far; the next entry is new and its directory
is there, for it came first (`Fresh`, `EntryFresh`), and the tree is all of it at the
end (`ArchiveUnpacked`). That every entry is its own path's is the premise that no name
is a whiteout's; `AllOpen` is not used, for modes refuse nothing in the model, and says
when the model is the code. `Rooted` says that the root is there from the look at the
staging directory on: a hook's `delete` can unlink it, and without it there is no
archive. `MovesLoseNothing` is the loop over the matches of a `move`. Moving one beside
the others keeps the contents, leaves every other match in its place, and leaves the
directory where it was, links on the way to it included (`MoveOneBeside`, `BesideIs`,
`MovingStep`); none of the names is taken when its turn comes, because they differ and
none was there. This needs the condition of the property (`SideBySide`) in full: a match
that is a link the way to the directory goes through would take the directory along, and
a dangling link at the place to move to is overwritten though it does not `Exists`. The
prover found both, TLC's hooks do not have them.

`LayersAreUnion` compares two meanings of a layer: the loop over its entries, where what
comes later wins, and the union, which knows no order. `Shows` gives the tree after the
first `i` entries a meaning of the second kind: a path is there if one of them makes it
or needs it as a directory, or if it was there and none of them, and none of the opaque
directories cleared so far, hides it. `EntryStep` takes that from `i` to `i + 1`. A
whiteout, and an opaque directory cleared at the first entry in it, hide only what was
there before, because `Regular` puts every hiding before the making of what it would
hide (`HiddenInTime`); an entry is written, and a directory cleared, where its path says,
because `Plain` keeps links off the way there in the tree below and among what the layer
makes (`WayIsStraight`, `OpaqueIsStraight`, `RemoveIsStraight`); and then each call does
what it does to a straight path (`ReplaceStraight`, `DirectoryStraight`, `UnlinkStraight`,
`ClearStraight`) and never fails. After all entries `Shows` is `Union` (`UnionIs`,
`LayerIsUnion`), `LaidUnion` climbs the layers, and `Unfolding` ties the tree of a run of
any format to them: until its hook has run the tree is the k-th of the loops; and a run
that gives up with layers left, though no call of it fails, had a layer to refuse. The
first form of the property was wrong: it held of TLC's layers, but a whiteout may remove a
file through a link of a layer below, where the union hides nothing, and an entry may
be a file at the root itself. `Regular` and `Plain` now speak of both.

**Only model-checked**: the liveness properties (`EveryBuildEnds`,
`PublishedBecomesWhole`, `EveryInstallEnds`, `OpenedGetsPublished`,
`EveryCommandEnds`, `EveryImportEnds`), which rest on fairness and are out of the
prover's reach. The violations are TLC's counterexamples.

## Plan

Done: the store, builders and installers; the registry's publish protocol and the
index it implements; the resolver and the project files; layers, hooks, outputs and
stacking; the importers. Left, in this order:

1. `Project` with two commands at once, whose temporary files have the same names.
2. The debounce loop of `build --watch`, with `Build`'s `StartBuild` as its effect.
3. The reads of the registry: the filtered list in two holds of the mutex, the
   client's chain of registries for lists and searches.
4. An abstract store with an atomic collection that keeps exactly what whole refs
   need, and `Store` shown to implement it while no repair runs.
5. Proofs: what `RunOp` promises operation by operation, as `MovesLoseNothing` does
   for a move, on the straight paths of `TreeProofs`.

## Not modelled

- **Registry reads.** Handlers of one or two statements that change nothing. What
  they mean for a client is in `Resolver` (a list may be missing, a fetch may fail)
  and `Install` (each registry of the chain may be down). Two things are known and
  listed as hazards: the filtered list looks for private versions in one hold of the
  mutex and lists in another (db/sqlite.rs:731), and the check of private
  dependencies is made at begin only (server/publish.rs:63).
- **Manifest, authoring checks, command line.** Conversions of one document, checks
  of one source tree, arguments and printing: no state that outlives the call and
  nobody beside it.
- **The watch loop.** Which events come, how many and when is the choice of the
  operating system and of the notify crate; what a rebuild does is `Build`.
- **Formats.** tar, zstd, qcow2, wheel and deb bytes, canonical JSON, globbing,
  hashing, HTTP transport, printing. Where it matters whether bytes are whole, they
  are `Torn` or not.
- **Permissions.** What a user other than root is refused because of a mode; see
  `AllOpen` above.

# A TLA+ model of oci-packer

oci-packer packs files and directories into OCI artifacts, copies artifacts
between registries and local OCI layouts, deletes images from a layout, mounts
unpacked images as overlays, extracts artifacts and runs a caching registry
proxy. This directory holds TLA+ modules that model the parts of it that are
hard to test, the TLC configurations that check them on small instances, and
proofs of their main theorems that TLAPS checks.

## 1. Inventory

| Component | Source | State | Operations | What is hard | Modelled |
|---|---|---|---|---|---|
| Budget | `internal/parallel/budget.go` | slots in use, claimed digests with their outcomes, first genuine failure | `Each`, `Slot`, `Once`, `Record`, `Cause` | goroutines that wait for slots, for keys and for each other; error selection | yes |
| Copy walk | `pkg/registry/copy.go` | one goroutine per reached child, its path, its errgroup | `Copy`, `copy`, `walk`, `fetch`, `copyDescriptor` | shared and repeated children, cancellation, a lying source | all but `SelectPlatform` |
| OCI layout | `pkg/registry/oci-layout` | `oci-layout`, `index.json`, the file or directory of each blob | `New`, `Open`, `Push`, `SetTag`, `Delete`, `LayerDirs`, `Resolve` | partial blobs, reuse of what is found, garbage collection, tags that shadow each other | all that changes it |
| Layout commands | `cmd/copy.go`, `delete.go`, `mount.go`, `umount.go` | one process each; the layout's lock; the mount table | open, lock, copy, tag, delete, mount, umount | several processes, crashes, steps outside the lock | all but flags and `list` |
| Pack | `builder.go`, `pusher.go`, `handlers.go`, `pack.go`, `cmd/root.go` | members under construction, the budget of the run, the downloads kept on disk | validate, build, push blobs, manifests and index, mount, tag | uploads that meet in `Once` while they hold slots; positions filled concurrently | all but `destination` and annotations |
| Remote client | `pkg/registry/remote/client.go` | one repository's blobs, manifests and tag (external) | `Exists`, `Push`, `MountFrom`, `SetTag`, `FetchReference` | two endpoints for one digest, a refused mount that falls back to an upload of everything below | all but authentication, the catalogue, fallback URLs |
| Proxy | `pkg/http/proxy` | cache entries by tag, platform and title | `ServeHTTP`, `fetch`, `Get`, `Set` | concurrent misses, stale tags, platforms | yes |
| Extract | `pkg/extract` | the directory extracted into, its pack file | `Extract`, `List`, `Descriptors` | two parts with one name, images below artifacts, a pack file that packs again | all but `--image-config` and untitled layers |
| Overlay | `pkg/overlay`, `cmd/mount.go`, `cmd/umount.go` | the host's mount table | mount, tmpfs, bind, units, umount | symlinks in the image, a failure after the first mount, stacked mounts | all but unit texts and the empty lower directory |
| References | `pkg/registry/reference` | none | `Parse`, `ParseItem`, `ParseFile`, `String`, `Merge` | ambiguous strings | all but URLs and schemes |
| HTTP download | `pkg/http` | a file kept under its path | `ResponseToFile` | a leftover that looks finished | inside Pack |
| Start-up, logging, version, test registry | `main.go`, `internal/...` | none | | | no |

How they meet: `copy` resolves its source, opens or creates its destination
(`New`), takes the destination's lock if it is a layout, runs `registry.Copy`
from one `Fetcher` to one `Pusher` under a `Budget`, then sets the tag. `delete`
takes the same lock, computes what only the victim reaches, looks into
`/proc/mounts`, writes the trimmed index and removes the orphans. `mount` reads
the index and the layer directories and takes no lock. `pack` runs its downloads
and its uploads under one `Budget`, to remote registries only, and what it
pushes goes through the remote client. `extract` and the proxy read what `pack`
made, the proxy by its own fetcher or by `extract`'s list of files.

What each part has to get right: the budget never exceeds its limit, never
leaks a slot and never deadlocks; a digest has one worker; children land before
their parent; the failure that ended a run is the one reported; nothing runs
after `Copy` returned; whatever a tag reaches is stored whole whoever copies,
deletes, mounts or dies; a tag moves only by a command that names it; nothing
unneeded stays; a mounted layer stays; every command ends. A pack's tag names
the pack file's artifact in the pack file's order; nothing is mounted outside
the target and a umount takes down everything; the proxy answers with what its
upstream has offered; what was packed extracts to where it was and packs again
to the same; a printed reference reads as itself.

## 2. Modules

| Module | Models | Uses |
|---|---|---|
| `Budget` | the budget's state, one operator per critical section | |
| `CopyWalk` | `registry.Copy`: every goroutine of the walk | extends `Budget`, instantiates `Transfer` |
| `Transfer` | what `Copy` promises, without goroutines | |
| `LayoutStore` | a layout on disk and what one call does to it | |
| `LayoutCommands` | copy, delete and mount processes that meet on a layout | extends `LayoutStore` |
| `RemoteClient` | the client's calls as lists of requests, and the registry behind them | |
| `Pack` | a pack from validation to tag: every goroutine | extends `Budget`, `RemoteClient` |
| `MountStack` | mount, umount and the mount table | |
| `Artifacts` | what a packed artifact is and which of its parts are its own files | |
| `Extract` | what packing makes of files, and the extract command file by file | extends `Artifacts` |
| `Fetcher` | the two ways the proxy reads descriptors | extends `Artifacts` |
| `Proxy` | concurrent requests, the cache, tags that move | |
| `Reference` | parsing and printing references | |
| `Reading` | a command that takes a reference | extends `Reference` |
| `Readers` | proxy, extract and the commands that take a reference | extends `Proxy`, `Fetcher`, `Extract`, `Reading` |
| `CopyWalkProofs` | the theorems of the walk: types, the inductive invariant, how it ends, that it implements `Transfer` | extends `CopyWalk` |
| `Induction` | least counterexamples, minima, flattened sequences: what the proofs need where they cannot cite an induction theorem | |
| `LayoutProofs` | the theorems of the layout | extends `LayoutCommands`, `Induction` |
| `PackProofs` | types of the pack, the shapes of its steps, who runs while others wait | extends `Pack`, `Induction` |
| `PackSafety` | the theorems of the pack | extends `PackProofs` |
| `MountProofs` | the theorems of the mounts | extends `MountStack`, `Induction` |
| `ReaderProofs` | the theorems of the references, the proxy and its fetchers | extends `Readers`, `Induction` |
| `ExtractProofs` | the round trip of packing, and the theorems of extract | extends `ReaderProofs` |
| `MCCopyWalk`, `MCLayout`, `MCPack`, `MCMountStack`, `MCReaders` | small instances for TLC | |

A definition marked `slip` stands for a plausible bug in the definition after
it. No specification uses one; each is named in `PROJECT.json` beside the
property that finds the bug when it takes that definition's place.

### Budget and CopyWalk

An actor is a call of `copier.copy`. It is named by the route that led to it:
the sequence of (position, digest) links from the root, of which all but the
last are what the code carries as `*ancestors`. A digest with several parents,
or listed twice by one manifest, is reached along several routes, and which of
them walks it is what `Once` decides. `pc` says where a call is:

| `pc` | the call is |
|---|---|
| `copy` | before `ctx.Err()` at copy.go:137 |
| `wait` | in the select of `Once` (budget.go:162-169) |
| `fetchCheck`, `fetchQueue`, `fetch` | in `Slot` for a manifest: at `ctx.Err()`, in the select, in the request |
| `children` | in `Each`, waiting for its group or in its loop |
| `pushCheck`, `pushQueue`, `push` | in `Slot` for the transfer |
| `settle` | about to record and publish its outcome (budget.go:177) |
| `return`, `done` | about to return to `Each`, and returned |

`res` is the error a call returns and `group` the first error its errgroup saw:
a call is cancelled when a group above it has one or the caller has cancelled.
Errors are told apart as `Record` tells them: success, the two context errors,
and a genuine failure per digest. The destination is a set of digests, since
`copyDescriptor` treats one pushed now and one found there alike; it starts as
any set, which covers the copy that resumes. A source answers a digest with
honest content or with something else (`Honest`), and requests fail, time out or
notice their cancelled context (`TransferErrors`).

`ImplementsTransfer` is the refinement: `dst` is the abstract destination, and
the outcome is `running` until the root call is done.

### LayoutStore and LayoutCommands

The path of a digest holds nothing, a whole or partial file, or a whole or
partial directory. `index.json` is replaced atomically (`atomic.WriteFile`) and
so is one assignment; reading it and writing it are two steps, as in `SetTag`
and `Delete`. A process is a command with its tag, digest and mode; it goes
through `New`/`Open`, the lock, and then its own steps. Creating a layout is
a look for the marker and three writes outside the lock (`StatMarker`,
`BeginMarker`, `CreateMarker`, `CreateIndex`): `os.WriteFile` empties the marker
before it fills it, so the marker is absent, cut short or whole. Opening one
reads the marker (`Validate`), then the index (`OpenIndex`). An operation on the
marker, the index, the lock, a document or a mount may return an error, which
ends the command (`GiveUp`); a command that ends in the middle of `New`, in this
way or killed, is `unmade`, and what it left stays. The
copy inside is abstract: at most `Parallel` digests at a time, each after its
children, which is what `ImplementsTransfer` says of `CopyWalk`; a digest that is there is
taken as it is (`Exists`), one of the wrong kind is in the way
(`PushObstructed`). A delete removes a directory in two steps, as `RemoveAll`
empties it first. A killed process runs no deferred call and loses its lock. What a tag
reaches is `Visited`: the least set closed under references, as the
collector's loop computes it.

### RemoteClient and Pack

A client call is a list of requests still to be made (`Push`, `Mount`); `Serve`
gives the registry's answer to the first and the requests it leads to: a `head`
that misses leads to an upload, a mount that is granted ends, one that is
refused walks the image and pushes what it finds, children first. Content is its
own address, so a digest is the tree it stands for. The registry takes a
manifest whether or not its parts are there; that it is never given one too
early is a property (`LandsOnTop`), not a guard.

The actors of `Pack` are its goroutines: `Root`, one `ItemOf(n)` per item while
the sources are resolved, one member per manifest and one `Part` per config and
layer. `Root` goes through `validate`, `build`, `index` (or one member's
`layers`), and the tag; a manifest or an index goes through `commit` when all it
refers to has been pushed. An actor starts when its parent fans out, waits in
`queue` for a slot, and with the slot in hand claims its digest (`once`),
waits for another's outcome (`wait`) or works its requests off one at a time;
`settle` publishes, `release` gives the slot back. `Return` writes a
descriptor into the actor's own position of its parent's list. `FailItem` is a
source that cannot be opened, a directory whose walk fails, a download that
fails or times out or a context found cancelled (`ItemErrors`); a leftover of
the right size is kept as the download (`Kept`). A request that is not answered
in time (`MayTimeOut`) ends in a `DeadlineExceeded`, which `Record` skips, for
downloads, uploads, mounts and the tag alike.
Config names, annotations and manifest timestamps are left out. `cmd.Context()`
is never cancelled (no signal handler), so there is no action for it.

### MountStack

`table` is the mount table in the order things were mounted; a mount is hidden
by a later one on its path or above it. A mount command is `overlay`, then
`resolve` (`ResolveAutoTmpfs`, which reads the image's tree through its
symlinks), then one tmpfs or bind per step, each checked by `EnsureWithin`. Any
mkdir and any mount(2) of it may fail, whatever the image (`OverlayFails`,
`StackFails`), and it leaves what it has mounted. A umount reads the table
once (`MountedUnder`) and takes down the deepest target it has left, over and
over; what it cannot take down, because something is mounted or at work in it
or its path is hidden, it counts and goes on; other errors of umount(2) are not
modelled, since no document says what umount makes of them. A process may enter a
visible mount and keep it busy. `PersistentSpec` is `mount --persistent`:
systemd starts the units the command wrote.

### Proxy, Fetcher and Readers

A request is `lookup`, `resolve` (HEAD), `read` (GET and the fetcher), `store`
(one `Set` a step, because every layer read goes into the cache), and `serve`.
`now[t]` says how far a tag has moved along its `History`; it moves between any
two of these steps. How layers are read is a parameter of `Proxy`, which is why
its theorems hold of any fetcher; `Fetcher` gives the program's two.

### Artifacts, Extract, Reference and Readers

`Artifacts` has the shapes of what is packed and, in `KindOf` and `List`, which
of its parts are an artifact's own files. `Build` is what packing makes of a
tree of files, from `fileHandler` and `walkDirHandler`, with the configs of the
pack and of its items, or its refusal (`Refused`). Items are files, directories
and images; a download makes the layer a file of its base name would make.

`extract` is one goroutine that recurses; `jobs` is what the recursion has still
to do, first things first. An `artifact` job takes a directory for an artifact
it has not met before and is replaced by the jobs of its parts, with the write
of the pack file behind them (`OpenArtifact`); a `member` job is replaced by the
files of a built member, by an `artifact` job, or by nothing (`TakeMember`); a
`write` job writes one file, unless its path leaves the directory
(`WriteBlob`). Any of them may fail and end the command, and a write may leave
part of its file (`GiveUp`). `disk` is what is written, by directory and path.
The command starts in an empty directory; a directory is a name, so one whose
name puts it inside another's is not modelled.

`Parse`, `ParseItem` and `ParseFile` cut a text, a sequence of words and marks,
and yield the references it stands for: one or none. `Readers` runs each command
once on an artifact or a text, next to the proxy, and its properties compare
with independent definitions: where a file has to be (`InPlace`), what packing
the extracted tree yields (`Rebuilt`), what a printed reference reads as.

## 3. Runs

| Run | Shows | Distinct states |
|---|---|---|
| `copy_shared` | the safety properties of the walk, its end and the refinement of `Transfer`: an index of two manifests that share their blobs in opposite orders, limit 2, three digests that may fail | 221371 |
| `copy_sequential` | the inductive invariants and the end, sequential (`-j 0` clamped): a referrer with a repeated layer and a subject, beside it a source that answers with a loop; the caller may cancel, anything may fail or time out | 13684 |
| `layout_tar` | two copies and a delete meet on a tar layout, with crashes and faults: the invariant of the proofs, tagged content, tags, and that commands end | 63863 |
| `layout_unpack` | a copy makes an unpack layout; a mount, another copy and two deletes meet on it, without faults: tagged and mounted content, what is incomplete, what is left over | 12415 |
| `layout_mixed` | two first copies ask for two modes and overwrite each other's index; one may fail at any operation, those of `New` included: what is incomplete, and layouts that cannot be opened | 2212 |
| `pack_index` | nine pack files, limit 2, five digests requests for which may be refused and two for which they may time out, directory walks that may fail: the invariant of the proofs, what is tagged, what is reported, one upload per digest, slots, order of arrival, and the end | 59933 |
| `mounts` | two mount commands, umounts, lazy or not, and a busy process on six images, where any mount may fail: nothing outside the target, the top layer shows, nothing left behind | 123339 |
| `readers` | proxy requests over moving tags; extract, file by file, on seven artifacts; some 800 texts read, printed and cut | 111896 |
| `layout_killed_copy`, `layout_moved_tag`, `mount_units`, `extract_twins` | disagreements, section 5 | |

Bounds, and why they are enough.

- The walk's hazards need a digest with two routes, a group with two children,
  fewer slots than calls and a failure beside a waiter: the shared index has all
  four, and limit 2 is the smallest that fans out. Limits 0 and 1, the order of
  a sequential copy and a digest that is among its own descendants are what the
  second graph has.
- The layout's hazards need two images that share a layer, an index over both,
  two writers and a collector; one tag each is enough because a tag is only
  compared. `Parallel` is 2 where two writes have to overlap and 1 in the
  counterexamples.
- The packs: a file that shares its blob with a mounted image, two items with
  the same bytes, a directory with a download an earlier run has left, an empty
  directory, a file that cannot be read in two places, a platform, a scheme and
  a config that do not pass. Two slots, so that a claimer and a waiter hold all
  there are.
- The mounts: an image of one layer, one with links inside its tree, one with a
  link out of the target above a volatile path and one above a bind, one without
  the directories, one with a layer too many; `MaxMounts` is 2, the smallest
  number that stacks.
- The proxy: two clients, two tags that move once each, one from a manifest to
  an index, eight questions with and without a platform, and both fetchers.
- Extract: files and a directory with a config; files for two platforms; items
  with configs of their own; images next to files; a pack of plain files; one that mounts these, directly and
  through another; one with a file outside its directory. Each may break off at
  every job.
- References: every combination of ten beginnings, seven names and twelve ends,
  among them digests, ports, dots, a bare host, and forms no parser takes.

Nothing is counted without end, so no state constraint is needed. Deadlock is
checked in the runs of the walk, the layout and the pack, where `Finished` or
`AllEnded` is the only step of a system that is through. It is not in `mounts`,
`mount_units`, `readers` and `extract_twins`: there the commands of an instance
are used up and the system stops.

Fairness. `CopyWalk!FairSpec` and `Pack!FairSpec` assume weak fairness of the
walk or the pack as a whole: the Go scheduler runs some goroutine that can run,
and a request in flight is answered, if only by an error. That the caller
cancels or a transfer fails is never assumed. `LayoutCommands!FairSpec` assumes
that the operating system runs each process that can move, killed ones
excepted, and that a lock that is free is taken; nobody is assumed to unmount.
`MountStack!FairSpec` assumes that a mount command comes to its end, that a
process leaves a mount in the end, and that somebody goes on calling umount,
which is what `BareInTheEnd` is about. The readers have no liveness property.

Faults are where the code can meet them: in `layout_tar` a copy and a delete may
be killed and may fail at any operation, in `layout_mixed` a copy may fail, from
the first write of the marker on. An error of the `os.Stat` that `New` begins
with is an absent marker to it, so it is no case of its own. In `layout_unpack`
nothing does, because `UnfinishedIsInHand` and `NothingLeaks` say what holds of
commands that run to their end, and the crash cases of unpack mode are findings.
There a delete of the mounted image begins once the mount is up or over, which
is what docs/mount.md:247-249 promises. In `pack_index` any request about five
digests may be refused, any about two may time out (the empty config and the
download, so that both kinds of actor see it), any directory walk and any
download may fail; in `mounts` any mkdir and mount of a mount command may; in `readers` the upstream may fail to answer and extract may
fail at any file.

`Transparent` compares a hit with what the upstream offers to the same question.
It exempts the request that names no platform where the artifact wants one: such
a request is turned down as long as the cache is cold and served once somebody
has asked with a platform, which follows from what `Set` stores and no document
speaks of.

## 4. Proofs

### The walk

`CopyWalkProofs` proves, for every descriptor graph, every limit, every set of
failing, timing-out and dishonest digests and every initial destination, all the
safety properties the runs of the walk check:

| Theorem | States |
|---|---|
| `TypeCorrect` | `Spec => []TypeOK` |
| `InvariantHolds` | `Spec => []WalkInvariant` |
| `OneOwner` | `Spec => []OneOwnerPerDigest` |
| `SettledSubtrees` | `Spec => []SettledIsComplete` |
| `ParentsLast` | `Spec => ChildrenFirst` |
| `EndsWell` | `Spec => []ReturnInvariant` |
| `SlotsCount` | `Spec => []SlotsAreTransfers` |
| `NothingRunsOn` | `Spec => []NothingLeftRunning` |
| `LoopsAreNotWalked` | `Spec => []LoopCheckIsDead` |
| `FailuresAreReported` | `MayTimeOut = {} => (Spec => []ReportsTheFailure)` |
| `CopyKeepsItsPromise` | `Spec => ImplementsTransfer` |

The condition of `FailuresAreReported` is needed: `MCCopyWalkTimeout.cfg` is
its counterexample without it.

The assumptions are those of the modules: `Concurrency` is an integer, a blob
has no children, `Children` is a function into sequences of digests. Nothing is
assumed of the graph's shape: a dishonest source may describe a loop.

`SettledIsComplete` is not inductive: that a settled digest's references are
settled needs that its owner waited for them, which needs what a group or a
loop knows of its children. `WalkInvariant` adds

- `CallsFormATree`: a call's caller exists and has read its manifest, so the
  calls a step makes are new;
- `EldersSucceeded` (sequential) and `GroupKnows` (parallel): which outcomes of
  the children a caller may rely on when it joins them;
- `CallsRelyOnOutcomes`: what a call that is pushing, settling or has returned
  without error has established.

A step either moves one call (`Moved`) or adds children of one call
(`Spawned`); this is proved once, in `StepMoves`, and the parts that speak of
the tree and the groups follow from it. Only the steps that claim and settle
touch a task (`StepsOfOwners`), from which ownership and the finality of
outcomes follow. `CallKeepsRelying` goes through the actions one by one.

The end of the walk needs a second invariant. That nothing runs once the root has
returned is not inductive, and an induction over the depth of the call tree is
not available; `AncestorsWait` says it for every ancestor of a call at once: a
call that is not done has all its ancestors in `copyAll`. It is kept because a
call leaves `copyAll` only when all its children are done (`JoinsLast`), and the
child on the way to a call that is not done would itself be waiting. The dead
loop check follows: an ancestor with the same digest is in `copyAll`, so it owns
the digest, and owners are unique. `ErrorsClimb` says likewise that above an
error of a finished call everyone still waits or has an error too, which with
`FailureIsSomebodys` gives that a recorded failure fails the root;
`ErrorsHaveCause` says where a cancellation can come from. `SlotsCount` counts
the holders with the library's facts on cardinality: each step changes them by
at most the call that takes it (`HoldersStep`).

For the refinement, `FinishPush` lands a digest (`PushLands`: its references are
settled, and settled digests are in the destination), the root's `Return` ends
the copy (`RootReturns`: the settled digests are a part of the destination that
holds the root and is closed under references), and everything else stutters.

TLC checks `WalkInvariant`, which includes `TypeOK`, and `ReturnInvariant` as
well.

### The layout

`LayoutProofs` proves, for every content, every set of commands, every order
their beginnings are tied to and every instant at which they may be killed:

| Theorem | States | On condition that |
|---|---|---|
| `LayoutTypes` | `Spec => []TypeOK` | |
| `HalfMadeIsUnmade` | `Spec => []UnopenableIsUnmade` | |
| `LayoutHolds` | `Spec => []LayoutInvariant` | |
| `TaggedStaysWhole` | `Spec => []TaggedIsWhole` | one mode; and it is tar, or nobody is killed and no delete fails |
| `UnfinishedStaysInHand` | `Spec => []UnfinishedIsInHand` | one mode; nobody is killed and no delete fails |
| `NothingIsLeft` | `Spec => []NothingLeaks` | the layout exists, no faults, no subjects |
| `MountedStaysWhole` | `Spec => []MountedIsWhole` | one mode, nobody is killed and no delete fails, and deletes of a mounted image wait for the mount |
| `TagsAreKept` | `Spec => OnlyNamedTagsMove` | the layout exists, no digest is given two tags |
| `CopiesResolve` | `Spec => CopiedTagResolves` | no tag is used for two digests |

The conditions are named (`OneMode`, `Undisturbed`, `AllGoesWell`,
`DeletesWaitForMounts`) and are needed. `layout_killed_copy` and
`MCLayoutBrokenDelete.cfg` are counterexamples to `TaggedIsWhole` in unpack mode
where a copy is killed or a delete fails. In the instance of `layout_mixed`,
where copies that make the layout ask for different modes, `TaggedIsWhole` fails
too: one copy's index names another's blobs, stored the other way.
`MCLayoutCreateRace.cfg` shows why `NothingIsLeft` wants a layout that exists
(an index that is overwritten leaks what it named), and `MCLayoutSubject.cfg`
why it excludes subjects. `MCLayoutCreateRace.cfg` and
`MCLayoutSecondTag.cfg` are what the two conditions of `TagsAreKept` exclude,
and `layout_moved_tag` what that of `CopiesResolve` does; crashes and faults are
excluded by neither.

`TaggedIsWhole` is not inductive. `LayoutInvariant` says why it holds:

- `LockIsHeld`, `Begun`, `Holding`: whoever is past `lock` and has not released
  it is the one holder, so blobs and index change by one command at a time
  (`WhoTouchesBlobs`), and what a command has read of either is still so;
- `CopyIsWhole`: what a copy has landed is stored whole and has all it refers to
  landed as well, so when the root has landed, the least closed set around it
  has (`LandedIsAll`, by `VisitedInside`), which is what tagging needs;
- `PartialIsWorkedOn`: an incomplete blob is in the hands of the lock's holder,
  so a copy that finds a blob finds it whole (`FoundIsWhole`);
- `SnapshotIsWhole`: a delete's garbage has nothing in common with what the
  other tags reach in the index it read;
- `BlobsFit`, `ModesAgree`, `OpsMatch`, `IndexesAreRead`: a blob is stored the
  way the mode asks for, and a process's program counter, mode and snapshot
  belong together.

In tar mode a blob appears under its name only when it is whole, so the
argument does not need anybody to survive. `NothingIsLeft` rests on
`NeededOrInHand` (a blob is reached by a tag, or landed by a copy that will tag
it, or in the garbage of a delete that will remove it), `MountedStaysWhole` on
`MountsHold` (a mounted image's layers are in nobody's garbage, since a delete
reads the table after the mount is there). `TagsAreKept` and `CopiesResolve`
need no more than `EntriesAreWritten` (every entry of the index, and of what a
process has read of it, is one some command writes or the layout began with) and
`SnapshotIsCurrent` (what a process is about to replace the index by still has
the tags it does not name, because it holds the lock). Because `EntryOf` takes the least
position of a tag, `MinIsIn` (in `Induction`) shows that the least of a set of numbers is in it,
from the library's fact that `<` is well-founded. `layout_tar` checks
`LayoutInvariant` with TLC too.

### The proxy and its fetchers

`ReaderProofs` proves `ProxyTypesHold` (`Spec => []TypeOK`),
`AnswersAreOffersHolds` (`Spec => []AnswersAreOffers`) and `TransparentHolds`
(`Spec => []Transparent`) for any tags, histories, questions and number of
clients, and any fetcher that reads nothing the artifacts it was given do not
have (`FetcherAssumption`) and, of one artifact, all that is there unless it
refuses the question (`CompleteAssumption`). An answer comes out of the cache or
out of a read, so the invariant needs both: `CacheIsRight` (what is stored under
a key has been offered by that tag to those who ask for no platform) and
`RequestIsRight` (what a request carries from step to step has been offered by
its tag to its platform). The key is one to one, so a hit belongs to the tag and
title that were asked for. For `Transparent`, `CacheInvariant` adds what is known
of a request that will answer "not found": all of one version was read, and none
of it had the title.

The two assumptions are discharged for the program's two fetchers:
`FetchersReadWhatIsThere` and `FetchersReadAllThereIs` prove them of
`defaultFetcher` and of extract's `Descriptors`, for all artifacts and
questions, where TLC evaluates them for those of the run.

### Extract

`ExtractProofs` proves, for the artifact that is asked for and every one mounted
below it, for all trees, pack files and artifacts:

| Theorem | States |
|---|---|
| `FilesInPlaceHolds` | if all artifacts are `Apart`: `ReadersSpec => []FilesInPlace` |
| `RoundTrip` | what was packed, extracted and packed again is the same |
| `RebuildsItselfHolds` | if all artifacts are `Apart` and `AllPacked`: `ReadersSpec => []RebuildsItself` |

*The round trip* is about packing alone. `RoundTrip` takes a tree that holds
what extract writes of `Build(pack, tree)` and nothing else (`TreeIs`): packed by
the pack file in it, it gives that artifact. Its condition `WellPacked` names
what such a pack file needs: a packed directory has files in it; what is mounted
is not of the kind that holds files; packing does not refuse it; no item has a
config of its own, which extract takes for an image (section 5); and, where one
manifest is all there is, no directory is packed twice (the pack file extract
writes would name it once) and the config is there. Layers are a flattened
sequence of sequences, for which `FlattenSeqIs` gives the recurrence and
`FlattenBoth`, `FlattenFirst` and `FlattenOnes` what follows. `PackOfBuilt` shows, item by item, that the items
read off the layers are the items packed, its files renamed to where they were
put; `SameLayers`, that each then has its layers again: a file because it was
written under its title, a directory because every path in it is deeper than a
file, the config or the pack file can be, so that what lies there is what lay
there (`DeeperIsAsItWas`).

*The command.* Artifacts are `Apart` if, of each that is opened, what has the
same path has the same content and none of it is at the path of the pack file,
and no two of them are given one directory. They are `AllPacked` if each that is
opened came from packing some tree. The artifacts of `readers` are apart, and
all but the one with configs of items are packed in this sense; the one that
`extract_twins` adds is not apart, and is the counterexample to
`FilesInPlace` without the condition. Which artifacts are mounted below, `Below`,
is the least set closed under mounting, since reachability cannot be defined by
recursion here; `Apart` asks that there is one, and that layers are sequences.

`Extraction` is the inductive invariant. Of each open directory it says
(`Underway`): every layer of its artifact, the config and the pack file included,
is stored or some job will write it (`Waits`: the write itself, or the member
that holds it); a job in the directory writes one of those (`AllBelong`), so
nothing else can get at a layer's path, and no other path is ever written
(`NothingElse`); no job is behind the one for the pack file (`PackIsLast`); so
when the pack file is there everything is, and nothing in the directory is left
to do (`PackMeansAll`), whatever fails afterwards. Of the whole it says that jobs
and files are in open directories only (`AllHome`, `DiskIsHome`) and that what is
opened, and what is still to be, is below the root (`SeenIsOpened`, `AllKnown`):
a directory that is opened is therefore new, and empty of jobs and of files.
Jobs are replaced at the front of a sequence; `PlacedInstead` says once where
each goes. A directory with a whole pack file is then a tree as `RoundTrip` asks
for (`TreeIsThere`): `NothingElse` is what `FilesInPlace` did not need, since a
stray file in a packed directory would become a layer.

### The references

`ReaderProofs` also proves, for every text over any words and every file path:

| Theorem | States |
|---|---|
| `PrintedIsParsedHolds` | `ReadSpec => []PrintedIsParsed` |
| `FilesAreCutOffHolds` | `ReadSpec => []FilesAreCutOff` |
| `ItemsStayInTheRegistryHolds` | `ReadSpec => []ItemsStayInTheRegistry` |

`ReadSpec` leaves open what commands that read no reference do;
`CommandsAreOnTheirOwn` (`ReadersSpec => Spec /\ ReadSpec`) carries this, and what
is proved of the proxy, over to the composition that TLC runs. The argument is
about where a text is cut: what `Parse` accepts determines host, repository and
tag, `String` puts them together again, and the first cut that is found in the
result is the one they came from. `PrintedIsParsed` exempts references whose tag
merely looks like a digest (section 5), and `FilesAreCutOff` has paths outside
the artifact or with an empty segment refused.

### The mounts

`MountProofs` proves, for every image, every number of layers, every list of
binds and volatile paths, any number of mounts and of busy processes:

| Theorem | States |
|---|---|
| `MountTypesHold` | `Spec => []TypeOK` |
| `StaysWithinHolds` | `Spec => []StaysWithin` |
| `TopLayerWinsHolds` | `Spec => []TopLayerWins` |
| `RemovedMeansBareHolds` | `Spec => []RemovedMeansBare` |
| `FailureHasACauseHolds` | `Spec => FailureHasACause` |

`MountInvariant` adds to the types and `StaysWithin` that an overlay's lower
directories are the image's, top layer first (`LayersInOrder`), and that, unless
a mount command was at work meanwhile, the targets a umount has left match what
is mounted (`UmountIsAlone`). `DeepestIsBare` is why an umount in the order of
depth succeeds: what is on a deepest target and not hidden carries nothing.
`FailureHasACause` names what else may keep it from it: a mount command that was
at work, a process in a mount without `--lazy`, a mount that hides another.

### The pack

`PackProofs` and `PackSafety` prove, for every set of pack files, every limit,
every state of the disk, every set of digests requests for which are refused or
time out and every answer the registry gives to a mount, all the safety properties `pack_index` checks:

| Theorem | States |
|---|---|
| `PackHolds` | `Spec => []PackInvariant` |
| `PackSlots` | `Spec => []SlotsAreHeld` |
| `PackUploads` | `Spec => []OneUploadPerDigest` |
| `PackLands` | `Spec => LandsOnTop` |
| `PackTags` | `Spec => []TaggedIsThePack` |
| `PackReports` | `Spec => []ReportsTheFailure` |

Beyond the modules' assumptions they suppose `ContentAddressed`: `Digests` has
the digest of whatever is made of digests, as a hash has. TLC's finite `Digests`
holds the artifacts its packs can make instead.

The model has two dozen kinds of step, and few shapes of them. A step moves one
actor, fans its children out, starts the next of them, or lets the parent of
children that are done go on (`Moved`, `FannedOut`, `Continued`, `Joined`;
`StepsAreShaped`). `Control` follows from the shapes alone, apart from the types:
items, members and parts run only while the pack or the member they belong to
waits for them (`Nested`), none has begun before that (`NotBegun`), and where
they run one after the other the elder ones have succeeded (`EldersAreDone`).
Everything else rests on it:

- `HeldSlots` and `Alone` count: a step changes the holders, and the uploaders of
  a digest, by at most the actor that takes it, and the claim in `Once` is what
  lets an actor in.
- What an actor works on must not change under its hands: downloads are over
  when members begin, and a list is written by children while their parent
  waits, so a target stays the same (`TargetStays`).
- `Landing`: whoever submits a manifest has joined parts that have all succeeded
  (`PartsAreDone`, from what groups and loops know), what has succeeded is in the
  registry and in its place in the list (`SuccessIsThere`), and a pending request
  has its parts there or asked for earlier by the same actor (`RequestsLand`),
  which is what a refused mount's walk through an image has to keep to.
- `TagFollows` and `MemberIsPacked`: with every position filled by its own
  child, the target of the pack is the artifact a sequential pack would make.
- `Blame`: an error stays with somebody whose parent waits or has an error too
  (`ErrorsClimb`), so a recorded failure fails the pack; as long as none is
  recorded and nothing has timed out nobody is cancelled (`CancelsHaveCause`). A
  timeout stays and climbs as well (`TimeoutStays`), so a pack that succeeds had
  none.

`ReportsTheFailure` says how far the report goes: docs/pack.md:73-74 to the
letter, that a cancellation is never what a pack reports, is
`NeverTheCancellation`, and a timeout breaks it (section 5).

The flattening of the items into one manifest is a recursive function; that it
is a sequence of files is proved with a least counterexample (`LeastExists` and
`FlatExists` of `Induction`), since the induction theorems cannot be used.

### Only model-checked

The liveness properties: `Termination` (of the copy walk and of the pack),
`EveryCommandEnds` and `BareInTheEnd`, which depend on fairness. Every other
property that a passing run checks is stated by a theorem.

## 5. Where code and documents disagree

Four runs end with a counterexample, quoted in `PROJECT.json`:

- `layout_killed_copy`: a copy killed while extracting leaves a directory the
  next copy takes for the finished layer.
- `layout_moved_tag`: a new image under an existing tag is shadowed by the old.
- `mount_units`: for a single-layer image, `mount --persistent` writes a unit
  with one lower directory, which overlayfs refuses; `mount` itself adds an
  empty one.
- `extract_twins`: files of one base name for two platforms extract to one file.

Seven further configurations are kept beside them, to be run by hand
(`tlc -config X.cfg M`); each ends with a counterexample to the one property it
names:

- `MCCopyWalkTimeout.cfg` (`ReportsTheFailure`): a dial timeout satisfies
  `errors.Is(err, DeadlineExceeded)`, so `Record` skips it and the copy reports
  `context canceled`.
- `MCPackTimeout.cfg` (`NeverTheCancellation`): the same in a pack, where it is an
  upload or a download that times out; docs/pack.md:73-74 has it report "the
  failure itself rather than the cancellation it set off".
- `MCExtractEmpty.cfg` (`RebuildsItself`): a pack of nothing but an empty
  directory extracts to a pack file without items, which packing refuses;
  README.md:577 calls what extract writes "the directory that would rebuild it".
- `MCLayoutBrokenDelete.cfg` (`TaggedIsWhole`): a delete whose `RemoveAll` fails
  half-way leaves a directory that a later copy takes for the layer.
- `MCLayoutCreateRace.cfg` (`OnlyNamedTagsMove`): the layout is created outside
  the lock, and a second first copy can overwrite a tagged index with an empty
  one.
- `MCLayoutSecondTag.cfg` (`OnlyNamedTagsMove`): a manifest has one entry, so
  tagging it again drops the first tag.
- `MCLayoutSubject.cfg` (`SubjectsKept`): garbage collection does not follow
  `subject`, `copy` does.

Observations that are not runs, because no document clearly says otherwise:

- Layout. A copy killed between beginning `oci-layout` and writing `index.json`,
  or one of whose writes there fails, leaves a directory that can neither be
  opened nor initialised. A mount that is made after a delete has read the
  mount table loses its layers (docs/mount.md:247-249 grants it, although the
  help text of `delete` says "never").
- Walk. The loop check at copy.go:146-148 cannot fire, as its comment expects,
  but not only because of the digest check: whoever reaches a digest on its own
  path finds it claimed and waits before `walk` looks at the path, so without
  the digest check the copy would hang all the same (`LoopsAreNotWalked` proves
  it).
- Pack. The branch for an `oci` layer at pusher.go:168-171 is dead, as an item
  of that kind is always a member of its own. Two images that share a blob and
  whose mounts are refused upload it twice, mounts being outside `Once`
  (docs/pack.md:69-71 has every blob uploaded once). A config `from` validates as
  a directory or URL, though `pushFile` takes files only, and an s3 item
  validates without a handler. A download left by an earlier run is kept if its
  size is right. `SetTag` reads a manifest from `/blobs`, which the comment at
  client.go:358-360 says does not serve one. Items fetched over HTTP get no
  title, so `extract` does not list them.
- Mounts. Stacked mounts need as many umounts. The first umount of a stacked
  single-layer mount removes the empty lower directory the mount below still
  uses. A umount with a relative path matches nothing in the table. Persistent
  mode checks no bind against the target. A failed mount leaves the overlay up.
- Proxy. A cached answer outlives the tag it was read for; `Del` is called by
  nothing. A request with a platform never hits, because answers are stored
  without one. Of two layers with one title a miss serves the first and a hit
  the last. Where a tag moves from a manifest to an index between HEAD and GET,
  the body decodes to nothing and the answer is 404. The older of two concurrent
  answers may be the one that stays.
- Extract. `List` returns files in the artifact's order, not "the order of their
  paths" (file.go:47). A name with `..` anywhere inside is refused, so items that
  were packed from an absolute or a parent directory do not extract. Files of a
  `dir://./` item meet the pack file, layers titled `config.json` or `pack.yaml`
  are overwritten, an empty directory of an index is lost, a packed member with
  a config of its own is taken for an image: it is mounted and its files are not
  written; and the files of a mounted manifest
  without a name go into its parent's directory.
- References. `IsLayout` of a text and of a parsed reference differ for
  `oci://localhost`, and `ParseItem` refuses a repository whose first segment
  has a dot. A tag that begins like a digest and is none is printed with `@` and
  refused when it is read again. A file path with an empty segment (`a//b`) is
  refused, though the path it stands for is inside.

## 6. Not modelled

- `SelectPlatform` (copy.go:219-244) and `destination` (cmd/root.go:134-152):
  choices made once, before anything runs.
- Annotations, media types, timestamps and names of manifests beyond those
  extract reads; the decoding of the pack file; text and names of systemd units.
- Authentication, the catalogue, token refresh, retries and URLs of the HTTP
  transport; the tar format: libraries, or strings joined.
- `list`, flags, logging, start-up and version, which read and print.
- Layouts other tools have made, and registries that drop content while a
  command runs: no document promises anything there.
- `extract --image-config` and layers without a title.

## 7. What is left

A pack without goroutines that `Pack` implements as `CopyWalk` does `Transfer`;
that every artifact `Pack` pushes is `WellPacked`, so that pack and extract have
one theorem; and `url.go` beside `Reference`.

--------------------------- MODULE LayoutCommands ---------------------------
(***************************************************************************)
(* The commands that meet on one layout directory, each a process of its   *)
(* own: copy into it, delete from it, mount and umount an image of it      *)
(* (cmd/copy.go, cmd/delete.go, cmd/mount.go, cmd/umount.go).  Copy and    *)
(* delete take the layout's advisory lock; creating the layout and         *)
(* mounting do not.  Reads and writes may fail, and a process may be       *)
(* killed between any two steps: its deferred clean-up does not run, the   *)
(* kernel drops its lock, and the disk stays as it is.  Slips are as in    *)
(* LayoutStore.                                                            *)
(***************************************************************************)
EXTENDS LayoutStore, FiniteSets

CONSTANTS
  Procs,        \* the processes
  Command,      \* what each runs: [op, tag, digest, mode]
  Subject,      \* the subject of a manifest, as a set of at most one digest
  Seeded,       \* TRUE: the layout exists, as copies without faults made it
  SeedIndex,    \* its index, when it does
  MayCrash,     \* processes that may be killed
  MayFault,     \* processes whose reads and writes may fail
  Parallel,     \* -j of the copies
  After,        \* processes that are run once these ended, or hold a mount
  Nobody

ASSUME CommandAssumption ==
  /\ Nobody \notin Procs
  /\ MayCrash \subseteq Procs /\ MayFault \subseteq Procs
  /\ Seeded \in BOOLEAN
  /\ Parallel \in Nat \ {0}
  /\ After \in [Procs -> SUBSET Procs]
  /\ Subject \in [Digests -> SUBSET Digests]
  /\ \A p \in Procs : /\ Command[p].op \in {"copy", "delete", "mount"}
                      /\ Command[p].digest \in Digests
                      /\ Command[p].mode \in Modes

(* An index as New and SetTag leave it, with the tags the commands know.   *)
Tags    == {Command[p].tag : p \in Procs} \cup TagsOf(SeedIndex)
Entries == Seq([tag : Tags, digest : Digests])
IndexStates == [mode : Modes \cup {"none"}, entries : Entries]
ASSUME SeedAssumption == Seeded => SeedIndex \in [mode : Modes, entries : Entries]

VARIABLES
  lock,         \* who holds index.lock
  pc,
  mode,         \* l.unpack of a process's handle, fixed when it is opened
  snapshot,     \* the index a process read and is about to act on
  landed,       \* digests a copy found or wrote
  writing,      \* digests a copy is writing now
  failed,       \* digests whose transfer failed, which ends a copy
  garbage,      \* orphans a delete has still to remove
  lowers        \* lower directories a mount resolved, then holds mounted

locals == <<mode, snapshot, landed, writing, failed, garbage, lowers>>
vars   == <<marker, index, blobs, lock, pc, locals>>

Op(p)   == Command[p].op
Tag(p)  == Command[p].tag
Root(p) == Command[p].digest

(* What Copy walks, unlike collectBlobs, takes a manifest's subject along. *)
Walked(d) == References[d] \cup Subject[d]
CopySet   == Visited([d \in Digests |-> Walked(d)])

Steps == {"start", "create", "marker", "createIndex", "open", "openIndex", "lock",
          "copying", "readIndex", "tag", "collect", "trim", "remove", "resolve",
          "mount", "mounted", "done", "failed", "killed", "unmade"}
Ended == {"done", "failed", "killed", "unmade"}

(* New has begun to write the marker and not yet written the index.  A     *)
(* command that ends there, by an error or killed, is told apart from the  *)
(* others that failed or were killed: "unmade".                            *)
Making == {"marker", "createIndex"}
Live(p) == pc[p] \notin Ended
Mounted == {p \in Procs : pc[p] = "mounted"}

(* ------------------------------------------------------------------------ *)
Seed == Reachable(SeedIndex.entries)

Init ==
  /\ marker = IF Seeded THEN "whole" ELSE "none"
  /\ index = IF Seeded THEN SeedIndex ELSE NoIndex
  /\ blobs = [d \in Digests |->
                IF Seeded /\ d \in Seed THEN StoredAs(d, SeedIndex.mode) ELSE "absent"]
  /\ lock = Nobody
  /\ pc = [p \in Procs |-> "start"]
  /\ mode = [p \in Procs |-> Command[p].mode]
  /\ snapshot = [p \in Procs |-> NoIndex]
  /\ landed = [p \in Procs |-> {}]
  /\ writing = [p \in Procs |-> {}]
  /\ failed = [p \in Procs |-> {}]
  /\ garbage = [p \in Procs |-> {}]
  /\ lowers = [p \in Procs |-> {}]

Goto(p, step) == pc' = [pc EXCEPT ![p] = step]

(* A command that fails exits; the kernel releases the lock it held.       *)
ExitLocked(p, step) == Goto(p, step) /\ UNCHANGED lock    \* slip: no release
Exit(p, step) == /\ Goto(p, step)
                 /\ lock' = IF lock = p THEN Nobody ELSE lock

-----------------------------------------------------------------------------
(* New and Open.  New looks for the marker and creates a layout, or opens  *)
(* the one it found; nothing of it happens under the lock.  os.WriteFile   *)
(* cuts a marker that is there off before it writes it.                    *)

MayStart(p) == /\ pc[p] = "start"
               /\ \A q \in After[p] : ~Live(q) \/ pc[q] = "mounted"

StatMarker(p) ==
  /\ MayStart(p) /\ Op(p) = "copy"
  /\ Goto(p, IF marker = "none" THEN "create" ELSE "open")
  /\ UNCHANGED <<disk, lock, locals>>

BeginMarker(p) ==
  /\ pc[p] = "create"
  /\ marker' = "part"
  /\ Goto(p, "marker")
  /\ UNCHANGED <<index, blobs, lock, locals>>

CreateMarkerOnly(p) ==                      \* slip: writeIndex is not called
  /\ pc[p] = "marker"
  /\ marker' = "whole"
  /\ Goto(p, "lock")
  /\ UNCHANGED <<index, blobs, lock, locals>>

CreateMarker(p) ==
  /\ pc[p] = "marker"
  /\ marker' = "whole"
  /\ Goto(p, "createIndex")
  /\ UNCHANGED <<index, blobs, lock, locals>>

CreateIndex(p) ==
  /\ pc[p] = "createIndex"
  /\ index' = [mode |-> mode[p], entries |-> << >>]
  /\ Goto(p, "lock")
  /\ UNCHANGED <<marker, blobs, lock, locals>>

Validate(p) ==
  /\ pc[p] = "open" \/ (MayStart(p) /\ Op(p) # "copy")
  /\ Goto(p, IF marker = "whole" THEN "openIndex" ELSE "failed")
  /\ UNCHANGED <<disk, lock, locals>>

(* A mount resolves its image next, a delete and a copy take the lock.     *)
OpenIndex(p) ==
  /\ pc[p] = "openIndex"
  /\ IF index = NoIndex
     THEN Goto(p, "failed") /\ UNCHANGED mode
     ELSE /\ mode' = [mode EXCEPT ![p] = index.mode]
          /\ Goto(p, IF Op(p) = "mount" THEN "resolve" ELSE "lock")
  /\ UNCHANGED <<disk, lock, snapshot, landed, writing, failed, garbage, lowers>>

LockAnyway(p) ==                            \* slip: index.lock is not waited for
  /\ pc[p] = "lock"
  /\ lock' = p
  /\ Goto(p, IF Op(p) = "copy" THEN "copying" ELSE "readIndex")
  /\ UNCHANGED <<disk, locals>>

Lock(p) ==
  /\ pc[p] = "lock" /\ lock = Nobody
  /\ lock' = p
  /\ Goto(p, IF Op(p) = "copy" THEN "copying" ELSE "readIndex")
  /\ UNCHANGED <<disk, locals>>

-----------------------------------------------------------------------------
(* registry.Copy into the layout: children first, at most Parallel writes  *)
(* at a time.  CopyWalk shows that the walk is such a transfer.            *)

ReadyForAny(p, d) ==                        \* slip: the walk leaves its artifact
  /\ pc[p] = "copying"
  /\ d \in Digests \ (landed[p] \cup writing[p] \cup failed[p])
  /\ Walked(d) \subseteq landed[p]
  /\ Cardinality(writing[p]) < Parallel

Ready(p, d) ==
  /\ pc[p] = "copying"
  /\ d \in CopySet[Root(p)] \ (landed[p] \cup writing[p] \cup failed[p])
  /\ Walked(d) \subseteq landed[p]
  /\ Cardinality(writing[p]) < Parallel

PushExisting(p, d) ==
  /\ Ready(p, d) /\ Exists(d, mode[p])
  /\ landed' = [landed EXCEPT ![p] = @ \cup {d}]
  /\ UNCHANGED <<disk, lock, pc, mode, snapshot, writing, failed, garbage, lowers>>

PushStart(p, d) ==
  /\ Ready(p, d) /\ ~Exists(d, mode[p]) /\ ~Obstructed(d, mode[p])
  /\ blobs' = [blobs EXCEPT ![d] = Unfinished(d, mode[p])]
  /\ writing' = [writing EXCEPT ![p] = @ \cup {d}]
  /\ UNCHANGED <<marker, index, lock, pc, mode, snapshot, landed, failed, garbage, lowers>>

PushObstructed(p, d) ==
  /\ Ready(p, d) /\ ~Exists(d, mode[p]) /\ Obstructed(d, mode[p])
  /\ blobs' = [blobs EXCEPT ![d] = AfterObstruction(d, mode[p])]
  /\ failed' = [failed EXCEPT ![p] = @ \cup {d}]
  /\ UNCHANGED <<marker, index, lock, pc, mode, snapshot, landed, writing, garbage, lowers>>

(* The source does not answer, or the document is not what it should be.   *)
SourceFails(p, d) ==
  /\ Ready(p, d) /\ p \in MayFault
  /\ failed' = [failed EXCEPT ![p] = @ \cup {d}]
  /\ UNCHANGED <<disk, lock, pc, mode, snapshot, landed, writing, garbage, lowers>>

(* What somebody else removed meanwhile does not come back.                *)
PushFinish(p, d) ==
  /\ pc[p] = "copying" /\ d \in writing[p]
  /\ blobs' = [blobs EXCEPT ![d] = IF @ = Unfinished(d, mode[p])
                                   THEN StoredAs(d, mode[p]) ELSE @]
  /\ writing' = [writing EXCEPT ![p] = @ \ {d}]
  /\ landed' = [landed EXCEPT ![p] = @ \cup {d}]
  /\ UNCHANGED <<marker, index, lock, pc, mode, snapshot, failed, garbage, lowers>>

(* An error, or the cancellation another transfer's error set off.  Then   *)
(* comes the deferred removal of unpackLayer and writeBlob.                *)
PushAbandon(p, d) ==                        \* slip: the deferred removal is missing
  /\ pc[p] = "copying" /\ d \in writing[p]
  /\ p \in MayFault \/ failed[p] # {}
  /\ writing' = [writing EXCEPT ![p] = @ \ {d}]
  /\ failed' = [failed EXCEPT ![p] = @ \cup {d}]
  /\ UNCHANGED <<disk, lock, pc, mode, snapshot, landed, garbage, lowers>>

PushFail(p, d) ==
  /\ pc[p] = "copying" /\ d \in writing[p]
  /\ p \in MayFault \/ failed[p] # {}
  /\ blobs' = [blobs EXCEPT ![d] = "absent"]
  /\ writing' = [writing EXCEPT ![p] = @ \ {d}]
  /\ failed' = [failed EXCEPT ![p] = @ \cup {d}]
  /\ UNCHANGED <<marker, index, lock, pc, mode, snapshot, landed, garbage, lowers>>

CopyFailed(p) ==
  /\ pc[p] = "copying" /\ failed[p] # {} /\ writing[p] = {}
  /\ Exit(p, "failed")
  /\ UNCHANGED <<disk, locals>>

CopyDone(p) ==
  /\ pc[p] = "copying" /\ Root(p) \in landed[p]
  /\ Goto(p, "readIndex")
  /\ UNCHANGED <<disk, lock, locals>>

-----------------------------------------------------------------------------
(* The index is read, then written: in SetTag for a copy, in Delete for a  *)
(* delete.                                                                 *)

ReadIndex(p) ==
  /\ pc[p] = "readIndex"
  /\ IF index = NoIndex THEN Exit(p, "failed")
     ELSE /\ Goto(p, IF Op(p) = "copy" THEN "tag" ELSE "collect")
          /\ UNCHANGED lock
  /\ snapshot' = [snapshot EXCEPT ![p] = index]
  /\ UNCHANGED <<disk, mode, landed, writing, failed, garbage, lowers>>

WriteTag(p) ==
  /\ pc[p] = "tag"
  /\ index' = WithTag(snapshot[p], Tag(p), Root(p))
  /\ Exit(p, "done")
  /\ UNCHANGED <<marker, blobs, locals>>

(* Delete gives up on a tag it does not find and on a document it cannot   *)
(* read, and on an orphan that is mounted.                                 *)
MountedLayers == UNION {lowers[p] : p \in Mounted}

DeletableMounted(p) ==                      \* slip: mounts are not looked at
  Tagged(snapshot[p], Tag(p)) /\ Collectable(snapshot[p])

Deletable(p) ==
  /\ Tagged(snapshot[p], Tag(p))
  /\ Collectable(snapshot[p])
  /\ mode[p] = "unpack" => Orphans(snapshot[p], Tag(p)) \cap MountedLayers = {}

Collect(p) ==
  /\ pc[p] = "collect"
  /\ IF Deletable(p)
     THEN /\ garbage' = [garbage EXCEPT ![p] = Orphans(snapshot[p], Tag(p))]
          /\ Goto(p, "trim") /\ UNCHANGED lock
     ELSE Exit(p, "failed") /\ UNCHANGED garbage
  /\ UNCHANGED <<disk, mode, snapshot, landed, writing, failed, lowers>>

TrimIndex(p) ==
  /\ pc[p] = "trim"
  /\ index' = WithoutEntry(snapshot[p], Tag(p))
  /\ Goto(p, "remove")
  /\ UNCHANGED <<marker, blobs, lock, locals>>

(* RemoveAll empties a directory before it goes; a file goes at once.      *)
RemoveOnce(p, d) ==                         \* slip: one pass over a directory
  /\ pc[p] = "remove" /\ d \in garbage[p]
  /\ blobs' = [blobs EXCEPT ![d] = IF @ = "dir" THEN "partDir" ELSE "absent"]
  /\ garbage' = [garbage EXCEPT ![p] = @ \ {d}]
  /\ UNCHANGED <<marker, index, lock, pc, mode, snapshot, landed, writing, failed, lowers>>

RemoveBlob(p, d) ==
  /\ pc[p] = "remove" /\ d \in garbage[p]
  /\ IF blobs[d] = "dir"
     THEN blobs' = [blobs EXCEPT ![d] = "partDir"] /\ UNCHANGED garbage
     ELSE /\ blobs' = [blobs EXCEPT ![d] = "absent"]
          /\ garbage' = [garbage EXCEPT ![p] = @ \ {d}]
  /\ UNCHANGED <<marker, index, lock, pc, mode, snapshot, landed, writing, failed, lowers>>

(* An orphan that cannot be removed is logged and left behind.             *)
RemoveFails(p, d) ==
  /\ pc[p] = "remove" /\ d \in garbage[p] /\ p \in MayFault
  /\ garbage' = [garbage EXCEPT ![p] = @ \ {d}]
  /\ UNCHANGED <<disk, lock, pc, mode, snapshot, landed, writing, failed, lowers>>

DeleteDone(p) ==
  /\ pc[p] = "remove" /\ garbage[p] = {}
  /\ Exit(p, "done")
  /\ UNCHANGED <<disk, locals>>

-----------------------------------------------------------------------------
(* mount: the layer directories are looked up, then handed to the kernel.  *)

LayersOf(m) == References[m] \cap Layers

(* An index is resolved to the manifest of the host's platform.            *)
Selected(d) == IF d \in Indexes THEN References[d] ELSE {d}

Mountable(p, m) ==
  /\ mode[p] = "unpack"
  /\ \A d \in {Target(index, Tag(p)), m} : blobs[d] = "file"
  /\ \A d \in LayersOf(m) : blobs[d] \in Directories

LayerDirs(p) ==
  /\ pc[p] = "resolve"
  /\ IF Tagged(index, Tag(p))
     THEN \E m \in Selected(Target(index, Tag(p))) :
            IF Mountable(p, m)
            THEN lowers' = [lowers EXCEPT ![p] = LayersOf(m)] /\ Goto(p, "mount")
            ELSE Goto(p, "failed") /\ UNCHANGED lowers
     ELSE Goto(p, "failed") /\ UNCHANGED lowers
  /\ UNCHANGED <<disk, lock, mode, snapshot, landed, writing, failed, garbage>>

Mount(p) ==
  /\ pc[p] = "mount"
  /\ Goto(p, IF \A d \in lowers[p] : blobs[d] \in Directories THEN "mounted" ELSE "failed")
  /\ UNCHANGED <<disk, lock, locals>>

(* A mount outlives its command, until umount.                             *)
Unmount(p) ==
  /\ pc[p] = "mounted"
  /\ Goto(p, "done")
  /\ UNCHANGED <<disk, lock, locals>>

-----------------------------------------------------------------------------
(* What can go wrong with a command at any of its steps.                   *)

Kill(p) ==
  /\ p \in MayCrash /\ Live(p) /\ pc[p] \notin {"start", "mounted"}
  /\ Exit(p, IF pc[p] \in Making THEN "unmade" ELSE "killed")
  /\ UNCHANGED <<disk, locals>>

(* Where an operation on the marker, the index, the lock, a document or a  *)
(* mount may fail, which ends the command; the actions above have the      *)
(* failures on blobs.  An error of os.Stat is what New takes for absence.  *)
Fallible == Making \cup {"create", "open", "openIndex", "lock", "readIndex", "tag",
                        "collect", "trim", "resolve", "mount"}

GiveUp(p) ==
  /\ p \in MayFault /\ pc[p] \in Fallible
  /\ Exit(p, IF pc[p] \in Making THEN "unmade" ELSE "failed")
  /\ UNCHANGED <<disk, locals>>

Break(p) == Kill(p) \/ GiveUp(p)

Step(p) ==
  \/ StatMarker(p) \/ BeginMarker(p) \/ CreateMarker(p) \/ CreateIndex(p)
  \/ Validate(p) \/ OpenIndex(p) \/ Lock(p)
  \/ \E d \in Digests : \/ PushExisting(p, d) \/ PushStart(p, d)
                        \/ PushObstructed(p, d) \/ SourceFails(p, d)
                        \/ PushFinish(p, d) \/ PushFail(p, d)
                        \/ RemoveBlob(p, d) \/ RemoveFails(p, d)
  \/ CopyFailed(p) \/ CopyDone(p)
  \/ ReadIndex(p) \/ WriteTag(p)
  \/ Collect(p) \/ TrimIndex(p) \/ DeleteDone(p)
  \/ LayerDirs(p) \/ Mount(p) \/ Unmount(p)

AllEnded == (\A p \in Procs : ~Live(p)) /\ UNCHANGED vars

Next == (\E p \in Procs : Step(p) \/ Break(p)) \/ AllEnded

Spec == Init /\ [][Next]_vars

(* The operating system runs every process; nobody promises an umount.     *)
FairSpec == Spec /\ \A p \in Procs : WF_vars(Step(p) /\ ~Unmount(p))

-----------------------------------------------------------------------------
(* Properties.                                                             *)

TypeOK ==
  /\ marker \in Markers
  /\ index \in IndexStates /\ snapshot \in [Procs -> IndexStates]
  /\ blobs \in [Digests -> BlobStates]
  /\ lock \in Procs \cup {Nobody}
  /\ pc \in [Procs -> Steps] /\ mode \in [Procs -> Modes]
  /\ landed \in [Procs -> SUBSET Digests] /\ writing \in [Procs -> SUBSET Digests]
  /\ failed \in [Procs -> SUBSET Digests] /\ garbage \in [Procs -> SUBSET Digests]
  /\ lowers \in [Procs -> SUBSET Digests]
  /\ \A p \in Procs : landed[p] \cup writing[p] \cup failed[p] \subseteq CopySet[Root(p)]

(* A tag never points at content that is missing or incomplete             *)
(* (docs/copy.md:54-55, docs/delete.md:69-71): whatever an index entry     *)
(* reaches is stored whole, whoever is copying or deleting meanwhile.      *)
TaggedIsWhole ==
  \A d \in Reachable(index.entries) : Whole(d, index.mode)

(* "A blob is removed only when no surviving index entry references it"    *)
(* (docs/delete.md:60-61), with the references registry.Copy follows.      *)
SubjectsKept ==
  \A i \in 1 .. Len(index.entries) :
    \A d \in CopySet[index.entries[i].digest] : blobs[d] # "absent"

(* The partially written blob or half-extracted layer directory of a       *)
(* failed copy is removed (docs/copy.md:61-62): what is incomplete has a   *)
(* process that is working on it.                                          *)
UnfinishedIsInHand ==
  \A d \in Digests :
    blobs[d] \in {"partFile", "partDir"} =>
      \E p \in Procs : Live(p) /\ d \in writing[p] \cup garbage[p]

(* "Every blob reachable only from it is garbage-collected" (delete.go:    *)
(* 32-35): when all is done the layout holds what its tags reach and no    *)
(* more.                                                                   *)
NothingLeaks ==
  (\A p \in Procs : ~Live(p)) =>
    \A d \in Digests : blobs[d] # "absent" => d \in Reachable(index.entries)

(* "The two index writers cannot clobber each other" (lock.go:24-28): a    *)
(* tag is lost or moved only by a command that names it.                   *)
Moves(t) == ~(Tagged(index', t) /\ Target(index', t) = Target(index, t))
OnlyNamedTagsMove ==
  [][\A t \in TagsOf(index) : Moves(t) =>
       \E p \in Procs : Tag(p) = t /\ pc[p] \in {"tag", "trim"} /\ pc'[p] # pc[p]]_vars

(* After a copy its destination's tag resolves to what was copied          *)
(* (docs/delete.md:33-35).                                                 *)
CopiedTagResolves ==
  [][\A p \in Procs : pc[p] = "tag" /\ pc'[p] = "done" =>
       Tagged(index', Tag(p)) /\ Target(index', Tag(p)) = Root(p)]_vars

(* A layer that is mounted is there, all of it, as long as it is mounted   *)
(* (cmd/delete.go:40-42, docs/delete.md:75-78).                            *)
MountedIsWhole ==
  \A p \in Mounted : \A d \in lowers[p] : blobs[d] = "dir"

(* A layout somebody has begun to make can be opened, unless New is at     *)
(* work on it or a command ended in the middle of New, by an error of a    *)
(* write or killed (layout.go:119-155): then the marker may stay behind    *)
(* without an index, or cut short, and nothing else can bring that about.  *)
UnopenableIsUnmade ==
  marker # "none" /\ ~Openable => \E p \in Procs : pc[p] \in Making \cup {"unmade"}

-----------------------------------------------------------------------------
(* What keeps tagged content whole, as an inductive invariant.             *)

(* The mode of a layout is the one it was made with, if whoever may make   *)
(* it asks for the same.                                                   *)
OneMode == ~Seeded => \E m \in Modes : \A p \in Procs : Op(p) = "copy" => Command[p].mode = m
LayoutMode ==
  IF Seeded THEN SeedIndex.mode
  ELSE CHOOSE m \in Modes : \A p \in Procs : Op(p) = "copy" => Command[p].mode = m

(* No command is killed, and no delete fails to remove what it has begun   *)
(* to remove.                                                              *)
Undisturbed == MayCrash = {} /\ \A p \in MayFault : Op(p) # "delete"

Begun   == Making \cup {"start", "create", "open", "openIndex", "lock"}
Holding == {"copying", "readIndex", "tag", "collect", "trim", "remove"}

OpsMatch ==
  \A p \in Procs :
    /\ pc[p] \in Making \cup {"create", "copying", "tag"} => Op(p) = "copy"
    /\ pc[p] \in {"collect", "trim", "remove"} => Op(p) = "delete"
    /\ pc[p] \in {"lock", "readIndex"} => Op(p) # "mount"

(* Whoever writes an index back has read one.                              *)
IndexesAreRead ==
  /\ index = NoIndex \/ index.mode \in Modes
  /\ \A p \in Procs : pc[p] \in {"tag", "collect", "trim"} => snapshot[p].mode \in Modes

(* A handle's mode is the layout's (layout.go: New, Open).                 *)
ModesAgree ==
  /\ index = NoIndex \/ index.mode = LayoutMode
  /\ Seeded => marker = "whole" /\ index.mode = LayoutMode
  /\ \A p \in Procs :
       /\ Seeded => pc[p] \notin Making \cup {"create"}
       /\ pc[p] = "start" => mode[p] = Command[p].mode
       /\ pc[p] \in Making \cup {"create", "lock"} \cup Holding => mode[p] = LayoutMode
       /\ pc[p] \in {"tag", "collect", "trim"} => snapshot[p].mode = LayoutMode

(* Whoever reads the index to write it, or touches a blob, has the lock.   *)
LockIsHeld == \A p \in Procs : pc[p] \in Holding => lock = p

BlobsFit ==
  \A d \in Digests : blobs[d] \in {"absent", StoredAs(d, LayoutMode), Unfinished(d, LayoutMode)}

(* What a copy has landed is whole, and closed under what Copy walks.      *)
CopyIsWhole ==
  \A p \in Procs :
    /\ pc[p] \in Begun => landed[p] \cup writing[p] = {}
    /\ pc[p] \in {"copying", "readIndex", "tag"} /\ Op(p) = "copy" =>
         /\ \A d \in landed[p] : Whole(d, LayoutMode) /\ Walked(d) \subseteq landed[p]
         /\ pc[p] # "copying" => Root(p) \in landed[p]
    /\ pc[p] = "copying" =>
         \A d \in writing[p] :
           blobs[d] = Unfinished(d, LayoutMode) /\ Walked(d) \subseteq landed[p]

(* What a command is about to write back was whole when it read it, and    *)
(* what a delete is about to remove is not needed.                         *)
SnapshotIsWhole ==
  \A p \in Procs :
    /\ pc[p] \in {"tag", "collect", "trim"} =>
         \A d \in Reachable(snapshot[p].entries) : Whole(d, LayoutMode)
    /\ pc[p] = "trim" =>
         garbage[p] \cap Reachable(WithoutEntry(snapshot[p], Tag(p)).entries) = {}
    /\ pc[p] = "remove" => garbage[p] \cap Reachable(index.entries) = {}

(* The lock's holder is at work on whatever is incomplete.                 *)
PartialIsWorkedOn ==
  \A d \in Digests : blobs[d] = Unfinished(d, LayoutMode) =>
    \E p \in Procs : \/ pc[p] = "copying" /\ d \in writing[p]
                     \/ pc[p] = "remove" /\ d \in garbage[p]

LayoutInvariant ==
  /\ TypeOK /\ IndexesAreRead /\ OpsMatch /\ LockIsHeld
  /\ OneMode =>
       /\ ModesAgree /\ BlobsFit
       /\ Undisturbed => PartialIsWorkedOn
       /\ Undisturbed \/ LayoutMode = "tar" =>
            CopyIsWhole /\ SnapshotIsWhole /\ TaggedIsWhole

(* Every command comes to an end or to a mount, whoever is killed while    *)
(* holding the lock (lock.go:44-48).                                       *)
EveryCommandEnds ==
  \A p \in Procs : <>(~Live(p) \/ pc[p] = "mounted")

=============================================================================

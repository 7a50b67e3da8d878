-------------------------------- MODULE Pack --------------------------------
(***************************************************************************)
(* Packing (builder.go, pusher.go, handlers.go, pack.go): the items of a   *)
(* pack file are resolved, the members they make are pushed through the    *)
(* client of a registry, and the artifact is tagged.                       *)
(*                                                                         *)
(* The actors are the goroutines: the pack itself, one per item while it   *)
(* is built, one per member and one per blob of a member (its config and   *)
(* its layers) while it is pushed.  An actor's work on the wire is done in *)
(* a slot of the budget, and unlike the copy walk's, an upload is claimed  *)
(* with the slot in hand.                                                  *)
(***************************************************************************)
EXTENDS Budget, RemoteClient, FiniteSets

CONSTANTS
  Packs,      \* the pack files under consideration
  Served,     \* what each URL serves, by the path its download is kept at
  Leftover,   \* what the disk holds at first; NoDigest where nothing can be read
  Size,       \* of each content, as far as a leftover can be told by it
  MayFail,    \* digests a request for which may be refused
  MayTimeOut  \* digests a request for which may not get through in time

(* An item is a file, the files of a directory, a download (kept in a      *)
(* file), a reference to an image, or of a scheme nothing handles; configs *)
(* are files.  What a file holds refers to nothing.                        *)
NoFile == "no file"
Kinds  == {"file", "dir", "http", "oci", "s3", "unknown"}

Item(kind, files, image, config, platform) ==
  [kind |-> kind, files |-> files, image |-> image,
   config |-> config, platform |-> platform]

Paths == DOMAIN Leftover

ASSUME PackAssumption ==
  /\ NoDigest \in Digests /\ MayFail \subseteq Digests /\ MayTimeOut \subseteq Digests
  /\ NoFile \notin Paths /\ Leftover \in [Paths -> Digests]
  /\ DOMAIN Served \subseteq Paths /\ Served \in [DOMAIN Served -> Digests]
  /\ \A p \in Paths : Parts(Leftover[p]) = << >>
  /\ \A p \in DOMAIN Served : Parts(Served[p]) = << >>
  /\ \A p \in Packs :
       /\ p.config \in Paths \cup {NoFile}
       /\ p.items \in Seq([kind : Kinds, files : Seq(Paths), image : Digests,
                          config : Paths \cup {NoFile}, platform : {"none", "ok", "bad"}])
       /\ \A n \in DOMAIN p.items : p.items[n].kind \in {"file", "http"} =>
            Len(p.items[n].files) = 1
       /\ \A n \in DOMAIN p.items : p.items[n].kind = "http" =>
            p.items[n].files[1] \in DOMAIN Served

VARIABLES
  pack,       \* the pack file: its config and its items
  disk,       \* what the paths the pack names hold
  pc,         \* where each actor is
  res,        \* the error it returns
  group,      \* first error its errgroup saw: the group's context is cancelled
  requests,   \* what it has still to ask of the registry
  list        \* the descriptors its children have left in their positions

vars == <<budgetVars, clientVars, pack, disk, pc, res, group, requests, list>>

-----------------------------------------------------------------------------
(* The pack file.                                                          *)

Items == pack.items
IndexExpected == \E n \in DOMAIN Items : Items[n].kind = "oci" \/ Items[n].platform # "none"

Valid ==                                    \* Validate, and the conflicts Build finds
  /\ Items # << >>
  /\ \A n \in DOMAIN Items : Items[n].kind # "unknown"
  /\ IndexExpected => pack.config = NoFile
  /\ \A n \in DOMAIN Items : Items[n].kind = "oci" => Items[n].config = NoFile

(* makeIndex gives every item a member of its own, makeManifest flattens   *)
(* the items into one.                                                     *)
AllFiles ==
  LET upTo[n \in 0 .. Len(Items)] ==
        IF n = 0 THEN << >> ELSE upTo[n - 1] \o Items[n].files
  IN  upTo[Len(Items)]

Width    == IF IndexExpected THEN Len(Items) ELSE 1
Files(m) == IF IndexExpected THEN Items[m].files ELSE AllFiles
Config(m) == IF IndexExpected THEN Items[m].config ELSE pack.config
MountOnly(m) == IndexExpected /\ Items[m].kind = "oci"

-----------------------------------------------------------------------------
(* The actors.  Part 1 of a member is its config, the others its layers.   *)

Root       == <<"pack">>
ItemOf(n)  == <<"item", n>>
Member(m)  == <<"member", m>>
Part(m, k) == <<"part", m, k>>

NParts(m)  == 1 + Len(Files(m))
ItemActors == {ItemOf(n) : n \in DOMAIN Items}
Members    == {Member(m) : m \in 1 .. Width}
PartActors == UNION {{Part(m, k) : k \in 1 .. NParts(m)} : m \in 1 .. Width}
Actors     == {Root} \cup ItemActors \cup Members \cup PartActors

Mounts(a) == a \in Members /\ MountOnly(a[2])

(* What a fans out while it is at one of the steps below.                  *)
Fanned == {"build", "index", "layers"}
Kid(a, step, i) == CASE step = "build"  -> ItemOf(i)
                     [] step = "index"  -> Member(i)
                     [] step = "layers" -> Part(a[2], i)
Kids(a, step)   == CASE step = "build"  -> ItemActors
                     [] step = "index"  -> Members
                     [] step = "layers" -> {Part(a[2], k) : k \in 1 .. NParts(a[2])}
Ordered(a, step) == Sequential(Cardinality(Kids(a, step)))

Parent(a)   == IF a \in PartActors THEN Member(a[2]) ELSE Root
Position(a) == a[Len(a)]
InGroup(a)  == ~Ordered(Parent(a), pc[Parent(a)])

Cancelled(a) == \/ a # Root /\ group[Root] # Ok
                \/ a \in PartActors /\ group[Parent(a)] # Ok

(* What an actor uploads.  The empty config has no file.                   *)
Empty == Blob("{}")
Source(a) == IF a[3] = 1 THEN Config(a[2]) ELSE Files(a[2])[a[3] - 1]
Content(path) == IF path = NoFile THEN Empty ELSE disk[path]
Target(a) ==
  CASE a \in PartActors -> Content(Source(a))
    [] a \in Members    -> Manifest(list[a][1], Tail(list[a]))
    [] a = Root         -> IF IndexExpected THEN Index(list[a]) ELSE list[a][1]

Refused     == <<"pack file refused">>
Unreadable  == Failed(NoDigest)             \* a source, or a platform, is no good

Steps == Fanned \cup {"idle", "validate", "start", "commit", "queue", "held", "once", "wait",
                      "requests", "settle", "release", "return", "done"}
Holding == {"held", "once", "wait", "requests", "settle", "release"}

Blank(a) == [i \in 1 .. (IF a = Root THEN Width ELSE
                         IF a \in Members THEN NParts(a[2]) ELSE 0) |-> NoDigest]

Outcomes == {Ok, Canceled, DeadlineExceeded} \cup Failures
Ops      == {"resolve", "fetch", "mount", "head", "put"}

TypeOK ==
  /\ slots \in Int /\ failure \in {Ok} \cup Failures
  /\ tasks \in [Digests -> {Unclaimed, Claimed} \cup Outcomes]
  /\ blobs \subseteq Digests /\ manifests \subseteq Digests /\ tag \in Digests
  /\ pack \in Packs
  /\ disk \in [Paths -> Digests]
  /\ pc \in [Actors -> Steps]
  /\ res \in [Actors -> Outcomes \cup {Refused}]
  /\ \A a \in Actors : res[a] = Refused => a = Root /\ pc[a] = "done"
  /\ group \in [Actors -> Outcomes]
  /\ requests \in [Actors -> Seq([op : Ops, of : Digests])]
  /\ \A a \in Actors : requests[a] # << >> <=> pc[a] = "requests"
  /\ list \in [Actors -> Seq(Digests)]
  /\ \A a \in Actors : Len(list[a]) = Len(Blank(a))

Init ==
  /\ NewBudget
  /\ blobs = {} /\ manifests = {} /\ tag = NoDigest
  /\ pack \in Packs
  /\ disk = Leftover
  /\ pc = [a \in Actors |-> IF a = Root THEN "validate" ELSE "idle"]
  /\ res = [a \in Actors |-> Ok]
  /\ group = [a \in Actors |-> Ok]
  /\ requests = [a \in Actors |-> << >>]
  /\ list = [a \in Actors |-> Blank(a)]

-----------------------------------------------------------------------------
(* How an actor moves on.                                                  *)

Goto(a, step) == pc' = [pc EXCEPT ![a] = step] /\ UNCHANGED res
GotoWith(a, step, err) == /\ pc' = [pc EXCEPT ![a] = step]
                          /\ res' = [res EXCEPT ![a] = err]

(* Each: all the children at once, or the first of them.                   *)
FanOut(a, step) ==
  LET started == IF Ordered(a, step) THEN {Kid(a, step, 1)} ELSE Kids(a, step) IN
  /\ pc' = [b \in Actors |-> IF b = a THEN step
                             ELSE IF b \in started THEN "start" ELSE pc[b]]
  /\ UNCHANGED res

data     == <<pack, disk, clientVars>>
children == <<group, list>>

-----------------------------------------------------------------------------
(* Build, up to the items.                                                 *)

RefusePack ==
  /\ pc[Root] = "validate" /\ ~Valid
  /\ GotoWith(Root, "done", Refused)
  /\ UNCHANGED <<budgetVars, data, children, requests>>

AcceptPack ==
  /\ pc[Root] = "validate" /\ Valid
  /\ FanOut(Root, "build")
  /\ UNCHANGED <<budgetVars, data, children, requests>>

(* Slot looks at the context before it queues.                             *)
AskForSlot(a) == IF Cancelled(a) THEN GotoWith(a, "return", Canceled) ELSE Goto(a, "queue")

(* A member of its own fans its parts out, an item nothing handles fails,  *)
(* and whatever goes on the wire asks for a slot.                          *)
Unhandled(a) == a \in ItemActors /\ Items[a[2]].kind = "s3"

Start(a) ==
  /\ pc[a] = "start"
  /\ IF a \in Members /\ ~Mounts(a) THEN FanOut(a, "layers")
     ELSE IF Unhandled(a) THEN GotoWith(a, "return", Unreadable)
     ELSE AskForSlot(a)
  /\ UNCHANGED <<budgetVars, data, children, requests>>

(* commit: what refers to all that has been pushed is pushed itself.       *)
Commit(a) ==
  /\ pc[a] = "commit"
  /\ AskForSlot(a)
  /\ UNCHANGED <<budgetVars, data, children, requests>>

TakeSlot(a) ==
  /\ pc[a] = "queue"
  /\ AcquireSlot
  /\ Goto(a, "held")
  /\ UNCHANGED <<tasks, failure, data, children, requests>>

LeaveQueue(a) ==
  /\ pc[a] = "queue" /\ Cancelled(a)
  /\ GotoWith(a, "return", Canceled)
  /\ UNCHANGED <<budgetVars, data, children, requests>>

-----------------------------------------------------------------------------
(* handleItem: a file has to be there, a directory is listed, a reference  *)
(* is kept as it is, a download is written next to its kind.               *)

Readable(a) ==
  LET item == Items[a[2]] IN
  CASE item.kind = "file" -> disk[item.files[1]] # NoDigest
    [] item.kind = "http" -> Served[item.files[1]] # NoDigest
    [] OTHER              -> TRUE

(* ResponseToFile keeps a file that is as long as what it would write.     *)
Kept(path) == disk[path] # NoDigest /\ Size[disk[path]] = Size[Served[path]]

ResolveItem(a) ==
  /\ pc[a] = "held" /\ a \in ItemActors /\ Readable(a)
  /\ LET item == Items[a[2]] IN
     disk' = IF item.kind = "http" /\ ~Kept(item.files[1])
             THEN [disk EXCEPT ![item.files[1]] = Served[item.files[1]]]
             ELSE disk
  /\ Goto(a, "release")
  /\ UNCHANGED <<budgetVars, pack, clientVars, children, requests>>

(* A walk may fail at any entry (handlers.go:90-98), a download like any   *)
(* other request.                                                          *)
Interrupted(a) == IF Cancelled(a) THEN {Canceled} ELSE {}
TimedOutOn(d)  == IF d \in MayTimeOut THEN {DeadlineExceeded} ELSE {}

ItemErrors(a) ==
  LET item == Items[a[2]] IN
  (IF Readable(a) /\ item.kind # "dir" THEN {} ELSE {Unreadable}) \cup
  (IF item.kind # "http" THEN {}
   ELSE LET d == Served[item.files[1]]
        IN  (IF d \in MayFail THEN {Unreadable} ELSE {}) \cup TimedOutOn(d) \cup Interrupted(a))

FailItem(a) ==
  /\ pc[a] = "held" /\ a \in ItemActors
  /\ \E err \in ItemErrors(a) : GotoWith(a, "release", err)
  /\ UNCHANGED <<budgetVars, data, children, requests>>

-----------------------------------------------------------------------------
(* manifest.mount, pushFile and commit, in the slot.                       *)

BeginMount(a) ==
  /\ pc[a] = "held" /\ Mounts(a)
  /\ requests' = [requests EXCEPT ![a] = MountFrom(Items[a[2]].image)]
  /\ Goto(a, "requests")
  /\ UNCHANGED <<budgetVars, data, children>>

(* FileToOciDescriptor: the digest is the file's, once it can be opened.   *)
OpenSource(a) ==
  /\ pc[a] = "held" /\ a \notin ItemActors /\ ~Mounts(a)
  /\ IF Target(a) = NoDigest THEN GotoWith(a, "release", Unreadable)
                             ELSE Goto(a, "once")
  /\ UNCHANGED <<budgetVars, data, children, requests>>

ClaimUpload(a) ==
  /\ pc[a] = "once" /\ ~Found(Target(a))
  /\ Claim(Target(a))
  /\ requests' = [requests EXCEPT ![a] = Push(Target(a))]
  /\ Goto(a, "requests")
  /\ UNCHANGED <<slots, failure, data, children>>

AwaitUpload(a) ==
  /\ pc[a] = "once" /\ Found(Target(a))
  /\ Goto(a, "wait")
  /\ UNCHANGED <<budgetVars, data, children, requests>>

ShareOutcome(a) ==
  /\ pc[a] = "wait" /\ Closed(Target(a))
  /\ GotoWith(a, "release", tasks[Target(a)])
  /\ UNCHANGED <<budgetVars, data, children, requests>>

AbandonWait(a) ==
  /\ pc[a] = "wait" /\ Cancelled(a)
  /\ GotoWith(a, "release", Canceled)
  /\ UNCHANGED <<budgetVars, data, children, requests>>

(* One request of the client is granted, or it fails and the rest is       *)
(* dropped.  What a dial that takes too long answers with is a             *)
(* context.DeadlineExceeded to errors.Is, which Record skips               *)
(* (budget.go:188-191).                                                    *)
Ended(a) == IF Mounts(a) THEN "release" ELSE "settle"

RequestGranted(a) ==
  /\ pc[a] = "requests"
  /\ \E more \in Continuations(Head(requests[a])) :
       LET rest == more \o Tail(requests[a]) IN
       /\ Serve(Head(requests[a]), more)
       /\ requests' = [requests EXCEPT ![a] = rest]
       /\ Goto(a, IF rest = << >> THEN Ended(a) ELSE "requests")
  /\ UNCHANGED <<budgetVars, pack, disk, manifests, tag, children>>

RequestRefused(a) ==
  /\ pc[a] = "requests"
  /\ LET d == Head(requests[a]).of IN
     \E err \in (IF d \in MayFail THEN {Failed(d)} ELSE {}) \cup TimedOutOn(d) \cup Interrupted(a) :
       GotoWith(a, Ended(a), err)
  /\ requests' = [requests EXCEPT ![a] = << >>]
  /\ UNCHANGED <<budgetVars, data, children>>

Settle(a) ==
  /\ pc[a] = "settle"
  /\ CloseTask(Target(a), res[a])
  /\ Goto(a, "release")
  /\ UNCHANGED <<slots, data, children, requests>>

Release(a) ==
  /\ pc[a] = "release"
  /\ ReleaseSlot
  /\ Goto(a, "return")
  /\ UNCHANGED <<tasks, failure, data, children, requests>>

-----------------------------------------------------------------------------
(* The end of a closure Each runs: the error is recorded, then the group   *)
(* told; a result goes into its own position.                              *)

Outcome(a) ==
  IF res[a] = Ok /\ a \in Members /\ IndexExpected /\ Items[a[2]].platform = "bad"
  THEN Unreadable ELSE res[a]

Result(a) == IF Mounts(a) THEN Items[a[2]].image ELSE Target(a)

FirstFree(l) == CHOOSE i \in DOMAIN l : l[i] = NoDigest /\ \A j \in 1 .. i - 1 : l[j] # NoDigest
FillNext(l, a) ==                           \* slip: appended as they arrive
  [l EXCEPT ![FirstFree(l)] = Result(a)]
Fill(l, a) == [l EXCEPT ![Position(a)] = Result(a)]

Return(a) ==
  /\ pc[a] = "return" /\ a # Root
  /\ GotoWith(a, "done", Outcome(a))
  /\ failure' = Record(failure, Outcome(a))
  /\ group' = IF InGroup(a) /\ group[Parent(a)] = Ok
              THEN [group EXCEPT ![Parent(a)] = Outcome(a)] ELSE group
  /\ list' = IF Outcome(a) = Ok /\ a \notin ItemActors
             THEN [list EXCEPT ![Parent(a)] = Fill(@, a)] ELSE list
  /\ UNCHANGED <<slots, tasks, data, requests>>

(* What follows when all the children have done their part: the members    *)
(* after the items, the manifest after its parts, the index after its      *)
(* members.  A single manifest is the artifact as it is.                   *)
Proceed(a) ==
  CASE pc[a] = "build"                     -> FanOut(a, "index")
    [] pc[a] = "index" /\ ~IndexExpected   -> Goto(a, "return")
    [] OTHER                               -> Goto(a, "commit")

Join(a) ==
  /\ pc[a] \in Fanned /\ ~Ordered(a, pc[a])
  /\ \A b \in Kids(a, pc[a]) : pc[b] = "done"
  /\ IF group[a] = Ok THEN Proceed(a) ELSE GotoWith(a, "return", group[a])
  /\ UNCHANGED <<budgetVars, data, children, requests>>

JoinInOrder(a) ==
  /\ pc[a] \in Fanned /\ Ordered(a, pc[a])
  /\ \E i \in 1 .. Cardinality(Kids(a, pc[a])) :
       LET kid  == Kid(a, pc[a], i)
           next == Kid(a, pc[a], i + 1)
           last == i = Cardinality(Kids(a, pc[a]))
       IN  /\ pc[kid] = "done" /\ (~last => pc[next] = "idle")
           /\ IF res[kid] # Ok THEN GotoWith(a, "return", res[kid])
              ELSE IF last     THEN Proceed(a)
              ELSE pc' = [pc EXCEPT ![next] = "start"] /\ UNCHANGED res
  /\ UNCHANGED <<budgetVars, data, children, requests>>

(* Build answers with the failure that stopped it; what it built is tagged *)
(* by packRun.                                                             *)
ReportFailure ==
  /\ pc[Root] = "return" /\ res[Root] # Ok
  /\ GotoWith(Root, "done", Cause(res[Root]))
  /\ UNCHANGED <<budgetVars, data, children, requests>>

TagPack ==
  /\ pc[Root] = "return" /\ res[Root] = Ok /\ CanTag(Target(Root))
  /\ SetTag(Target(Root))
  /\ Goto(Root, "done")
  /\ UNCHANGED <<budgetVars, pack, disk, blobs, children, requests>>

FailToTag ==
  /\ pc[Root] = "return" /\ res[Root] = Ok
  /\ \E err \in (IF Target(Root) \in MayFail THEN {Failed(Target(Root))} ELSE {})
               \cup TimedOutOn(Target(Root)) :
       GotoWith(Root, "done", err)
  /\ UNCHANGED <<budgetVars, data, children, requests>>

-----------------------------------------------------------------------------
Step(a) ==
  \/ Start(a) \/ Commit(a) \/ TakeSlot(a) \/ LeaveQueue(a)
  \/ ResolveItem(a) \/ FailItem(a) \/ BeginMount(a) \/ OpenSource(a)
  \/ ClaimUpload(a) \/ AwaitUpload(a) \/ ShareOutcome(a) \/ AbandonWait(a)
  \/ RequestGranted(a) \/ RequestRefused(a) \/ Settle(a) \/ Release(a)
  \/ Return(a) \/ Join(a) \/ JoinInOrder(a)

Progress == RefusePack \/ AcceptPack \/ (\E a \in Actors : Step(a))
            \/ ReportFailure \/ TagPack \/ FailToTag

Finished == pc[Root] = "done" /\ UNCHANGED vars

Next == Progress \/ Finished

Spec == Init /\ [][Next]_vars

(* Goroutines run when they can and every request is answered.             *)
FairSpec == Spec /\ WF_vars(Progress)

-----------------------------------------------------------------------------
(* Properties.                                                             *)

Over == pc[Root] = "done"

(* The registry never gains a manifest it does not hold every part of,     *)
(* and nothing of a pack arrives after it has ended: a manifest waits for  *)
(* its layers however they fail (pusher.go:162-188), a mounted one for its *)
(* own (client.go:195-202).                                                *)
LandsOnTop ==
  [][\A d \in blobs' \ blobs : PartsOf(d) \subseteq blobs /\ ~Over]_vars

(* "Layers keep the order the pack file gave them, and so do the manifests *)
(* of a multi-platform index" (docs/pack.md:67-68): what is tagged is what *)
(* a sequential pack of the same sources makes, and all of it is there.    *)
PackedMember(m) ==
  IF MountOnly(m) THEN Items[m].image
  ELSE Manifest(Content(Config(m)), [i \in DOMAIN Files(m) |-> disk[Files(m)[i]]])
Packed == IF IndexExpected THEN Index([m \in 1 .. Width |-> PackedMember(m)])
                           ELSE PackedMember(1)
TaggedIsThePack ==
  tag # NoDigest => tag = Packed /\ Whole(tag, blobs)

(* "If a transfer fails the pack stops, and what is reported is the        *)
(* failure itself rather than the cancellation it set off" (docs/pack.md:  *)
(* 73-74), as far as the code goes: the first failure that was recorded is *)
(* what the pack reports, and a cancellation only if there is none and     *)
(* some request timed out, which is never recorded.  A pack that succeeds  *)
(* has tagged, one that fails has not.                                     *)
TimedOut == \E a \in Actors : res[a] = DeadlineExceeded
ReportsTheFailure ==
  Over => /\ failure # Ok => res[Root] = failure
          /\ res[Root] = Canceled => TimedOut
          /\ res[Root] = Ok <=> tag # NoDigest

(* The same words to the letter, which a timeout breaks (MCPackTimeout).   *)
NeverTheCancellation == Over => res[Root] # Canceled

(* "Each blob is uploaded once" (docs/pack.md:69-71), members that are     *)
(* mounted aside: one actor at a time works on a digest, none once it is   *)
(* settled, and whoever waits for it waits with a slot for one who has     *)
(* his.                                                                    *)
Uploaders(d) == {a \in Actors : /\ pc[a] \in {"requests", "settle"} /\ ~Mounts(a)
                                /\ Target(a) = d}
OneUploadPerDigest ==
  \A d \in Digests : /\ Cardinality(Uploaders(d)) < 2
                     /\ Uploaders(d) # {} <=> tasks[d] = Claimed

(* One budget for the sources coming in and the blobs going out            *)
(* (builder.go:111-113), and none of its slots lost on a way out.          *)
SlotsAreHeld == /\ slots = Cardinality({a \in Actors : pc[a] \in Holding})
                /\ slots <= Limit
                /\ Over => slots = 0

(* Why it holds.  Items are built, then members are pushed, and a member's *)
(* parts while it waits for them; nothing below an actor is under way      *)
(* before it fans out or after it has joined.                              *)
AtRest == {"idle", "done"}

Fits(a, step) ==
  /\ a = Root => step \notin {"idle", "start", "layers"}
  /\ a # Root => step \notin {"validate", "build", "index"}
  /\ a \in ItemActors => step \notin {"layers", "commit", "once", "wait", "requests", "settle"}
  /\ a \in PartActors => step \notin {"layers", "commit"}
  /\ Mounts(a) => step \notin {"layers", "commit", "once", "wait", "settle"}
StepsFit == \A a \in Actors : Fits(a, pc[a])

Nested ==
  /\ \A a \in ItemActors : pc[a] \notin AtRest => pc[Root] = "build"
  /\ \A a \in Members : pc[a] \notin AtRest => pc[Root] = "index"
  /\ \A a \in PartActors : pc[a] \notin AtRest => pc[Parent(a)] = "layers"

NotBegun ==
  /\ pc[Root] = "validate" => \A a \in ItemActors : pc[a] = "idle"
  /\ pc[Root] \in {"validate", "build"} => \A a \in Members : pc[a] = "idle"
  /\ \A a \in PartActors : pc[Parent(a)] \in {"idle", "start"} => pc[a] = "idle"

(* What Each knows of the children while it waits, one after the other or  *)
(* in a group.                                                             *)
EldersAreDone ==
  \A a \in {Root} \cup Members : pc[a] \in Fanned /\ Ordered(a, pc[a]) =>
    \A b, c \in Kids(a, pc[a]) : Position(b) < Position(c) /\ pc[c] # "idle" =>
      pc[b] = "done" /\ res[b] = Ok
GroupKnows ==
  \A a \in {Root} \cup Members : pc[a] \in Fanned /\ ~Ordered(a, pc[a]) /\ group[a] = Ok =>
    \A b \in Kids(a, pc[a]) : pc[b] = "done" => res[b] = Ok

(* Whoever submits a manifest, or has done so, has all it refers to.       *)
Submitting == {"commit", "queue", "held", "once", "wait", "requests", "settle", "release"}
Succeeds(a) == pc[a] \in Submitting \/ (pc[a] \in {"return", "done"} /\ res[a] = Ok)
PartsAreDone ==
  /\ \A a \in PartActors : ~Mounts(Parent(a)) /\ Succeeds(Parent(a)) =>
       pc[a] = "done" /\ res[a] = Ok
  /\ Succeeds(Root) => \A a \in Members : pc[a] = "done" /\ res[a] = Ok

(* What has succeeded is in the registry, and in its place in the list.    *)
Arrived(a) == pc[a] \in {"settle", "release", "return", "done"} /\ res[a] = Ok
SuccessIsThere ==
  /\ \A d \in Digests : tasks[d] = Ok => d \in blobs
  /\ \A a \in Actors \ ItemActors : Arrived(a) => Result(a) \in blobs
  /\ \A a \in PartActors \cup Members :
       pc[a] = "done" /\ res[a] = Ok => list[Parent(a)][Position(a)] = Result(a)

(* A manifest's bytes are sent when all before them has been: its parts    *)
(* are there, or asked for earlier by the same actor.                      *)
Lands(asked, held) ==
  \A i \in DOMAIN asked :
    /\ asked[i].op = "mount" => PartsOf(asked[i].of) = {}
    /\ asked[i].op \in {"head", "put"} =>
         \A p \in PartsOf(asked[i].of) : p \in held \/ \E j \in 1 .. i - 1 : asked[j].of = p
RequestsLand ==
  /\ \A a \in Actors : pc[a] = "requests" =>
       Lands(requests[a], blobs) /\ requests[a][Len(requests[a])].of = Result(a)
  /\ \A p \in Paths : Parts(disk[p]) = << >>
BlobsAreClosed == \A d \in blobs : PartsOf(d) \subseteq blobs

(* An error stays with somebody who hands it up, and a cancellation has    *)
(* a failure behind it, or a request that timed out.                       *)
ErrorsClimb ==
  /\ \A a \in ItemActors : res[a] # Ok =>
       pc[a] \in {"release", "return", "done"} /\ (pc[Root] = "build" \/ res[Root] # Ok)
  /\ \A a \in Members : res[a] # Ok =>
       pc[a] \in {"settle", "release", "return", "done"} /\ (pc[Root] = "index" \/ res[Root] # Ok)
  /\ \A a \in PartActors : res[a] # Ok =>
       /\ pc[a] \in {"settle", "release", "return", "done"}
       /\ pc[Parent(a)] = "layers" \/ res[Parent(a)] # Ok
  /\ res[Root] # Ok => pc[Root] \in {"settle", "release", "return", "done"}
FailureIsSomebodys == failure # Ok => \E a \in Actors : res[a] # Ok
CancelsHaveCause ==
  failure = Ok /\ ~TimedOut => /\ \A a \in Actors : res[a] # Canceled /\ group[a] = Ok
                               /\ \A d \in Digests : tasks[d] # Canceled

TaggedAtTheEnd ==
  /\ tag # NoDigest => Over /\ res[Root] = Ok /\ tag = Target(Root) /\ tag \in blobs
  /\ Over /\ res[Root] = Ok => tag # NoDigest
  /\ Over /\ failure # Ok => res[Root] = failure

PackInvariant ==
  /\ TypeOK /\ StepsFit /\ Nested /\ NotBegun /\ EldersAreDone /\ GroupKnows
  /\ OneUploadPerDigest /\ SlotsAreHeld
  /\ PartsAreDone /\ SuccessIsThere /\ RequestsLand /\ BlobsAreClosed
  /\ ErrorsClimb /\ FailureIsSomebodys /\ CancelsHaveCause /\ TaggedAtTheEnd

(* Waiting with a slot in hand is harmless (budget.go:139-148): however    *)
(* few there are, the pack ends.                                           *)
Termination == <>Over
=============================================================================

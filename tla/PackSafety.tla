----------------------------- MODULE PackSafety -----------------------------
(***************************************************************************)
(* What a pack keeps to, whatever its items and however its uploads end:   *)
(* the slots, one upload per digest, and what the registry is given.  The  *)
(* steps and types these proofs rest on are in PackProofs.                 *)
(***************************************************************************)
EXTENDS PackProofs

-----------------------------------------------------------------------------
(* Where each local step leads.                                            *)

LEMMA LocalMoves ==
  ASSUME TypeOK, NEW a \in Actors
  PROVE  /\ Commit(a) => pc[a] = "commit" /\ pc'[a] \in {"queue", "return"}
         /\ TakeSlot(a) => pc[a] = "queue" /\ pc'[a] = "held"
         /\ LeaveQueue(a) => pc[a] = "queue" /\ pc'[a] = "return"
         /\ ResolveItem(a) \/ FailItem(a) => pc[a] = "held" /\ pc'[a] = "release" /\ a \in ItemActors
         /\ BeginMount(a) => pc[a] = "held" /\ pc'[a] = "requests" /\ Mounts(a)
         /\ OpenSource(a) => pc[a] = "held" /\ pc'[a] \in {"release", "once"} /\ ~Mounts(a) /\ a \notin ItemActors
         /\ ClaimUpload(a) => pc[a] = "once" /\ pc'[a] = "requests"
         /\ AwaitUpload(a) => pc[a] = "once" /\ pc'[a] = "wait"
         /\ ShareOutcome(a) \/ AbandonWait(a) => pc[a] = "wait" /\ pc'[a] = "release"
         /\ RequestGranted(a) => pc[a] = "requests" /\ pc'[a] \in {"requests", Ended(a)}
         /\ RequestRefused(a) => pc[a] = "requests" /\ pc'[a] = Ended(a)
         /\ Settle(a) => pc[a] = "settle" /\ pc'[a] = "release"
         /\ Release(a) => pc[a] = "release" /\ pc'[a] = "return"
         /\ Return(a) => pc[a] = "return" /\ pc'[a] = "done" /\ a # Root
  <1>1. Commit(a) => pc[a] = "commit" /\ pc'[a] \in {"queue", "return"}
    BY GotoMoves DEF Commit, AskForSlot
  <1>2. /\ TakeSlot(a) => pc[a] = "queue" /\ pc'[a] = "held"
        /\ LeaveQueue(a) => pc[a] = "queue" /\ pc'[a] = "return"
    BY GotoMoves DEF TakeSlot, LeaveQueue
  <1>3. ResolveItem(a) \/ FailItem(a) => pc[a] = "held" /\ pc'[a] = "release" /\ a \in ItemActors
    BY GotoMoves DEF ResolveItem, FailItem
  <1>4. /\ BeginMount(a) => pc[a] = "held" /\ pc'[a] = "requests" /\ Mounts(a)
        /\ OpenSource(a) => pc[a] = "held" /\ pc'[a] \in {"release", "once"} /\ ~Mounts(a) /\ a \notin ItemActors
    BY GotoMoves DEF BeginMount, OpenSource
  <1>5. /\ ClaimUpload(a) => pc[a] = "once" /\ pc'[a] = "requests"
        /\ AwaitUpload(a) => pc[a] = "once" /\ pc'[a] = "wait"
        /\ ShareOutcome(a) \/ AbandonWait(a) => pc[a] = "wait" /\ pc'[a] = "release"
    BY GotoMoves DEF ClaimUpload, AwaitUpload, ShareOutcome, AbandonWait
  <1>6. RequestGranted(a) => pc[a] = "requests" /\ pc'[a] \in {"requests", Ended(a)}
    BY GotoMoves DEF RequestGranted
  <1>7. RequestRefused(a) => pc[a] = "requests" /\ pc'[a] = Ended(a)
    BY GotoMoves DEF RequestRefused
  <1>8. /\ Settle(a) => pc[a] = "settle" /\ pc'[a] = "release"
        /\ Release(a) => pc[a] = "release" /\ pc'[a] = "return"
        /\ Return(a) => pc[a] = "return" /\ pc'[a] = "done" /\ a # Root
    BY GotoMoves DEF Settle, Release, Return
  <1> QED BY <1>1, <1>2, <1>3, <1>4, <1>5, <1>6, <1>7, <1>8

-----------------------------------------------------------------------------
(* Slots.                                                                  *)

Holders == {a \in Actors : pc[a] \in Holding}
HeldSlots == IsFiniteSet(Holders) /\ slots = Cardinality(Holders) /\ slots <= Limit

LEMMA LimitIsPositive == Limit \in Nat \ {0}
BY ConcurrencyAssumption DEF Limit

LEMMA HoldersStep ==
  ASSUME Control, Progress
  PROVE  \/ slots' = slots /\ Holders' = Holders
         \/ \E a \in Actors : /\ a \notin Holders /\ Holders' = Holders \cup {a}
                              /\ slots < Limit /\ slots' = slots + 1
         \/ \E a \in Actors : /\ a \in Holders /\ Holders' = Holders \ {a}
                              /\ slots' = slots - 1
  <1>0. pack' = pack /\ Actors' = Actors /\ TypeOK
    BY ProgressIsShaped, PackStays DEF Control
  <1> USE DEF Holding, Holders
  <1>1. ASSUME NEW a \in Actors, pc[a] \in Holding <=> pc'[a] \in Holding, OthersStay({a})
        PROVE  Holders' = Holders
    BY <1>0, <1>1 DEF OthersStay
  <1>2. CASE RefusePack \/ AcceptPack \/ ReportFailure \/ TagPack \/ FailToTag
    <2>1. slots' = slots
      BY <1>2 DEF RefusePack, AcceptPack, ReportFailure, TagPack, FailToTag, budgetVars
    <2>2. CASE AcceptPack
      <3>1. pc[Root] = "validate" /\ FanOut(Root, "build")
        BY <2>2 DEF AcceptPack
      <3>2. Fans(Root, "build") /\ Kids(Root, "build") = ItemActors /\ pack \in Packs
        BY <1>0 DEF Fans, Kids, TypeOK
      <3>3. \A b \in Kids(Root, "build") : pc[b] = "idle"
        BY <3>1, <3>2 DEF Control, NotBegun
      <3>4. \A b \in Actors : pc[b] # pc'[b] => pc[b] \notin Holding /\ pc'[b] \notin Holding
        BY <1>0, <3>1, <3>2, <3>3, FanOutIs DEF OthersStay
      <3> QED BY <1>0, <2>1, <3>4
    <2>3. CASE RefusePack \/ ReportFailure \/ TagPack \/ FailToTag
      <3>1. Root \in Actors /\ pc[Root] \in {"validate", "return"} /\ pc'[Root] = "done" /\ OthersStay({Root})
        BY <1>0, <2>3, GotoMoves, ActorsDiffer DEF RefusePack, ReportFailure, TagPack, FailToTag
      <3> QED BY <1>1, <2>1, <3>1
    <2> QED BY <1>2, <2>2, <2>3
  <1>3. ASSUME NEW a \in Actors, Start(a) \/ Join(a) \/ JoinInOrder(a)
        PROVE  slots' = slots /\ Holders' = Holders
    <2>1. slots' = slots
      BY <1>3 DEF Start, Join, JoinInOrder, budgetVars
    <2>2. pc[a] \notin Holding
      BY <1>3 DEF Start, Join, JoinInOrder, Fanned
    <2>3. (Moved(a) /\ pc'[a] \in {"queue", "return"}) \/ Joined(a) \/ (\E step \in Fanned : FannedOut(a, step)) \/ Continued(a)
      <3>1. CASE Start(a)
        <4>1. Moved(a) => pc'[a] \in {"queue", "return"}
          <5>1. CASE a \in Members /\ ~Mounts(a)
            BY <1>0, <3>1, <5>1 DEF Start, FanOut, Moved, Fanned
          <5>2. CASE ~(a \in Members /\ ~Mounts(a))
            BY <1>0, <3>1, <5>2, GotoMoves DEF Start, AskForSlot
          <5> QED BY <5>1, <5>2
        <4> QED BY <3>1, <4>1, StartSteps DEF Fanned
      <3> QED BY <1>3, <3>1, JoinSteps, JoinInOrderSteps DEF Fanned
    <2>4. \A b \in Actors : pc[b] # pc'[b] => pc[b] \notin Holding /\ pc'[b] \notin Holding
      <3>1. ASSUME NEW step \in Fanned, FannedOut(a, step)
            PROVE  \A b \in Actors : pc[b] # pc'[b] => pc[b] \notin Holding /\ pc'[b] \notin Holding
        BY <2>2, <3>1 DEF FannedOut, OthersStay, Fanned
      <3>2. CASE Joined(a)
        BY <2>2, <3>2 DEF Joined, OthersStay
      <3>3. CASE Continued(a)
        BY <3>3 DEF Continued, OthersStay
      <3>4. CASE Moved(a) /\ pc'[a] \in {"queue", "return"}
        BY <2>2, <3>4 DEF Moved, OthersStay
      <3> QED BY <2>3, <3>1, <3>2, <3>3, <3>4
    <2> QED BY <1>0, <2>1, <2>4
  <1>4. ASSUME NEW a \in Actors, TakeSlot(a)
        PROVE  a \notin Holders /\ Holders' = Holders \cup {a} /\ slots < Limit /\ slots' = slots + 1
    <2>1. pc[a] = "queue" /\ pc'[a] = "held" /\ OthersStay({a})
      BY <1>0, <1>4, GotoMoves DEF TakeSlot
    <2> QED BY <1>0, <1>4, <2>1 DEF OthersStay, TakeSlot, AcquireSlot
  <1>5. ASSUME NEW a \in Actors, Release(a)
        PROVE  a \in Holders /\ Holders' = Holders \ {a} /\ slots' = slots - 1
    <2>1. pc[a] = "release" /\ pc'[a] = "return" /\ OthersStay({a})
      BY <1>0, <1>5, GotoMoves DEF Release
    <2> QED BY <1>0, <1>5, <2>1 DEF OthersStay, Release, ReleaseSlot
  <1>6. ASSUME NEW a \in Actors,
               \/ Commit(a) \/ LeaveQueue(a) \/ ResolveItem(a) \/ FailItem(a) \/ BeginMount(a)
               \/ OpenSource(a) \/ ClaimUpload(a) \/ AwaitUpload(a) \/ ShareOutcome(a) \/ AbandonWait(a)
               \/ RequestGranted(a) \/ RequestRefused(a) \/ Settle(a) \/ Return(a)
        PROVE  slots' = slots /\ Holders' = Holders
    <2>1. slots' = slots
      BY <1>6 DEF Commit, LeaveQueue, ResolveItem, FailItem, BeginMount, OpenSource, ClaimUpload,
                  AwaitUpload, ShareOutcome, AbandonWait, RequestGranted, RequestRefused, Settle,
                  Return, budgetVars
    <2>2. OthersStay({a})
      BY <1>6, LocalSteps DEF Moved, Control
    <2>3. CASE Commit(a) \/ LeaveQueue(a) \/ Return(a)
      <3>1. pc[a] \in {"commit", "queue", "return"} /\ pc'[a] \in {"queue", "return", "done"}
        BY <1>0, <2>3, GotoMoves DEF Commit, LeaveQueue, Return, AskForSlot
      <3> QED BY <1>1, <2>1, <2>2, <3>1
    <2>4. CASE ResolveItem(a) \/ FailItem(a) \/ BeginMount(a) \/ OpenSource(a) \/ ClaimUpload(a) \/ AwaitUpload(a)
      <3>1. pc[a] \in Holding /\ pc'[a] \in Holding
        BY <1>0, <2>4, GotoMoves DEF ResolveItem, FailItem, BeginMount, OpenSource, ClaimUpload, AwaitUpload
      <3> QED BY <1>1, <2>1, <2>2, <3>1
    <2>5. CASE ShareOutcome(a) \/ AbandonWait(a) \/ RequestGranted(a) \/ RequestRefused(a) \/ Settle(a)
      <3>1. pc[a] \in Holding /\ pc'[a] \in Holding
        BY <1>0, <2>5, GotoMoves DEF ShareOutcome, AbandonWait, RequestGranted, RequestRefused, Settle, Ended
      <3> QED BY <1>1, <2>1, <2>2, <3>1
    <2> QED BY <1>6, <2>3, <2>4, <2>5
  <1> QED BY <1>2, <1>3, <1>4, <1>5, <1>6 DEF Progress, Step

LEMMA SlotsStep ==
  ASSUME Control, HeldSlots, [Next]_vars
  PROVE  HeldSlots'
  <1>1. CASE Progress
    <2>1. Limit \in Nat
      BY LimitIsPositive
    <2>2. ASSUME NEW a \in Actors, a \notin Holders, Holders' = Holders \cup {a}, slots < Limit, slots' = slots + 1
          PROVE  HeldSlots'
      <3>1. IsFiniteSet(Holders') /\ Cardinality(Holders') = Cardinality(Holders) + 1 /\ Cardinality(Holders) \in Nat
        BY <2>2, FS_AddElement, FS_CardinalityType DEF HeldSlots
      <3> QED BY <2>1, <2>2, <3>1 DEF HeldSlots, Limit
    <2>3. ASSUME NEW a \in Actors, a \in Holders, Holders' = Holders \ {a}, slots' = slots - 1
          PROVE  HeldSlots'
      <3>1. IsFiniteSet(Holders') /\ Cardinality(Holders') = Cardinality(Holders) - 1 /\ Cardinality(Holders) \in Nat
        BY <2>3, FS_RemoveElement, FS_CardinalityType DEF HeldSlots
      <3> QED BY <2>1, <2>3, <3>1 DEF HeldSlots, Limit
    <2>4. slots' = slots /\ Holders' = Holders => HeldSlots'
      BY DEF HeldSlots, Limit
    <2> QED BY <1>1, <2>2, <2>3, <2>4, HoldersStep
  <1>2. CASE UNCHANGED vars
    <2>1. pack' = pack /\ pc' = pc /\ slots' = slots
      BY <1>2 DEF vars, budgetVars
    <2>2. Holders' = Holders
      BY <2>1, PackStays DEF Holders, Holding
    <2> QED BY <2>1, <2>2 DEF HeldSlots, Limit
  <1> QED BY <1>1, <1>2 DEF Next, Finished

LEMMA OverIsOver ==
  ASSUME Control, Over
  PROVE  \A a \in Actors : pc[a] \in AtRest
  <1>1. \A a \in ItemActors \cup Members : pc[a] \in AtRest
    BY DEF Control, Nested, Over
  <1>2. \A a \in PartActors : pc[a] \in AtRest
    BY <1>1, Parents DEF Control, Nested, AtRest
  <1> QED BY <1>1, <1>2, ActorsDiffer DEF Over, AtRest

LEMMA HeldSlotsAreHeld ==
  ASSUME Control, HeldSlots
  PROVE  SlotsAreHeld
  <1>1. Over => Holders = {}
    BY OverIsOver DEF Holders, Holding, AtRest
  <1> QED BY <1>1, FS_EmptySet DEF SlotsAreHeld, HeldSlots, Holders

LEMMA InitSlots ==
  ASSUME Init
  PROVE  HeldSlots
  <1>1. Holders = {} /\ slots = 0
    BY DEF Init, NewBudget, Holders, Holding
  <1> QED BY <1>1, FS_EmptySet, LimitIsPositive DEF HeldSlots

(* Whatever is in hand is counted, no more than the budget has, and        *)
(* nothing is in hand when a pack has ended.                               *)
THEOREM PackSlots ==
  ASSUME ContentAddressed
  PROVE  Spec => []SlotsAreHeld
  <1>1. Init => Control /\ HeldSlots
    BY InitControl, InitSlots
  <1>2. Control /\ HeldSlots /\ [Next]_vars => Control' /\ HeldSlots'
    BY ControlStep, SlotsStep
  <1>3. Control /\ HeldSlots => SlotsAreHeld
    BY HeldSlotsAreHeld
  <1> QED BY <1>1, <1>2, <1>3, PTL DEF Spec

-----------------------------------------------------------------------------
(* Uploads.  What an actor is working on does not change under its hands:  *)
(* downloads are over before anything is pushed, and a list is written by  *)
(* children only while their parent waits for them.                        *)

LEMMA DiskStays ==
  ASSUME Control, Progress, pc[Root] # "build"
  PROVE  disk' = disk
  <1>1. ASSUME NEW a \in Actors, Step(a) PROVE disk' = disk
    <2>1. ~ResolveItem(a)
      BY ActorsDiffer DEF ResolveItem, Control, Nested, AtRest
    <2> QED BY <1>1, <2>1 DEF Step, Start, Commit, TakeSlot, LeaveQueue, FailItem, BeginMount,
                  OpenSource, ClaimUpload, AwaitUpload, ShareOutcome, AbandonWait, RequestGranted,
                  RequestRefused, Settle, Release, Return, Join, JoinInOrder, data
  <1> QED BY <1>1 DEF Progress, RefusePack, AcceptPack, ReportFailure, TagPack, FailToTag, data

LEMMA ListStays ==
  ASSUME Control, Progress, NEW p \in Actors, pc[p] \notin {"index", "layers"}
  PROVE  list'[p] = list[p]
  <1>1. ASSUME NEW a \in Actors, Return(a) PROVE list'[p] = list[p]
    <2>1. list \in [Actors -> Seq(Digests)] /\ pc[a] = "return" /\ a # Root
      BY <1>1 DEF Control, TypeOK, Return
    <2>2. CASE a \in ItemActors
      BY <1>1, <2>2 DEF Return
    <2>3. CASE a \notin ItemActors
      <3>1. Parent(a) # p
        BY <2>1, <2>3, ActorsDiffer, Parents DEF Control, Nested, AtRest
      <3> QED BY <1>1, <2>1, <2>3, <3>1 DEF Return
    <2> QED BY <2>2, <2>3
  <1>2. ASSUME NEW a \in Actors, Step(a) PROVE list'[p] = list[p]
    BY <1>1, <1>2 DEF Step, Start, Commit, TakeSlot, LeaveQueue, ResolveItem, FailItem, BeginMount,
                  OpenSource, ClaimUpload, AwaitUpload, ShareOutcome, AbandonWait, RequestGranted,
                  RequestRefused, Settle, Release, Join, JoinInOrder, children
  <1> QED BY <1>2 DEF Progress, RefusePack, AcceptPack, ReportFailure, TagPack, FailToTag, children

LEMMA TargetStays ==
  ASSUME Control, Progress, NEW a \in Actors, a \notin ItemActors,
         pc[a] \notin {"idle", "validate", "build", "index", "layers"}
  PROVE  Target(a)' = Target(a) /\ Result(a)' = Result(a)
  <1>1. /\ pack' = pack /\ IndexExpected' = IndexExpected /\ Mounts(a)' = Mounts(a) /\ Items' = Items
        /\ Members' = Members /\ PartActors' = PartActors /\ Source(a)' = Source(a)
    BY ProgressIsShaped, PackStays
  <1>2. CASE a \in PartActors
    <2>1. Parent(a) \in Members /\ pc[Root] # "build"
      BY <1>2, Parents DEF Control, NotBegun
    <2>2. disk' = disk
      BY <2>1, DiskStays
    <2> QED BY <1>1, <1>2, <2>2, ActorsDiffer DEF Target, Result, Content
  <1>3. CASE a \in Members
    <2>1. list'[a] = list[a]
      BY ListStays
    <2> QED BY <1>1, <1>3, <2>1, ActorsDiffer DEF Target, Result
  <1>4. CASE a = Root
    <2>1. list'[a] = list[a]
      BY ListStays
    <2> QED BY <1>1, <1>4, <2>1, ActorsDiffer DEF Target, Result
  <1> QED BY <1>2, <1>3, <1>4, ActorsDiffer

LEMMA SameTargets ==
  ASSUME pack' = pack, list' = list, disk' = disk
  PROVE  \A a : Target(a)' = Target(a) /\ Result(a)' = Result(a)
  <1>1. /\ Items' = Items /\ IndexExpected' = IndexExpected /\ Members' = Members /\ PartActors' = PartActors
        /\ \A a : Mounts(a)' = Mounts(a) /\ Source(a)' = Source(a)
    BY PackStays
  <1>2. \A p : Content(p)' = Content(p)
    BY DEF Content
  <1>3. \A a : Target(a)' = Target(a)
    BY <1>1, <1>2, Zenon DEF Target
  <1> QED BY <1>1, <1>3 DEF Result

LEMMA UploadersWork ==
  ASSUME Control, NEW a \in Actors, pc[a] \in {"once", "wait", "requests", "settle"}
  PROVE  a \notin ItemActors /\ pc[a] \notin {"idle", "validate", "build", "index", "layers"}
BY DEF Control, StepsFit, Fits

Uploading(a) == pc[a] \in {"requests", "settle"} /\ ~Mounts(a)

Claims(a) ==
  /\ tasks[Target(a)] = Unclaimed /\ Target(a) \in Digests
  /\ tasks' = [tasks EXCEPT ![Target(a)] = Claimed]
  /\ \A d \in Digests : Uploaders(d)' = IF d = Target(a) THEN Uploaders(d) \cup {a} ELSE Uploaders(d)

Settles(a) ==
  /\ Target(a) \in Digests /\ a \in Uploaders(Target(a)) /\ res[a] \in Outcomes
  /\ tasks' = [tasks EXCEPT ![Target(a)] = res[a]]
  /\ \A d \in Digests : Uploaders(d)' = IF d = Target(a) THEN Uploaders(d) \ {a} ELSE Uploaders(d)

LEMMA UploadsStep ==
  ASSUME ContentAddressed, Control, Progress
  PROVE  \/ tasks' = tasks /\ \A d \in Digests : Uploaders(d)' = Uploaders(d)
         \/ \E a \in Actors : Claims(a)
         \/ \E a \in Actors : Settles(a)
  <1>0. pack' = pack /\ Actors' = Actors /\ (\A a : Mounts(a)' = Mounts(a)) /\ TypeOK
    BY ProgressIsShaped, PackStays DEF Control
  <1>1. \A a \in Actors : Uploading(a) => Target(a)' = Target(a)
    BY UploadersWork, TargetStays DEF Uploading
  <1>2. /\ \A d : Uploaders(d) = {a \in Actors : Uploading(a) /\ Target(a) = d}
        /\ \A d : Uploaders(d)' = {a \in Actors : Uploading(a)' /\ Target(a)' = d}
    BY <1>0 DEF Uploaders, Uploading
  <1>3. ASSUME \A a \in Actors : Uploading(a)' = Uploading(a)
        PROVE  \A d \in Digests : Uploaders(d)' = Uploaders(d)
    BY <1>1, <1>2, <1>3
  <1>4. ASSUME \A a \in Actors : pc'[a] = pc[a] \/ (pc[a] \notin {"requests", "settle"} /\ pc'[a] \notin {"requests", "settle"})
        PROVE  \A d \in Digests : Uploaders(d)' = Uploaders(d)
    BY <1>0, <1>3, <1>4 DEF Uploading
  <1>5. CASE RefusePack \/ AcceptPack \/ ReportFailure \/ TagPack \/ FailToTag
    <2>1. tasks' = tasks
      BY <1>5 DEF RefusePack, AcceptPack, ReportFailure, TagPack, FailToTag, budgetVars
    <2>2. CASE AcceptPack
      <3>1. pc[Root] = "validate" /\ FanOut(Root, "build") /\ Fans(Root, "build")
            /\ Kids(Root, "build") = ItemActors /\ pack \in Packs
        BY <1>0, <2>2 DEF AcceptPack, Fans, Kids, TypeOK
      <3>2. \A b \in Kids(Root, "build") : pc[b] = "idle"
        BY <3>1 DEF Control, NotBegun
      <3>3. \A b \in Actors : pc'[b] = pc[b] \/ (pc[b] \notin {"requests", "settle"} /\ pc'[b] \notin {"requests", "settle"})
        BY <1>0, <3>1, <3>2, FanOutIs DEF OthersStay
      <3> QED BY <1>4, <2>1, <3>3
    <2>3. CASE RefusePack \/ ReportFailure \/ TagPack \/ FailToTag
      <3>1. Root \in Actors /\ pc[Root] \in {"validate", "return"} /\ pc'[Root] = "done" /\ OthersStay({Root})
        BY <1>0, <2>3, GotoMoves, ActorsDiffer DEF RefusePack, ReportFailure, TagPack, FailToTag
      <3> QED BY <1>4, <2>1, <3>1 DEF OthersStay
    <2> QED BY <1>5, <2>2, <2>3
  <1>6. ASSUME NEW a \in Actors, Start(a) \/ Join(a) \/ JoinInOrder(a)
        PROVE  tasks' = tasks /\ \A d \in Digests : Uploaders(d)' = Uploaders(d)
    <2>1. tasks' = tasks /\ pc[a] \notin {"requests", "settle"}
      BY <1>6 DEF Start, Join, JoinInOrder, budgetVars, Fanned
    <2>2. \A b \in Actors : pc'[b] = pc[b] \/ (pc[b] \notin {"requests", "settle"} /\ pc'[b] \notin {"requests", "settle"})
      <3>1. ASSUME NEW step \in Fanned, FannedOut(a, step)
            PROVE  \A b \in Actors : pc'[b] = pc[b] \/ (pc[b] \notin {"requests", "settle"} /\ pc'[b] \notin {"requests", "settle"})
        BY <2>1, <3>1 DEF FannedOut, OthersStay, Fanned
      <3>2. CASE Joined(a)
        BY <2>1, <3>2 DEF Joined, OthersStay
      <3>3. CASE Continued(a)
        BY <3>3 DEF Continued, OthersStay
      <3>4. CASE Start(a) /\ ~(a \in Members /\ ~Mounts(a))
        <4>1. pc'[a] \in {"queue", "return"} /\ OthersStay({a})
          BY <1>0, <3>4, GotoMoves DEF Start, AskForSlot
        <4> QED BY <2>1, <4>1 DEF OthersStay
      <3>5. CASE Start(a) /\ a \in Members /\ ~Mounts(a)
        <4>1. pc'[a] = "layers"
          BY <1>0, <3>5 DEF Start, FanOut
        <4>2. FannedOut(a, "layers")
          BY <3>5, <4>1, StartSteps DEF Moved, Fanned
        <4> QED BY <3>1, <4>2 DEF Fanned
      <3> QED BY <1>6, <3>1, <3>2, <3>3, <3>4, <3>5, JoinSteps, JoinInOrderSteps DEF Fanned
    <2> QED BY <1>4, <2>1, <2>2
  <1>7. ASSUME NEW a \in Actors,
               \/ Commit(a) \/ LeaveQueue(a) \/ TakeSlot(a) \/ ResolveItem(a) \/ FailItem(a)
               \/ OpenSource(a) \/ AwaitUpload(a) \/ ShareOutcome(a) \/ AbandonWait(a)
               \/ Release(a) \/ Return(a)
        PROVE  tasks' = tasks /\ \A d \in Digests : Uploaders(d)' = Uploaders(d)
    <2>1. tasks' = tasks
      BY <1>7 DEF Commit, LeaveQueue, TakeSlot, ResolveItem, FailItem, OpenSource,
                  AwaitUpload, ShareOutcome, AbandonWait, Release, Return, budgetVars
    <2>2. OthersStay({a})
      BY <1>7, LocalSteps DEF Moved, Control
    <2>3. pc[a] \notin {"requests", "settle"} /\ pc'[a] \notin {"requests", "settle"}
      BY <1>0, <1>7, LocalMoves
    <2> QED BY <1>4, <2>1, <2>2, <2>3 DEF OthersStay
  <1>8. ASSUME NEW a \in Actors, BeginMount(a) \/ RequestGranted(a) \/ RequestRefused(a)
        PROVE  tasks' = tasks /\ \A d \in Digests : Uploaders(d)' = Uploaders(d)
    <2>1. tasks' = tasks
      BY <1>8 DEF BeginMount, RequestGranted, RequestRefused, budgetVars
    <2>2. OthersStay({a})
      BY <1>8, LocalSteps DEF Moved, Control
    <2>3. Mounts(a) \/ (pc[a] = "requests" /\ pc'[a] \in {"requests", "settle"})
      BY <1>0, <1>8, GotoMoves DEF BeginMount, RequestGranted, RequestRefused, Ended
    <2>4. \A b \in Actors : Uploading(b)' = Uploading(b)
      BY <1>0, <2>2, <2>3 DEF Uploading, OthersStay
    <2> QED BY <1>3, <2>1, <2>4
  <1>9. ASSUME NEW a \in Actors, ClaimUpload(a) PROVE Claims(a)
    <2>1. OthersStay({a}) /\ pc[a] = "once" /\ pc'[a] = "requests" /\ tasks[Target(a)] = Unclaimed
          /\ tasks' = [tasks EXCEPT ![Target(a)] = Claimed]
      BY <1>0, <1>9, GotoMoves DEF ClaimUpload, Found, Claim
    <2>2. a \notin ItemActors /\ Target(a)' = Target(a)
      BY <2>1, UploadersWork, TargetStays
    <2>3. Target(a) \in Digests
      BY <1>0, <2>2, TargetsAreDigests, ActorsDiffer
    <2>4. ~Mounts(a)
      BY <2>1 DEF Control, StepsFit, Fits
    <2>5. Uploading(a)' /\ ~Uploading(a) /\ \A b \in Actors \ {a} : Uploading(b)' = Uploading(b)
      BY <1>0, <2>1, <2>4 DEF Uploading, OthersStay
    <2>6. \A d \in Digests : Uploaders(d)' = IF d = Target(a) THEN Uploaders(d) \cup {a} ELSE Uploaders(d)
      BY <1>1, <1>2, <2>2, <2>5
    <2> QED BY <2>1, <2>3, <2>6 DEF Claims
  <1>10. ASSUME NEW a \in Actors, Settle(a) PROVE Settles(a)
    <2>1. OthersStay({a}) /\ pc[a] = "settle" /\ pc'[a] = "release"
          /\ tasks' = [tasks EXCEPT ![Target(a)] = res[a]]
      BY <1>0, <1>10, GotoMoves DEF Settle, CloseTask
    <2>2. a \notin ItemActors
      BY <2>1, UploadersWork
    <2>3. Target(a) \in Digests /\ res[a] \in Outcomes
      BY <1>0, <2>1, <2>2, TargetsAreDigests, ActorsDiffer DEF TypeOK
    <2>4. ~Mounts(a)
      BY <2>1 DEF Control, StepsFit, Fits
    <2>5. Uploading(a) /\ ~Uploading(a)' /\ \A b \in Actors \ {a} : Uploading(b)' = Uploading(b)
      BY <1>0, <2>1, <2>4 DEF Uploading, OthersStay
    <2>6. \A d \in Digests : Uploaders(d)' = IF d = Target(a) THEN Uploaders(d) \ {a} ELSE Uploaders(d)
      BY <1>1, <1>2, <2>5
    <2>7. a \in Uploaders(Target(a))
      BY <1>2, <2>5
    <2> QED BY <2>1, <2>3, <2>6, <2>7 DEF Settles
  <1> QED BY <1>5, <1>6, <1>7, <1>8, <1>9, <1>10 DEF Progress, Step

Alone == \A d \in Digests : /\ \A a, b \in Uploaders(d) : a = b
                            /\ Uploaders(d) # {} <=> tasks[d] = Claimed

LEMMA AloneStep ==
  ASSUME ContentAddressed, Control, Alone, [Next]_vars
  PROVE  Alone'
  <1>1. CASE Progress
    <2>0. TypeOK /\ tasks \in [Digests -> {Unclaimed, Claimed} \cup Outcomes]
      BY DEF Control, TypeOK
    <2>1. ASSUME NEW a \in Actors, Claims(a) PROVE Alone'
      <3>1. \A d \in Digests : tasks'[d] = IF d = Target(a) THEN Claimed ELSE tasks[d]
        BY <2>0, <2>1 DEF Claims
      <3>2. Uploaders(Target(a)) = {}
        BY <2>1, OutcomesDiffer DEF Claims, Alone
      <3> QED BY <2>1, <3>1, <3>2 DEF Claims, Alone
    <2>2. ASSUME NEW a \in Actors, Settles(a) PROVE Alone'
      <3>1. \A d \in Digests : tasks'[d] = IF d = Target(a) THEN res[a] ELSE tasks[d]
        BY <2>0, <2>2 DEF Settles
      <3>2. Uploaders(Target(a)) \ {a} = {}
        BY <2>2 DEF Settles, Alone
      <3>3. res[a] # Claimed
        BY <2>2, OutcomesDiffer DEF Settles
      <3> QED BY <2>2, <3>1, <3>2, <3>3 DEF Settles, Alone
    <2>3. (tasks' = tasks /\ \A d \in Digests : Uploaders(d)' = Uploaders(d)) => Alone'
      BY DEF Alone
    <2> QED BY <1>1, <2>1, <2>2, <2>3, UploadsStep
  <1>2. CASE UNCHANGED vars
    <2>1. pack' = pack /\ pc' = pc /\ tasks' = tasks /\ list' = list /\ disk' = disk
      BY <1>2 DEF vars, budgetVars
    <2>2. \A d : Uploaders(d)' = Uploaders(d)
      BY <2>1, PackStays, SameTargets DEF Uploaders
    <2> QED BY <2>1, <2>2 DEF Alone
  <1> QED BY <1>1, <1>2 DEF Next, Finished

LEMMA InitAlone ==
  ASSUME Init
  PROVE  Alone
  <1>1. \A d \in Digests : tasks[d] = Unclaimed
    BY DEF Init, NewBudget
  <1>2. \A d \in Digests : Uploaders(d) = {}
    BY DEF Init, Uploaders
  <1> QED BY <1>1, <1>2, OutcomesDiffer DEF Alone

LEMMA AloneIsOne ==
  ASSUME Alone
  PROVE  OneUploadPerDigest
  <1> SUFFICES ASSUME NEW d \in Digests PROVE Cardinality(Uploaders(d)) < 2
    BY DEF Alone, OneUploadPerDigest
  <1>1. CASE Uploaders(d) = {}
    BY <1>1, FS_EmptySet
  <1>2. ASSUME NEW a \in Uploaders(d) PROVE Cardinality(Uploaders(d)) < 2
    <2>1. Uploaders(d) = {a}
      BY <1>2 DEF Alone
    <2>2. Cardinality({a}) = 1
      BY FS_Singleton
    <2> QED BY <2>1, <2>2
  <1> QED BY <1>1, <1>2

(* One actor at a time works on a digest, from its claim to its outcome.   *)
THEOREM PackUploads ==
  ASSUME ContentAddressed
  PROVE  Spec => []OneUploadPerDigest
  <1>1. Init => Control /\ Alone
    BY InitControl, InitAlone
  <1>2. Control /\ Alone /\ [Next]_vars => Control' /\ Alone'
    BY ControlStep, AloneStep
  <1> QED BY <1>1, <1>2, AloneIsOne, PTL DEF Spec

-----------------------------------------------------------------------------
(* What a step can do to an actor.                                         *)

LEMMA WhoMoves ==
  ASSUME Control, Progress
  PROVE  \E a \in Actors : Moved(a) \/ Joined(a) \/ (\E step \in Fanned : FannedOut(a, step)) \/ Continued(a)
                           \/ (a = Root /\ RefusedAtOnce)
BY ProgressIsShaped, ActorsDiffer DEF Shaped

LEMMA DoneStays ==
  ASSUME Control, Progress, NEW b \in Actors, pc[b] = "done"
  PROVE  pc'[b] = "done" /\ res'[b] = res[b]
  <1>1. PICK a \in Actors : Moved(a) \/ Joined(a) \/ (\E step \in Fanned : FannedOut(a, step)) \/ Continued(a)
                           \/ (a = Root /\ RefusedAtOnce)
    BY WhoMoves
  <1>2. CASE Moved(a) \/ Joined(a) \/ (a = Root /\ RefusedAtOnce)
    <2>1. pc[a] # "done" /\ OthersStay({a})
      BY <1>2 DEF Moved, Joined, RefusedAtOnce, AtRest, Fans
    <2> QED BY <2>1 DEF OthersStay
  <1>3. ASSUME NEW step, FannedOut(a, step) PROVE pc'[b] = "done" /\ res'[b] = res[b]
    BY <1>3 DEF FannedOut, OthersStay
  <1>4. CASE Continued(a)
    BY <1>4 DEF Continued, OthersStay
  <1> QED BY <1>1, <1>2, <1>3, <1>4

(* Who enters a step that is not where actors start did so himself.        *)
LEMMA OwnStep ==
  ASSUME Control, Progress, NEW b \in Actors,
         pc'[b] # pc[b] \/ res'[b] # res[b], pc'[b] \notin Fanned \cup {"idle", "start"}
  PROVE  \/ Step(b)
         \/ b = Root /\ (RefusePack \/ ReportFailure \/ TagPack \/ FailToTag)
  <1>0. Root \in Actors /\ TypeOK
    BY ActorsDiffer DEF Control
  <1>1. CASE RefusePack \/ ReportFailure \/ TagPack \/ FailToTag
    <2>1. OthersStay({Root})
      BY <1>0, <1>1, GotoMoves DEF RefusePack, ReportFailure, TagPack, FailToTag
    <2> QED BY <1>1, <2>1 DEF OthersStay
  <1>2. CASE AcceptPack
    <2>1. pc[Root] = "validate" /\ FanOut(Root, "build") /\ Fans(Root, "build")
          /\ Kids(Root, "build") = ItemActors
      BY <1>2 DEF AcceptPack, Fans, Kids
    <2>2. \A c \in Kids(Root, "build") : pc[c] = "idle"
      BY <2>1 DEF Control, NotBegun
    <2>3. /\ pc'[Root] = "build"
          /\ \A c \in Kids(Root, "build") : pc'[c] \in {"idle", "start"}
          /\ OthersStay({Root} \cup Kids(Root, "build"))
      BY <1>0, <2>1, <2>2, FanOutIs
    <2> QED BY <2>3 DEF OthersStay, Fanned
  <1>3. ASSUME NEW a \in Actors, Step(a), a # b PROVE FALSE
    <2>1. Moved(a) \/ Joined(a) \/ (\E step \in Fanned : FannedOut(a, step)) \/ Continued(a)
      BY <1>3, StepsAreShaped
    <2>2. CASE Moved(a) \/ Joined(a)
      BY <1>3, <2>2 DEF Moved, Joined, OthersStay
    <2>3. ASSUME NEW step, FannedOut(a, step) PROVE FALSE
      <3>1. (b \in Kids(a, step) => pc'[b] \in {"idle", "start"})
            /\ (b \notin Kids(a, step) => pc'[b] = pc[b] /\ res'[b] = res[b])
        BY <1>3, <2>3 DEF FannedOut, OthersStay
      <3> QED BY <3>1
    <2>4. CASE Continued(a)
      BY <2>4 DEF Continued, OthersStay
    <2> QED BY <2>1, <2>2, <2>3, <2>4
  <1> QED BY <1>1, <1>2, <1>3 DEF Progress

(* Who fans out finds his children where they start.                       *)
LEMMA FannedBefore ==
  ASSUME Control, Progress, NEW p \in Actors, pc'[p] \in Fanned, pc'[p] # pc[p]
  PROVE  /\ pack \in Packs /\ Fans(p, pc'[p])
         /\ \A b \in Kids(p, pc'[p]) : pc'[b] \in {"idle", "start"}
  <1>0. pack \in Packs
    BY DEF Control, TypeOK
  <1>1. PICK a \in Actors : Moved(a) \/ Joined(a) \/ (\E step \in Fanned : FannedOut(a, step)) \/ Continued(a)
                           \/ (a = Root /\ RefusedAtOnce)
    BY WhoMoves
  <1>2. CASE Moved(a) \/ Joined(a) \/ (a = Root /\ RefusedAtOnce)
    BY <1>2 DEF Moved, Joined, RefusedAtOnce, Fanned, OthersStay
  <1>3. CASE Continued(a)
    BY <1>3 DEF Continued, OthersStay, Fanned
  <1>4. ASSUME NEW step, FannedOut(a, step)
        PROVE  Fans(p, pc'[p]) /\ \A b \in Kids(p, pc'[p]) : pc'[b] \in {"idle", "start"}
    <2>1. p = a
      <3>1. \A b \in Kids(a, step) : pc'[b] \notin Fanned
        BY <1>4 DEF FannedOut, Fanned
      <3> QED BY <1>4, <3>1 DEF FannedOut, OthersStay
    <2> QED BY <1>4, <2>1 DEF FannedOut
  <1> QED BY <1>0, <1>1, <1>2, <1>3, <1>4

LEMMA OnlyReturnEnds ==
  ASSUME Control, Progress, NEW b \in Actors, b # Root, pc[b] # "done", pc'[b] = "done"
  PROVE  Return(b)
  <1>1. Step(b) /\ TypeOK
    BY OwnStep DEF Fanned, Control
  <1>2. pc'[b] \notin {"queue", "return", "held", "release", "requests", "once", "wait", "settle", "layers", "index", "build", "commit"}
    OBVIOUS
  <1>3. ~Start(b)
    <2>1. Start(b) => (Moved(b) /\ pc'[b] \in {"queue", "return"}) \/ pc'[b] = "layers"
      <3>1. CASE b \in Members /\ ~Mounts(b)
        BY <1>1, <3>1 DEF Start, FanOut, TypeOK
      <3>2. CASE ~(b \in Members /\ ~Mounts(b))
        BY <1>1, <3>2, GotoMoves, StartSteps DEF Start, AskForSlot, FannedOut, Fans
      <3> QED BY <3>1, <3>2
    <2> QED BY <2>1
  <1>4. ~Join(b) /\ ~JoinInOrder(b)
    <2>1. Join(b) \/ JoinInOrder(b) => pc'[b] # "done"
      <3>1. ASSUME Join(b) \/ JoinInOrder(b) PROVE pc[b] \in Fanned /\ (Joined(b) \/ FannedOut(b, "index") \/ Continued(b))
        BY <3>1, JoinSteps, JoinInOrderSteps DEF Join, JoinInOrder
      <3> QED BY <3>1 DEF Joined, FannedOut, Continued, OthersStay, Fanned
    <2> QED BY <2>1
  <1>5. Ended(b) # "done"
    BY DEF Ended
  <1> QED BY <1>1, <1>3, <1>4, <1>5, LocalMoves DEF Step

LEMMA GroupOnlyFails ==
  ASSUME Control, Progress, NEW p \in Actors
  PROVE  \/ group'[p] = group[p]
         \/ \E b \in Actors : /\ Return(b) /\ Parent(b) = p /\ group[p] = Ok
                              /\ group'[p] = Outcome(b) /\ ~Ordered(p, pc[p])
  <1>1. ASSUME NEW a \in Actors, Step(a), ~Return(a) PROVE group' = group
    BY <1>1 DEF Step, Start, Commit, TakeSlot, LeaveQueue, ResolveItem, FailItem, BeginMount,
                  OpenSource, ClaimUpload, AwaitUpload, ShareOutcome, AbandonWait, RequestGranted,
                  RequestRefused, Settle, Release, Join, JoinInOrder, children
  <1>2. ASSUME NEW a \in Actors, Return(a)
        PROVE  \/ group'[p] = group[p]
               \/ /\ Parent(a) = p /\ group[p] = Ok
                  /\ group'[p] = Outcome(a) /\ ~Ordered(p, pc[p])
    <2>1. group \in [Actors -> Outcomes]
      BY DEF Control, TypeOK
    <2>2. CASE InGroup(a) /\ group[Parent(a)] = Ok
      BY <1>2, <2>1, <2>2 DEF Return, InGroup
    <2>3. CASE ~(InGroup(a) /\ group[Parent(a)] = Ok)
      BY <1>2, <2>3 DEF Return
    <2> QED BY <2>2, <2>3
  <1>3. CASE RefusePack \/ AcceptPack \/ ReportFailure \/ TagPack \/ FailToTag
    BY <1>3 DEF RefusePack, AcceptPack, ReportFailure, TagPack, FailToTag, children
  <1> QED BY <1>1, <1>2, <1>3 DEF Progress

LEMMA GroupStep ==
  ASSUME Control, GroupKnows, Progress
  PROVE  GroupKnows'
  <1>0. /\ pack' = pack /\ Members' = Members /\ TypeOK /\ pack \in Packs
        /\ \A a, step : Kids(a, step)' = Kids(a, step) /\ Ordered(a, step)' = Ordered(a, step)
    BY ProgressIsShaped, PackStays DEF Control, TypeOK
  <1>1. SUFFICES ASSUME NEW p \in {Root} \cup Members, pc'[p] \in Fanned, ~Ordered(p, pc'[p]), group'[p] = Ok,
                        NEW b \in Kids(p, pc'[p]), pc'[b] = "done"
                 PROVE  res'[b] = Ok
    BY <1>0 DEF GroupKnows
  <1>2. p \in Actors
    BY ActorsDiffer
  <1>3. pc'[p] = pc[p]
    BY <1>1, <1>2, FannedBefore
  <1>4. Fans(p, pc[p])
    BY <1>1, <1>2, <1>3, FannedAre
  <1>5. b \in Actors /\ b # Root /\ Parent(b) = p
    BY <1>0, <1>1, <1>3, <1>4, KidsAreActors
  <1>6. CASE pc[b] = "done"
    <2>1. group[p] = Ok
      <3>1. ASSUME NEW c \in Actors, Return(c), group[p] = Ok PROVE group[p] = Ok
        BY <3>1
      <3> QED BY <1>1, <1>2, <3>1, GroupOnlyFails
    <2>2. res[b] = Ok
      BY <1>1, <1>3, <1>6, <2>1 DEF GroupKnows
    <2> QED BY <1>5, <1>6, <2>2, DoneStays
  <1>7. CASE pc[b] # "done"
    <2>1. Return(b)
      BY <1>1, <1>5, <1>7, OnlyReturnEnds
    <2>2. res'[b] = Outcome(b)
      BY <1>0, <1>5, <2>1 DEF Return, GotoWith, TypeOK
    <2>3. group'[p] = IF group[p] = Ok THEN Outcome(b) ELSE group[p]
      BY <1>0, <1>1, <1>2, <1>3, <1>5, <2>1 DEF Return, InGroup, TypeOK
    <2> QED BY <1>1, <2>2, <2>3
  <1> QED BY <1>6, <1>7

LEMMA CauseOfError ==
  ASSUME NEW err, err # Ok
  PROVE  Cause(err) # Ok
BY DEF Cause

LEMMA EndsOfRoot ==
  ASSUME Control
  PROVE  /\ RefusePack => pc[Root] = "validate" /\ pc'[Root] = "done" /\ res'[Root] = Refused
         /\ ReportFailure => pc[Root] = "return" /\ pc'[Root] = "done" /\ res[Root] # Ok /\ res'[Root] # Ok
                             /\ res'[Root] = Cause(res[Root])
         /\ TagPack => pc[Root] = "return" /\ pc'[Root] = "done" /\ res[Root] = Ok /\ res'[Root] = Ok
         /\ FailToTag => pc[Root] = "return" /\ pc'[Root] = "done" /\ res[Root] = Ok
                         /\ res'[Root] \in {Failed(Target(Root)), DeadlineExceeded}
  <1>1. Root \in Actors /\ pc \in [Actors -> Steps] /\ res \in [Actors -> Outcomes \cup {Refused}]
    BY ActorsDiffer DEF Control, TypeOK
  <1>2. /\ RefusePack => pc[Root] = "validate" /\ pc'[Root] = "done" /\ res'[Root] = Refused
        /\ ReportFailure => pc[Root] = "return" /\ pc'[Root] = "done" /\ res[Root] # Ok /\ res'[Root] = Cause(res[Root])
    BY <1>1 DEF RefusePack, ReportFailure, GotoWith
  <1>3. /\ TagPack => pc[Root] = "return" /\ pc'[Root] = "done" /\ res[Root] = Ok /\ res'[Root] = Ok
        /\ FailToTag => pc[Root] = "return" /\ pc'[Root] = "done" /\ res[Root] = Ok
                         /\ res'[Root] \in {Failed(Target(Root)), DeadlineExceeded}
    BY <1>1 DEF TagPack, FailToTag, Goto, GotoWith, TimedOutOn
  <1> QED BY <1>2, <1>3, CauseOfError

LEMMA RefusalIsAnError ==
  ASSUME NEW d, NEW a,
         NEW err \in (IF d \in MayFail THEN {Failed(d)} ELSE {}) \cup TimedOutOn(d) \cup Interrupted(a)
  PROVE  err # Ok
BY OutcomesDiffer DEF TimedOutOn, Interrupted, Failed, Ok

(* The children of whoever joins in success have all succeeded.            *)
AllSucceeded(p) == \A b \in Kids(p, pc[p]) : pc[b] = "done" /\ res[b] = Ok

LEMMA JoinIs ==
  ASSUME Control, GroupKnows, NEW a \in Actors, Join(a) \/ JoinInOrder(a)
  PROVE  /\ pc[a] \in Fanned /\ Fans(a, pc[a])
         /\ \/ pc'[a] = "return" /\ res'[a] # Ok /\ res'[a] # Refused
               /\ res'[a] \in {group[a]} \cup {res[b] : b \in Kids(a, pc[a])}
            \/ pc'[a] \in {"commit", "return"} /\ res'[a] = res[a] /\ AllSucceeded(a) /\ pc[a] # "build"
               /\ (pc'[a] = "return" => a = Root /\ pc[a] = "index" /\ ~IndexExpected)
            \/ pc'[a] = "index" /\ AllSucceeded(a)
            \/ pc'[a] = pc[a] /\ res'[a] = res[a]
  <1>0. TypeOK /\ pc[a] \in Fanned /\ Fans(a, pc[a]) /\ pack \in Packs /\ a \in {Root} \cup Members
    BY FannedAre DEF Control, Join, JoinInOrder, Fans
  <1>1. pc \in [Actors -> Steps] /\ res \in [Actors -> Outcomes \cup {Refused}] /\ group \in [Actors -> Outcomes]
    BY <1>0 DEF TypeOK
  <1>2. ASSUME Proceed(a), AllSucceeded(a)
        PROVE  \/ pc'[a] \in {"commit", "return"} /\ res'[a] = res[a] /\ AllSucceeded(a) /\ pc[a] # "build"
                  /\ (pc'[a] = "return" => a = Root /\ pc[a] = "index" /\ ~IndexExpected)
               \/ pc'[a] = "index" /\ AllSucceeded(a)
    <2>1. CASE pc[a] = "build"
      BY <1>0, <2>1, <1>2 DEF Proceed, FanOut
    <2>2. CASE pc[a] = "index" /\ ~IndexExpected
      <3>1. Goto(a, "return") /\ a = Root
        BY <1>0, <2>2, <1>2 DEF Proceed, Fans
      <3> QED BY <1>1, <1>2, <2>2, <3>1 DEF Goto
    <2>3. CASE pc[a] # "build" /\ ~(pc[a] = "index" /\ ~IndexExpected)
      <3>1. Goto(a, "commit")
        BY <2>3, <1>2 DEF Proceed
      <3> QED BY <1>1, <1>2, <2>3, <3>1 DEF Goto
    <2> QED BY <2>1, <2>2, <2>3
  <1>3. CASE Join(a)
    <2>1. CASE group[a] = Ok
      <3>1. AllSucceeded(a)
        BY <1>0, <1>3, <2>1 DEF Join, GroupKnows, AllSucceeded
      <3> QED BY <1>0, <1>2, <1>3, <2>1, <3>1 DEF Join
    <2>2. CASE group[a] # Ok
      <3>1. pc'[a] = "return" /\ res'[a] = group[a]
        BY <1>1, <1>3, <2>2 DEF Join, GotoWith
      <3> QED BY <1>0, <1>1, <2>2, <3>1, OutcomesDiffer
    <2> QED BY <2>1, <2>2
  <1>4. CASE JoinInOrder(a)
    <2>0. Cardinality(Kids(a, pc[a])) = Count(a, pc[a]) /\ Count(a, pc[a]) \in Nat /\ Ordered(a, pc[a])
      BY <1>0, <1>4, CountKids DEF JoinInOrder
    <2>1. PICK i \in 1 .. Count(a, pc[a]) :
          /\ pc[Kid(a, pc[a], i)] = "done"
          /\ i # Count(a, pc[a]) => pc[Kid(a, pc[a], i + 1)] = "idle"
          /\ IF res[Kid(a, pc[a], i)] # Ok THEN GotoWith(a, "return", res[Kid(a, pc[a], i)])
             ELSE IF i = Count(a, pc[a]) THEN Proceed(a)
             ELSE pc' = [pc EXCEPT ![Kid(a, pc[a], i + 1)] = "start"] /\ UNCHANGED res
      BY <1>4, <2>0 DEF JoinInOrder
    <2>2. Kid(a, pc[a], i) \in Kids(a, pc[a])
      BY <1>0, KidsAre
    <2>3. Kid(a, pc[a], i) \in Actors /\ Kid(a, pc[a], i) # Root
      BY <1>0, <2>2, KidsAreActors
    <2>4. CASE res[Kid(a, pc[a], i)] # Ok
      <3>1. pc'[a] = "return" /\ res'[a] = res[Kid(a, pc[a], i)]
        BY <1>1, <2>1, <2>4 DEF GotoWith
      <3>2. res[Kid(a, pc[a], i)] # Refused
        BY <1>0, <2>3 DEF TypeOK
      <3> QED BY <1>0, <2>2, <2>4, <3>1, <3>2
    <2>5. CASE res[Kid(a, pc[a], i)] = Ok /\ i = Count(a, pc[a])
      <3>1. ASSUME NEW j \in 1 .. Count(a, pc[a])
            PROVE  LET b == Kid(a, pc[a], j) IN pc[b] = "done" /\ res[b] = Ok
        <4>1. CASE j = i
          BY <2>1, <2>5, <4>1
        <4>2. CASE j # i
          <5>1. Kid(a, pc[a], j) \in Kids(a, pc[a]) /\ Position(Kid(a, pc[a], j)) = j
                /\ Position(Kid(a, pc[a], i)) = i /\ j < i
            BY <1>0, <2>0, <2>5, <4>2, KidsAre
          <5>2. pc[Kid(a, pc[a], i)] # "idle"
            BY <2>1
          <5> QED BY <1>0, <2>0, <2>2, <5>1, <5>2 DEF Control, EldersAreDone
        <4> QED BY <4>1, <4>2
      <3>2. AllSucceeded(a)
        BY <1>0, <3>1, KidsAre DEF AllSucceeded
      <3> QED BY <1>0, <1>2, <2>1, <2>5, <3>2
    <2>6. CASE res[Kid(a, pc[a], i)] = Ok /\ i # Count(a, pc[a])
      <3>1. i + 1 \in 1 .. Count(a, pc[a])
        BY <2>0, <2>6
      <3>2. Kid(a, pc[a], i + 1) # a
        BY <1>0, <3>1, KidsAre, KidsAreActors
      <3>3. pc' = [pc EXCEPT ![Kid(a, pc[a], i + 1)] = "start"] /\ res' = res
        BY <2>1, <2>6
      <3> QED BY <1>0, <1>1, <3>2, <3>3
    <2> QED BY <2>4, <2>5, <2>6
  <1> QED BY <1>3, <1>4

LEMMA StartIs ==
  ASSUME Control, NEW a \in Actors, Start(a)
  PROVE  \/ pc'[a] = "layers" /\ res'[a] = res[a]
         \/ pc'[a] = "queue" /\ res'[a] = res[a] /\ (a \in Members => Mounts(a))
         \/ pc'[a] = "return" /\ res'[a] \in {Canceled, Unreadable} /\ (a \in Members => Mounts(a))
            /\ (res'[a] = Canceled => Cancelled(a))
  <1>0. pc \in [Actors -> Steps] /\ res \in [Actors -> Outcomes \cup {Refused}]
    BY DEF Control, TypeOK
  <1>1. CASE a \in Members /\ ~Mounts(a)
    BY <1>0, <1>1 DEF Start, FanOut
  <1>2. CASE ~(a \in Members /\ ~Mounts(a)) /\ Unhandled(a)
    BY <1>0, <1>2, OutcomesDiffer DEF Start, GotoWith
  <1>3. CASE ~(a \in Members /\ ~Mounts(a)) /\ ~Unhandled(a)
    <2>1. AskForSlot(a)
      BY <1>3 DEF Start
    <2> QED BY <1>0, <1>3, <2>1 DEF AskForSlot, Goto, GotoWith
  <1> QED BY <1>1, <1>2, <1>3

(* Who is about to submit, or has, after what he refers to.                *)
LEMMA SuccessBegins ==
  ASSUME Control, GroupKnows, Progress, NEW p \in {Root} \cup Members, ~Mounts(p),
         Succeeds(p)', ~Succeeds(p)
  PROVE  Fans(p, pc[p]) /\ AllSucceeded(p) /\ (p = Root => pc[p] = "index")
         /\ (pc'[p] = "return" => p = Root /\ ~IndexExpected)
  <1>0. p \in Actors /\ TypeOK
    BY ActorsDiffer DEF Control
  <1>1. pc'[p] \in Submitting \/ (pc'[p] \in {"return", "done"} /\ res'[p] = Ok)
    BY DEF Succeeds
  <1>2. pc[p] \notin Submitting /\ ~(pc[p] \in {"return", "done"} /\ res[p] = Ok)
    BY DEF Succeeds
  <1>3. Step(p) \/ (p = Root /\ (RefusePack \/ ReportFailure \/ TagPack \/ FailToTag))
    BY <1>0, <1>1, <1>2, OwnStep DEF Submitting, Fanned
  <1>4. ~(p = Root /\ (RefusePack \/ ReportFailure \/ TagPack \/ FailToTag))
    BY <1>1, <1>2, EndsOfRoot, OutcomesDiffer DEF Submitting
  <1>5. ~Start(p)
    <2>1. p = Root => pc[p] # "start"
      BY <1>0 DEF Control, StepsFit, Fits
    <2>2. ASSUME Start(p) PROVE FALSE
      <3>1. p \in Members
        BY <2>1, <2>2 DEF Start
      <3>2. pc'[p] = "layers"
        BY <1>0, <2>2, <3>1, StartIs
      <3> QED BY <1>1, <3>2 DEF Submitting
    <2> QED BY <2>2
  <1>6. ~Return(p)
    <2>1. ASSUME Return(p) PROVE FALSE
      <3>1. pc[p] = "return" /\ pc'[p] = "done" /\ res'[p] = Outcome(p)
        BY <1>0, <2>1 DEF Return, GotoWith, TypeOK
      <3>2. Outcome(p) = Ok => res[p] = Ok
        BY OutcomesDiffer DEF Outcome
      <3> QED BY <1>1, <1>2, <3>1, <3>2 DEF Submitting
    <2> QED BY <2>1
  <1>7. Join(p) \/ JoinInOrder(p)
    <2>1. ~(\/ Commit(p) \/ TakeSlot(p) \/ LeaveQueue(p)
            \/ ResolveItem(p) \/ FailItem(p) \/ BeginMount(p) \/ OpenSource(p)
            \/ ClaimUpload(p) \/ AwaitUpload(p) \/ ShareOutcome(p) \/ AbandonWait(p)
            \/ RequestGranted(p) \/ RequestRefused(p) \/ Settle(p) \/ Release(p))
      BY <1>0, <1>2, LocalMoves DEF Submitting
    <2> QED BY <1>3, <1>4, <1>5, <1>6, <2>1 DEF Step
  <1>8. pc'[p] \in {"commit", "return"} /\ AllSucceeded(p)
               /\ (pc'[p] = "return" => p = Root /\ pc[p] = "index" /\ ~IndexExpected) /\ Fans(p, pc[p])
    BY <1>0, <1>1, <1>2, <1>7, JoinIs DEF Submitting, Fanned
  <1>9. p = Root => pc[p] = "index"
    BY <1>0, <1>1, <1>2, <1>7, <1>8, JoinIs, ActorsDiffer DEF Submitting, Fanned, Fans
  <1> QED BY <1>8, <1>9

LEMMA PartsStep ==
  ASSUME Control, GroupKnows, PartsAreDone, Progress
  PROVE  PartsAreDone'
  <1>0. /\ pack \in Packs /\ Members' = Members /\ PartActors' = PartActors /\ Root \in Actors /\ ~Mounts(Root)
        /\ \A a : Mounts(a)' = Mounts(a) /\ Parent(a)' = Parent(a)
    BY ProgressIsShaped, PackStays, ActorsDiffer DEF Control, TypeOK, Mounts
  <1>1. ASSUME NEW a \in PartActors, NEW m \in Members, Parent(a) = m, ~Mounts(m), Succeeds(m)'
        PROVE  pc'[a] = "done" /\ res'[a] = Ok
    <2>1. pc[a] = "done" /\ res[a] = Ok
      <3>1. CASE Succeeds(m)
        BY <1>1, <3>1 DEF PartsAreDone
      <3>2. CASE ~Succeeds(m)
        <4>1. Fans(m, pc[m]) /\ AllSucceeded(m)
          BY <1>1, <3>2, SuccessBegins
        <4>2. pc[m] = "layers"
          BY <4>1, ActorsDiffer DEF Fans
        <4>3. a \in Kids(m, pc[m])
          BY <1>0, <1>1, <4>1, <4>2, KidsAreActors
        <4> QED BY <4>1, <4>3 DEF AllSucceeded
      <3> QED BY <3>1, <3>2
    <2> QED BY <2>1, ActorsDiffer, DoneStays
  <1>2. ASSUME Succeeds(Root)', NEW a \in Members
        PROVE  pc'[a] = "done" /\ res'[a] = Ok
    <2>1. pc[a] = "done" /\ res[a] = Ok
      <3>1. CASE Succeeds(Root)
        BY <3>1 DEF PartsAreDone
      <3>2. CASE ~Succeeds(Root)
        <4>1. AllSucceeded(Root) /\ pc[Root] = "index"
          BY <1>0, <1>2, <3>2, SuccessBegins
        <4>2. a \in Kids(Root, pc[Root])
          BY <4>1 DEF Kids
        <4> QED BY <4>1, <4>2 DEF AllSucceeded
      <3> QED BY <3>1, <3>2
    <2> QED BY <2>1, DoneStays, ActorsDiffer
  <1> QED BY <1>0, <1>1, <1>2, Parents DEF PartsAreDone, Succeeds

-----------------------------------------------------------------------------
(* Requests.                                                               *)

LEMMA Concatenated ==
  ASSUME NEW X, NEW s \in Seq(X), NEW t \in Seq(X)
  PROVE  /\ s \o t \in Seq(X) /\ Len(s \o t) = Len(s) + Len(t) /\ Len(s) \in Nat /\ Len(t) \in Nat
         /\ \A i \in 1 .. Len(s) : (s \o t)[i] = s[i]
         /\ \A i \in 1 .. Len(t) : (s \o t)[Len(s) + i] = t[i]
  <1>1. /\ s \o t \in Seq(X) /\ Len(s \o t) = Len(s) + Len(t) /\ Len(s) \in Nat /\ Len(t) \in Nat
        /\ \A i \in 1 .. Len(s) + Len(t) : (s \o t)[i] = IF i <= Len(s) THEN s[i] ELSE t[i - Len(s)]
    BY ConcatProperties
  <1>2. ASSUME NEW i \in 1 .. Len(t) PROVE (s \o t)[Len(s) + i] = t[i]
    <2>1. Len(s) + i \in 1 .. Len(s) + Len(t) /\ ~(Len(s) + i <= Len(s)) /\ (Len(s) + i) - Len(s) = i
      BY <1>1
    <2> QED BY <1>1, <2>1
  <1> QED BY <1>1, <1>2

LEMMA PartsOfContent ==
  /\ \A d \in Digests : ~IsManifest(d) => PartsOf(d) = {}
  /\ PartsOf(Empty) = {}
  /\ \A d \in Digests : Parts(d) = << >> => PartsOf(d) = {}
  <1>1. \A d : Parts(d) = << >> => PartsOf(d) = {}
    BY DEF PartsOf
  <1>2. \A d : ~IsManifest(d) => Parts(d) = << >>
    BY DEF IsManifest, Parts
  <1>3. ~IsManifest(Empty)
    BY DEF IsManifest, Empty, Blob
  <1> QED BY <1>1, <1>2, <1>3

LEMMA PartsOfManifest ==
  ASSUME NEW l \in Seq(Digests), l # << >>, NEW p \in PartsOf(Manifest(l[1], Tail(l)))
  PROVE  \E k \in 1 .. Len(l) : p = l[k]
  <1>1. Tail(l) \in Seq(Digests) /\ l[1] \in Digests /\ Len(l) \in Nat \ {0} /\ Len(Tail(l)) = Len(l) - 1
        /\ \A i \in 1 .. Len(Tail(l)) : Tail(l)[i] = l[i + 1]
    BY FirstOf
  <1> DEFINE c == l[1]
             t == Tail(l)
  <1>2. Parts(Manifest(c, t)) = <<c>> \o t
    BY DEF Parts, Manifest
  <1>3. PICK i \in 1 .. Len(<<c>> \o t) : p = (<<c>> \o t)[i]
    BY <1>2 DEF PartsOf
  <1> HIDE DEF c, t
  <1>4. c \in Digests /\ t \in Seq(Digests)
    BY <1>1 DEF c, t
  <1>5. Len(<<c>> \o t) = 1 + Len(t) /\ (<<c>> \o t)[i] = IF i = 1 THEN c ELSE t[i - 1]
    BY <1>3, <1>4
  <1>6. CASE i = 1
    <2>1. 1 \in 1 .. Len(l) /\ p = l[1]
      BY <1>1, <1>3, <1>5, <1>6 DEF c
    <2> QED BY <2>1
  <1>7. CASE i # 1
    <2>1. i - 1 \in 1 .. Len(t) /\ Len(t) = Len(l) - 1 /\ p = t[i - 1]
      BY <1>1, <1>3, <1>4, <1>5, <1>7 DEF t
    <2>2. i \in 1 .. Len(l) /\ p = l[i]
      BY <1>1, <2>1 DEF t
    <2> QED BY <2>2
  <1> QED BY <1>6, <1>7

LEMMA PartsOfIndex ==
  ASSUME NEW l, NEW p \in PartsOf(Index(l))
  PROVE  \E k \in 1 .. Len(l) : p = l[k]
BY DEF PartsOf, Parts, Index

(* Replacing the first request of a list that lands by what the answer to  *)
(* it leads to.                                                            *)
LEMMA LandsOn ==
  ASSUME NEW asked \in Requests, asked # << >>, NEW more \in Requests,
         NEW held, NEW then, held \subseteq then,
         Lands(asked, held), Lands(more, then),
         more = << >> => Head(asked).of \in then,
         more # << >> => more[Len(more)].of = Head(asked).of
  PROVE  /\ Lands(more \o Tail(asked), then)
         /\ more \o Tail(asked) # << >> =>
              (more \o Tail(asked))[Len(more \o Tail(asked))].of = asked[Len(asked)].of
  <1> DEFINE t == Tail(asked)
             new == more \o t
             R == [op : Ops, of : Digests]
  <1>1. /\ t \in Seq(R) /\ Len(asked) \in Nat \ {0} /\ Len(t) = Len(asked) - 1 /\ Head(asked) = asked[1]
        /\ \A i \in 1 .. Len(t) : t[i] = asked[i + 1]
    BY FirstOf DEF Requests
  <1>2. more \in Seq(R) /\ asked \in Seq(R)
    BY DEF Requests
  <1> HIDE DEF t, R
  <1>3. /\ new \in Seq(R) /\ Len(new) = Len(more) + Len(t) /\ Len(more) \in Nat /\ Len(t) \in Nat
        /\ \A i \in 1 .. Len(more) : new[i] = more[i]
        /\ \A i \in 1 .. Len(t) : new[Len(more) + i] = t[i]
    <2>1. t \in Seq(R) /\ more \in Seq(R)
      BY <1>1, <1>2
    <2> QED BY <2>1, Concatenated
  <1> HIDE DEF new
  <1>4. Head(asked).of \in then \/ \E j \in 1 .. Len(more) : new[j].of = Head(asked).of
    <2>1. CASE more = << >>
      BY <2>1
    <2>2. CASE more # << >>
      <3>1. Len(more) \in 1 .. Len(more)
        BY <1>2, <2>2
      <3> QED BY <1>3, <2>2, <3>1
    <2> QED BY <2>1, <2>2
  <1>5. ASSUME NEW i \in 1 .. Len(new)
        PROVE  /\ new[i].op = "mount" => PartsOf(new[i].of) = {}
               /\ new[i].op \in {"head", "put"} =>
                    \A p \in PartsOf(new[i].of) : p \in then \/ \E j \in 1 .. i - 1 : new[j].of = p
    <2>1. CASE i \in 1 .. Len(more)
      <3>1. i \in DOMAIN more
        BY <1>2, <2>1
      <3>2. \A j \in 1 .. i - 1 : new[j] = more[j]
        <4>1. \A j \in 1 .. i - 1 : j \in 1 .. Len(more)
          BY <1>3, <2>1
        <4> QED BY <1>3, <4>1
      <3>3. new[i] = more[i]
        BY <1>3, <2>1
      <3>4. /\ more[i].op = "mount" => PartsOf(more[i].of) = {}
            /\ more[i].op \in {"head", "put"} =>
                 \A p \in PartsOf(more[i].of) : p \in then \/ \E j \in 1 .. i - 1 : more[j].of = p
        BY <3>1 DEF Lands
      <3> QED BY <3>2, <3>3, <3>4
    <2>2. CASE i \notin 1 .. Len(more)
      <3>1. PICK k \in 1 .. Len(t) : i = Len(more) + k
        <4>1. i - Len(more) \in 1 .. Len(t) /\ i = Len(more) + (i - Len(more))
          BY <1>3, <2>2
        <4> QED BY <4>1
      <3>2. new[i] = asked[k + 1] /\ k + 1 \in DOMAIN asked
        <4>1. new[i] = t[k] /\ t[k] = asked[k + 1]
          BY <1>1, <1>3, <3>1
        <4>2. k + 1 \in 1 .. Len(asked)
          BY <1>1, <3>1
        <4>3. DOMAIN asked = 1 .. Len(asked)
          BY <1>2
        <4> QED BY <4>1, <4>2, <4>3
      <3>3. /\ asked[k + 1].op = "mount" => PartsOf(asked[k + 1].of) = {}
            /\ asked[k + 1].op \in {"head", "put"} =>
                 \A p \in PartsOf(asked[k + 1].of) : p \in held \/ \E j \in 1 .. k : asked[j].of = p
        <4>1. 1 .. (k + 1) - 1 = 1 .. k
          BY <3>1
        <4>2. /\ asked[k + 1].op = "mount" => PartsOf(asked[k + 1].of) = {}
              /\ asked[k + 1].op \in {"head", "put"} =>
                   \A p \in PartsOf(asked[k + 1].of) : p \in held \/ \E j \in 1 .. (k + 1) - 1 : asked[j].of = p
          BY <3>2 DEF Lands
        <4> QED BY <4>1, <4>2
      <3>4. ASSUME NEW p, p \in held \/ \E j \in 1 .. k : asked[j].of = p
            PROVE  p \in then \/ \E j \in 1 .. i - 1 : new[j].of = p
        <4>1. CASE p \in held
          BY <4>1
        <4>2. ASSUME NEW j \in 1 .. k, asked[j].of = p
              PROVE  p \in then \/ \E n \in 1 .. i - 1 : new[n].of = p
          <5>1. CASE j = 1
            <6>1. p = Head(asked).of
              BY <1>1, <4>2, <5>1
            <6>2. \A n \in 1 .. Len(more) : n \in 1 .. i - 1
              BY <1>3, <3>1
            <6> QED BY <1>4, <6>1, <6>2
          <5>2. CASE j # 1
            <6>1. j - 1 \in 1 .. Len(t) /\ Len(more) + (j - 1) \in 1 .. i - 1 /\ (j - 1) + 1 = j
              BY <1>3, <3>1, <4>2, <5>2
            <6>2. new[Len(more) + (j - 1)] = asked[j]
              BY <1>1, <1>3, <6>1
            <6> QED BY <4>2, <6>1, <6>2
          <5> QED BY <5>1, <5>2
        <4> QED BY <3>4, <4>1, <4>2
      <3> QED BY <3>2, <3>3, <3>4
    <2> QED BY <2>1, <2>2
  <1>6. ASSUME new # << >> PROVE new[Len(new)].of = asked[Len(asked)].of
    <2>0. Len(new) \in Nat /\ Len(new) # 0 /\ Len(t) \in Nat /\ Len(more) \in Nat /\ Len(asked) \in Nat
      <3>1. Len(new) \in Nat /\ Len(new) # 0
        BY <1>3, <1>6
      <3> QED BY <1>1, <1>3, <3>1
    <2>1. CASE Len(t) = 0
      <3>1. Len(asked) = 1
        BY <1>1, <2>0, <2>1
      <3>2. Len(new) = Len(more) /\ Len(more) \in 1 .. Len(more)
        BY <1>3, <2>0, <2>1
      <3>3. new[Len(new)] = more[Len(more)] /\ more # << >>
        BY <1>2, <1>3, <3>2
      <3> QED BY <1>1, <3>1, <3>3
    <2>2. CASE Len(t) # 0
      <3>1. Len(t) \in 1 .. Len(t) /\ Len(t) + 1 = Len(asked) /\ Len(new) = Len(more) + Len(t)
        BY <1>1, <1>3, <2>0, <2>2
      <3> QED BY <1>1, <1>3, <3>1
    <2> QED BY <2>1, <2>2
  <1>7. DOMAIN new = 1 .. Len(new)
    BY <1>3
  <1> QED BY <1>5, <1>6, <1>7 DEF Lands, new, t

(* Waiting longer takes nothing away from what a list can count on.        *)
LEMMA LandsStill ==
  ASSUME NEW asked, NEW held, NEW then, held \subseteq then, Lands(asked, held)
  PROVE  Lands(asked, then)
BY DEF Lands

(* A manifest is mounted by asking for its parts, then sending its bytes.  *)
LEMMA MountLands ==
  ASSUME ContentAddressed, NEW d \in Digests, NEW held
  PROVE  LET asked == MountManifest(d) IN
         /\ Lands(asked, held) /\ asked # << >> /\ asked[Len(asked)].of = d
  <1> DEFINE parts == Parts(d)
             below == [i \in 1 .. Len(parts) |-> MountDescriptor(parts[i])[1]]
             R == [op : Ops, of : Digests]
             asked == MountManifest(d)
  <1>1. parts \in Seq(Digests) /\ Len(parts) \in Nat /\ \A i \in 1 .. Len(parts) : parts[i] \in Digests
    <2>1. parts \in Seq(Digests)
      BY DEF ContentAddressed
    <2> HIDE DEF parts
    <2> QED BY <2>1
  <1>2. \A e \in Digests : MountDescriptor(e)[1] \in R /\ MountDescriptor(e)[1].of = e
                           /\ MountDescriptor(e)[1].op = IF IsManifest(e) THEN "fetch" ELSE "mount"
    BY DEF MountDescriptor, Ask, Ops
  <1>3. Push(d) \in Seq(R) /\ Len(Push(d)) = 1 /\ Push(d)[1].op = "head" /\ Push(d)[1].of = d
    BY DEF Push, Ask, Ops
  <1>4. asked = below \o Push(d)
    BY DEF MountManifest
  <1>5. \A i \in 1 .. Len(parts) : below[i] = MountDescriptor(parts[i])[1]
    OBVIOUS
  <1>6. below \in Seq(R) /\ Len(below) = Len(parts)
    <2>1. below \in [1 .. Len(parts) -> R]
      BY <1>1, <1>2
    <2> HIDE DEF below, R
    <2> QED BY <1>1, <2>1, FunctionIsSeq
  <1> HIDE DEF below, asked, parts, R
  <1>7. /\ asked \in Seq(R) /\ Len(asked) = Len(parts) + 1
        /\ \A i \in 1 .. Len(parts) : asked[i] = below[i]
        /\ asked[Len(parts) + 1] = Push(d)[1]
    <2>1. /\ below \o Push(d) \in Seq(R) /\ Len(below \o Push(d)) = Len(below) + Len(Push(d))
          /\ \A i \in 1 .. Len(below) : (below \o Push(d))[i] = below[i]
          /\ \A i \in 1 .. Len(Push(d)) : (below \o Push(d))[Len(below) + i] = Push(d)[i]
      <3>1. ASSUME NEW s \in Seq(R), NEW t \in Seq(R)
            PROVE  /\ s \o t \in Seq(R) /\ Len(s \o t) = Len(s) + Len(t)
                   /\ \A i \in 1 .. Len(s) : (s \o t)[i] = s[i]
                   /\ \A i \in 1 .. Len(t) : (s \o t)[Len(s) + i] = t[i]
        BY Concatenated
      <3> QED BY <1>3, <1>6, <3>1
    <2>2. 1 \in 1 .. Len(Push(d))
      BY <1>3
    <2> QED BY <1>3, <1>4, <1>6, <2>1, <2>2
  <1>8. ASSUME NEW i \in 1 .. Len(parts) + 1
        PROVE  /\ asked[i].op = "mount" => PartsOf(asked[i].of) = {}
               /\ asked[i].op \in {"head", "put"} =>
                    \A p \in PartsOf(asked[i].of) : p \in held \/ \E j \in 1 .. i - 1 : asked[j].of = p
    <2>1. CASE i = Len(parts) + 1
      <3>1. asked[i].op = "head" /\ asked[i].of = d
        BY <1>3, <1>7, <2>1
      <3>2. ASSUME NEW p \in PartsOf(d) PROVE \E j \in 1 .. i - 1 : asked[j].of = p
        <4>1. PICK j \in 1 .. Len(parts) : p = parts[j]
          BY DEF PartsOf, parts
        <4>2. asked[j].of = p /\ j \in 1 .. i - 1
          BY <1>1, <1>2, <1>5, <1>7, <2>1, <4>1
        <4> QED BY <4>2
      <3> QED BY <3>1, <3>2
    <2>2. CASE i # Len(parts) + 1
      <3>1. i \in 1 .. Len(parts)
        BY <1>1, <2>2
      <3>2. asked[i] = MountDescriptor(parts[i])[1] /\ parts[i] \in Digests
        BY <1>1, <1>5, <1>7, <3>1
      <3> QED BY <1>2, <3>2, PartsOfContent
    <2> QED BY <2>1, <2>2
  <1>9. DOMAIN asked = 1 .. Len(parts) + 1 /\ asked # << >> /\ asked[Len(asked)].of = d
    BY <1>1, <1>3, <1>7
  <1> QED BY <1>8, <1>9 DEF Lands, asked

LEMMA OneLands ==
  ASSUME NEW op, NEW d, NEW held, op = "mount" => PartsOf(d) = {},
         op \in {"head", "put"} => PartsOf(d) \subseteq held
  PROVE  Lands(Ask(op, d), held) /\ Ask(op, d) # << >> /\ Ask(op, d)[Len(Ask(op, d))].of = d
BY DEF Lands, Ask

(* What a granted request gives the registry, and what it leads to.        *)
LEMMA ServeGives ==
  ASSUME ContentAddressed, NEW r \in [op : Ops, of : Digests], NEW more, Serve(r, more), BlobsAreClosed,
         r.op = "mount" => PartsOf(r.of) = {},
         r.op \in {"head", "put"} => PartsOf(r.of) \subseteq blobs
  PROVE  /\ more \in Requests /\ Lands(more, blobs')
         /\ more = << >> => r.of \in blobs'
         /\ more # << >> => more[Len(more)].of = r.of
         /\ blobs' = blobs \/ (blobs' = blobs \cup {r.of} /\ PartsOf(r.of) \subseteq blobs)
  <1> DEFINE d == r.of
  <1>0. d \in Digests /\ r.op \in Ops
    OBVIOUS
  <1>1. CASE r.op = "resolve"
    <2>1. more = MountDescriptor(d) /\ blobs' = blobs
      BY <1>1 DEF Serve
    <2>2. ~IsManifest(d) => PartsOf(d) = {}
      BY <1>0, PartsOfContent
    <2>3. Lands(more, blobs) /\ more # << >> /\ more[Len(more)].of = d
      BY <2>1, <2>2, OneLands DEF MountDescriptor
    <2> QED BY <1>0, <2>1, <2>3, AsksTyped
  <1>2. CASE r.op = "fetch"
    <2>1. more = MountManifest(d) /\ blobs' = blobs
      BY <1>2 DEF Serve
    <2> QED BY <1>0, <2>1, AsksTyped, MountLands
  <1>3. ASSUME more = << >> PROVE more \in Requests /\ Lands(more, blobs')
    BY <1>3 DEF Requests, Lands
  <1>4. CASE r.op = "mount"
    <2>1. CASE more = << >> /\ blobs' = blobs \cup {d}
      BY <1>3, <1>4, <2>1
    <2>2. CASE more = Push(d) /\ blobs' = blobs
      <3>1. Lands(more, blobs) /\ more # << >> /\ more[Len(more)].of = d
        BY <1>4, <2>2, OneLands DEF Push
      <3> QED BY <1>0, <2>2, <3>1, AsksTyped
    <2> QED BY <1>4, <2>1, <2>2 DEF Serve
  <1>5. CASE r.op = "head"
    <2>1. more = (IF d \in blobs THEN << >> ELSE Ask("put", d)) /\ blobs' = blobs
      BY <1>5 DEF Serve
    <2>2. CASE d \in blobs
      BY <1>3, <2>1, <2>2
    <2>3. CASE d \notin blobs
      <3>1. Lands(more, blobs) /\ more # << >> /\ more[Len(more)].of = d
        BY <1>5, <2>1, <2>3, OneLands
      <3> QED BY <1>0, <2>1, <2>3, <3>1, AsksTyped DEF Ops
    <2> QED BY <2>2, <2>3
  <1>6. CASE r.op = "put"
    <2>1. more = << >> /\ blobs' = blobs \cup {d}
      BY <1>6 DEF Serve
    <2> QED BY <1>3, <1>6, <2>1
  <1> QED BY <1>0, <1>1, <1>2, <1>4, <1>5, <1>6 DEF Ops

(* A repository that is closed stays so when something lands on it.        *)
LEMMA ClosedStays ==
  ASSUME BlobsAreClosed,
         blobs' = blobs \/ \E d : blobs' = blobs \cup {d} /\ PartsOf(d) \subseteq blobs
  PROVE  BlobsAreClosed'
  <1>1. \A e : PartsOf(e)' = PartsOf(e)
    BY DEF PartsOf, Parts
  <1>2. blobs \subseteq blobs'
    OBVIOUS
  <1> SUFFICES ASSUME NEW e \in blobs' PROVE PartsOf(e) \subseteq blobs'
    BY <1>1 DEF BlobsAreClosed
  <1>3. PartsOf(e) \subseteq blobs
    BY DEF BlobsAreClosed
  <1> QED BY <1>2, <1>3

-----------------------------------------------------------------------------
(* What a manifest refers to is there before it is sent.                   *)

LEMMA Places ==
  ASSUME TypeOK
  PROVE  /\ Len(list[Root]) = Width /\ Width \in Nat
         /\ \A m \in 1 .. Width :
              /\ Member(m) \in Members /\ Parent(Member(m)) = Root /\ Position(Member(m)) = m
              /\ Len(list[Member(m)]) = NParts(m) /\ NParts(m) \in Nat \ {0}
              /\ \A k \in 1 .. NParts(m) :
                   Part(m, k) \in PartActors /\ Parent(Part(m, k)) = Member(m) /\ Position(Part(m, k)) = k
  <1>0. pack \in Packs /\ \A a \in Actors : Len(list[a]) = Len(Blank(a))
    BY DEF TypeOK
  <1>1. Len(list[Root]) = Width /\ Width \in Nat
    BY <1>0, BlankLength, ActorsDiffer
  <1>2. ASSUME NEW m \in 1 .. Width
        PROVE  /\ Member(m) \in Members /\ Parent(Member(m)) = Root /\ Position(Member(m)) = m
               /\ Len(list[Member(m)]) = NParts(m) /\ NParts(m) \in Nat \ {0}
    <2>1. Member(m) \in Members
      BY DEF Members
    <2>2. Member(m)[2] = m /\ Position(Member(m)) = m
      BY DEF Member, Position
    <2> QED BY <1>0, <2>1, <2>2, BlankLength, ActorsDiffer, Parents
  <1>3. ASSUME NEW m \in 1 .. Width, NEW k \in 1 .. NParts(m)
        PROVE  Part(m, k) \in PartActors /\ Parent(Part(m, k)) = Member(m) /\ Position(Part(m, k)) = k
    <2>1. Part(m, k) \in PartActors
      BY DEF PartActors
    <2>2. Part(m, k)[2] = m /\ Position(Part(m, k)) = k
      BY DEF Part, Position
    <2> QED BY <2>1, <2>2 DEF Parent
  <1> QED BY <1>1, <1>2, <1>3

(* Two children of one parent never share a position.                      *)
LEMMA Positions ==
  ASSUME TypeOK, NEW a \in PartActors \cup Members
  PROVE  /\ Parent(a) \in Actors /\ Position(a) \in 1 .. Len(list[Parent(a)])
         /\ \A b \in PartActors \cup Members :
              Parent(b) = Parent(a) /\ Position(b) = Position(a) => b = a
  <1>1. \A x \in Members : \E m \in 1 .. Width : x = Member(m)
    BY DEF Members
  <1>2. \A x \in PartActors : \E m \in 1 .. Width : \E k \in 1 .. NParts(m) : x = Part(m, k)
    BY DEF PartActors
  <1>3. \A m : Member(m)[2] = m
    BY DEF Member
  <1>4. CASE a \in Members
    <2>1. PICK m \in 1 .. Width : a = Member(m)
      BY <1>1, <1>4
    <2>2. Parent(a) = Root /\ Position(a) = m /\ Len(list[Root]) = Width
      BY <2>1, Places
    <2>3. ASSUME NEW b \in PartActors \cup Members, Parent(b) = Root, Position(b) = m
          PROVE  b = a
      <3>1. b \in Members
        BY <2>3, Parents, ActorsDiffer
      <3>2. PICK n \in 1 .. Width : b = Member(n)
        BY <1>1, <3>1
      <3> QED BY <2>1, <2>3, <3>2, Places
    <2> QED BY <2>2, <2>3, ActorsDiffer
  <1>5. CASE a \in PartActors
    <2>1. PICK m \in 1 .. Width : \E k \in 1 .. NParts(m) : a = Part(m, k)
      BY <1>2, <1>5
    <2>2. PICK k \in 1 .. NParts(m) : a = Part(m, k)
      BY <2>1
    <2>3. Parent(a) = Member(m) /\ Position(a) = k /\ Len(list[Member(m)]) = NParts(m) /\ Member(m) \in Members
      BY <2>2, Places
    <2>4. ASSUME NEW b \in PartActors \cup Members, Parent(b) = Member(m), Position(b) = k
          PROVE  b = a
      <3>1. b \in PartActors
        BY <2>3, <2>4, Parents, ActorsDiffer
      <3>2. PICK n \in 1 .. Width : \E j \in 1 .. NParts(n) : b = Part(n, j)
        BY <1>2, <3>1
      <3>3. PICK j \in 1 .. NParts(n) : b = Part(n, j)
        BY <3>2
      <3>4. Member(n) = Member(m) /\ j = k
        BY <2>4, <3>3, Places
      <3>5. n = m
        BY <1>3, <3>4
      <3> QED BY <2>2, <3>3, <3>4, <3>5
    <2> QED BY <2>3, <2>4, ActorsDiffer
  <1> QED BY <1>4, <1>5

(* The parts of a member that submits, or has submitted, its manifest; the *)
(* members of a pack that does.                                            *)
LEMMA PartsInPlace ==
  ASSUME Control, PartsAreDone, SuccessIsThere, NEW m \in 1 .. Width,
         ~Mounts(Member(m)), Succeeds(Member(m)), NEW k \in 1 .. NParts(m)
  PROVE  list[Member(m)][k] = Result(Part(m, k)) /\ Result(Part(m, k)) \in blobs
  <1>1. Part(m, k) \in PartActors /\ Parent(Part(m, k)) = Member(m) /\ Position(Part(m, k)) = k
    BY Places DEF Control
  <1>2. pc[Part(m, k)] = "done" /\ res[Part(m, k)] = Ok
    BY <1>1 DEF PartsAreDone
  <1>3. Part(m, k) \in Actors \ ItemActors
    BY <1>1, ActorsDiffer
  <1>4. Arrived(Part(m, k))
    BY <1>2 DEF Arrived
  <1> QED BY <1>1, <1>2, <1>3, <1>4 DEF SuccessIsThere

LEMMA MembersInPlace ==
  ASSUME Control, SuccessIsThere, NEW m \in 1 .. Width,
         pc[Member(m)] = "done", res[Member(m)] = Ok
  PROVE  list[Root][m] = Result(Member(m)) /\ Result(Member(m)) \in blobs
  <1>1. Member(m) \in Members /\ Parent(Member(m)) = Root /\ Position(Member(m)) = m
    BY Places DEF Control
  <1>2. Member(m) \in Actors \ ItemActors /\ Arrived(Member(m))
    BY <1>1, ActorsDiffer DEF Arrived
  <1> QED BY <1>1, <1>2 DEF SuccessIsThere

Opaque == \A p \in Paths : Parts(disk[p]) = << >>

LEMMA TargetLands ==
  ASSUME Control, PartsAreDone, SuccessIsThere, BlobsAreClosed, Opaque,
         NEW a \in Actors, pc[a] \in Submitting, a \notin ItemActors, ~Mounts(a)
  PROVE  PartsOf(Target(a)) \subseteq blobs
  <1>0. TypeOK /\ pack \in Packs /\ Succeeds(a)
    BY DEF Control, TypeOK, Succeeds
  <1>1. CASE a \in PartActors
    <2>1. Target(a) = Content(Source(a))
      BY <1>1, ActorsDiffer DEF Target
    <2>2. Source(a) \in Paths \cup {NoFile}
      BY <1>0, <1>1, SourcesAreFiles
    <2>3. CASE Source(a) = NoFile
      BY <2>1, <2>3, PartsOfContent DEF Content
    <2>4. CASE Source(a) # NoFile
      <3>1. disk[Source(a)] \in Digests /\ Parts(disk[Source(a)]) = << >>
        BY <1>0, <2>2, <2>4 DEF TypeOK, Opaque
      <3> QED BY <2>1, <2>4, <3>1, PartsOfContent DEF Content
    <2> QED BY <2>3, <2>4
  <1>2. CASE a \in Members
    <2>1. PICK m \in 1 .. Width : a = Member(m)
      BY <1>2 DEF Members
    <2>2. Target(a) = Manifest(list[a][1], Tail(list[a]))
      BY <1>2, ActorsDiffer DEF Target
    <2>3. list[a] \in Seq(Digests) /\ Len(list[a]) = NParts(m) /\ list[a] # << >>
      BY <1>0, <2>1, Places DEF TypeOK
    <2>4. ASSUME NEW p \in PartsOf(Target(a)) PROVE p \in blobs
      <3>1. \E k \in 1 .. Len(list[a]) : p = list[a][k]
        BY <2>2, <2>3, <2>4, PartsOfManifest
      <3>2. PICK k \in 1 .. NParts(m) : p = list[a][k]
        BY <2>3, <3>1
      <3> QED BY <1>0, <2>1, <3>2, PartsInPlace
    <2> QED BY <2>4
  <1>3. CASE a = Root
    <2>1. Target(a) = IF IndexExpected THEN Index(list[a]) ELSE list[a][1]
      BY <1>3, ActorsDiffer DEF Target
    <2>2. \A m \in 1 .. Width : list[Root][m] \in blobs
      <3>1. \A m \in 1 .. Width : Member(m) \in Members
        BY DEF Members
      <3>2. \A m \in 1 .. Width : pc[Member(m)] = "done" /\ res[Member(m)] = Ok
        BY <1>0, <1>3, <3>1 DEF PartsAreDone
      <3> QED BY <3>2, MembersInPlace
    <2>3. CASE IndexExpected
      <3>1. ASSUME NEW p \in PartsOf(Target(a)) PROVE p \in blobs
        <4>1. PICK m \in 1 .. Len(list[a]) : p = list[a][m]
          BY <2>1, <2>3, <3>1, PartsOfIndex
        <4>2. m \in 1 .. Width
          BY <1>0, <1>3, <4>1, Places
        <4> QED BY <1>3, <2>2, <4>1, <4>2
      <3> QED BY <3>1
    <2>4. CASE ~IndexExpected
      <3>1. 1 \in 1 .. Width
        BY <2>4 DEF Width
      <3> QED BY <1>3, <2>1, <2>2, <2>4, <3>1 DEF BlobsAreClosed
    <2> QED BY <2>3, <2>4
  <1> QED BY <1>1, <1>2, <1>3, ActorsDiffer

-----------------------------------------------------------------------------
(* What the registry is given.                                             *)

LEMMA OpaqueStays ==
  ASSUME Control, Opaque, Progress
  PROVE  Opaque'
  <1>0. disk \in [Paths -> Digests] /\ pack \in Packs
    BY DEF Control, TypeOK
  <1>1. ASSUME NEW a \in Actors, ResolveItem(a) PROVE Opaque'
    <2>1. PICK n \in DOMAIN Items : a = ItemOf(n)
      BY <1>1 DEF ResolveItem, ItemActors
    <2>2. a[2] = n
      BY <2>1 DEF ItemOf
    <2>3. CASE Items[n].kind = "http"
      <3>1. Items[n].files[1] \in DOMAIN Served
        BY <1>0, <2>3, PackAssumption DEF Items
      <3>2. Parts(Served[Items[n].files[1]]) = << >>
        BY <3>1, PackAssumption
      <3>3. disk' = disk \/ disk' = [disk EXCEPT ![Items[n].files[1]] = Served[Items[n].files[1]]]
        BY <1>1, <2>2 DEF ResolveItem
      <3> QED BY <1>0, <3>2, <3>3 DEF Opaque, Parts
    <2>4. CASE Items[n].kind # "http"
      <3>1. disk' = disk
        BY <1>1, <2>2, <2>4 DEF ResolveItem
      <3> QED BY <3>1 DEF Opaque, Parts
    <2> QED BY <2>3, <2>4
  <1>2. disk' = disk => Opaque'
    BY DEF Opaque, Parts
  <1>3. ASSUME NEW a \in Actors, Step(a), ~ResolveItem(a) PROVE disk' = disk
    BY <1>3 DEF Step, Start, Commit, TakeSlot, LeaveQueue, FailItem, BeginMount,
                  OpenSource, ClaimUpload, AwaitUpload, ShareOutcome, AbandonWait, RequestGranted,
                  RequestRefused, Settle, Release, Return, Join, JoinInOrder, data
  <1>4. (~\E a \in Actors : Step(a)) => disk' = disk
    BY DEF Progress, RefusePack, AcceptPack, ReportFailure, TagPack, FailToTag, data
  <1> QED BY <1>1, <1>2, <1>3, <1>4

LEMMA BlobsChange ==
  ASSUME Progress
  PROVE  blobs' = blobs \/ \E a \in Actors : RequestGranted(a)
BY DEF Progress, RefusePack, AcceptPack, ReportFailure, TagPack, FailToTag, data, clientVars,
       Step, Start, Commit, TakeSlot, LeaveQueue, ResolveItem, FailItem, BeginMount,
       OpenSource, ClaimUpload, AwaitUpload, ShareOutcome, AbandonWait,
       RequestRefused, Settle, Release, Return, Join, JoinInOrder

(* Only the actor itself makes, or crosses off, requests of its own.       *)
LEMMA RequestsChange ==
  ASSUME ContentAddressed, Control, Progress, NEW a \in Actors, pc'[a] = "requests",
         ~BeginMount(a), ~ClaimUpload(a), ~RequestGranted(a)
  PROVE  pc[a] = "requests" /\ requests'[a] = requests[a]
  <1>0. TypeOK /\ Actors' = Actors
    BY ProgressIsShaped, PackStays DEF Control
  <1>1. requests'[a] = requests[a]
    <2>1. ASSUME NEW b \in Actors, BeginMount(b) \/ ClaimUpload(b) \/ RequestGranted(b) \/ RequestRefused(b)
          PROVE  requests'[a] = requests[a]
      <3>1. b # a
        <4>1. ~RequestRefused(a)
          BY <1>0, LocalMoves DEF Ended
        <4> QED BY <2>1, <4>1
      <3>2. \A c \in Actors \ {b} : requests'[c] = requests[c]
        BY <1>0, <2>1 DEF TypeOK, BeginMount, ClaimUpload, RequestGranted, RequestRefused
      <3> QED BY <3>1, <3>2
    <2>2. ASSUME NEW b \in Actors, Step(b),
                 ~(BeginMount(b) \/ ClaimUpload(b) \/ RequestGranted(b) \/ RequestRefused(b))
          PROVE  requests' = requests
      BY <2>2 DEF Step, Start, Commit, TakeSlot, LeaveQueue, ResolveItem, FailItem,
                  OpenSource, AwaitUpload, ShareOutcome, AbandonWait, Settle, Release, Return,
                  Join, JoinInOrder
    <2>3. (~\E b \in Actors : Step(b)) => requests' = requests
      BY DEF Progress, RefusePack, AcceptPack, ReportFailure, TagPack, FailToTag
    <2> QED BY <2>1, <2>2, <2>3
  <1>2. TypeOK'
    BY ProgressTypes
  <1>3. requests'[a] # << >>
    BY <1>0, <1>2 DEF TypeOK
  <1> QED BY <1>0, <1>1, <1>3 DEF TypeOK

(* A request that is granted: whatever the registry gains lands on what it *)
(* has, and the list that is left still ends with what the actor is for.   *)
LEMMA GrantedIs ==
  ASSUME ContentAddressed, Control, RequestsLand, BlobsAreClosed, NEW a \in Actors, RequestGranted(a)
  PROVE  /\ blobs' = blobs \/ \E d \in Digests : blobs' = blobs \cup {d} /\ PartsOf(d) \subseteq blobs
         /\ requests'[a] # << >> =>
              /\ Lands(requests'[a], blobs')
              /\ requests'[a][Len(requests'[a])].of = Result(a)
         /\ requests'[a] = << >> => Result(a) \in blobs'
         /\ pc'[a] # "requests" => requests'[a] = << >>
         /\ res' = res
  <1> DEFINE asked == requests[a]
             R == [op : Ops, of : Digests]
  <1>1. asked \in Requests /\ asked # << >>
    BY DEF Control, TypeOK, RequestGranted, Requests
  <1>2. Head(asked) \in R /\ Head(asked) = asked[1] /\ Tail(asked) \in Seq(R) /\ Len(asked) \in Nat \ {0}
        /\ Len(Tail(asked)) = Len(asked) - 1
    <2>1. asked \in Seq(R)
      BY <1>1 DEF Requests
    <2> HIDE DEF asked, R
    <2> QED BY <1>1, <2>1, FirstOf
  <1>3. PICK more \in Continuations(Head(asked)) :
          /\ Serve(Head(asked), more)
          /\ requests' = [requests EXCEPT ![a] = more \o Tail(asked)]
          /\ Goto(a, IF more \o Tail(asked) = << >> THEN Ended(a) ELSE "requests")
    BY DEF RequestGranted
  <1>4. Lands(asked, blobs) /\ asked[Len(asked)].of = Result(a)
    BY DEF RequestsLand, RequestGranted
  <1>5. /\ Head(asked).op = "mount" => PartsOf(Head(asked).of) = {}
        /\ Head(asked).op \in {"head", "put"} => PartsOf(Head(asked).of) \subseteq blobs
    <2>1. 1 \in DOMAIN asked /\ 1 .. 1 - 1 = {}
      BY <1>1, <1>2 DEF Requests
    <2>2. /\ asked[1].op = "mount" => PartsOf(asked[1].of) = {}
          /\ asked[1].op \in {"head", "put"} =>
               \A p \in PartsOf(asked[1].of) : p \in blobs \/ \E j \in 1 .. 1 - 1 : asked[j].of = p
      BY <1>4, <2>1 DEF Lands
    <2> QED BY <1>2, <2>1, <2>2
  <1>6. /\ more \in Requests /\ Lands(more, blobs')
        /\ more = << >> => Head(asked).of \in blobs'
        /\ more # << >> => more[Len(more)].of = Head(asked).of
        /\ blobs' = blobs \/ (blobs' = blobs \cup {Head(asked).of} /\ PartsOf(Head(asked).of) \subseteq blobs)
    BY <1>2, <1>3, <1>5, ServeGives
  <1>7. blobs \subseteq blobs'
    BY <1>6
  <1>8. /\ Lands(more \o Tail(asked), blobs')
        /\ more \o Tail(asked) # << >> =>
             (more \o Tail(asked))[Len(more \o Tail(asked))].of = asked[Len(asked)].of
    BY <1>1, <1>4, <1>6, <1>7, LandsOn
  <1>9. requests'[a] = more \o Tail(asked) /\ res' = res
        /\ pc'[a] = IF more \o Tail(asked) = << >> THEN Ended(a) ELSE "requests"
    BY <1>3 DEF Control, TypeOK, Goto
  <1>10. ASSUME more \o Tail(asked) = << >> PROVE Result(a) \in blobs'
    <2>1. more \in Seq(R)
      BY <1>6 DEF Requests
    <2>2. Len(more) + Len(Tail(asked)) = 0 /\ Len(more) \in Nat /\ Len(Tail(asked)) \in Nat
      <3> HIDE DEF asked, R
      <3>1. Len(more \o Tail(asked)) = Len(more) + Len(Tail(asked)) /\ Len(more) \in Nat /\ Len(Tail(asked)) \in Nat
        BY <1>2, <2>1, Concatenated
      <3> QED BY <1>10, <3>1
    <2>3. Len(more) = 0 /\ Len(asked) = 1
      <3> HIDE DEF asked, R
      <3> QED BY <1>2, <2>2
    <2>4. more = << >>
      BY <2>1, <2>3
    <2> QED BY <1>2, <1>4, <1>6, <2>3, <2>4
  <1>11. Head(asked).of \in Digests
    BY <1>2
  <1> QED BY <1>4, <1>6, <1>8, <1>9, <1>10, <1>11

LEMMA BlobsGrow ==
  ASSUME ContentAddressed, Control, RequestsLand, BlobsAreClosed, Progress
  PROVE  blobs \subseteq blobs' /\ BlobsAreClosed'
  <1>1. ASSUME NEW a \in Actors, RequestGranted(a)
        PROVE  blobs' = blobs \/ \E d : blobs' = blobs \cup {d} /\ PartsOf(d) \subseteq blobs
    BY <1>1, GrantedIs
  <1>2. blobs' = blobs \/ \E d : blobs' = blobs \cup {d} /\ PartsOf(d) \subseteq blobs
    BY <1>1, BlobsChange
  <1> QED BY <1>2, ClosedStays

LEMMA RequestsStep ==
  ASSUME ContentAddressed, Control, PartsAreDone, SuccessIsThere, RequestsLand, BlobsAreClosed, Progress
  PROVE  RequestsLand'
  <1>0. /\ pack' = pack /\ Actors' = Actors /\ TypeOK /\ pack \in Packs
        /\ \A b : Mounts(b)' = Mounts(b)
    BY ProgressIsShaped, PackStays DEF Control, TypeOK
  <1>1. Opaque /\ Opaque'
    BY OpaqueStays DEF RequestsLand, Opaque
  <1>2. blobs \subseteq blobs'
    BY BlobsGrow
  <1> DEFINE Good(r, b) == Lands(r, blobs') /\ r[Len(r)].of = b
  <1>3. ASSUME NEW a \in Actors, pc'[a] = "requests"
        PROVE  Good(requests'[a], Result(a)')
    <2>0. a \notin ItemActors
      <3>1. Control'
        BY ControlStep DEF Next
      <3>2. Fits(a, "requests")'
        BY <1>0, <1>3, <3>1 DEF Control, StepsFit
      <3> QED BY <1>0, <3>2, PackStays DEF Fits
    <2>1. CASE BeginMount(a)
      <3>1. pc[a] = "held" /\ Mounts(a) /\ requests'[a] = MountFrom(Items[a[2]].image)
        BY <1>0, <2>1 DEF BeginMount, TypeOK
      <3>2. Result(a)' = Items[a[2]].image
        BY <2>0, <3>1, TargetStays DEF Result
      <3>3. ASSUME NEW d PROVE Good(Ask("resolve", d), d)
        BY OneLands
      <3>4. Good(MountFrom(Items[a[2]].image), Items[a[2]].image)
        BY <3>3 DEF MountFrom
      <3> QED BY <3>1, <3>2, <3>4
    <2>2. CASE ClaimUpload(a)
      <3>1. pc[a] = "once" /\ requests'[a] = Push(Target(a))
        BY <1>0, <2>2 DEF ClaimUpload, TypeOK
      <3>2. ~Mounts(a)
        BY <3>1 DEF Control, StepsFit, Fits
      <3>3. Result(a)' = Target(a)
        BY <2>0, <3>1, <3>2, TargetStays DEF Result
      <3>4. PartsOf(Target(a)) \subseteq blobs
        BY <1>1, <2>0, <3>1, <3>2, TargetLands DEF Submitting
      <3>5. PartsOf(Target(a)) \subseteq blobs'
        BY <1>2, <3>4
      <3>6. Lands(Ask("head", Target(a)), blobs')
            /\ Ask("head", Target(a))[Len(Ask("head", Target(a)))].of = Target(a)
        BY <3>5, OneLands
      <3> QED BY <3>1, <3>3, <3>6 DEF Push
    <2>3. CASE RequestGranted(a)
      <3>1. requests'[a] # << >>
        <4>1. TypeOK'
          BY ProgressTypes
        <4> QED BY <1>0, <1>3, <4>1 DEF TypeOK
      <3>2. Result(a)' = Result(a)
        BY <2>0, <2>3, TargetStays DEF RequestGranted
      <3> QED BY <2>3, <3>1, <3>2, GrantedIs
    <2>4. CASE ~BeginMount(a) /\ ~ClaimUpload(a) /\ ~RequestGranted(a)
      <3>1. pc[a] = "requests" /\ requests'[a] = requests[a]
        BY <1>3, <2>4, RequestsChange
      <3>2. Lands(requests[a], blobs) /\ requests[a][Len(requests[a])].of = Result(a)
        BY <3>1 DEF RequestsLand
      <3>3. Result(a)' = Result(a)
        BY <2>0, <3>1, TargetStays
      <3>4. Lands(requests[a], blobs')
        BY <1>2, <3>2, LandsStill
      <3> QED BY <3>1, <3>2, <3>3, <3>4
    <2> QED BY <2>1, <2>2, <2>3, <2>4
  <1>4. \A p \in Paths : Parts(disk'[p]) = << >>
    BY <1>1 DEF Opaque, Parts
  <1>5. \A a \in Actors : pc'[a] = "requests" =>
          Lands(requests'[a], blobs') /\ requests'[a][Len(requests'[a])].of = Result(a)'
    BY <1>3
  <1> QED BY <1>0, <1>4, <1>5 DEF RequestsLand, Lands, PartsOf, Parts

LEMMA TasksStep ==
  ASSUME Control, SuccessIsThere, Progress, NEW d \in Digests, tasks'[d] = Ok
  PROVE  d \in blobs
  <1>0. tasks \in [Digests -> {Unclaimed, Claimed} \cup Outcomes] /\ TypeOK
    BY DEF Control, TypeOK
  <1>1. ASSUME NEW a \in Actors, ClaimUpload(a) PROVE tasks[d] = Ok
    <2>1. tasks' = [tasks EXCEPT ![Target(a)] = Claimed]
      BY <1>1 DEF ClaimUpload, Claim
    <2> QED BY <1>0, <2>1, OutcomesDiffer
  <1>2. ASSUME NEW a \in Actors, Settle(a), tasks[d] # Ok PROVE d \in blobs
    <2>1. tasks' = [tasks EXCEPT ![Target(a)] = res[a]] /\ pc[a] = "settle"
      BY <1>2 DEF Settle, CloseTask
    <2>2. d = Target(a) /\ res[a] = Ok
      BY <1>0, <1>2, <2>1
    <2>3. a \notin ItemActors /\ ~Mounts(a)
      BY <2>1 DEF Control, StepsFit, Fits
    <2>4. Arrived(a) /\ Result(a) = Target(a)
      BY <2>1, <2>2, <2>3 DEF Arrived, Result
    <2> QED BY <2>2, <2>3, <2>4 DEF SuccessIsThere
  <1>3. ASSUME NEW a \in Actors, Step(a), ~ClaimUpload(a), ~Settle(a) PROVE tasks' = tasks
    BY <1>3 DEF Step, Start, Commit, TakeSlot, LeaveQueue, ResolveItem, FailItem, BeginMount,
                  OpenSource, AwaitUpload, ShareOutcome, AbandonWait, RequestGranted,
                  RequestRefused, Release, Return, Join, JoinInOrder, budgetVars
  <1>4. (~\E a \in Actors : Step(a)) => tasks' = tasks
    BY DEF Progress, RefusePack, AcceptPack, ReportFailure, TagPack, FailToTag, budgetVars
  <1>5. tasks[d] = Ok => d \in blobs
    BY DEF SuccessIsThere
  <1> QED BY <1>1, <1>2, <1>3, <1>4, <1>5

(* What has just come to its end without an error: a request was granted,  *)
(* somebody else's upload was waited for, or there was nothing to upload.  *)
LEMMA ArrivedStep ==
  ASSUME ContentAddressed, Control, GroupKnows, SuccessIsThere, RequestsLand, BlobsAreClosed, Progress,
         NEW a \in Actors, a \notin ItemActors, Arrived(a)'
  PROVE  Result(a)' \in blobs'
  <1>0. TypeOK /\ blobs \subseteq blobs' /\ pack \in Packs
    BY BlobsGrow DEF Control, TypeOK
  <1>1. pc'[a] \in {"settle", "release", "return", "done"} /\ res'[a] = Ok
    BY DEF Arrived
  <1>2. CASE Arrived(a)
    <2>1. Result(a) \in blobs
      BY <1>2 DEF SuccessIsThere
    <2>2. Result(a)' = Result(a)
      BY <1>2, TargetStays DEF Arrived
    <2> QED BY <1>0, <2>1, <2>2
  <1>3. CASE ~Arrived(a)
    <2>0. ~(pc[a] \in {"settle", "release", "return", "done"} /\ res[a] = Ok)
      BY <1>3 DEF Arrived
    <2>1. Step(a) \/ (a = Root /\ (RefusePack \/ ReportFailure \/ TagPack \/ FailToTag))
      BY <1>1, <2>0, OwnStep DEF Fanned
    <2>2. ~(a = Root /\ (RefusePack \/ ReportFailure \/ TagPack \/ FailToTag))
      BY <1>1, <2>0, EndsOfRoot, OutcomesDiffer
    <2>3. ~(Start(a) \/ Commit(a) \/ TakeSlot(a) \/ LeaveQueue(a) \/ ResolveItem(a) \/ FailItem(a))
      <3>1. ~Start(a)
        BY <1>1, StartIs, OutcomesDiffer
      <3>2. ~Commit(a)
        BY <1>0, <1>1, OutcomesDiffer DEF Commit, AskForSlot, Goto, GotoWith, TypeOK
      <3>3. ~TakeSlot(a) /\ ~LeaveQueue(a)
        BY <1>0, <1>1, OutcomesDiffer DEF TakeSlot, LeaveQueue, Goto, GotoWith, TypeOK
      <3> QED BY <3>1, <3>2, <3>3 DEF ResolveItem, FailItem
    <2>4. ~(BeginMount(a) \/ OpenSource(a) \/ ClaimUpload(a) \/ AwaitUpload(a) \/ AbandonWait(a) \/ RequestRefused(a))
      <3>1. ~(BeginMount(a) \/ ClaimUpload(a) \/ AwaitUpload(a))
        BY <1>0, <1>1, LocalMoves
      <3>2. ~OpenSource(a) /\ ~AbandonWait(a)
        BY <1>0, <1>1, OutcomesDiffer DEF OpenSource, AbandonWait, Goto, GotoWith, TypeOK
      <3>3. ASSUME RequestRefused(a) PROVE FALSE
        <4>1. PICK err : err # Ok /\ GotoWith(a, Ended(a), err)
          BY <3>3, RefusalIsAnError, PackAssumption DEF RequestRefused
        <4>2. res'[a] = err
          BY <1>0, <4>1 DEF GotoWith, TypeOK
        <4> QED BY <1>1, <4>1, <4>2
      <3> QED BY <3>1, <3>2, <3>3
    <2>5. CASE ShareOutcome(a)
      <3>1. pc[a] = "wait" /\ res'[a] = tasks[Target(a)]
        BY <1>0, <2>5 DEF ShareOutcome, GotoWith, TypeOK
      <3>2. ~Mounts(a)
        BY <3>1 DEF Control, StepsFit, Fits
      <3>3. Target(a) \in Digests
        BY <1>0, TargetsAreDigests, ActorsDiffer
      <3>4. Target(a) \in blobs
        BY <1>1, <3>1, <3>3 DEF SuccessIsThere
      <3>5. Result(a)' = Target(a)
        BY <3>1, <3>2, TargetStays DEF Result
      <3> QED BY <1>0, <3>4, <3>5
    <2>6. CASE RequestGranted(a)
      <3>1. pc[a] = "requests" /\ requests'[a] = << >>
        BY <1>1, <2>6, GrantedIs DEF RequestGranted
      <3>2. Result(a)' = Result(a)
        BY <3>1, TargetStays
      <3> QED BY <2>6, <3>1, <3>2, GrantedIs
    <2>7. ~(Settle(a) \/ Release(a) \/ Return(a))
      <3>1. ~(Settle(a) \/ Release(a))
        BY <1>0, <1>1, <2>0 DEF Settle, Release, Goto, TypeOK
      <3>2. ASSUME Return(a) PROVE FALSE
        <4>1. pc[a] = "return" /\ res'[a] = Outcome(a)
          BY <1>0, <3>2 DEF Return, GotoWith, TypeOK
        <4>2. Outcome(a) = Ok => res[a] = Ok
          BY OutcomesDiffer DEF Outcome
        <4> QED BY <1>1, <2>0, <4>1, <4>2
      <3> QED BY <3>1, <3>2
    <2>8. CASE Join(a) \/ JoinInOrder(a)
      <3>1. a = Root /\ pc[a] = "index" /\ ~IndexExpected /\ AllSucceeded(a) /\ pc'[a] = "return"
        BY <1>1, <2>8, JoinIs DEF Fanned
      <3>2. Members = {Member(1)} /\ Width = 1 /\ Kids(Root, "index") = Members
        <4>1. Width = 1
          BY <3>1 DEF Width
        <4> QED BY <4>1 DEF Members, Kids
      <3>3. pc[Member(1)] = "done" /\ res[Member(1)] = Ok
        BY <3>1, <3>2 DEF AllSucceeded
      <3>4. list[Root][1] \in blobs
        BY <3>2, <3>3, MembersInPlace
      <3>5. Result(Root)' = list'[Root][1]
        <4>1. ~IndexExpected' /\ ~Mounts(Root)'
          <5>1. pack' = pack /\ ~Mounts(Root)
            BY ProgressIsShaped, ActorsDiffer DEF Mounts
          <5> QED BY <3>1, <5>1, PackStays
        <4>2. Root \notin Members' /\ Root \notin PartActors'
          BY ProgressIsShaped, PackStays, ActorsDiffer
        <4> QED BY <4>1, <4>2 DEF Result, Target
      <3>6. list' = list
        BY <2>8 DEF Join, JoinInOrder, children
      <3> QED BY <1>0, <3>1, <3>4, <3>5, <3>6
    <2> QED BY <2>1, <2>2, <2>3, <2>4, <2>5, <2>6, <2>7, <2>8 DEF Step
  <1> QED BY <1>2, <1>3

(* A child writes into its own place of its parent's list, and nobody else *)
(* does.                                                                   *)
LEMMA ListStep ==
  ASSUME ContentAddressed, Control, SuccessIsThere, Progress,
         NEW a \in PartActors \cup Members, pc'[a] = "done", res'[a] = Ok
  PROVE  list'[Parent(a)][Position(a)] = Result(a)'
  <1>0. /\ TypeOK /\ pack' = pack /\ Parent(a) \in Actors /\ a \in Actors /\ a \notin ItemActors /\ a # Root
        /\ list \in [Actors -> Seq(Digests)]
        /\ Position(a) \in 1 .. Len(list[Parent(a)]) /\ list[Parent(a)] \in Seq(Digests)
        /\ \A b \in PartActors \cup Members : Parent(b) = Parent(a) /\ Position(b) = Position(a) => b = a
    BY ProgressIsShaped, Positions, ActorsDiffer DEF Control, TypeOK
  <1>1. ASSUME NEW b \in Actors, Return(b), b \notin ItemActors, Outcome(b) = Ok
        PROVE  /\ Result(b) \in Digests /\ b \in PartActors \cup Members
               /\ \A p \in Actors : list'[p] = IF p = Parent(b) THEN [list[p] EXCEPT ![Position(b)] = Result(b)]
                                                                ELSE list[p]
    <2>1. b \in PartActors \cup Members
      BY <1>1, ActorsDiffer DEF Return
    <2>2. list' = [list EXCEPT ![Parent(b)] = Fill(@, b)]
      BY <1>1 DEF Return
    <2> QED BY <1>0, <2>1, <2>2, TargetsAreDigests DEF Fill
  <1>2. CASE pc[a] = "done"
    <2>1. res[a] = Ok
      BY <1>0, <1>2, DoneStays
    <2>2. list[Parent(a)][Position(a)] = Result(a) /\ Result(a)' = Result(a)
      BY <1>0, <1>2, <2>1, TargetStays DEF SuccessIsThere
    <2>3. CASE list'[Parent(a)] = list[Parent(a)]
      BY <2>2, <2>3
    <2>4. ASSUME NEW b \in Actors, Return(b), b \notin ItemActors, Outcome(b) = Ok
          PROVE  list'[Parent(a)][Position(a)] = list[Parent(a)][Position(a)]
      <3>1. CASE Parent(b) = Parent(a)
        <4>1. b # a
          BY <1>2, <2>4 DEF Return
        <4>2. Position(b) # Position(a)
          BY <1>0, <1>1, <2>4, <3>1, <4>1
        <4>3. list'[Parent(a)] = [list[Parent(a)] EXCEPT ![Position(b)] = Result(b)] /\ Result(b) \in Digests
          BY <1>0, <1>1, <2>4, <3>1
        <4> QED BY <1>0, <4>2, <4>3, ReplacedIn
      <3>2. CASE Parent(b) # Parent(a)
        BY <1>0, <1>1, <2>4, <3>2
      <3> QED BY <3>1, <3>2
    <2>5. list' = list \/ \E b \in Actors : Return(b) /\ b \notin ItemActors /\ Outcome(b) = Ok
      BY DEF Progress, RefusePack, AcceptPack, ReportFailure, TagPack, FailToTag, children,
             Step, Start, Commit, TakeSlot, LeaveQueue, ResolveItem, FailItem, BeginMount,
             OpenSource, ClaimUpload, AwaitUpload, ShareOutcome, AbandonWait, RequestGranted,
             RequestRefused, Settle, Release, Return, Join, JoinInOrder
    <2> QED BY <2>2, <2>3, <2>4, <2>5
  <1>3. CASE pc[a] # "done"
    <2>1. Return(a)
      BY <1>0, <1>3, OnlyReturnEnds
    <2>2. Outcome(a) = Ok
      BY <1>0, <2>1 DEF Return, GotoWith, TypeOK
    <2>3. list'[Parent(a)] = [list[Parent(a)] EXCEPT ![Position(a)] = Result(a)] /\ Result(a) \in Digests
      BY <1>0, <1>1, <2>1, <2>2
    <2>4. list'[Parent(a)][Position(a)] = Result(a)
      BY <1>0, <2>3, ReplacedIn
    <2>5. Result(a)' = Result(a)
      BY <1>0, <2>1, TargetStays DEF Return
    <2> QED BY <2>4, <2>5
  <1> QED BY <1>2, <1>3

LEMMA SuccessStep ==
  ASSUME ContentAddressed, Control, GroupKnows, SuccessIsThere, RequestsLand, BlobsAreClosed, Progress
  PROVE  SuccessIsThere'
  <1>0. /\ Actors' = Actors /\ ItemActors' = ItemActors /\ Members' = Members /\ PartActors' = PartActors
        /\ \A a : Parent(a)' = Parent(a) /\ Position(a)' = Position(a)
    BY ProgressIsShaped, PackStays DEF Position
  <1>1. \A d \in Digests : tasks'[d] = Ok => d \in blobs'
    BY TasksStep, BlobsGrow
  <1>2. \A a \in Actors \ ItemActors : Arrived(a)' => Result(a)' \in blobs'
    BY ArrivedStep
  <1>3. \A a \in PartActors \cup Members : pc'[a] = "done" /\ res'[a] = Ok =>
          list'[Parent(a)][Position(a)] = Result(a)'
    BY ListStep
  <1> QED BY <1>0, <1>1, <1>2, <1>3, Zenon DEF SuccessIsThere

Landing == GroupKnows /\ PartsAreDone /\ SuccessIsThere /\ RequestsLand /\ BlobsAreClosed

LEMMA InitLanding ==
  ASSUME Init
  PROVE  Landing
  <1>1. /\ pc = [a \in Actors |-> IF a = Root THEN "validate" ELSE "idle"]
        /\ tasks = [d \in Digests |-> Unclaimed] /\ blobs = {} /\ disk = Leftover
    BY DEF Init, NewBudget
  <1>2. \A a \in Actors : pc[a] \in {"validate", "idle"}
    BY <1>1
  <1>3. GroupKnows
    BY <1>2, ActorsDiffer DEF GroupKnows, Fanned
  <1>4. PartsAreDone
    <2>1. \A a \in Actors : ~Succeeds(a)
      BY <1>2 DEF Succeeds, Submitting
    <2> QED BY <2>1, ActorsDiffer, Parents DEF PartsAreDone
  <1>5. SuccessIsThere
    <2>1. \A d \in Digests : tasks[d] # Ok
      BY <1>1, OutcomesDiffer
    <2>2. \A a \in Actors : ~Arrived(a) /\ pc[a] # "done"
      BY <1>2 DEF Arrived
    <2> QED BY <2>1, <2>2, ActorsDiffer DEF SuccessIsThere
  <1>6. RequestsLand
    BY <1>1, <1>2, PackAssumption DEF RequestsLand
  <1> QED BY <1>1, <1>3, <1>4, <1>5, <1>6 DEF Landing, BlobsAreClosed

LEMMA LandingStep ==
  ASSUME ContentAddressed, Control, Landing, [Next]_vars
  PROVE  Landing'
  <1>1. CASE Progress
    BY <1>1, GroupStep, PartsStep, SuccessStep, RequestsStep, BlobsGrow DEF Landing
  <1>2. CASE UNCHANGED vars
    <2>1. /\ pack' = pack /\ pc' = pc /\ res' = res /\ group' = group /\ requests' = requests
          /\ list' = list /\ disk' = disk /\ tasks' = tasks /\ blobs' = blobs
      BY <1>2 DEF vars, budgetVars, clientVars
    <2>2. /\ Actors' = Actors /\ ItemActors' = ItemActors /\ Members' = Members /\ PartActors' = PartActors
          /\ \A a : Mounts(a)' = Mounts(a) /\ Parent(a)' = Parent(a)
          /\ \A a, step : Kids(a, step)' = Kids(a, step) /\ Ordered(a, step)' = Ordered(a, step)
          /\ \A a : Target(a)' = Target(a) /\ Result(a)' = Result(a)
      BY <2>1, PackStays, SameTargets
    <2>3. GroupKnows'
      BY <2>1, <2>2 DEF Landing, GroupKnows
    <2>4. PartsAreDone'
      BY <2>1, <2>2 DEF Landing, PartsAreDone, Succeeds
    <2>5. SuccessIsThere'
      BY <2>1, <2>2 DEF Landing, SuccessIsThere, Arrived, Position
    <2>6. RequestsLand'
      <3>1. \A a \in Actors : pc'[a] = "requests" =>
              Lands(requests'[a], blobs') /\ requests'[a][Len(requests'[a])].of = Result(a)'
        BY <2>1, <2>2 DEF Landing, RequestsLand
      <3>2. \A p \in Paths : Parts(disk'[p]) = << >>
        BY <2>1 DEF Landing, RequestsLand
      <3> QED BY <2>2, <3>1, <3>2 DEF RequestsLand, Lands, PartsOf, Parts
    <2>7. BlobsAreClosed'
      BY <2>1 DEF Landing, BlobsAreClosed, PartsOf, Parts
    <2> QED BY <2>3, <2>4, <2>5, <2>6, <2>7 DEF Landing
  <1> QED BY <1>1, <1>2 DEF Next, Finished

LEMMA OverStops ==
  ASSUME Control, Over
  PROVE  ~Progress
  <1>1. \A a \in Actors : pc[a] \notin Fanned /\ pc[a] \in AtRest
    BY OverIsOver DEF AtRest, Fanned
  <1>2. \A a \in Actors : ~Step(a)
    BY <1>1 DEF AtRest, Step, Start, Commit, TakeSlot, LeaveQueue, ResolveItem, FailItem, BeginMount,
                  OpenSource, ClaimUpload, AwaitUpload, ShareOutcome, AbandonWait, RequestGranted,
                  RequestRefused, Settle, Release, Return, Join, JoinInOrder
  <1> QED BY <1>2 DEF Over, Progress, RefusePack, AcceptPack, ReportFailure, TagPack, FailToTag

(* Nothing refers to what the registry does not have, at any moment, and   *)
(* nothing arrives after the pack has ended: a manifest is sent when every *)
(* part of it is known to be there.                                        *)
THEOREM PackLands ==
  ASSUME ContentAddressed
  PROVE  Spec => LandsOnTop
  <1>1. Init => Control /\ Landing
    BY InitControl, InitLanding
  <1>2. Control /\ Landing /\ [Next]_vars => Control' /\ Landing'
    BY ControlStep, LandingStep
  <1>3. ASSUME Control, Landing, Next
        PROVE  \A d \in blobs' \ blobs : PartsOf(d) \subseteq blobs /\ ~Over
    <2>1. CASE Progress
      <3>1. ASSUME NEW a \in Actors, RequestGranted(a)
            PROVE  \A d \in blobs' \ blobs : PartsOf(d) \subseteq blobs
        BY <1>3, <3>1, GrantedIs DEF Landing
      <3>2. ~Over
        BY <1>3, <2>1, OverStops
      <3> QED BY <2>1, <3>1, <3>2, BlobsChange
    <2>2. CASE UNCHANGED vars
      BY <2>2 DEF vars, clientVars
    <2> QED BY <1>3, <2>1, <2>2 DEF Next, Finished
  <1> QED BY <1>1, <1>2, <1>3, PTL DEF Spec, LandsOnTop

-----------------------------------------------------------------------------
(* What is tagged.                                                         *)

TagFollows ==
  /\ tag # NoDigest => Over /\ res[Root] = Ok /\ tag = Target(Root) /\ tag \in blobs
  /\ Over /\ res[Root] = Ok => tag # NoDigest

LEMMA RootEnds ==
  ASSUME Control, Progress, pc[Root] # "done", pc'[Root] = "done"
  PROVE  RefusePack \/ ReportFailure \/ TagPack \/ FailToTag
  <1>0. TypeOK /\ Root \in Actors
    BY ActorsDiffer DEF Control
  <1>1. Step(Root) \/ RefusePack \/ ReportFailure \/ TagPack \/ FailToTag
    BY <1>0, OwnStep DEF Fanned
  <1>2. ASSUME Step(Root) PROVE FALSE
    <2>1. ~Start(Root)
      BY <1>0, StartIs
    <2>2. Join(Root) \/ JoinInOrder(Root) => Joined(Root) \/ FannedOut(Root, "index") \/ Continued(Root)
      BY <1>0, JoinSteps, JoinInOrderSteps
    <2>3. ~Joined(Root) /\ ~FannedOut(Root, "index")
      BY DEF Joined, FannedOut
    <2>4. ASSUME Continued(Root) PROVE pc'[Root] = pc[Root]
      <3>1. \A k \in Kids(Root, pc[Root]) : k # Root
        BY <2>4, KidsAreActors DEF Continued, Control, TypeOK
      <3> QED BY <1>0, <2>4, <3>1 DEF Continued, OthersStay
    <2>5. ~Join(Root) /\ ~JoinInOrder(Root)
      BY <2>2, <2>3, <2>4
    <2> QED BY <1>0, <1>2, <2>1, <2>5, LocalMoves, ActorsDiffer DEF Step, Ended
  <1> QED BY <1>1, <1>2

LEMMA TagStep ==
  ASSUME ContentAddressed, Control, TagFollows, [Next]_vars
  PROVE  TagFollows'
  <1>0. TypeOK /\ Root \in Actors
    BY ActorsDiffer DEF Control
  <1>1. CASE Progress
    <2>0. ~Over /\ tag = NoDigest
      BY <1>1, OverStops DEF TagFollows
    <2>1. CASE TagPack
      <3>1. /\ tag' = Target(Root) /\ Target(Root) \in blobs /\ IsManifest(Target(Root)) /\ blobs' = blobs
            /\ pc[Root] = "return" /\ pc'[Root] = "done" /\ res'[Root] = Ok
        BY <2>1, EndsOfRoot DEF TagPack, CanTag, SetTag
      <3>2. Target(Root)' = Target(Root)
        BY <1>0, <1>1, <3>1, TargetStays, ActorsDiffer
      <3>3. Target(Root) # NoDigest
        BY <3>1 DEF IsManifest, NoDigest
      <3> QED BY <3>1, <3>2, <3>3 DEF TagFollows, Over, NoDigest
    <2>2. CASE ~TagPack
      <3>1. tag' = tag
        BY <1>1, <2>2 DEF Progress, RefusePack, AcceptPack, ReportFailure, FailToTag, data, clientVars,
             Step, Start, Commit, TakeSlot, LeaveQueue, ResolveItem, FailItem, BeginMount,
             OpenSource, ClaimUpload, AwaitUpload, ShareOutcome, AbandonWait, RequestGranted,
             RequestRefused, Settle, Release, Return, Join, JoinInOrder
      <3>2. ASSUME pc'[Root] = "done", res'[Root] = Ok PROVE FALSE
        <4>1. RefusePack \/ ReportFailure \/ FailToTag
          BY <1>1, <2>0, <2>2, <3>2, RootEnds DEF Over
        <4>2. (\A d : Failed(d) # Ok) /\ Refused # Ok /\ DeadlineExceeded # Ok
          BY DEF Failed, Ok, Refused, DeadlineExceeded
        <4> QED BY <1>0, <3>2, <4>1, <4>2, EndsOfRoot
      <3> QED BY <2>0, <3>1, <3>2 DEF TagFollows, Over, NoDigest
    <2> QED BY <2>1, <2>2
  <1>2. CASE UNCHANGED vars
    <2>1. pack' = pack /\ list' = list /\ disk' = disk /\ tag' = tag /\ pc' = pc /\ res' = res /\ blobs' = blobs
      BY <1>2 DEF vars, clientVars
    <2> QED BY <2>1, SameTargets DEF TagFollows, Over, NoDigest
  <1> QED BY <1>1, <1>2 DEF Next, Finished

(* The member of a pack that has been pushed is the one its files make.    *)
LEMMA MemberIsPacked ==
  ASSUME Control, PartsAreDone, SuccessIsThere, NEW m \in 1 .. Width,
         pc[Member(m)] = "done", res[Member(m)] = Ok
  PROVE  Result(Member(m)) = PackedMember(m)
  <1>0. /\ TypeOK /\ Member(m) \in Members /\ Member(m)[2] = m
        /\ Len(list[Member(m)]) = NParts(m) /\ NParts(m) \in Nat \ {0}
        /\ list[Member(m)] \in Seq(Digests) /\ pack \in Packs
    BY Places, ActorsDiffer DEF Control, TypeOK, Member
  <1>1. Mounts(Member(m)) <=> MountOnly(m)
    BY <1>0 DEF Mounts
  <1>2. CASE MountOnly(m)
    BY <1>0, <1>1, <1>2 DEF Result, PackedMember
  <1>3. CASE ~MountOnly(m)
    <2> DEFINE l == list[Member(m)]
    <2>1. Succeeds(Member(m))
      BY DEF Succeeds
    <2>2. \A k \in 1 .. NParts(m) : l[k] = Target(Part(m, k)) /\ Part(m, k) \in PartActors
      <3>1. \A k \in 1 .. NParts(m) : l[k] = Result(Part(m, k)) /\ Part(m, k) \in PartActors
        BY <1>0, <1>1, <1>3, <2>1, PartsInPlace, Places
      <3>2. \A a \in PartActors : ~Mounts(a)
        BY ActorsDiffer DEF Mounts
      <3> QED BY <3>1, <3>2 DEF Result
    <2>3. \A k \in 1 .. NParts(m) : l[k] = Content(IF k = 1 THEN Config(m) ELSE Files(m)[k - 1])
      <3>1. \A k : Part(m, k)[2] = m /\ Part(m, k)[3] = k
        BY DEF Part
      <3>2. ASSUME NEW k \in 1 .. NParts(m)
            PROVE  Target(Part(m, k)) = Content(IF k = 1 THEN Config(m) ELSE Files(m)[k - 1])
        <4>1. Source(Part(m, k)) = IF k = 1 THEN Config(m) ELSE Files(m)[k - 1]
          BY <3>1 DEF Source
        <4>2. Target(Part(m, k)) = Content(Source(Part(m, k)))
          BY <2>2, ActorsDiffer DEF Target
        <4> QED BY <4>1, <4>2
      <3> QED BY <2>2, <3>2
    <2>4. Files(m) \in Seq(Paths) /\ NParts(m) = 1 + Len(Files(m))
      <3>1. CASE IndexExpected
        <4>1. m \in DOMAIN Items
          BY <1>0, <3>1, ItemsAreSeq DEF Width
        <4> QED BY <1>0, <3>1, <4>1, ItemsAreSeq DEF Files, NParts
      <3>2. CASE ~IndexExpected
        BY <1>0, <3>2, AllFilesIsSeq DEF Files, NParts
      <3> QED BY <3>1, <3>2
    <2>5. l \in Seq(Digests) /\ l # << >> /\ Len(l) = NParts(m)
      BY <1>0
    <2> HIDE DEF l
    <2>6. /\ Tail(l) \in Seq(Digests) /\ Len(Tail(l)) = Len(l) - 1
          /\ \A i \in 1 .. Len(Tail(l)) : Tail(l)[i] = l[i + 1]
      BY <2>5, FirstOf
    <2>7. l[1] = Content(Config(m))
      <3>1. 1 \in 1 .. NParts(m)
        BY <1>0
      <3> QED BY <2>3, <3>1
    <2>8. Len(Files(m)) \in Nat /\ Len(Tail(l)) = Len(Files(m))
      BY <2>4, <2>5, <2>6
    <2>9. ASSUME NEW i \in 1 .. Len(Files(m)) PROVE Tail(l)[i] = disk[Files(m)[i]]
      <3>1. i + 1 \in 1 .. NParts(m) /\ i + 1 # 1 /\ (i + 1) - 1 = i
        BY <2>4, <2>8
      <3>2. l[i + 1] = Content(Files(m)[i])
        BY <2>3, <3>1
      <3>3. Files(m)[i] \in Paths
        BY <2>4
      <3>4. Files(m)[i] # NoFile
        BY <3>3, PackAssumption
      <3> QED BY <2>6, <2>8, <3>2, <3>4 DEF Content
    <2>10. Tail(l) = [i \in DOMAIN Files(m) |-> disk[Files(m)[i]]]
      <3>1. DOMAIN Files(m) = 1 .. Len(Files(m)) /\ DOMAIN Tail(l) = 1 .. Len(Tail(l))
        BY <2>4, <2>6
      <3> DEFINE t == Tail(l)
      <3>2. t \in Seq(Digests)
        BY <2>6
      <3> HIDE DEF t
      <3>3. t = [i \in DOMAIN t |-> t[i]]
        BY <3>2
      <3>4. t = [i \in DOMAIN Files(m) |-> t[i]] /\ \A i \in DOMAIN Files(m) : t[i] = disk[Files(m)[i]]
        BY <2>8, <2>9, <3>1, <3>3 DEF t
      <3> QED BY <3>4 DEF t
    <2>11. Result(Member(m)) = Manifest(l[1], Tail(l))
      BY <1>0, <1>1, <1>3, ActorsDiffer DEF Result, Target, l
    <2> QED BY <1>3, <2>7, <2>10, <2>11 DEF PackedMember
  <1> QED BY <1>2, <1>3

LEMMA TargetIsPacked ==
  ASSUME Control, PartsAreDone, SuccessIsThere, Succeeds(Root)
  PROVE  Target(Root) = Packed
  <1>0. /\ Len(list[Root]) = Width /\ Width \in Nat /\ list[Root] \in Seq(Digests)
        /\ \A m \in 1 .. Width : Member(m) \in Members
    BY Places, ActorsDiffer DEF Control, TypeOK
  <1>1. \A m \in 1 .. Width : list[Root][m] = PackedMember(m)
    BY <1>0, MembersInPlace, MemberIsPacked DEF PartsAreDone
  <1>2. list[Root] = [m \in 1 .. Width |-> PackedMember(m)]
    <2> DEFINE l == list[Root]
    <2>1. l \in Seq(Digests) /\ Len(l) = Width /\ \A m \in 1 .. Width : l[m] = PackedMember(m)
      BY <1>0, <1>1
    <2> HIDE DEF l
    <2>2. DOMAIN l = 1 .. Width /\ l = [m \in DOMAIN l |-> l[m]]
      BY <2>1
    <2>3. l = [m \in 1 .. Width |-> PackedMember(m)]
      BY <2>1, <2>2
    <2> QED BY <2>3 DEF l
  <1>3. Target(Root) = IF IndexExpected THEN Index(list[Root]) ELSE list[Root][1]
    BY ActorsDiffer DEF Target
  <1>4. CASE ~IndexExpected
    <2>1. 1 \in 1 .. Width
      BY <1>4 DEF Width
    <2> QED BY <1>1, <1>3, <1>4, <2>1 DEF Packed
  <1> QED BY <1>2, <1>3, <1>4 DEF Packed

LEMMA InitTag ==
  ASSUME Init
  PROVE  TagFollows
  <1>1. tag = NoDigest /\ pc[Root] = "validate"
    BY ActorsDiffer DEF Init
  <1> QED BY <1>1 DEF TagFollows, Over

(* What a pack tags is what its files make, in the order the pack file     *)
(* gives them, however its goroutines took turns, and all of it is there.  *)
THEOREM PackTags ==
  ASSUME ContentAddressed
  PROVE  Spec => []TaggedIsThePack
  <1>1. Init => Control /\ Landing /\ TagFollows
    BY InitControl, InitLanding, InitTag
  <1>2. Control /\ Landing /\ TagFollows /\ [Next]_vars => Control' /\ Landing' /\ TagFollows'
    BY ControlStep, LandingStep, TagStep
  <1>3. ASSUME Control, Landing, TagFollows PROVE TaggedIsThePack
    <2>1. SUFFICES ASSUME tag # NoDigest PROVE tag = Packed /\ Whole(tag, blobs)
      BY DEF TaggedIsThePack
    <2>2. Over /\ res[Root] = Ok /\ tag = Target(Root) /\ tag \in blobs
      BY <1>3, <2>1 DEF TagFollows
    <2>3. Succeeds(Root)
      BY <2>2 DEF Succeeds, Over
    <2> QED BY <1>3, <2>2, <2>3, TargetIsPacked DEF Landing, Whole, BlobsAreClosed
  <1> QED BY <1>1, <1>2, <1>3, PTL DEF Spec

-----------------------------------------------------------------------------
(* What is reported.  An error stays where it is until somebody above has  *)
(* it too, so that the pack cannot end well when anything failed.          *)

Ending == {"settle", "release", "return", "done"}

(* An actor whose work is over only hands in what came of it.              *)
LEMMA EndingSteps ==
  ASSUME Control, Progress, NEW b \in Actors, pc[b] \in Ending
  PROVE  /\ pc'[b] \in Ending
         /\ \/ res'[b] = res[b]
            \/ Return(b) /\ res'[b] = Outcome(b)
            \/ b = Root /\ (ReportFailure \/ FailToTag)
  <1>0. TypeOK
    BY DEF Control
  <1>1. PICK a \in Actors : Moved(a) \/ Joined(a) \/ (\E step \in Fanned : FannedOut(a, step)) \/ Continued(a)
                           \/ (a = Root /\ RefusedAtOnce)
    BY WhoMoves
  <1>2. pc'[b] \notin Fanned \cup {"idle", "start"}
    <2>1. CASE Moved(a) \/ Joined(a) \/ (a = Root /\ RefusedAtOnce)
      BY <2>1 DEF Moved, Joined, RefusedAtOnce, OthersStay, Ending, Fanned
    <2>2. ASSUME NEW step, FannedOut(a, step) PROVE pc'[b] = pc[b]
      BY <2>2 DEF FannedOut, OthersStay, Ending
    <2>3. CASE Continued(a)
      BY <2>3 DEF Continued, OthersStay, Ending, Fanned
    <2> QED BY <1>1, <2>1, <2>2, <2>3 DEF Ending, Fanned
  <1>3. CASE pc'[b] # pc[b] \/ res'[b] # res[b]
    <2>1. Step(b) \/ (b = Root /\ (RefusePack \/ ReportFailure \/ TagPack \/ FailToTag))
      BY <1>2, <1>3, OwnStep
    <2>2. CASE Step(b)
      <3>1. ~Start(b) /\ ~Join(b) /\ ~JoinInOrder(b)
        BY DEF Start, Join, JoinInOrder, Fanned, Ending
      <3>2. Settle(b) \/ Release(b) \/ Return(b)
        <4>1. ~(\/ Commit(b) \/ TakeSlot(b) \/ LeaveQueue(b) \/ ResolveItem(b) \/ FailItem(b)
                \/ BeginMount(b) \/ OpenSource(b) \/ ClaimUpload(b) \/ AwaitUpload(b)
                \/ ShareOutcome(b) \/ AbandonWait(b) \/ RequestGranted(b) \/ RequestRefused(b))
          BY <1>0, LocalMoves DEF Ending
        <4> QED BY <2>2, <3>1, <4>1 DEF Step
      <3>3. pc'[b] \in {"release", "return", "done"}
        BY <1>0, <3>2, LocalMoves
      <3>4. Settle(b) \/ Release(b) => res'[b] = res[b]
        BY DEF Settle, Release, Goto
      <3>5. Return(b) => res'[b] = Outcome(b)
        BY <1>0 DEF Return, GotoWith, TypeOK
      <3> QED BY <3>2, <3>3, <3>4, <3>5 DEF Ending
    <2>3. CASE b = Root /\ (RefusePack \/ ReportFailure \/ TagPack \/ FailToTag)
      BY <2>3, EndsOfRoot DEF Ending
    <2> QED BY <2>1, <2>2, <2>3
  <1>4. CASE pc'[b] = pc[b] /\ res'[b] = res[b]
    BY <1>4
  <1> QED BY <1>3, <1>4

LEMMA OutcomeOfError ==
  ASSUME NEW a, res[a] # Ok
  PROVE  Outcome(a) = res[a]
BY DEF Outcome

LEMMA ErrorStays ==
  ASSUME Control, ErrorsClimb, Progress, NEW b \in Actors, res[b] # Ok
  PROVE  res'[b] # Ok /\ pc[b] \in Ending /\ pc'[b] \in Ending
  <1>1. pc[b] \in Ending
    BY ActorsDiffer DEF ErrorsClimb, Ending
  <1>2. \A d : Failed(d) # Ok
    BY DEF Failed, Ok
  <1>4. DeadlineExceeded # Ok
    BY OutcomesDiffer
  <1>3. b = Root => (ReportFailure \/ FailToTag => res'[b] # Ok)
    BY <1>2, <1>4, EndsOfRoot
  <1> QED BY <1>1, <1>3, EndingSteps, OutcomeOfError

(* An error that was not there is the actor's own, or that of one below.   *)
LEMMA ErrorBegins ==
  ASSUME Control, GroupKnows, Progress, NEW b \in Actors, res[b] = Ok, res'[b] # Ok
  PROVE  /\ pc[b] \notin AtRest /\ pc'[b] \in Ending /\ OthersStay({b})
         /\ Step(b) \/ (b = Root /\ (RefusePack \/ FailToTag))
  <1>0. TypeOK /\ Root \in Actors
    BY ActorsDiffer DEF Control
  <1>1. PICK a \in Actors : Moved(a) \/ Joined(a) \/ (\E step \in Fanned : FannedOut(a, step)) \/ Continued(a)
                           \/ (a = Root /\ RefusedAtOnce)
    BY WhoMoves
  <1>2. a = b /\ (Moved(a) \/ Joined(a) \/ (a = Root /\ RefusedAtOnce))
    <2>1. ASSUME NEW step, FannedOut(a, step) PROVE FALSE
      BY <2>1 DEF FannedOut
    <2>2. ~Continued(a)
      BY DEF Continued, OthersStay
    <2>3. a = b
      BY <1>1, <2>1, <2>2 DEF Moved, Joined, RefusedAtOnce, OthersStay
    <2> QED BY <1>1, <2>1, <2>2, <2>3
  <1>3. pc[b] \notin AtRest /\ OthersStay({b}) /\ pc'[b] \notin Fanned \cup {"idle", "start"}
    BY <1>2 DEF Moved, Joined, RefusedAtOnce, AtRest, Fans, Fanned
  <1>4. Step(b) \/ (b = Root /\ (RefusePack \/ ReportFailure \/ TagPack \/ FailToTag))
    BY <1>3, OwnStep
  <1>5. Step(b) \/ (b = Root /\ (RefusePack \/ FailToTag))
    BY <1>4, EndsOfRoot
  <1>6. CASE b = Root /\ (RefusePack \/ FailToTag)
    BY <1>3, <1>6, <1>5, EndsOfRoot DEF Ending
  <1>7. CASE Step(b)
    <2>1. ~(TakeSlot(b) \/ ResolveItem(b) \/ BeginMount(b) \/ ClaimUpload(b) \/ AwaitUpload(b))
      BY DEF TakeSlot, ResolveItem, BeginMount, ClaimUpload, AwaitUpload, Goto
    <2>2. Commit(b) => pc'[b] \in Ending
      BY <1>0 DEF Commit, AskForSlot, Goto, GotoWith, TypeOK, Ending
    <2>3. LeaveQueue(b) \/ FailItem(b) \/ ShareOutcome(b) \/ AbandonWait(b) => pc'[b] \in Ending
      BY <1>0, LocalMoves DEF Ending
    <2>4. OpenSource(b) => pc'[b] \in Ending
      BY <1>0 DEF OpenSource, Goto, GotoWith, TypeOK, Ending
    <2>5. ~RequestGranted(b)
      BY DEF RequestGranted, Goto
    <2>6. RequestRefused(b) => pc'[b] \in Ending
      BY <1>0, LocalMoves DEF Ended, Ending
    <2>7. Settle(b) \/ Release(b) \/ Return(b) => pc'[b] \in Ending
      BY <1>0, LocalMoves DEF Ending
    <2>8. Start(b) => pc'[b] \in Ending
      BY StartIs DEF Ending
    <2>9. Join(b) \/ JoinInOrder(b) => pc'[b] \in Ending
      BY <1>3, JoinIs DEF Ending, Fanned
    <2> QED BY <1>3, <1>7, <2>1, <2>2, <2>3, <2>4, <2>5, <2>6, <2>7, <2>8, <2>9 DEF Step
  <1> QED BY <1>3, <1>5, <1>6, <1>7

(* Whoever waits for children goes on in success only if they all did.     *)
LEMMA ErrorIsHeard ==
  ASSUME Control, GroupKnows, Progress, NEW p \in {Root} \cup Members, pc[p] \in Fanned,
         NEW b \in Kids(p, pc[p]), res[b] # Ok
  PROVE  pc'[p] = pc[p] \/ res'[p] # Ok
  <1>0. p \in Actors /\ Fans(p, pc[p]) /\ pack \in Packs /\ Root \in Actors
    BY ActorsDiffer, FannedAre
  <1>1. ~AllSucceeded(p)
    BY DEF AllSucceeded
  <1>2. PICK a \in Actors : Moved(a) \/ Joined(a) \/ (\E step \in Fanned : FannedOut(a, step)) \/ Continued(a)
                           \/ (a = Root /\ RefusedAtOnce)
    BY WhoMoves
  <1>3. SUFFICES ASSUME pc'[p] # pc[p] PROVE res'[p] # Ok
    OBVIOUS
  <1>4. Step(p)
    <2>1. CASE pc'[p] \notin Fanned \cup {"idle", "start"}
      <3>1. Step(p) \/ (p = Root /\ (RefusePack \/ ReportFailure \/ TagPack \/ FailToTag))
        BY <1>0, <1>3, <2>1, OwnStep
      <3>2. ~(p = Root /\ (RefusePack \/ ReportFailure \/ TagPack \/ FailToTag))
        BY EndsOfRoot DEF Fanned
      <3> QED BY <3>1, <3>2
    <2>2. CASE pc'[p] \in Fanned \cup {"idle", "start"}
      <3>1. CASE Moved(a) \/ Joined(a) \/ (a = Root /\ RefusedAtOnce)
        BY <1>0, <1>3, <2>2, <3>1 DEF Moved, Joined, RefusedAtOnce, OthersStay, Fanned
      <3>2. ASSUME NEW step, FannedOut(a, step) PROVE Step(p)
        <4>1. p \notin Kids(a, step)
          BY <3>2 DEF FannedOut, Fanned
        <4>2. p = a /\ p = Root
          BY <1>0, <1>3, <3>2, <4>1, ActorsDiffer DEF FannedOut, OthersStay, Fanned, Fans
        <4>3. pc[Root] = "build" /\ pc'[Root] = "index"
          BY <3>2, <4>2 DEF FannedOut, Fanned
        <4>4. ~RefusePack /\ ~ReportFailure /\ ~TagPack /\ ~FailToTag /\ ~AcceptPack
          BY <4>3 DEF RefusePack, ReportFailure, TagPack, FailToTag, AcceptPack
        <4>5. PICK c \in Actors : Step(c)
          BY <4>4 DEF Progress
        <4>6. Moved(c) \/ Joined(c) \/ (\E s \in Fanned : FannedOut(c, s)) \/ Continued(c)
          BY <4>5, StepsAreShaped
        <4>7. c = Root
          <5>1. CASE Moved(c) \/ Joined(c)
            BY <1>0, <4>3, <5>1 DEF Moved, Joined, OthersStay
          <5>2. ASSUME NEW s, FannedOut(c, s), c # Root PROVE FALSE
            <6>1. Root \notin Kids(c, s)
              BY <5>2, <4>3 DEF FannedOut
            <6> QED BY <1>0, <4>3, <5>2, <6>1 DEF FannedOut, OthersStay
          <5>3. CASE Continued(c)
            BY <1>0, <4>3, <5>3 DEF Continued, OthersStay
          <5> QED BY <4>6, <5>1, <5>2, <5>3
        <4> QED BY <4>2, <4>5, <4>7
      <3>3. CASE Continued(a)
        BY <1>0, <1>3, <3>3 DEF Continued, OthersStay, Fanned
      <3> QED BY <1>2, <3>1, <3>2, <3>3
    <2> QED BY <2>1, <2>2
  <1>5. Join(p) \/ JoinInOrder(p)
    <2>1. TypeOK
      BY DEF Control
    <2>2. ~(\/ Commit(p) \/ TakeSlot(p) \/ LeaveQueue(p)
            \/ ResolveItem(p) \/ FailItem(p) \/ BeginMount(p) \/ OpenSource(p)
            \/ ClaimUpload(p) \/ AwaitUpload(p) \/ ShareOutcome(p) \/ AbandonWait(p)
            \/ RequestGranted(p) \/ RequestRefused(p) \/ Settle(p) \/ Release(p) \/ Return(p))
      BY <1>0, <2>1, LocalMoves DEF Fanned
    <2>3. ~Start(p)
      BY DEF Start, Fanned
    <2> QED BY <1>4, <2>2, <2>3 DEF Step
  <1> QED BY <1>0, <1>1, <1>3, <1>5, JoinIs

LEMMA ClimbStep ==
  ASSUME ContentAddressed, Control, GroupKnows, ErrorsClimb, Progress
  PROVE  ErrorsClimb'
  <1>0. /\ TypeOK /\ Root \in Actors /\ pack' = pack /\ pack \in Packs /\ Control' /\ Actors' = Actors
        /\ ItemActors' = ItemActors /\ Members' = Members /\ PartActors' = PartActors
        /\ \A a : Parent(a)' = Parent(a)
    BY ProgressIsShaped, PackStays, ActorsDiffer, ControlStep DEF Next, Control, TypeOK
  <1>1. \A b \in Actors : res'[b] # Ok => pc'[b] \in Ending
    BY ErrorStays, ErrorBegins
  <1>2. ASSUME NEW p \in {Root} \cup Members, NEW step \in Fanned, NEW b \in Actors, b # p, Fans(p, step),
               b \in Kids(p, step), pc[b] \notin AtRest => pc[p] = step,
               res[b] # Ok => pc[p] = step \/ res[p] # Ok, res'[b] # Ok
        PROVE  pc'[p] = step \/ res'[p] # Ok
    <2>0. p \in Actors
      BY ActorsDiffer
    <2>1. CASE res[b] = Ok
      <3>1. pc[b] \notin AtRest /\ OthersStay({b})
        BY <1>2, <2>1, ErrorBegins
      <3> QED BY <1>2, <2>0, <3>1 DEF OthersStay
    <2>2. CASE res[b] # Ok
      <3>1. CASE res[p] # Ok
        BY <2>0, <3>1, ErrorStays
      <3>2. CASE pc[p] = step
        BY <1>2, <2>2, <3>2, ErrorIsHeard
      <3> QED BY <1>2, <2>2, <3>1, <3>2
    <2> QED BY <2>1, <2>2
  <1>3. ASSUME NEW a \in ItemActors, res'[a] # Ok
        PROVE  pc'[a] \in {"release", "return", "done"} /\ (pc'[Root] = "build" \/ res'[Root] # Ok)
    <2>1. a \in Actors /\ a # Root /\ a \in Kids(Root, "build") /\ Fans(Root, "build") /\ "build" \in Fanned
      BY ActorsDiffer DEF Kids, Fans, Fanned
    <2>2. /\ pc[a] \notin AtRest => pc[Root] = "build"
          /\ res[a] # Ok => pc[Root] = "build" \/ res[Root] # Ok
      BY DEF Control, Nested, ErrorsClimb
    <2>3. pc'[Root] = "build" \/ res'[Root] # Ok
      BY <1>2, <1>3, <2>1, <2>2
    <2>4. pc'[a] # "settle"
      <3>1. Fits(a, pc[a])'
        BY <1>0, <2>1 DEF Control, StepsFit
      <3> QED BY <1>0, <3>1 DEF Fits
    <2> QED BY <1>1, <1>3, <2>1, <2>3, <2>4 DEF Ending
  <1>4. ASSUME NEW a \in Members, res'[a] # Ok
        PROVE  pc'[a] \in Ending /\ (pc'[Root] = "index" \/ res'[Root] # Ok)
    <2>1. a \in Actors /\ a # Root /\ a \in Kids(Root, "index") /\ Fans(Root, "index") /\ "index" \in Fanned
      BY ActorsDiffer DEF Kids, Fans, Fanned
    <2>2. /\ pc[a] \notin AtRest => pc[Root] = "index"
          /\ res[a] # Ok => pc[Root] = "index" \/ res[Root] # Ok
      BY DEF Control, Nested, ErrorsClimb
    <2>3. pc'[Root] = "index" \/ res'[Root] # Ok
      BY <1>2, <1>4, <2>1, <2>2
    <2> QED BY <1>1, <1>4, <2>1, <2>3
  <1>5. ASSUME NEW a \in PartActors, res'[a] # Ok
        PROVE  pc'[a] \in Ending /\ (pc'[Parent(a)] = "layers" \/ res'[Parent(a)] # Ok)
    <2> DEFINE m == Parent(a)
    <2>1. a \in Actors /\ m \in Members /\ Fans(m, "layers") /\ "layers" \in Fanned
      BY ActorsDiffer, Parents DEF Fans, Fanned
    <2>2. a \in Kids(m, "layers") /\ a # m
      BY <1>0, <2>1, KidsAreActors
    <2>3. /\ pc[a] \notin AtRest => pc[m] = "layers"
          /\ res[a] # Ok => pc[m] = "layers" \/ res[m] # Ok
      BY DEF Control, Nested, ErrorsClimb
    <2> HIDE DEF m
    <2>4. pc'[m] = "layers" \/ res'[m] # Ok
      BY <1>2, <1>5, <2>1, <2>2, <2>3
    <2> QED BY <1>1, <1>5, <2>1, <2>4 DEF m
  <1>6. res'[Root] # Ok => pc'[Root] \in Ending
    BY <1>0, <1>1
  <1>7. \A a \in PartActors : res'[a] # Ok =>
          pc'[a] \in Ending /\ (pc'[Parent(a)'] = "layers" \/ res'[Parent(a)'] # Ok)
    BY <1>0, <1>5
  <1> QED BY <1>0, <1>3, <1>4, <1>6, <1>7 DEF ErrorsClimb, Ending

(* Whom the budget heard a failure from.                                   *)
LEMMA FailureMoves ==
  ASSUME Control, Progress
  PROVE  \/ failure' = failure
         \/ \E a \in Actors : /\ Return(a) \/ Settle(a)
                              /\ failure' = Record(failure, res'[a])
  <1>1. ASSUME NEW a \in Actors, Return(a) PROVE failure' = Record(failure, res'[a])
    BY <1>1 DEF Return, GotoWith, Control, TypeOK
  <1>2. ASSUME NEW a \in Actors, Settle(a) PROVE failure' = Record(failure, res'[a])
    BY <1>2 DEF Settle, CloseTask, Goto
  <1>3. ASSUME NEW a \in Actors, Step(a), ~Return(a), ~Settle(a) PROVE failure' = failure
    BY <1>3 DEF Step, Start, Commit, TakeSlot, LeaveQueue, ResolveItem, FailItem, BeginMount,
                  OpenSource, ClaimUpload, AwaitUpload, ShareOutcome, AbandonWait, RequestGranted,
                  RequestRefused, Release, Join, JoinInOrder, budgetVars
  <1>4. (~\E a \in Actors : Step(a)) => failure' = failure
    BY DEF Progress, RefusePack, AcceptPack, ReportFailure, TagPack, FailToTag, budgetVars
  <1> QED BY <1>1, <1>2, <1>3, <1>4

LEMMA FailureStep ==
  ASSUME Control, ErrorsClimb, FailureIsSomebodys, Progress
  PROVE  FailureIsSomebodys'
  <1>0. Actors' = Actors /\ Ok \notin Failures
    BY ProgressIsShaped, PackStays, OutcomesDiffer
  <1>1. CASE failure # Ok
    <2>1. PICK a \in Actors : res[a] # Ok
      BY <1>1 DEF FailureIsSomebodys
    <2>2. res'[a] # Ok
      BY <2>1, ErrorStays
    <2> QED BY <1>0, <2>2 DEF FailureIsSomebodys
  <1>2. CASE failure = Ok
    <2>1. failure' # Ok => \E a \in Actors : res'[a] # Ok
      BY <1>0, <1>2, FailureMoves DEF Record
    <2> QED BY <1>0, <2>1 DEF FailureIsSomebodys
  <1> QED BY <1>1, <1>2

(* What timed out stays known as such, unless the pack blames a failure.   *)
LEMMA TimeoutStays ==
  ASSUME Control, ErrorsClimb, Progress, failure' = Ok, failure = Ok, TimedOut
  PROVE  TimedOut'
  <1>1. PICK a \in Actors : res[a] = DeadlineExceeded
    BY DEF TimedOut
  <1>2. res[a] # Ok /\ a \in Actors'
    BY <1>1, OutcomesDiffer, ProgressIsShaped, PackStays DEF Control, TypeOK
  <1>3. \/ res'[a] = res[a]
        \/ Return(a) /\ res'[a] = Outcome(a)
        \/ a = Root /\ (ReportFailure \/ FailToTag)
    BY <1>2, ErrorStays, EndingSteps
  <1>4. CASE a = Root /\ (ReportFailure \/ FailToTag)
    <2>1. res'[a] = Cause(res[a])
      BY <1>2, <1>4, EndsOfRoot
    <2> QED BY <1>1, <1>2, <2>1 DEF Cause, TimedOut
  <1> QED BY <1>1, <1>2, <1>3, <1>4, OutcomeOfError DEF TimedOut

(* Nothing is cancelled before something has failed, or timed out.         *)
LEMMA CancelStep ==
  ASSUME ContentAddressed, Control, GroupKnows, CancelsHaveCause, ErrorsClimb, Progress
  PROVE  CancelsHaveCause'
  <1>0. /\ TypeOK /\ Root \in Actors /\ Actors' = Actors /\ pack \in Packs
        /\ Canceled # Ok /\ Canceled \notin Failures /\ Refused # Canceled
        /\ (\A d : Failed(d) # Canceled) /\ Unreadable # Canceled /\ Claimed # Canceled
        /\ DeadlineExceeded # Canceled
    <2>1. (\A d : Failed(d) # Canceled) /\ Refused # Canceled /\ Claimed # Canceled /\ Unreadable # Canceled
      BY DEF Failed, Canceled, Refused, Claimed, Unreadable
    <2> QED BY <2>1, ProgressIsShaped, PackStays, OutcomesDiffer, ActorsDiffer DEF Control, TypeOK
  <1>1. SUFFICES ASSUME failure' = Ok, ~TimedOut'
                 PROVE  /\ \A a \in Actors : res'[a] # Canceled /\ group'[a] = Ok
                        /\ \A d \in Digests : tasks'[d] # Canceled
    BY <1>0 DEF CancelsHaveCause
  <1>2. failure = Ok /\ ~TimedOut
    <2>1. failure = Ok
      BY <1>1, FailureMoves DEF Record
    <2> QED BY <1>1, <2>1, TimeoutStays
  <1>3. /\ \A a \in Actors : res[a] # Canceled /\ group[a] = Ok
        /\ \A d \in Digests : tasks[d] # Canceled
    BY <1>2 DEF CancelsHaveCause
  <1>4. \A a \in Actors : ~Cancelled(a)
    BY <1>0, <1>3, ActorsDiffer, Parents DEF Cancelled
  <1>5. ASSUME NEW a \in Actors, res'[a] = Canceled PROVE FALSE
    <2>1. CASE res[a] # Ok
      <3>1. pc[a] \in Ending
        BY <2>1, ErrorStays
      <3>2. res'[a] # res[a]
        BY <1>3, <1>5
      <3>3. a = Root /\ (ReportFailure \/ FailToTag)
        BY <2>1, <3>1, <3>2, EndingSteps, OutcomeOfError
      <3>4. res'[Root] = Cause(res[Root]) \/ res'[Root] \in {Failed(Target(Root)), DeadlineExceeded}
        BY <3>3, EndsOfRoot
      <3> QED BY <1>0, <1>2, <1>3, <1>5, <3>3, <3>4 DEF Cause
    <2>2. CASE res[a] = Ok
      <3>1. Step(a) \/ (a = Root /\ (RefusePack \/ FailToTag))
        BY <1>0, <1>5, <2>2, ErrorBegins
      <3>2. ~(a = Root /\ (RefusePack \/ FailToTag))
        BY <1>0, <1>5, EndsOfRoot
      <3>3. ~(TakeSlot(a) \/ ResolveItem(a) \/ BeginMount(a) \/ ClaimUpload(a) \/ AwaitUpload(a)
              \/ RequestGranted(a) \/ Settle(a) \/ Release(a))
        BY <1>3, <1>5 DEF TakeSlot, ResolveItem, BeginMount, ClaimUpload, AwaitUpload,
                          RequestGranted, Settle, Release, Goto
      <3>4. ~Start(a) /\ ~Commit(a) /\ ~LeaveQueue(a) /\ ~AbandonWait(a)
        <4>1. ~Start(a)
          BY <1>0, <1>3, <1>4, <1>5, StartIs
        <4> QED BY <1>3, <1>4, <1>5, <4>1 DEF Commit, AskForSlot, LeaveQueue, AbandonWait, Goto
      <3>5. ~OpenSource(a)
        BY <1>0, <1>3, <1>5 DEF OpenSource, Goto, GotoWith, TypeOK
      <3>6. ~FailItem(a)
        BY <1>0, <1>4, <1>5, ItemsFail DEF FailItem, GotoWith, TypeOK
      <3>7. ASSUME ShareOutcome(a) PROVE FALSE
        <4>1. pc[a] = "wait" /\ res'[a] = tasks[Target(a)]
          BY <1>0, <3>7 DEF ShareOutcome, GotoWith, TypeOK
        <4>2. Target(a) \in Digests
          BY <1>0, <4>1, UploadersWork, TargetsAreDigests, ActorsDiffer
        <4> QED BY <1>3, <1>5, <4>1, <4>2
      <3>8. ~RequestRefused(a)
        BY <1>0, <1>4, <1>5 DEF RequestRefused, TimedOutOn, Interrupted, GotoWith, TypeOK
      <3>9. ~Return(a)
        BY <1>0, <1>3, <1>5 DEF Return, GotoWith, Outcome, TypeOK
      <3>10. ASSUME Join(a) \/ JoinInOrder(a) PROVE FALSE
        <4>1. Fans(a, pc[a]) /\ res'[a] \in {group[a]} \cup {res[b] : b \in Kids(a, pc[a])}
          BY <1>0, <1>5, <2>2, <3>10, JoinSteps, JoinInOrderSteps, JoinIs, ErrorBegins DEF Ending, Fanned
        <4>2. \A b \in Kids(a, pc[a]) : b \in Actors
          BY <1>0, <4>1, KidsAreActors
        <4> QED BY <1>0, <1>3, <1>5, <4>1, <4>2
      <3> QED BY <3>1, <3>2, <3>3, <3>4, <3>5, <3>6, <3>7, <3>8, <3>9, <3>10 DEF Step
    <2> QED BY <2>1, <2>2
  <1>6. ASSUME NEW p \in Actors PROVE group'[p] = Ok
    <2>1. ASSUME NEW b \in Actors, Return(b), group'[p] = Outcome(b) PROVE group'[p] = Ok
      <3>1. res'[b] = Outcome(b) /\ failure' = Record(failure, Outcome(b))
        BY <1>0, <2>1 DEF Return, GotoWith, TypeOK
      <3>2. Outcome(b) \notin Failures
        BY <1>0, <1>1, <1>2, <3>1, OutcomesDiffer DEF Record
      <3>3. Outcome(b) # Canceled
        BY <1>5, <3>1
      <3>4. Outcome(b) \in Outcomes
        <4>1. res[b] \in Outcomes
          BY <1>0, <2>1 DEF Return, TypeOK
        <4> QED BY <4>1, OutcomesDiffer DEF Outcome
      <3>5. Outcome(b) # DeadlineExceeded
        BY <1>0, <1>1, <3>1 DEF TimedOut
      <3> QED BY <2>1, <3>2, <3>3, <3>4, <3>5 DEF Outcomes
    <2> QED BY <1>3, <2>1, GroupOnlyFails
  <1>7. ASSUME NEW d \in Digests PROVE tasks'[d] # Canceled
    <2>1. ASSUME NEW a \in Actors, ClaimUpload(a) PROVE tasks'[d] # Canceled
      <3>1. tasks' = [tasks EXCEPT ![Target(a)] = Claimed]
        BY <2>1 DEF ClaimUpload, Claim
      <3> QED BY <1>0, <1>3, <3>1 DEF TypeOK
    <2>2. ASSUME NEW a \in Actors, Settle(a) PROVE tasks'[d] # Canceled
      <3>1. tasks' = [tasks EXCEPT ![Target(a)] = res[a]]
        BY <2>2 DEF Settle, CloseTask
      <3> QED BY <1>0, <1>3, <3>1 DEF TypeOK
    <2>3. ASSUME NEW a \in Actors, Step(a), ~ClaimUpload(a), ~Settle(a) PROVE tasks' = tasks
      BY <2>3 DEF Step, Start, Commit, TakeSlot, LeaveQueue, ResolveItem, FailItem, BeginMount,
                  OpenSource, AwaitUpload, ShareOutcome, AbandonWait, RequestGranted,
                  RequestRefused, Release, Return, Join, JoinInOrder, budgetVars
    <2>4. (~\E a \in Actors : Step(a)) => tasks' = tasks
      BY DEF Progress, RefusePack, AcceptPack, ReportFailure, TagPack, FailToTag, budgetVars
    <2> QED BY <1>3, <2>1, <2>2, <2>3, <2>4
  <1> QED BY <1>5, <1>6, <1>7

(* While a pack is still to report, an error anywhere is its own, or that  *)
(* of somebody it waits for.                                               *)
LEMMA ErrorBelow ==
  ASSUME Control, ErrorsClimb, NEW a \in Actors, res[a] # Ok
  PROVE  pc[Root] \in {"build", "index"} \/ res[Root] # Ok
  <1>1. ASSUME NEW m \in Members, res[m] # Ok \/ pc[m] = "layers"
        PROVE  pc[Root] = "index" \/ res[Root] # Ok
    BY <1>1 DEF Control, Nested, ErrorsClimb, AtRest
  <1>2. CASE a \in PartActors
    BY <1>1, <1>2, Parents DEF ErrorsClimb
  <1> QED BY <1>1, <1>2, ActorsDiffer DEF ErrorsClimb

EndsWell == Over /\ failure # Ok => res[Root] = failure

LEMMA EndsWellStep ==
  ASSUME Control, GroupKnows, ErrorsClimb, FailureIsSomebodys, EndsWell, Progress
  PROVE  EndsWell'
  <1>0. TypeOK /\ Root \in Actors /\ ~Over
    BY OverStops, ActorsDiffer DEF Control
  <1>1. SUFFICES ASSUME pc'[Root] = "done", failure' # Ok
                 PROVE  res'[Root] = failure'
    BY DEF EndsWell, Over
  <1>2. RefusePack \/ ReportFailure \/ TagPack \/ FailToTag
    BY <1>0, <1>1, RootEnds DEF Over
  <1>3. failure' = failure
    BY <1>0, <1>2 DEF RefusePack, ReportFailure, TagPack, FailToTag, budgetVars
  <1>4. pc[Root] \in {"build", "index"} \/ res[Root] # Ok
    BY <1>1, <1>3, ErrorBelow DEF FailureIsSomebodys
  <1>5. CASE RefusePack
    <2>1. pc[Root] = "validate"
      BY <1>5, EndsOfRoot
    <2> QED BY <1>4, <2>1 DEF ErrorsClimb
  <1>6. CASE TagPack \/ FailToTag
    BY <1>4, <1>6, EndsOfRoot
  <1>7. CASE ReportFailure
    <2>1. res[Root] # Ok /\ res'[Root] = Cause(res[Root])
      BY <1>7, EndsOfRoot
    <2> QED BY <1>1, <1>3, <2>1 DEF Cause
  <1> QED BY <1>2, <1>5, <1>6, <1>7

Blame == ErrorsClimb /\ FailureIsSomebodys /\ CancelsHaveCause /\ EndsWell

LEMMA InitBlame ==
  ASSUME Init
  PROVE  Blame
  <1>1. /\ failure = Ok /\ \A a \in Actors : res[a] = Ok /\ group[a] = Ok
        /\ \A d \in Digests : tasks[d] = Unclaimed
        /\ pc[Root] = "validate"
    BY ActorsDiffer DEF Init, NewBudget
  <1>2. Canceled # Ok /\ Unclaimed # Canceled
    BY DEF Canceled, Ok, Unclaimed
  <1> QED BY <1>1, <1>2, ActorsDiffer
          DEF Blame, ErrorsClimb, FailureIsSomebodys, CancelsHaveCause, EndsWell, Over

LEMMA BlameStep ==
  ASSUME ContentAddressed, Control, GroupKnows, Blame, [Next]_vars
  PROVE  Blame'
  <1>1. CASE Progress
    BY <1>1, ClimbStep, FailureStep, CancelStep, EndsWellStep DEF Blame
  <1>2. CASE UNCHANGED vars
    <2>1. /\ pack' = pack /\ pc' = pc /\ res' = res /\ group' = group /\ tasks' = tasks /\ failure' = failure
      BY <1>2 DEF vars, budgetVars
    <2>2. /\ Actors' = Actors /\ ItemActors' = ItemActors /\ Members' = Members /\ PartActors' = PartActors
          /\ \A a : Parent(a)' = Parent(a)
      BY <2>1, PackStays
    <2>3. ErrorsClimb'
      BY <2>1, <2>2 DEF Blame, ErrorsClimb
    <2>4. FailureIsSomebodys' /\ CancelsHaveCause' /\ EndsWell'
      BY <2>1, <2>2 DEF Blame, FailureIsSomebodys, CancelsHaveCause, TimedOut, EndsWell, Over
    <2> QED BY <2>3, <2>4 DEF Blame
  <1> QED BY <1>1, <1>2 DEF Next, Finished

(* A pack that ends reports the first failure that was recorded, if there  *)
(* is one; the cancellation it set off only if something timed out; and it *)
(* tags exactly when it succeeds.                                          *)
THEOREM PackReports ==
  ASSUME ContentAddressed
  PROVE  Spec => []ReportsTheFailure
  <1>1. Init => Control /\ Landing /\ TagFollows /\ Blame
    BY InitControl, InitLanding, InitTag, InitBlame
  <1>2. Control /\ Landing /\ TagFollows /\ Blame /\ [Next]_vars => Control' /\ Landing' /\ TagFollows' /\ Blame'
    BY ControlStep, LandingStep, TagStep, BlameStep DEF Landing
  <1>3. TypeOK /\ TagFollows /\ Blame => ReportsTheFailure
    <2>1. Blame /\ Over => (failure # Ok => res[Root] = failure)
      BY DEF Blame, EndsWell
    <2>2. Blame /\ Over /\ TypeOK /\ res[Root] = Canceled => TimedOut
      BY <2>1, OutcomesDiffer, ActorsDiffer DEF Blame, CancelsHaveCause, TypeOK
    <2> QED BY <2>1, <2>2 DEF TagFollows, ReportsTheFailure
  <1>4. Control => TypeOK
    BY DEF Control
  <1> QED BY <1>1, <1>2, <1>3, <1>4, PTL DEF Spec

(* The inductive invariant, all of it.                                     *)
THEOREM PackHolds ==
  ASSUME ContentAddressed
  PROVE  Spec => []PackInvariant
  <1> DEFINE Inv == Control /\ HeldSlots /\ Alone /\ Landing /\ TagFollows /\ Blame
  <1>1. Init => Inv
    BY InitControl, InitSlots, InitAlone, InitLanding, InitTag, InitBlame
  <1>2. Inv /\ [Next]_vars => Inv'
    BY ControlStep, SlotsStep, AloneStep, LandingStep, TagStep, BlameStep DEF Landing
  <1>3. Inv => PackInvariant
    <2>1. Inv => SlotsAreHeld /\ OneUploadPerDigest
      BY HeldSlotsAreHeld, AloneIsOne
    <2> QED BY <2>1 DEF Control, Landing, Blame, TagFollows, EndsWell, TaggedAtTheEnd, PackInvariant
  <1> QED BY <1>1, <1>2, <1>3, PTL DEF Spec
=============================================================================

------------------------------ MODULE CopyWalk ------------------------------
(***************************************************************************)
(* registry.Copy (pkg/registry/copy.go): the concurrent walk that moves an *)
(* artifact, children first, from a source to a destination.               *)
(*                                                                         *)
(* Every call of copier.copy is an actor, named by the route that led to   *)
(* it: the chain of positions and digests from the root.  All of the route *)
(* but its last link is what the code carries as `path *ancestors`.  A     *)
(* digest may be reached along several routes, and the budget decides      *)
(* which of them walks it.                                                 *)
(***************************************************************************)
EXTENDS Budget, Sequences, FiniteSets

CONSTANTS
  Root,         \* the descriptor Copy is called with
  Blobs,        \* digests whose media type is neither an index nor a manifest
  Children,     \* what the source's answer to a digest refers to, in order
  Honest,       \* digests the source answers with content that hashes to them
  MayFail,      \* digests whose transfers the endpoints may refuse
  MayTimeOut,   \* digests whose transfers may end in a dial timeout
  Cancellable   \* whether the caller may cancel the context it passed

ASSUME CopyAssumption ==
  /\ Root \in Digests
  /\ Blobs \subseteq Digests
  /\ Children \in [Digests -> Seq(Digests)]
  /\ \A d \in Blobs : Children[d] = << >>
  /\ Honest \subseteq Digests
  /\ MayFail \subseteq Digests
  /\ MayTimeOut \subseteq Digests
  /\ Cancellable \in BOOLEAN

VARIABLES
  pc,       \* where each call of copy is; its domain is the calls made so far
  res,      \* the error a call is returning
  group,    \* first error its errgroup saw: its children's context is cancelled
  dst,      \* the digests the destination holds
  stopped   \* the caller's context is cancelled

vars == <<slots, tasks, failure, pc, res, group, dst, stopped>>

-----------------------------------------------------------------------------
Link == [pos : Nat, desc : Digests]

RootCall == << [pos |-> 0, desc |-> Root] >>
Desc(c)  == c[Len(c)].desc
Kid(c, i) == Append(c, [pos |-> i, desc |-> Children[Desc(c)][i]])
Kids(c)  == {Kid(c, i) : i \in 1 .. Len(Children[Desc(c)])}
Calls    == DOMAIN pc
Width(c) == Len(Children[Desc(c)])

References(d) == {Children[d][i] : i \in 1 .. Len(Children[d])}

IsRoot(c) == Len(c) = 1
Parent(c) == SubSeq(c, 1, Len(c) - 1)
Ancestor(c, n) == SubSeq(c, 1, n)

(* ancestors.contains                                                      *)
OnPath(c) == \E n \in 1 .. Len(c) - 1 : c[n].desc = Desc(c)

(* ctx.Err() of the context a call runs under: the caller's, or the one of *)
(* any errgroup above it.                                                  *)
Cancelled(c) == \/ stopped
                \/ \E n \in 1 .. Len(c) - 1 : group[Ancestor(c, n)] # Ok

Transferring == {"fetch", "push"}
Steps == {"copy", "wait", "fetchCheck", "fetchQueue", "fetch", "children",
          "pushCheck", "pushQueue", "push", "settle", "return", "done"}

TypeOK ==
  /\ BudgetTypeOK
  /\ Calls \subseteq Seq(Link) \ {<< >>}
  /\ pc \in [Calls -> Steps]
  /\ res \in [Calls -> Errors]
  /\ group \in [Calls -> Errors]
  /\ dst \subseteq Digests
  /\ stopped \in BOOLEAN

Init ==
  /\ NewBudget
  /\ pc = [c \in {RootCall} |-> "copy"]
  /\ res = [c \in {RootCall} |-> Ok]
  /\ group = [c \in {RootCall} |-> Ok]
  /\ dst \in SUBSET Digests
  /\ stopped = FALSE

-----------------------------------------------------------------------------
(* How a call moves on.                                                    *)

Goto(c, step) == /\ pc' = [pc EXCEPT ![c] = step]
                 /\ UNCHANGED <<res, group>>

GotoWith(c, step, err) == /\ pc' = [pc EXCEPT ![c] = step]
                          /\ res' = [res EXCEPT ![c] = err]
                          /\ UNCHANGED group

(* Each makes the calls in `new`, and c stays in copyAll.                  *)
Spawn(c, new) ==
  /\ pc' = [k \in Calls \cup new |->
              IF k = c THEN "children" ELSE IF k \in new THEN "copy" ELSE pc[k]]
  /\ res' = [k \in Calls \cup new |-> IF k \in new THEN Ok ELSE res[k]]
  /\ group' = [k \in Calls \cup new |-> IF k \in new THEN Ok ELSE group[k]]

-----------------------------------------------------------------------------
(* copy: give up under a cancelled context, else claim the digest or wait  *)
(* for whoever did.                                                        *)

EnterCancelled(c) ==
  /\ pc[c] = "copy" /\ Cancelled(c)
  /\ GotoWith(c, "return", Canceled)
  /\ UNCHANGED <<budgetVars, dst, stopped>>

(* The claimer starts to walk.  The loop check is the walk's first act.    *)
EnterClaim(c) ==
  /\ pc[c] = "copy" /\ ~Cancelled(c) /\ ~Found(Desc(c))
  /\ Claim(Desc(c))
  /\ IF OnPath(c) THEN GotoWith(c, "settle", Failed(Desc(c)))
     ELSE Goto(c, IF Desc(c) \in Blobs THEN "pushCheck" ELSE "fetchCheck")
  /\ UNCHANGED <<slots, failure, dst, stopped>>

EnterSkip(c) ==                             \* slip: somebody has it, so it is done
  /\ pc[c] = "copy" /\ ~Cancelled(c) /\ Found(Desc(c))
  /\ GotoWith(c, "return", Ok)
  /\ UNCHANGED <<budgetVars, dst, stopped>>

EnterWait(c) ==
  /\ pc[c] = "copy" /\ ~Cancelled(c) /\ Found(Desc(c))
  /\ Goto(c, "wait")
  /\ UNCHANGED <<budgetVars, dst, stopped>>

(* The select at the end of Once: either case may win when both are ready. *)
ShareOutcome(c) ==
  /\ pc[c] = "wait" /\ Closed(Desc(c))
  /\ GotoWith(c, "return", tasks[Desc(c)])
  /\ UNCHANGED <<budgetVars, dst, stopped>>

AbandonWait(c) ==
  /\ pc[c] = "wait" /\ Cancelled(c)
  /\ GotoWith(c, "return", Canceled)
  /\ UNCHANGED <<budgetVars, dst, stopped>>

-----------------------------------------------------------------------------
(* Slot, for the request that reads a manifest and for the transfer of a   *)
(* blob: the context is looked at first, then the slot is queued for.      *)

QueueFor(check) == IF check = "fetchCheck" THEN "fetchQueue" ELSE "pushQueue"
HoldFor(queue)  == IF queue = "fetchQueue" THEN "fetch" ELSE "push"

CheckContext(c) ==
  /\ pc[c] \in {"fetchCheck", "pushCheck"}
  /\ IF Cancelled(c) THEN GotoWith(c, "settle", Canceled)
                     ELSE Goto(c, QueueFor(pc[c]))
  /\ UNCHANGED <<budgetVars, dst, stopped>>

TakeSlot(c) ==
  /\ pc[c] \in {"fetchQueue", "pushQueue"}
  /\ AcquireSlot
  /\ Goto(c, HoldFor(pc[c]))
  /\ UNCHANGED <<tasks, failure, dst, stopped>>

LeaveQueue(c) ==
  /\ pc[c] \in {"fetchQueue", "pushQueue"} /\ Cancelled(c)
  /\ GotoWith(c, "settle", Canceled)
  /\ UNCHANGED <<budgetVars, dst, stopped>>

(* An endpoint refuses, the dialler gives up, or the request notices that  *)
(* its context is gone.  The slot goes back whatever happened.             *)
TransferErrors(c) ==
  (IF Desc(c) \in MayFail    THEN {Failed(Desc(c))}  ELSE {}) \cup
  (IF Desc(c) \in MayTimeOut THEN {DeadlineExceeded} ELSE {}) \cup
  (IF Cancelled(c)           THEN {Canceled}         ELSE {})

FailTransfer(c) ==
  /\ pc[c] \in Transferring
  /\ \E err \in TransferErrors(c) : GotoWith(c, "settle", err)
  /\ ReleaseSlot
  /\ UNCHANGED <<tasks, failure, dst, stopped>>

(* fetch: content that does not hash to its digest is refused.             *)
RejectContent(c) ==
  /\ pc[c] = "fetch" /\ Desc(c) \notin Honest
  /\ GotoWith(c, "settle", Failed(Desc(c)))
  /\ ReleaseSlot
  /\ UNCHANGED <<tasks, failure, dst, stopped>>

(* copyAll: all the children at once, or the first of them.                *)
FanOut(c) ==
  IF Width(c) = 0 THEN Goto(c, "pushCheck")
  ELSE Spawn(c, IF Sequential(Width(c)) THEN {Kid(c, 1)} ELSE Kids(c))

FinishUnchecked(c) ==                       \* slip: the content is taken as it comes
  /\ pc[c] = "fetch"
  /\ FanOut(c)
  /\ ReleaseSlot
  /\ UNCHANGED <<tasks, failure, dst, stopped>>

FinishFetch(c) ==
  /\ pc[c] = "fetch" /\ Desc(c) \in Honest
  /\ FanOut(c)
  /\ ReleaseSlot
  /\ UNCHANGED <<tasks, failure, dst, stopped>>

(* copyDescriptor: pushed now, or found to be there already.               *)
FinishPush(c) ==
  /\ pc[c] = "push"
  /\ dst' = dst \cup {Desc(c)}
  /\ GotoWith(c, "settle", Ok)
  /\ ReleaseSlot
  /\ UNCHANGED <<tasks, failure, stopped>>

-----------------------------------------------------------------------------
(* The claimer's way out of Once, then out of the closure Each runs.       *)

Settle(c) ==
  /\ pc[c] = "settle"
  /\ CloseTask(Desc(c), res[c])
  /\ Goto(c, "return")
  /\ UNCHANGED <<slots, dst, stopped>>

(* The first child to return an error cancels its siblings' context.       *)
InGroup(c) == ~IsRoot(c) /\ ~Sequential(Width(Parent(c)))

Return(c) ==
  /\ pc[c] = "return"
  /\ pc' = [pc EXCEPT ![c] = "done"]
  /\ group' = IF InGroup(c) /\ group[Parent(c)] = Ok
              THEN [group EXCEPT ![Parent(c)] = res[c]]
              ELSE group
  /\ UNCHANGED <<budgetVars, res, dst, stopped>>

(* group.Wait, or the loop that runs the children one by one.              *)
JoinUnasked(c) ==                           \* slip: what Wait returns is dropped
  /\ pc[c] = "children" /\ ~Sequential(Width(c))
  /\ \A k \in Kids(c) : pc[k] = "done"
  /\ Goto(c, "pushCheck")
  /\ UNCHANGED <<budgetVars, dst, stopped>>

JoinEarly(c) ==                             \* slip: returns on the first error
  /\ pc[c] = "children" /\ ~Sequential(Width(c))
  /\ \/ group[c] # Ok /\ GotoWith(c, "settle", group[c])
     \/ group[c] = Ok /\ (\A k \in Kids(c) : pc[k] = "done") /\ Goto(c, "pushCheck")
  /\ UNCHANGED <<budgetVars, dst, stopped>>

JoinGroup(c) ==
  /\ pc[c] = "children" /\ ~Sequential(Width(c))
  /\ \A k \in Kids(c) : pc[k] = "done"
  /\ IF group[c] = Ok THEN Goto(c, "pushCheck")
                      ELSE GotoWith(c, "settle", group[c])
  /\ UNCHANGED <<budgetVars, dst, stopped>>

JoinRegardless(c) ==                        \* slip: the loop goes on after an error
  /\ pc[c] = "children" /\ Sequential(Width(c))
  /\ \E i \in 1 .. Width(c) :
       /\ Kid(c, i) \in Calls
       /\ i < Width(c) => Kid(c, i + 1) \notin Calls
       /\ pc[Kid(c, i)] = "done"
       /\ IF i < Width(c) THEN Spawn(c, {Kid(c, i + 1)}) ELSE Goto(c, "pushCheck")
  /\ UNCHANGED <<budgetVars, dst, stopped>>

JoinInOrder(c) ==
  /\ pc[c] = "children" /\ Sequential(Width(c))
  /\ \E i \in 1 .. Width(c) :
       /\ Kid(c, i) \in Calls
       /\ i < Width(c) => Kid(c, i + 1) \notin Calls
       /\ pc[Kid(c, i)] = "done"
       /\ IF res[Kid(c, i)] # Ok THEN GotoWith(c, "settle", res[Kid(c, i)])
          ELSE IF i < Width(c)   THEN Spawn(c, {Kid(c, i + 1)})
          ELSE Goto(c, "pushCheck")
  /\ UNCHANGED <<budgetVars, dst, stopped>>

-----------------------------------------------------------------------------
CallerCancels ==
  /\ Cancellable /\ ~stopped /\ pc[RootCall] # "done"
  /\ stopped' = TRUE
  /\ UNCHANGED <<budgetVars, pc, res, group, dst>>

Step(c) ==
  \/ EnterCancelled(c) \/ EnterClaim(c) \/ EnterWait(c)
  \/ ShareOutcome(c) \/ AbandonWait(c)
  \/ CheckContext(c) \/ TakeSlot(c) \/ LeaveQueue(c)
  \/ FailTransfer(c) \/ RejectContent(c) \/ FinishFetch(c) \/ FinishPush(c)
  \/ Settle(c) \/ Return(c) \/ JoinGroup(c) \/ JoinInOrder(c)

(* Copy has returned: nothing is left to happen.                           *)
Finished == pc[RootCall] = "done" /\ UNCHANGED vars

Next == (\E c \in Calls : Step(c)) \/ CallerCancels \/ Finished

Spec == Init /\ [][Next]_vars

(* The Go scheduler runs every goroutine that can run, and every request   *)
(* is answered in the end, one way or the other.                           *)
FairSpec == Spec /\ WF_vars(\E c \in Calls : Step(c))

-----------------------------------------------------------------------------
(* Properties.                                                             *)

(* A call that owns its digest: it claimed it and has not settled it yet.  *)
Owning == {"fetchCheck", "fetchQueue", "fetch", "children",
           "pushCheck", "pushQueue", "push", "settle"}
Owners(d)  == {c \in Calls : Desc(c) = d /\ pc[c] \in Owning}
Holders    == {c \in Calls : pc[c] \in Transferring}
Returned   == pc[RootCall] = "done"
Report     == Cause(res[RootCall])

(* "Each digest is copied at most once per call" (copy.go:61): a digest is *)
(* worked on by one call while its task is open and by none otherwise, so  *)
(* two writers never meet on one file of the destination.                  *)
OneOwnerPerDigest ==
  \A d \in Digests :
    /\ \A c1, c2 \in Owners(d) : c1 = c2
    /\ Owners(d) # {} <=> tasks[d] = Claimed

(* The limit is a ceiling on the whole operation (budget.go:42-47), and a  *)
(* slot is held exactly while a request is in flight: no token leaks on an *)
(* error path and none is returned twice.                                  *)
SlotsAreTransfers == /\ slots = Cardinality(Holders)
                     /\ slots \in 0 .. Limit

(* "Children are always copied before their parent" (copy.go:53-54): the   *)
(* destination never gains a digest it does not hold every reference of,   *)
(* nor one the source did not answer for honestly.                         *)
ChildrenFirst ==
  [][\A d \in dst' \ dst : References(d) \subseteq dst /\ d \in Honest \cup Blobs]_vars

(* A digest settled without error is in the destination with everything    *)
(* below it settled the same way: a route that only waited for the outcome *)
(* may rely on the whole subtree.                                          *)
SettledIsComplete ==
  \A d \in Digests :
    tasks[d] = Ok => d \in dst /\ \A k \in References(d) : tasks[k] = Ok

(* "The first failure ... is what Copy reports" (copy.go:65), and not the  *)
(* cancellation it set off (copy.go:78-82): unless the caller cancelled,   *)
(* a copy that fails names a genuine failure, and one that saw a failure   *)
(* does not succeed.                                                       *)
ReportsTheFailure ==
  Returned => /\ Report = Canceled => stopped
              /\ Report = Ok <=> res[RootCall] = Ok
              /\ failure # Ok => Report = failure

(* When Copy returns nothing it started is still running: cmd/copy.go      *)
(* releases the layout's lock right after it.                              *)
NothingLeftRunning ==
  Returned => /\ \A c \in Calls : pc[c] = "done"
              /\ slots = 0
              /\ \A d \in Digests : tasks[d] # Claimed

(* The loop check in walk (copy.go:146-148) never fires: whoever reaches a *)
(* digest that is on its own path finds the digest claimed and waits, so   *)
(* only the digest check of fetch keeps a loop from hanging the copy.      *)
LoopCheckIsDead ==
  \A c \in Calls : OnPath(c) => pc[c] \in {"copy", "wait", "return", "done"}

(* However wide the graph and small the budget, the walk comes to its end: *)
(* nobody waits for a slot held by a waiter (copy.go:207-210), nor for its *)
(* own outcome (copy.go:129-133).                                          *)
Termination == <>Returned

-----------------------------------------------------------------------------
(* Why the walk is safe: the invariants the proofs carry.                  *)

Early   == {"copy", "wait", "fetchCheck", "fetchQueue", "fetch"}
Pushing == {"pushCheck", "pushQueue", "push"}

(* A call is made by a call that has read its manifest.                    *)
CallsFormATree ==
  \A k \in Calls : ~IsRoot(k) => Parent(k) \in Calls /\ pc[Parent(k)] \notin Early

(* Without a group a child is called once its elder has succeeded.         *)
EldersSucceeded ==
  \A c \in Calls : Sequential(Width(c)) =>
    \A j \in 1 .. Width(c), i \in 1 .. Width(c) :
      i < j /\ Kid(c, j) \in Calls =>
        Kid(c, i) \in Calls /\ pc[Kid(c, i)] = "done" /\ res[Kid(c, i)] = Ok

(* With one, the group knows of a failure before the child is done.        *)
GroupKnows ==
  \A c \in Calls : pc[c] = "children" /\ ~Sequential(Width(c)) =>
    /\ Kids(c) \subseteq Calls
    /\ group[c] = Ok => \A k \in Kids(c) : pc[k] = "done" => res[k] = Ok

(* What a call may rely on, by how far it got.                             *)
SubtreeSettled(c) == /\ Desc(c) \in Honest \cup Blobs
                     /\ \A d \in References(Desc(c)) : tasks[d] = Ok

ReliesOnOutcomes(c) ==
  /\ pc[c] = "children" => Desc(c) \in Honest
  /\ pc[c] \in Pushing => SubtreeSettled(c)
  /\ pc[c] = "settle" /\ res[c] = Ok => SubtreeSettled(c) /\ Desc(c) \in dst
  /\ pc[c] \in {"return", "done"} /\ res[c] = Ok => tasks[Desc(c)] = Ok

CallsRelyOnOutcomes == \A c \in Calls : ReliesOnOutcomes(c)

(* The walk's inductive invariant: the shape of the call tree, what the    *)
(* groups and the loops know of their children, and what every step of a   *)
(* call has established, together with the two properties they support.    *)
WalkInvariant ==
  /\ TypeOK /\ OneOwnerPerDigest /\ SettledIsComplete
  /\ CallsFormATree /\ EldersSucceeded /\ GroupKnows /\ CallsRelyOnOutcomes

(* A call that has not returned has everyone above it waiting in copyAll,  *)
(* up to the root.                                                         *)
AncestorsWait ==
  /\ RootCall \in Calls
  /\ \A k \in Calls :
       /\ k[1] = RootCall[1]
       /\ \A n \in 1 .. Len(k) - 1 :
            /\ Ancestor(k, n) \in Calls
            /\ Ancestor(k, n + 1) \in Kids(Ancestor(k, n))
            /\ pc[k] # "done" => pc[Ancestor(k, n)] = "children"

(* The error of a call that is done fails everyone above it in the end.    *)
Erring(c) == pc[c] \in {"settle", "return", "done"} /\ res[c] # Ok
ErrorsClimb ==
  \A k \in Calls : pc[k] = "done" /\ res[k] # Ok =>
    \A n \in 1 .. Len(k) - 1 :
      pc[Ancestor(k, n)] = "children" \/ Erring(Ancestor(k, n))

(* A failure on record is the error of some call, and, unless an endpoint  *)
(* timed out, every error is that failure, about to be recorded as such,   *)
(* or the work of the caller's cancellation.                               *)
FailureIsSomebodys ==
  failure # Ok => \E k \in Calls : pc[k] \in {"return", "done"} /\ res[k] # Ok

ErrorsHaveCause ==
  MayTimeOut # {} \/ stopped \/ failure # Ok \/
    /\ \A k \in Calls : /\ group[k] = Ok
                        /\ res[k] # Ok => pc[k] = "settle" /\ res[k] \in Failures
    /\ \A d \in Digests : Closed(d) => tasks[d] = Ok

(* The part of the walk's inductive invariant that speaks of its end.      *)
ReturnInvariant ==
  AncestorsWait /\ ErrorsClimb /\ FailureIsSomebodys /\ ErrorsHaveCause

-----------------------------------------------------------------------------
(* The walk implements what Copy promises: the abstract copy runs until    *)
(* the root call is done, and its outcome is the error that call returns.  *)
Outcome == IF ~Returned THEN "running"
           ELSE IF Report = Ok THEN "ok" ELSE "failed"

Promise == INSTANCE Transfer WITH outcome <- Outcome

(* Every behaviour of the walk is one of the abstract copy.                *)
ImplementsTransfer == Promise!Spec

=============================================================================

--------------------------- MODULE CopyWalkProofs ---------------------------
(***************************************************************************)
(* The walk, proved for every graph, every budget and every set of         *)
(* transfers that may fail: its types, its safety, how it ends and that it *)
(* keeps the promise of registry.Copy.  A step either moves one call on or *)
(* adds children of one call; each part of WalkInvariant is preserved for  *)
(* one of these two reasons, and the steps that touch the tasks and the    *)
(* destination are looked at one by one.                                   *)
(***************************************************************************)
EXTENDS CopyWalk, TLAPS, SequenceTheorems, FiniteSetTheorems

(* A call's digest, and what calling one of its children yields.           *)
LEMMA CallShape ==
  ASSUME NEW c \in Seq(Link) \ {<< >>}
  PROVE  /\ Len(c) \in Nat /\ Len(c) >= 1
         /\ Desc(c) \in Digests
         /\ Width(c) \in Nat
         /\ \A i \in 1 .. Width(c) :
              /\ Children[Desc(c)][i] \in Digests
              /\ Kid(c, i) \in Seq(Link) \ {<< >>}
              /\ Len(Kid(c, i)) = Len(c) + 1
              /\ Desc(Kid(c, i)) = Children[Desc(c)][i]
<1>1. Len(c) \in Nat /\ Len(c) >= 1
  OBVIOUS
<1>2. c[Len(c)] \in Link
  BY <1>1
<1>3. Desc(c) \in Digests
  BY <1>2 DEF Desc, Link
<1>4. Children[Desc(c)] \in Seq(Digests)
  BY <1>3, CopyAssumption
<1>5. Width(c) \in Nat
  BY <1>4 DEF Width
<1>6. ASSUME NEW i \in 1 .. Width(c)
      PROVE  /\ Children[Desc(c)][i] \in Digests
             /\ Kid(c, i) \in Seq(Link) \ {<< >>}
             /\ Len(Kid(c, i)) = Len(c) + 1
             /\ Desc(Kid(c, i)) = Children[Desc(c)][i]
  <2> DEFINE link == [pos |-> i, desc |-> Children[Desc(c)][i]]
  <2>1. Children[Desc(c)][i] \in Digests
    BY <1>4, <1>5 DEF Width
  <2>2. link \in Link
    BY <2>1, <1>5 DEF Link
  <2>3. Kid(c, i) = Append(c, link)
    BY DEF Kid
  <2> HIDE DEF link
  <2>4. /\ Append(c, link) \in Seq(Link)
        /\ Len(Append(c, link)) = Len(c) + 1
        /\ Append(c, link)[Len(c) + 1] = link
    BY <2>2, <1>1
  <2>5. Append(c, link) # << >>
    BY <2>4, <1>1
  <2>6. link.desc = Children[Desc(c)][i]
    BY DEF link
  <2> QED
    BY <2>1, <2>3, <2>4, <2>5, <2>6 DEF Desc
<1> QED
  BY <1>1, <1>3, <1>5, <1>6

(* The errors and the states of a task are told apart by their first       *)
(* element.                                                                *)
LEMMA ErrorsDiffer ==
  /\ Ok \in Errors /\ Canceled \in Errors /\ DeadlineExceeded \in Errors
  /\ \A d \in Digests : Failed(d) \in Errors /\ Failed(d) \in Failures
  /\ Canceled # Ok /\ DeadlineExceeded # Ok
  /\ \A d \in Digests : Failed(d) # Ok
  /\ Unclaimed \notin Errors /\ Claimed \notin Errors /\ Unclaimed # Claimed
<1>1. \A d \in Digests : Failed(d)[1] = "failed"
  BY DEF Failed
<1>2. /\ Ok[1] = "ok" /\ Canceled[1] = "context.Canceled"
      /\ DeadlineExceeded[1] = "context.DeadlineExceeded"
      /\ Unclaimed[1] = "unclaimed" /\ Claimed[1] = "claimed"
  BY DEF Ok, Canceled, DeadlineExceeded, Unclaimed, Claimed
<1>3. \A e \in Errors : e[1] \in {"ok", "context.Canceled", "context.DeadlineExceeded", "failed"}
  BY <1>1, <1>2 DEF Errors, ContextErrors, Failures
<1>4. "unclaimed" \notin {"ok", "context.Canceled", "context.DeadlineExceeded", "failed"}
      /\ "claimed" \notin {"ok", "context.Canceled", "context.DeadlineExceeded", "failed"}
  OBVIOUS
<1>5. Unclaimed \notin Errors /\ Claimed \notin Errors
  BY <1>2, <1>3, <1>4
<1>6. Canceled # Ok /\ DeadlineExceeded # Ok /\ Unclaimed # Claimed
  BY <1>2
<1>7. \A d \in Digests : Failed(d) # Ok
  BY <1>1, <1>2
<1> QED
  BY <1>5, <1>6, <1>7 DEF Errors, ContextErrors, Failures

(* What a call returns when its transfer goes wrong is an error.           *)
LEMMA TransferErrorsFail ==
  ASSUME NEW c, Desc(c) \in Digests, NEW err \in TransferErrors(c)
  PROVE  err \in Errors /\ err # Ok
BY ErrorsDiffer DEF TransferErrors

LEMMA ConcurrencyIsPositive == Limit \in Nat /\ Limit >= 1
BY ConcurrencyAssumption DEF Limit

-----------------------------------------------------------------------------
(* How a step moves the calls, whatever the step is: a call goes on        *)
(* without or with an error, or calls its children.                        *)

LEMMA MoveTypes ==
  ASSUME pc \in [Calls -> Steps], res \in [Calls -> Errors], group \in [Calls -> Errors],
         Calls \subseteq Seq(Link) \ {<< >>},
         NEW c \in Calls, NEW step \in Steps, NEW err \in Errors,
         Goto(c, step) \/ GotoWith(c, step, err)
  PROVE  /\ Calls' = Calls
         /\ pc' \in [Calls' -> Steps]
         /\ res' \in [Calls' -> Errors]
         /\ group' \in [Calls' -> Errors]
BY DEF Goto, GotoWith, Calls

LEMMA SpawnTypes ==
  ASSUME pc \in [Calls -> Steps], res \in [Calls -> Errors], group \in [Calls -> Errors],
         Calls \subseteq Seq(Link) \ {<< >>},
         NEW c \in Calls, NEW new \in SUBSET (Seq(Link) \ {<< >>}),
         Spawn(c, new)
  PROVE  /\ Calls' = Calls \cup new
         /\ Calls' \subseteq Seq(Link) \ {<< >>}
         /\ pc' \in [Calls' -> Steps]
         /\ res' \in [Calls' -> Errors]
         /\ group' \in [Calls' -> Errors]
<1>1. Calls' = Calls \cup new
  BY DEF Spawn, Calls
<1>2. "children" \in Steps /\ "copy" \in Steps
  BY DEF Steps
<1> QED
  BY <1>1, <1>2, ErrorsDiffer DEF Spawn, Calls

LEMMA KidsAreCalls ==
  ASSUME NEW c \in Seq(Link) \ {<< >>}
  PROVE  Kids(c) \subseteq Seq(Link) \ {<< >>}
BY CallShape DEF Kids, Width

(* A step of any call keeps the types.                                     *)
LEMMA StepKeepsTypes ==
  ASSUME TypeOK, NEW c \in Calls, Step(c)
  PROVE  TypeOK'
<1> USE DEF TypeOK
<1> DEFINE CallsOK == /\ Calls' \subseteq Seq(Link) \ {<< >>}
                      /\ pc' \in [Calls' -> Steps]
                      /\ res' \in [Calls' -> Errors]
                      /\ group' \in [Calls' -> Errors]
<1>0. /\ c \in Seq(Link) \ {<< >>} /\ Desc(c) \in Digests
      /\ Steps = {"copy", "wait", "fetchCheck", "fetchQueue", "fetch", "children",
                  "pushCheck", "pushQueue", "push", "settle", "return", "done"}
  BY CallShape DEF Steps
<1>1. CASE EnterCancelled(c)
  BY <1>0, <1>1, MoveTypes, ErrorsDiffer DEF EnterCancelled, budgetVars, BudgetTypeOK
<1>2. CASE EnterClaim(c)
  <2>1. CallsOK
    BY <1>0, <1>2, MoveTypes, ErrorsDiffer DEF EnterClaim
  <2>2. tasks' \in [Digests -> {Unclaimed, Claimed} \cup Errors]
    BY <1>0, <1>2 DEF EnterClaim, Claim, BudgetTypeOK
  <2> QED
    BY <1>2, <2>1, <2>2 DEF EnterClaim, BudgetTypeOK
<1>3. CASE EnterWait(c)
  BY <1>0, <1>3, MoveTypes, ErrorsDiffer DEF EnterWait, budgetVars, BudgetTypeOK
<1>4. CASE ShareOutcome(c)
  BY <1>0, <1>4, MoveTypes DEF ShareOutcome, Closed, budgetVars, BudgetTypeOK
<1>5. CASE AbandonWait(c)
  BY <1>0, <1>5, MoveTypes, ErrorsDiffer DEF AbandonWait, budgetVars, BudgetTypeOK
<1>6. CASE CheckContext(c)
  <2>1. CallsOK
    BY <1>0, <1>6, MoveTypes, ErrorsDiffer DEF CheckContext, QueueFor
  <2> QED
    BY <1>6, <2>1 DEF CheckContext, budgetVars, BudgetTypeOK
<1>7. CASE TakeSlot(c)
  <2>1. CallsOK
    BY <1>0, <1>7, MoveTypes, ErrorsDiffer DEF TakeSlot, HoldFor
  <2> QED
    BY <1>7, <2>1 DEF TakeSlot, AcquireSlot, BudgetTypeOK
<1>8. CASE LeaveQueue(c)
  BY <1>0, <1>8, MoveTypes, ErrorsDiffer DEF LeaveQueue, budgetVars, BudgetTypeOK
<1>9. CASE FailTransfer(c)
  <2>1. CallsOK
    BY <1>0, <1>9, MoveTypes, TransferErrorsFail DEF FailTransfer
  <2> QED
    BY <1>9, <2>1 DEF FailTransfer, ReleaseSlot, BudgetTypeOK
<1>10. CASE RejectContent(c)
  <2>1. CallsOK
    BY <1>0, <1>10, MoveTypes, ErrorsDiffer DEF RejectContent
  <2> QED
    BY <1>10, <2>1 DEF RejectContent, ReleaseSlot, BudgetTypeOK
<1>11. CASE FinishFetch(c)
  <2>1. CASE Width(c) = 0
    <3>1. CallsOK
      BY <1>0, <1>11, <2>1, MoveTypes, ErrorsDiffer DEF FinishFetch, FanOut
    <3> QED
      BY <1>11, <3>1 DEF FinishFetch, ReleaseSlot, BudgetTypeOK
  <2>2. CASE Width(c) # 0
    <3> DEFINE new == IF Sequential(Width(c)) THEN {Kid(c, 1)} ELSE Kids(c)
    <3>1. new \in SUBSET (Seq(Link) \ {<< >>})
      <4>1. Width(c) \in Nat
        BY <1>0, CallShape
      <4>2. 1 \in 1 .. Width(c)
        BY <2>2, <4>1
      <4>3. Kid(c, 1) \in Seq(Link) \ {<< >>}
        BY <1>0, <4>2, CallShape
      <4> QED
        BY <1>0, <4>3, KidsAreCalls
    <3>2. Spawn(c, new)
      BY <1>11, <2>2 DEF FinishFetch, FanOut
    <3>3. CallsOK
      <4> HIDE DEF new
      <4> QED BY <3>1, <3>2, SpawnTypes
    <3> QED
      BY <1>11, <3>3 DEF FinishFetch, ReleaseSlot, BudgetTypeOK
  <2> QED
    BY <2>1, <2>2
<1>12. CASE FinishPush(c)
  <2>1. CallsOK
    BY <1>0, <1>12, MoveTypes, ErrorsDiffer DEF FinishPush
  <2> QED
    BY <1>0, <1>12, <2>1 DEF FinishPush, ReleaseSlot, BudgetTypeOK
<1>13. CASE Settle(c)
  <2>1. CallsOK
    BY <1>0, <1>13, MoveTypes, ErrorsDiffer DEF Settle
  <2>2. tasks' \in [Digests -> {Unclaimed, Claimed} \cup Errors]
    BY <1>0, <1>13 DEF Settle, CloseTask, BudgetTypeOK
  <2>3. failure' \in {Ok} \cup Failures
    BY <1>13 DEF Settle, CloseTask, Record, BudgetTypeOK
  <2> QED
    BY <1>13, <2>1, <2>2, <2>3 DEF Settle, BudgetTypeOK
<1>14. CASE Return(c)
  <2>1. Calls' = Calls /\ pc' \in [Calls -> Steps]
    BY <1>0, <1>14 DEF Return, Calls
  <2>2. group' \in [Calls -> Errors]
    BY <1>14 DEF Return
  <2> QED
    BY <1>14, <2>1, <2>2 DEF Return, budgetVars, BudgetTypeOK
<1>15. CASE JoinGroup(c)
  <2>1. CallsOK
    BY <1>0, <1>15, MoveTypes, ErrorsDiffer DEF JoinGroup
  <2> QED
    BY <1>15, <2>1 DEF JoinGroup, budgetVars, BudgetTypeOK
<1>16. CASE JoinInOrder(c)
  <2>1. PICK i \in 1 .. Width(c) :
          /\ Kid(c, i) \in Calls
          /\ IF res[Kid(c, i)] # Ok THEN GotoWith(c, "settle", res[Kid(c, i)])
             ELSE IF i < Width(c)   THEN Spawn(c, {Kid(c, i + 1)})
             ELSE Goto(c, "pushCheck")
    BY <1>16 DEF JoinInOrder
  <2>5. CallsOK
    <3>1. CASE res[Kid(c, i)] # Ok
      BY <1>0, <2>1, <3>1, MoveTypes
    <3>2. CASE res[Kid(c, i)] = Ok /\ i < Width(c)
      <4>1. i + 1 \in 1 .. Width(c)
        BY <1>0, <3>2, CallShape
      <4>2. {Kid(c, i + 1)} \in SUBSET (Seq(Link) \ {<< >>})
        BY <1>0, <4>1, CallShape
      <4>3. Spawn(c, {Kid(c, i + 1)})
        BY <2>1, <3>2
      <4> QED
        BY <4>2, <4>3, SpawnTypes
    <3>3. CASE res[Kid(c, i)] = Ok /\ ~(i < Width(c))
      BY <1>0, <2>1, <3>3, MoveTypes, ErrorsDiffer
    <3> QED
      BY <3>1, <3>2, <3>3
  <2> QED
    BY <1>16, <2>5 DEF JoinInOrder, budgetVars, BudgetTypeOK
<1> QED
  BY <1>1, <1>2, <1>3, <1>4, <1>5, <1>6, <1>7, <1>8, <1>9, <1>10,
     <1>11, <1>12, <1>13, <1>14, <1>15, <1>16 DEF Step

(* The types, to begin with.                                               *)
LEMMA TypesAtFirst == Init => TypeOK
<1> SUFFICES ASSUME Init PROVE TypeOK
  OBVIOUS
<1>1. [pos |-> 0, desc |-> Root] \in Link
  BY CopyAssumption DEF Link
<1>2. RootCall \in Seq(Link) \ {<< >>}
  BY <1>1 DEF RootCall
<1>3. BudgetTypeOK
  BY ErrorsDiffer DEF Init, NewBudget, BudgetTypeOK
<1>4. Calls = {RootCall}
  BY DEF Init, Calls
<1>5. "copy" \in Steps
  BY DEF Steps
<1>6. pc \in [Calls -> Steps] /\ res \in [Calls -> Errors] /\ group \in [Calls -> Errors]
  BY <1>4, <1>5, ErrorsDiffer DEF Init
<1> QED
  BY <1>2, <1>3, <1>4, <1>6 DEF Init, TypeOK

(* Every variable keeps its type, for every image, every limit and every   *)
(* behaviour of the endpoints: in particular an error is always one of     *)
(* those the code tells apart, and `failure` is never a context error.     *)
THEOREM TypeCorrect == Spec => []TypeOK
<1>1. Init => TypeOK
  BY TypesAtFirst
<1>2. TypeOK /\ [Next]_vars => TypeOK'
  <2> SUFFICES ASSUME TypeOK, [Next]_vars PROVE TypeOK'
    OBVIOUS
  <2> USE DEF TypeOK
  <2>1. CASE UNCHANGED vars
    BY <2>1 DEF vars, Calls, BudgetTypeOK
  <2>2. CASE CallerCancels
    BY <2>2 DEF CallerCancels, budgetVars, BudgetTypeOK, Calls
  <2>3. CASE Finished
    BY <2>3 DEF Finished, vars, Calls, BudgetTypeOK
  <2>4. ASSUME NEW c \in Calls, Step(c) PROVE TypeOK'
    BY <2>4, StepKeepsTypes
  <2> QED
    BY <2>1, <2>2, <2>3, <2>4 DEF Next
<1> QED
  BY <1>1, <1>2, PTL DEF Spec

-----------------------------------------------------------------------------
(* The calls form a tree.                                                  *)

LEMMA ParentShape ==
  ASSUME NEW c \in Seq(Link) \ {<< >>}, Len(c) > 1
  PROVE  /\ Parent(c) \in Seq(Link) \ {<< >>}
         /\ Len(Parent(c)) = Len(c) - 1
         /\ \A n \in 1 .. Len(c) - 1 : Parent(c)[n] = c[n]
<1>1. Len(c) \in Nat /\ Len(c) - 1 \in Nat /\ Len(c) - 1 >= 1
  BY CallShape
<1>2. /\ SubSeq(c, 1, Len(c) - 1) \in Seq(Link)
      /\ Len(SubSeq(c, 1, Len(c) - 1)) = Len(c) - 1
      /\ \A n \in 1 .. Len(c) - 1 : SubSeq(c, 1, Len(c) - 1)[n] = c[n]
  BY <1>1
<1>3. SubSeq(c, 1, Len(c) - 1) # << >>
  <2>1. \A s \in Seq(Link) : Len(s) >= 1 => s # << >>
    OBVIOUS
  <2> QED BY <1>1, <1>2, <2>1
<1> QED
  BY <1>2, <1>3 DEF Parent

LEMMA KidShape ==
  ASSUME NEW c \in Seq(Link) \ {<< >>}, NEW i \in 1 .. Width(c)
  PROVE  /\ Parent(Kid(c, i)) = c
         /\ Len(Kid(c, i)) > 1
         /\ Kid(c, i)[Len(c) + 1].pos = i
<1> DEFINE k == Kid(c, i)
<1>1. /\ k \in Seq(Link) \ {<< >>} /\ Len(k) = Len(c) + 1
      /\ Len(c) \in Nat /\ Len(c) >= 1
  BY CallShape
<1>2. /\ \A n \in 1 .. Len(c) : k[n] = c[n]
      /\ k[Len(c) + 1] = [pos |-> i, desc |-> Children[Desc(c)][i]]
  BY <1>1 DEF Kid
<1>3. /\ Parent(k) \in Seq(Link) /\ Len(Parent(k)) = Len(c)
      /\ \A n \in 1 .. Len(c) : Parent(k)[n] = c[n]
  <2> HIDE DEF k
  <2>1. Len(k) > 1 /\ Len(k) - 1 = Len(c)
    BY <1>1
  <2>2. /\ Parent(k) \in Seq(Link) /\ Len(Parent(k)) = Len(k) - 1
        /\ \A n \in 1 .. Len(k) - 1 : Parent(k)[n] = k[n]
    BY <1>1, <2>1, ParentShape
  <2> QED BY <1>2, <2>1, <2>2
<1>4. Parent(k) = c
  <2> HIDE DEF k
  <2> QED BY <1>1, <1>3
<1> QED
  BY <1>1, <1>2, <1>4

(* Different parents or different positions make different calls.          *)
LEMMA KidsDiffer ==
  ASSUME NEW c \in Seq(Link) \ {<< >>}, NEW d \in Seq(Link) \ {<< >>},
         NEW i \in 1 .. Width(c), NEW j \in 1 .. Width(d),
         Kid(c, i) = Kid(d, j)
  PROVE  c = d /\ i = j
<1>1. c = d
  BY KidShape
<1>2. i = j
  BY <1>1, KidShape
<1> QED
  BY <1>1, <1>2

LEMMA KidsByPosition ==
  ASSUME NEW c \in Seq(Link) \ {<< >>}
  PROVE  \A k : k \in Kids(c) <=> \E i \in 1 .. Width(c) : k = Kid(c, i)
BY DEF Kids, Width
-----------------------------------------------------------------------------

(* One call moves on; the others stay where they are.                      *)
Moved(c) == /\ Calls' = Calls
            /\ pc[c] # "done" /\ pc'[c] # "children"
            /\ pc[c] \notin Early => pc'[c] \notin Early
            /\ \A k \in Calls : k # c => pc'[k] = pc[k] /\ res'[k] = res[k]
            /\ Return(c) \/ (pc'[c] # "done" /\ UNCHANGED group)

(* A call that has read its manifest calls its children, or the first one. *)
FirstCall(c) == /\ pc[c] = "fetch" /\ Desc(c) \in Honest
                /\ Width(c) # 0
                /\ Spawn(c, IF Sequential(Width(c)) THEN {Kid(c, 1)} ELSE Kids(c))
                /\ UNCHANGED <<tasks, failure, dst, stopped>>

(* A loop over the children goes on to the next one.                       *)
NextCall(c) == /\ pc[c] = "children" /\ Sequential(Width(c))
               /\ \E i \in 1 .. Width(c) :
                    /\ i < Width(c)
                    /\ Kid(c, i) \in Calls /\ Kid(c, i + 1) \notin Calls
                    /\ pc[Kid(c, i)] = "done" /\ res[Kid(c, i)] = Ok
                    /\ Spawn(c, {Kid(c, i + 1)})
               /\ UNCHANGED <<tasks, failure, dst, stopped>>

LEMMA GotoMoves ==
  ASSUME TypeOK, NEW c \in Calls, NEW step, Goto(c, step),
         pc[c] # "done", step \notin {"children", "done"}, pc[c] \notin Early => step \notin Early
  PROVE  Moved(c)
BY DEF Moved, TypeOK, Goto, Calls

LEMMA GotoWithMoves ==
  ASSUME TypeOK, NEW c \in Calls, NEW step, NEW err, GotoWith(c, step, err),
         pc[c] # "done", step \notin {"children", "done"}, pc[c] \notin Early => step \notin Early
  PROVE  Moved(c)
BY DEF Moved, TypeOK, GotoWith, Calls

LEMMA StepMoves ==
  ASSUME TypeOK, NEW c \in Calls, Step(c)
  PROVE  Moved(c) \/ FirstCall(c) \/ NextCall(c)
<1> USE DEF Early
<1>1. CASE EnterCancelled(c)
  BY <1>1, GotoMoves, GotoWithMoves DEF EnterCancelled
<1>2. CASE EnterClaim(c)
  BY <1>2, GotoMoves, GotoWithMoves DEF EnterClaim
<1>3. CASE EnterWait(c)
  BY <1>3, GotoMoves, GotoWithMoves DEF EnterWait
<1>4. CASE ShareOutcome(c)
  BY <1>4, GotoMoves, GotoWithMoves DEF ShareOutcome
<1>5. CASE AbandonWait(c)
  BY <1>5, GotoMoves, GotoWithMoves DEF AbandonWait
<1>6. CASE CheckContext(c)
  <2>1. CASE pc[c] = "fetchCheck"
    BY <1>6, <2>1, GotoMoves, GotoWithMoves DEF CheckContext, QueueFor
  <2>2. CASE pc[c] = "pushCheck"
    BY <1>6, <2>2, GotoMoves, GotoWithMoves DEF CheckContext, QueueFor
  <2> QED BY <1>6, <2>1, <2>2 DEF CheckContext
<1>7. CASE TakeSlot(c)
  <2>1. CASE pc[c] = "fetchQueue"
    BY <1>7, <2>1, GotoMoves, GotoWithMoves DEF TakeSlot, HoldFor
  <2>2. CASE pc[c] = "pushQueue"
    BY <1>7, <2>2, GotoMoves, GotoWithMoves DEF TakeSlot, HoldFor
  <2> QED BY <1>7, <2>1, <2>2 DEF TakeSlot
<1>8. CASE LeaveQueue(c)
  BY <1>8, GotoMoves, GotoWithMoves DEF LeaveQueue
<1>9. CASE FailTransfer(c)
  BY <1>9, GotoMoves, GotoWithMoves DEF FailTransfer, Transferring
<1>10. CASE RejectContent(c)
  BY <1>10, GotoMoves, GotoWithMoves DEF RejectContent
<1>11. CASE FinishFetch(c)
  <2>1. CASE Width(c) = 0
    BY <1>11, <2>1, GotoMoves, GotoWithMoves DEF FinishFetch, FanOut
  <2>2. CASE Width(c) # 0
    BY <1>11, <2>2 DEF FinishFetch, FanOut, FirstCall
  <2> QED BY <2>1, <2>2
<1>12. CASE FinishPush(c)
  BY <1>12, GotoMoves, GotoWithMoves DEF FinishPush
<1>13. CASE Settle(c)
  BY <1>13, GotoMoves, GotoWithMoves DEF Settle
<1>14. CASE Return(c)
  BY <1>14 DEF Return, Moved, TypeOK, Calls
<1>15. CASE JoinGroup(c)
  BY <1>15, GotoMoves, GotoWithMoves DEF JoinGroup
<1>16. CASE JoinInOrder(c)
  <2>1. PICK i \in 1 .. Width(c) :
          /\ Kid(c, i) \in Calls
          /\ i < Width(c) => Kid(c, i + 1) \notin Calls
          /\ pc[Kid(c, i)] = "done"
          /\ IF res[Kid(c, i)] # Ok THEN GotoWith(c, "settle", res[Kid(c, i)])
             ELSE IF i < Width(c)   THEN Spawn(c, {Kid(c, i + 1)})
             ELSE Goto(c, "pushCheck")
    BY <1>16 DEF JoinInOrder
  <2>2. pc[c] = "children" /\ Sequential(Width(c)) /\ UNCHANGED <<tasks, failure, dst, stopped>>
    BY <1>16 DEF JoinInOrder, budgetVars
  <2>3. CASE res[Kid(c, i)] # Ok
    BY <2>1, <2>2, <2>3, GotoWithMoves
  <2>4. CASE res[Kid(c, i)] = Ok /\ i < Width(c)
    BY <2>1, <2>2, <2>4 DEF NextCall
  <2>5. CASE res[Kid(c, i)] = Ok /\ ~(i < Width(c))
    BY <2>1, <2>2, <2>5, GotoMoves
  <2> QED BY <2>3, <2>4, <2>5
<1> QED
  BY <1>1, <1>2, <1>3, <1>4, <1>5, <1>6, <1>7, <1>8, <1>9, <1>10, <1>11,
     <1>12, <1>13, <1>14, <1>15, <1>16 DEF Step

-----------------------------------------------------------------------------
(* The call tree.                                                          *)

LEMMA KidOfCall ==
  ASSUME TypeOK, NEW c \in Calls, NEW k \in Kids(c)
  PROVE  /\ k \in Seq(Link) \ {<< >>}
         /\ ~IsRoot(k) /\ Parent(k) = c /\ k # c
         /\ Desc(k) \in References(Desc(c))
<1>1. c \in Seq(Link) \ {<< >>}
  BY DEF TypeOK
<1>2. PICK i \in 1 .. Width(c) : k = Kid(c, i)
  BY <1>1, KidsByPosition
<1>3. /\ k \in Seq(Link) \ {<< >>} /\ Len(k) = Len(c) + 1 /\ Len(c) \in Nat
      /\ Parent(k) = c /\ Len(k) > 1 /\ Desc(k) = Children[Desc(c)][i]
  BY <1>1, <1>2, CallShape, KidShape
<1>4. Desc(k) \in References(Desc(c))
  BY <1>3 DEF References, Width
<1>5. ~IsRoot(k)
  BY <1>3 DEF IsRoot
<1>6. k # c
  BY <1>3
<1> QED
  BY <1>3, <1>4, <1>5, <1>6

(* A call that has not read its manifest has made no call.                 *)
LEMMA EarlyCallsAreLeaves ==
  ASSUME TypeOK, CallsFormATree, NEW c \in Seq(Link) \ {<< >>},
         c \in Calls => pc[c] \in Early
  PROVE  Kids(c) \cap Calls = {}
<1> SUFFICES ASSUME NEW k \in Kids(c), k \in Calls PROVE FALSE
  OBVIOUS
<1>1. PICK i \in 1 .. Width(c) : k = Kid(c, i)
  BY KidsByPosition
<1>2. Parent(k) = c /\ Len(k) = Len(c) + 1 /\ Len(c) \in Nat /\ Len(c) >= 1
  BY <1>1, KidShape, CallShape
<1>3. ~IsRoot(k)
  BY ONLY <1>2 DEF IsRoot
<1> QED
  BY <1>2, <1>3 DEF CallsFormATree

(* What making calls does to the walk.                                     *)
Spawned(c, new) ==
  /\ new \subseteq Kids(c) /\ new \cap Calls = {}
  /\ Calls' = Calls \cup new
  /\ pc[c] \in {"fetch", "children"} /\ pc'[c] = "children"
  /\ \A k \in new : pc'[k] = "copy" /\ res'[k] = Ok /\ group'[k] = Ok
  /\ \A k \in Calls : /\ res'[k] = res[k] /\ group'[k] = group[k]
                      /\ k # c => pc'[k] = pc[k]
  /\ UNCHANGED <<tasks, failure, dst, stopped>>

LEMMA SpawnMakesCalls ==
  ASSUME TypeOK, NEW c \in Calls, NEW new, new \subseteq Kids(c), new \cap Calls = {},
         pc[c] \in {"fetch", "children"}, Spawn(c, new),
         UNCHANGED <<tasks, failure, dst, stopped>>
  PROVE  Spawned(c, new)
BY DEF Spawn, Spawned, TypeOK, Calls

LEMMA FirstCallSpawns ==
  ASSUME TypeOK, CallsFormATree, NEW c \in Calls, FirstCall(c)
  PROVE  Spawned(c, IF Sequential(Width(c)) THEN {Kid(c, 1)} ELSE Kids(c))
<1> DEFINE new == IF Sequential(Width(c)) THEN {Kid(c, 1)} ELSE Kids(c)
<1>1. c \in Seq(Link) \ {<< >>}
  BY DEF TypeOK
<1>2. 1 \in 1 .. Width(c)
  BY <1>1, CallShape DEF FirstCall
<1>3. Kid(c, 1) \in Kids(c)
  BY <1>1, <1>2, KidsByPosition
<1>4. Kids(c) \cap Calls = {}
  BY <1>1, EarlyCallsAreLeaves DEF FirstCall, Early
<1>5. new \subseteq Kids(c)
  BY <1>3
<1>6. Spawn(c, new) /\ pc[c] \in {"fetch", "children"}
  BY DEF FirstCall
<1>7. UNCHANGED <<tasks, failure, dst, stopped>>
  BY DEF FirstCall
<1> HIDE DEF new
<1>8. Spawned(c, new)
  BY <1>4, <1>5, <1>6, <1>7, SpawnMakesCalls
<1> QED
  BY <1>8 DEF new

LEMMA NextCallSpawns ==
  ASSUME TypeOK, NEW c \in Calls, NextCall(c)
  PROVE  \E i \in 1 .. Width(c) :
           /\ i < Width(c)
           /\ Kid(c, i) \in Calls /\ pc[Kid(c, i)] = "done" /\ res[Kid(c, i)] = Ok
           /\ Spawned(c, {Kid(c, i + 1)})
<1>1. c \in Seq(Link) \ {<< >>}
  BY DEF TypeOK
<1>2. PICK i \in 1 .. Width(c) :
        /\ i < Width(c)
        /\ Kid(c, i) \in Calls /\ Kid(c, i + 1) \notin Calls
        /\ pc[Kid(c, i)] = "done" /\ res[Kid(c, i)] = Ok
        /\ Spawn(c, {Kid(c, i + 1)})
  BY DEF NextCall
<1>3. i + 1 \in 1 .. Width(c)
  BY <1>1, <1>2, CallShape
<1>4. {Kid(c, i + 1)} \subseteq Kids(c)
  BY <1>1, <1>3, KidsByPosition
<1>5. Spawned(c, {Kid(c, i + 1)})
  BY <1>2, <1>4, SpawnMakesCalls DEF NextCall
<1> QED
  BY <1>2, <1>5

LEMMA CallersSpawn ==
  ASSUME TypeOK, CallsFormATree, NEW c \in Calls, FirstCall(c) \/ NextCall(c)
  PROVE  \E new : Spawned(c, new)
BY FirstCallSpawns, NextCallSpawns

LEMMA TreeStep ==
  ASSUME TypeOK, CallsFormATree, NEW c \in Calls, Step(c)
  PROVE  CallsFormATree'
<1>1. CASE Moved(c)
  BY <1>1 DEF Moved, CallsFormATree, IsRoot, Parent
<1>2. CASE \E new : Spawned(c, new)
  <2>1. PICK new : Spawned(c, new)
    BY <1>2
  <2> SUFFICES ASSUME NEW k \in Calls', ~IsRoot(k)
               PROVE  Parent(k) \in Calls' /\ pc'[Parent(k)] \notin Early
    BY DEF CallsFormATree, IsRoot, Parent
  <2>2. CASE k \in Calls
    <3>1. Parent(k) \in Calls /\ pc[Parent(k)] \notin Early
      BY <2>2 DEF CallsFormATree
    <3> QED
      BY <2>1, <3>1 DEF Spawned, Early
  <2>3. CASE k \in new
    BY <2>1, <2>3, KidOfCall DEF Spawned, Early
  <2> QED
    BY <2>1, <2>2, <2>3 DEF Spawned
<1> QED
  BY <1>1, <1>2, StepMoves, CallersSpawn

-----------------------------------------------------------------------------
(* What a caller knows of its children.                                    *)

(* Calls made by c are nobody else's children, and have none themselves.   *)
LEMMA SpawnedAreKidsOfOne ==
  ASSUME TypeOK, CallsFormATree, NEW c \in Calls, NEW new, Spawned(c, new),
         NEW d \in Calls', d # c, NEW k \in Kids(d), k \in Calls'
  PROVE  d \in Calls /\ k \in Calls
<1>1. d \in Seq(Link) \ {<< >>}
  BY KidOfCall DEF TypeOK, Spawned
<1>2. Parent(k) = d
  <2>1. PICK i \in 1 .. Width(d) : k = Kid(d, i)
    BY <1>1, KidsByPosition
  <2> QED
    BY <1>1, <2>1, KidShape
<1>3. k \notin new
  BY <1>2, KidOfCall DEF Spawned
<1>4. k \in Calls
  BY <1>3 DEF Spawned
<1>5. d \in Calls
  BY <1>1, <1>4, EarlyCallsAreLeaves
<1> QED
  BY <1>4, <1>5

LEMMA EldersStep ==
  ASSUME TypeOK, CallsFormATree, EldersSucceeded, NEW c \in Calls, Step(c)
  PROVE  EldersSucceeded'
<1> SUFFICES ASSUME NEW d \in Calls', Sequential(Width(d)),
                    NEW j \in 1 .. Width(d), NEW i \in 1 .. Width(d),
                    i < j, Kid(d, j) \in Calls'
             PROVE  /\ Kid(d, i) \in Calls' 
                    /\ pc'[Kid(d, i)] = "done" /\ res'[Kid(d, i)] = Ok
  BY DEF EldersSucceeded
<1>1. ASSUME d \in Calls, Kid(d, j) \in Calls
      PROVE  Kid(d, i) \in Calls /\ pc[Kid(d, i)] = "done" /\ res[Kid(d, i)] = Ok
  BY <1>1 DEF EldersSucceeded
<1>2. CASE Moved(c)
  BY <1>1, <1>2 DEF Moved
<1>3. ASSUME NEW new, Spawned(c, new), d \in Calls, Kid(d, j) \in Calls
      PROVE  /\ Kid(d, i) \in Calls'
             /\ pc'[Kid(d, i)] = "done" /\ res'[Kid(d, i)] = Ok
  BY <1>1, <1>3 DEF Spawned
<1>4. ASSUME NEW new, Spawned(c, new), d # c
      PROVE  d \in Calls /\ Kid(d, j) \in Calls
  <2>1. d \in Seq(Link) \ {<< >>}
    BY <1>4, KidOfCall DEF TypeOK, Spawned
  <2>2. Kid(d, j) \in Kids(d)
    BY <2>1, KidsByPosition
  <2> QED
    BY <1>4, <2>2, SpawnedAreKidsOfOne
<1>5. c \in Seq(Link) \ {<< >>}
  BY DEF TypeOK
<1>6. CASE FirstCall(c)
  <2>1. Spawned(c, IF Sequential(Width(c)) THEN {Kid(c, 1)} ELSE Kids(c))
    BY <1>6, FirstCallSpawns
  <2>2. CASE d = c
    <3>1. Kids(c) \cap Calls = {} /\ Kid(c, j) \in Kids(c) /\ Spawned(c, {Kid(c, 1)})
      BY <1>5, <1>6, <2>1, <2>2, EarlyCallsAreLeaves, KidsByPosition DEF FirstCall, Early
    <3>2. Kid(c, j) = Kid(c, 1)
      BY <2>2, <3>1 DEF Spawned
    <3>3. 1 \in 1 .. Width(c) /\ Width(c) \in Nat
      BY <1>5, <2>2, CallShape
    <3>4. j = 1
      BY <1>5, <2>2, <3>2, <3>3, KidsDiffer
    <3> QED
      BY <3>3, <3>4, <2>2
  <2>3. CASE d # c
    BY <1>3, <1>4, <2>1, <2>3
  <2> QED
    BY <2>2, <2>3
<1>7. CASE NextCall(c)
  <2>1. PICK n \in 1 .. Width(c) :
          /\ n < Width(c)
          /\ Kid(c, n) \in Calls /\ pc[Kid(c, n)] = "done" /\ res[Kid(c, n)] = Ok
          /\ Spawned(c, {Kid(c, n + 1)})
    BY <1>7, NextCallSpawns
  <2>2. CASE d = c /\ Kid(d, j) \notin Calls
    <3>1. Kid(c, j) = Kid(c, n + 1)
      BY <2>1, <2>2 DEF Spawned
    <3>2. n + 1 \in 1 .. Width(c) /\ Width(c) \in Nat
      BY <1>5, <2>1, CallShape
    <3>3. j = n + 1
      BY <1>5, <2>2, <3>1, <3>2, KidsDiffer
    <3>4. i = n \/ (i < n /\ i \in 1 .. Width(c) /\ n \in 1 .. Width(c))
      BY <3>2, <3>3, <2>2
    <3>5. Kid(c, i) \in Calls /\ pc[Kid(c, i)] = "done" /\ res[Kid(c, i)] = Ok
      BY <2>1, <2>2, <3>4 DEF EldersSucceeded
    <3> QED
      BY <2>1, <2>2, <3>5 DEF Spawned
  <2>3. CASE d # c
    BY <1>3, <1>4, <2>1, <2>3
  <2>4. CASE d = c /\ Kid(d, j) \in Calls
    BY <1>3, <2>1, <2>4
  <2> QED
    BY <2>2, <2>3, <2>4
<1> QED
  BY <1>2, <1>6, <1>7, StepMoves

LEMMA GroupStep ==
  ASSUME TypeOK, CallsFormATree, GroupKnows, NEW c \in Calls, Step(c)
  PROVE  GroupKnows'
<1> SUFFICES ASSUME NEW d \in Calls', pc'[d] = "children", ~Sequential(Width(d))
             PROVE  /\ Kids(d) \subseteq Calls'
                    /\ group'[d] = Ok => \A k \in Kids(d) : pc'[k] = "done" => res'[k] = Ok
  BY DEF GroupKnows
<1>1. ASSUME d \in Calls, pc[d] = "children"
      PROVE  /\ Kids(d) \subseteq Calls
             /\ group[d] = Ok => \A k \in Kids(d) : pc[k] = "done" => res[k] = Ok
  BY <1>1 DEF GroupKnows
<1>2. CASE Moved(c)
  <2>1. d \in Calls /\ d # c /\ pc[d] = "children"
    BY <1>2 DEF Moved
  <2>2. CASE pc'[c] # "done" /\ UNCHANGED group
    BY <1>1, <1>2, <2>1, <2>2 DEF Moved
  <2>3. CASE Return(c)
    <3> SUFFICES ASSUME group'[d] = Ok, NEW k \in Kids(d), pc'[k] = "done"
                 PROVE  res'[k] = Ok
      BY <1>1, <1>2, <2>1 DEF Moved
    <3>1. group[d] = Ok
      BY <2>1, <2>3 DEF Return, TypeOK
    <3>2. CASE k # c
      BY <1>1, <1>2, <2>1, <3>1, <3>2 DEF Moved
    <3>3. CASE k = c
      <4>1. Parent(c) = d /\ InGroup(c)
        BY <2>1, <3>3, KidOfCall DEF InGroup
      <4>2. group' = [group EXCEPT ![d] = res[c]]
        BY <2>3, <3>1, <4>1 DEF Return
      <4>3. res[c] = Ok
        BY <2>1, <4>2 DEF TypeOK
      <4> QED
        BY <2>3, <3>3, <4>3 DEF Return
    <3> QED
      BY <3>2, <3>3
  <2> QED
    BY <1>2, <2>2, <2>3 DEF Moved
<1>3. ASSUME NEW new, Spawned(c, new), d # c
      PROVE  /\ Kids(d) \subseteq Calls'
             /\ group'[d] = Ok => \A k \in Kids(d) : pc'[k] = "done" => res'[k] = Ok
  <2>1. d \in Calls /\ pc[d] = "children"
    BY <1>3 DEF Spawned
  <2> QED
    BY <1>1, <1>3, <2>1 DEF Spawned
<1>4. CASE FirstCall(c)
  <2>1. Spawned(c, IF Sequential(Width(c)) THEN {Kid(c, 1)} ELSE Kids(c))
    BY <1>4, FirstCallSpawns
  <2>2. CASE d = c
    <3>1. Spawned(c, Kids(c))
      BY <2>1, <2>2
    <3> QED
      BY <2>2, <3>1 DEF Spawned
  <2> QED
    BY <1>3, <2>1, <2>2
<1>5. CASE NextCall(c)
  <2>1. d # c
    BY <1>5 DEF NextCall
  <2> QED
    BY <1>3, <1>5, <2>1, NextCallSpawns
<1> QED
  BY <1>2, <1>4, <1>5, StepMoves

-----------------------------------------------------------------------------
(* Who owns a digest.                                                      *)

(* Every step but the first and the last of the owner's leaves the tasks   *)
(* and the ownership alone.                                                *)
Indifferent(c) == /\ UNCHANGED tasks
                  /\ pc'[c] \in Owning <=> pc[c] \in Owning

LEMMA StepsOfOwners ==
  ASSUME TypeOK, NEW c \in Calls, Step(c)
  PROVE  EnterClaim(c) \/ Settle(c) \/ Indifferent(c)
<1> USE DEF Owning, TypeOK, Calls, Indifferent
<1>1. CASE EnterCancelled(c)
  BY <1>1 DEF EnterCancelled, GotoWith, budgetVars
<1>2. CASE EnterWait(c)
  BY <1>2 DEF EnterWait, Goto, budgetVars
<1>3. CASE ShareOutcome(c)
  BY <1>3 DEF ShareOutcome, GotoWith, budgetVars
<1>4. CASE AbandonWait(c)
  BY <1>4 DEF AbandonWait, GotoWith, budgetVars
<1>5. CASE CheckContext(c)
  BY <1>5 DEF CheckContext, QueueFor, Goto, GotoWith, budgetVars
<1>6. CASE TakeSlot(c)
  BY <1>6 DEF TakeSlot, HoldFor, Goto
<1>7. CASE LeaveQueue(c)
  BY <1>7 DEF LeaveQueue, GotoWith, budgetVars
<1>8. CASE FailTransfer(c)
  BY <1>8 DEF FailTransfer, Transferring, GotoWith
<1>9. CASE RejectContent(c)
  BY <1>9 DEF RejectContent, GotoWith
<1>10. CASE FinishFetch(c)
  BY <1>10 DEF FinishFetch, FanOut, Goto, Spawn
<1>11. CASE FinishPush(c)
  BY <1>11 DEF FinishPush, GotoWith
<1>12. CASE Return(c)
  BY <1>12 DEF Return, budgetVars
<1>13. CASE JoinGroup(c)
  BY <1>13 DEF JoinGroup, Goto, GotoWith, budgetVars
<1>14. CASE JoinInOrder(c)
  BY <1>14 DEF JoinInOrder, Goto, GotoWith, Spawn, budgetVars
<1> QED
  BY <1>1, <1>2, <1>3, <1>4, <1>5, <1>6, <1>7, <1>8, <1>9, <1>10, <1>11,
     <1>12, <1>13, <1>14 DEF Step

(* A step of c cannot make or unmake another owner.                        *)
LEMMA OtherOwnersStay ==
  ASSUME TypeOK, CallsFormATree, NEW c \in Calls, Step(c)
  PROVE  /\ c \in Calls'
         /\ \A k \in Calls : k # c => k \in Calls' /\ pc'[k] = pc[k]
         /\ \A k \in Calls' : k # c /\ pc'[k] \in Owning => k \in Calls /\ pc'[k] = pc[k]
<1>1. CASE Moved(c)
  BY <1>1 DEF Moved
<1>2. CASE \E new : Spawned(c, new)
  BY <1>2 DEF Spawned, Owning
<1> QED
  BY <1>1, <1>2, StepMoves, CallersSpawn

LEMMA OwnersStep ==
  ASSUME TypeOK, CallsFormATree, OneOwnerPerDigest, NEW c \in Calls, Step(c)
  PROVE  OneOwnerPerDigest'
<1> DEFINE D == Desc(c)
<1>1. /\ D \in Digests /\ \A k \in Calls' : Desc(k) \in Digests
      /\ TypeOK' /\ TypeOK
  <2>1. TypeOK'
    BY StepKeepsTypes
  <2> QED
    BY <2>1, CallShape DEF TypeOK
<1>2. \A d \in Digests, k \in Calls : k # c =>
         (k \in Owners(d)' <=> k \in Owners(d))
  BY OtherOwnersStay DEF Owners
<1>3. \A d \in Digests : \A k \in Owners(d)' : k = c \/ k \in Owners(d)
  BY OtherOwnersStay DEF Owners
<1>4. \A d \in Digests : (c \in Owners(d) <=> D = d /\ pc[c] \in Owning)
                       /\ (c \in Owners(d)' <=> D = d /\ pc'[c] \in Owning)
  BY OtherOwnersStay DEF Owners
<1>5. \A d \in Digests : Owners(d) \subseteq Calls
  BY DEF Owners
<1>6. \A d \in Digests :
        /\ \A c1, c2 \in Owners(d) : c1 = c2
        /\ Owners(d) # {} <=> tasks[d] = Claimed
  BY DEF OneOwnerPerDigest
<1> SUFFICES ASSUME NEW d \in Digests
             PROVE  /\ \A c1, c2 \in Owners(d)' : c1 = c2
                    /\ Owners(d)' # {} <=> tasks'[d] = Claimed
  BY DEF OneOwnerPerDigest, Owners
<1> HIDE DEF D
<1>7. CASE EnterClaim(c)
  <2>1. /\ pc[c] \notin Owning /\ pc'[c] \in Owning
        /\ tasks[D] = Unclaimed /\ tasks' = [tasks EXCEPT ![D] = Claimed]
    BY <1>7 DEF EnterClaim, Owning, Found, Claim, Goto, GotoWith, TypeOK, Calls, D
  <2>2. tasks[D] # Claimed /\ tasks'[D] = Claimed
        /\ \A e \in Digests : e # D => tasks'[e] = tasks[e]
    BY <1>1, <2>1, ErrorsDiffer DEF TypeOK, BudgetTypeOK
  <2>3. CASE d = D
    <3>1. Owners(d) = {}
      BY <1>6, <2>2, <2>3
    <3>2. c \in Owners(d)'
      BY <1>4, <2>1, <2>3
    <3> QED
      BY <1>3, <2>2, <2>3, <3>1, <3>2
  <2>4. CASE d # D
    <3>1. c \notin Owners(d) /\ c \notin Owners(d)'
      BY <1>4, <2>4
    <3>2. Owners(d)' = Owners(d)
      BY <1>2, <1>3, <1>5, <3>1
    <3> QED
      BY <1>6, <2>2, <2>4, <3>2
  <2> QED
    BY <2>3, <2>4
<1>8. CASE Settle(c)
  <2>1. /\ pc[c] \in Owning /\ pc'[c] \notin Owning
        /\ tasks' = [tasks EXCEPT ![D] = res[c]] /\ res[c] \in Errors
    BY <1>8 DEF Settle, Owning, CloseTask, Goto, TypeOK, Calls, D
  <2>2. tasks'[D] # Claimed /\ \A e \in Digests : e # D => tasks'[e] = tasks[e]
    BY <1>1, <2>1, ErrorsDiffer DEF TypeOK, BudgetTypeOK
  <2>3. CASE d = D
    <3>1. c \in Owners(d) /\ c \notin Owners(d)'
      BY <1>4, <2>1, <2>3
    <3>2. Owners(d)' = {}
      BY <1>3, <1>6, <3>1
    <3> QED
      BY <2>2, <2>3, <3>2
  <2>4. CASE d # D
    <3>1. c \notin Owners(d) /\ c \notin Owners(d)'
      BY <1>4, <2>4
    <3>2. Owners(d)' = Owners(d)
      BY <1>2, <1>3, <1>5, <3>1
    <3> QED
      BY <1>6, <2>2, <2>4, <3>2
  <2> QED
    BY <2>3, <2>4
<1>9. CASE Indifferent(c)
  <2>1. Owners(d)' = Owners(d)
    BY <1>2, <1>3, <1>4, <1>5, <1>9 DEF Indifferent
  <2> QED
    BY <1>6, <1>9, <2>1 DEF Indifferent
<1> QED
  BY <1>7, <1>8, <1>9, StepsOfOwners

-----------------------------------------------------------------------------
(* What the outcomes stand for.                                            *)

(* Only an owner closes a task, so an outcome is final; and nothing leaves *)
(* the destination.                                                        *)
LEMMA OutcomesAreFinal ==
  ASSUME TypeOK, OneOwnerPerDigest, NEW c \in Calls, Step(c)
  PROVE  /\ \A d \in Digests : tasks[d] = Ok => tasks'[d] = Ok
         /\ dst \subseteq dst'
<1> DEFINE D == Desc(c)
<1>1. D \in Digests
  BY CallShape DEF TypeOK
<1>2. dst \subseteq dst'
  BY DEF Step, EnterCancelled, EnterClaim, EnterWait, ShareOutcome, AbandonWait,
     CheckContext, TakeSlot, LeaveQueue, FailTransfer, RejectContent, FinishFetch,
     FinishPush, Settle, Return, JoinGroup, JoinInOrder
<1> HIDE DEF D
<1>3. CASE EnterClaim(c)
  <2>1. tasks[D] = Unclaimed /\ tasks' = [tasks EXCEPT ![D] = Claimed]
    BY <1>3 DEF EnterClaim, Found, Claim, D
  <2> QED
    BY <1>2, <2>1, ErrorsDiffer DEF TypeOK, BudgetTypeOK
<1>4. CASE Settle(c)
  <2>1. pc[c] \in Owning /\ tasks' = [tasks EXCEPT ![D] = res[c]]
    BY <1>4 DEF Settle, Owning, CloseTask, D
  <2>2. c \in Owners(D)
    BY <2>1 DEF Owners, D
  <2>3. tasks[D] = Claimed
    BY <1>1, <2>2 DEF OneOwnerPerDigest
  <2> QED
    BY <1>2, <2>1, <2>3, ErrorsDiffer DEF TypeOK, BudgetTypeOK
<1>5. CASE Indifferent(c)
  BY <1>2, <1>5 DEF Indifferent
<1> QED
  BY <1>3, <1>4, <1>5, StepsOfOwners

LEMMA ReferencesAreDigests ==
  ASSUME NEW d \in Digests
  PROVE  /\ References(d) \subseteq Digests
         /\ Children[d] = << >> => References(d) = {}
<1>1. Children[d] \in Seq(Digests)
  BY CopyAssumption
<1> QED
  BY <1>1 DEF References

(* Whatever a call relied on it may go on relying on.                      *)
LEMMA SubtreesStaySettled ==
  ASSUME TypeOK, OneOwnerPerDigest, NEW c \in Calls, Step(c),
         NEW k \in Calls, SubtreeSettled(k)
  PROVE  SubtreeSettled(k)'
<1>1. Desc(k) \in Digests
  BY CallShape DEF TypeOK
<1> QED
  BY <1>1, OutcomesAreFinal, ReferencesAreDigests DEF SubtreeSettled

(* All children done without error: the subtree is settled.                *)
LEMMA ChildrenDoneSubtreeSettled ==
  ASSUME TypeOK, CallsRelyOnOutcomes, NEW c \in Calls, pc[c] = "children",
         \A i \in 1 .. Width(c) :
           Kid(c, i) \in Calls /\ pc[Kid(c, i)] = "done" /\ res[Kid(c, i)] = Ok
  PROVE  SubtreeSettled(c)
<1>1. c \in Seq(Link) \ {<< >>}
  BY DEF TypeOK
<1>2. Desc(c) \in Honest
  BY DEF CallsRelyOnOutcomes, ReliesOnOutcomes
<1>3. ASSUME NEW d \in References(Desc(c)) PROVE tasks[d] = Ok
  <2>1. PICK i \in 1 .. Width(c) : d = Children[Desc(c)][i]
    BY DEF References, Width
  <2>2. Desc(Kid(c, i)) = d
    BY <1>1, <2>1, CallShape
  <2> QED
    BY <2>2 DEF CallsRelyOnOutcomes, ReliesOnOutcomes
<1> QED
  BY <1>2, <1>3 DEF SubtreeSettled

(* A leaf has nothing to wait for.                                         *)
LEMMA LeafSubtreeSettled ==
  ASSUME TypeOK, NEW c \in Calls, Width(c) = 0 \/ Desc(c) \in Blobs,
         Desc(c) \in Honest \cup Blobs
  PROVE  SubtreeSettled(c) /\ SubtreeSettled(c)'
<1>1. Desc(c) \in Digests
  BY CallShape DEF TypeOK
<1>2. Children[Desc(c)] = << >>
  BY <1>1, CopyAssumption DEF Width
<1> QED
  BY <1>1, <1>2, ReferencesAreDigests DEF SubtreeSettled

(* The call that takes the step, action by action.                         *)
LEMMA CallKeepsRelying ==
  ASSUME WalkInvariant, NEW c \in Calls, Step(c)
  PROVE  ReliesOnOutcomes(c)'
<1> USE DEF ReliesOnOutcomes, Pushing
<1>0. /\ TypeOK /\ OneOwnerPerDigest /\ CallsFormATree /\ EldersSucceeded /\ GroupKnows
      /\ CallsRelyOnOutcomes /\ ReliesOnOutcomes(c)
      /\ c \in Seq(Link) \ {<< >>} /\ Desc(c) \in Digests
      /\ pc \in [Calls -> Steps] /\ res \in [Calls -> Errors]
  BY CallShape DEF WalkInvariant, CallsRelyOnOutcomes, TypeOK
<1>1. ASSUME NEW step, Goto(c, step)
      PROVE  pc'[c] = step /\ res'[c] = res[c]
  BY <1>0, <1>1 DEF Goto, Calls
<1>2. ASSUME NEW step, NEW err, GotoWith(c, step, err)
      PROVE  pc'[c] = step /\ res'[c] = err
  BY <1>0, <1>2 DEF GotoWith, Calls
<1>3. ASSUME NEW step, NEW err, err # Ok, step \in {"settle", "return"},
             GotoWith(c, step, err)
      PROVE  ReliesOnOutcomes(c)'
  BY <1>2, <1>3
<1>4. ASSUME Goto(c, "pushCheck"), SubtreeSettled(c)'
      PROVE  ReliesOnOutcomes(c)'
  BY <1>1, <1>4
<1>5. ASSUME SubtreeSettled(c) PROVE SubtreeSettled(c)'
  BY <1>0, <1>5, SubtreesStaySettled
<1>6. CASE EnterCancelled(c)
  BY <1>3, <1>6, ErrorsDiffer DEF EnterCancelled
<1>7. CASE EnterClaim(c)
  <2>1. CASE OnPath(c)
    BY <1>0, <1>3, <1>7, <2>1, ErrorsDiffer DEF EnterClaim
  <2>2. CASE ~OnPath(c) /\ Desc(c) \in Blobs
    BY <1>0, <1>4, <1>7, <2>2, LeafSubtreeSettled DEF EnterClaim
  <2>3. CASE ~OnPath(c) /\ Desc(c) \notin Blobs
    BY <1>1, <1>7, <2>3 DEF EnterClaim
  <2> QED
    BY <2>1, <2>2, <2>3
<1>8. CASE EnterWait(c)
  BY <1>1, <1>8 DEF EnterWait
<1>9. CASE ShareOutcome(c)
  BY <1>2, <1>9 DEF ShareOutcome, budgetVars
<1>10. CASE AbandonWait(c)
  BY <1>3, <1>10, ErrorsDiffer DEF AbandonWait
<1>11. CASE CheckContext(c)
  <2>1. CASE Cancelled(c)
    BY <1>3, <1>11, <2>1, ErrorsDiffer DEF CheckContext
  <2>2. CASE ~Cancelled(c) /\ pc[c] = "fetchCheck"
    BY <1>1, <1>11, <2>2 DEF CheckContext, QueueFor
  <2>3. CASE ~Cancelled(c) /\ pc[c] = "pushCheck"
    BY <1>0, <1>1, <1>5, <1>11, <2>3 DEF CheckContext, QueueFor
  <2> QED
    BY <1>11, <2>1, <2>2, <2>3 DEF CheckContext
<1>12. CASE TakeSlot(c)
  <2>1. CASE pc[c] = "fetchQueue"
    BY <1>1, <1>12, <2>1 DEF TakeSlot, HoldFor
  <2>2. CASE pc[c] = "pushQueue"
    BY <1>0, <1>1, <1>5, <1>12, <2>2 DEF TakeSlot, HoldFor
  <2> QED
    BY <1>12, <2>1, <2>2 DEF TakeSlot
<1>13. CASE LeaveQueue(c)
  BY <1>3, <1>13, ErrorsDiffer DEF LeaveQueue
<1>14. CASE FailTransfer(c)
  BY <1>0, <1>3, <1>14, TransferErrorsFail DEF FailTransfer
<1>15. CASE RejectContent(c)
  BY <1>0, <1>3, <1>15, ErrorsDiffer DEF RejectContent
<1>16. CASE FinishFetch(c)
  <2>1. CASE Width(c) = 0
    BY <1>0, <1>4, <1>16, <2>1, LeafSubtreeSettled DEF FinishFetch, FanOut
  <2>2. CASE Width(c) # 0
    BY <1>0, <1>16, <2>2 DEF FinishFetch, FanOut, Spawn
  <2> QED
    BY <2>1, <2>2
<1>17. CASE FinishPush(c)
  <2>1. pc'[c] = "settle" /\ Desc(c) \in dst'
    BY <1>2, <1>17 DEF FinishPush
  <2>2. SubtreeSettled(c)'
    BY <1>0, <1>5, <1>17 DEF FinishPush
  <2> QED
    BY <2>1, <2>2
<1>18. CASE Settle(c)
  <2>1. /\ pc'[c] = "return" /\ res'[c] = res[c]
        /\ tasks' = [tasks EXCEPT ![Desc(c)] = res[c]]
    BY <1>1, <1>18 DEF Settle, CloseTask
  <2>2. tasks'[Desc(c)] = res[c]
    BY <1>0, <2>1 DEF TypeOK, BudgetTypeOK
  <2> QED
    BY <2>1, <2>2
<1>19. CASE Return(c)
  <2>1. pc'[c] = "done" /\ res'[c] = res[c] /\ tasks' = tasks /\ pc[c] = "return"
    BY <1>0, <1>19 DEF Return, budgetVars, Calls
  <2> QED
    BY <1>0, <2>1
<1>20. CASE JoinGroup(c)
  <2>1. /\ pc[c] = "children" /\ ~Sequential(Width(c))
        /\ \A k \in Kids(c) : pc[k] = "done"
    BY <1>20 DEF JoinGroup
  <2>2. CASE group[c] = Ok
    <3>1. \A k \in Kids(c) : k \in Calls /\ pc[k] = "done" /\ res[k] = Ok
      BY <1>0, <2>1, <2>2 DEF GroupKnows
    <3>2. \A i \in 1 .. Width(c) :
            Kid(c, i) \in Calls /\ pc[Kid(c, i)] = "done" /\ res[Kid(c, i)] = Ok
      BY <1>0, <3>1, KidsByPosition
    <3>3. SubtreeSettled(c)
      BY <1>0, <2>1, <3>2, ChildrenDoneSubtreeSettled
    <3> QED
      BY <1>4, <1>5, <1>20, <2>2, <3>3 DEF JoinGroup
  <2>3. CASE group[c] # Ok
    BY <1>3, <1>20, <2>3 DEF JoinGroup
  <2> QED
    BY <2>2, <2>3
<1>21. CASE JoinInOrder(c)
  <2>1. pc[c] = "children" /\ Sequential(Width(c))
    BY <1>21 DEF JoinInOrder
  <2>2. PICK i \in 1 .. Width(c) :
          /\ Kid(c, i) \in Calls
          /\ pc[Kid(c, i)] = "done"
          /\ IF res[Kid(c, i)] # Ok THEN GotoWith(c, "settle", res[Kid(c, i)])
             ELSE IF i < Width(c)   THEN Spawn(c, {Kid(c, i + 1)})
             ELSE Goto(c, "pushCheck")
    BY <1>21 DEF JoinInOrder
  <2>3. CASE res[Kid(c, i)] # Ok
    BY <1>3, <2>2, <2>3
  <2>4. CASE res[Kid(c, i)] = Ok /\ i < Width(c)
    <3>1. pc'[c] = "children" /\ Desc(c) \in Honest
      BY <1>0, <2>1, <2>2, <2>4 DEF Spawn
    <3> QED
      BY <3>1
  <2>5. CASE res[Kid(c, i)] = Ok /\ ~(i < Width(c))
    <3>1. Width(c) \in Nat
      BY <1>0, CallShape
    <3>2. i = Width(c)
      BY <2>5, <3>1
    <3>3. \A j \in 1 .. Width(c) : j = i \/ j < i
      BY <3>1, <3>2
    <3>4. \A j \in 1 .. Width(c) :
            Kid(c, j) \in Calls /\ pc[Kid(c, j)] = "done" /\ res[Kid(c, j)] = Ok
      BY <1>0, <2>1, <2>2, <2>5, <3>3 DEF EldersSucceeded
    <3>5. SubtreeSettled(c)
      BY <1>0, <2>1, <3>4, ChildrenDoneSubtreeSettled
    <3> QED
      BY <1>4, <1>5, <2>2, <2>5, <3>5
  <2> QED
    BY <2>3, <2>4, <2>5
<1> QED
  BY <1>6, <1>7, <1>8, <1>9, <1>10, <1>11, <1>12, <1>13, <1>14, <1>15, <1>16,
     <1>17, <1>18, <1>19, <1>20, <1>21 DEF Step

LEMMA CallsKeepRelying ==
  ASSUME WalkInvariant, NEW c \in Calls, Step(c)
  PROVE  CallsRelyOnOutcomes'
<1>0. /\ TypeOK /\ OneOwnerPerDigest /\ CallsFormATree /\ CallsRelyOnOutcomes
      /\ \A k \in Calls : Desc(k) \in Digests
  BY CallShape DEF WalkInvariant, TypeOK
<1> SUFFICES ASSUME NEW k \in Calls' PROVE ReliesOnOutcomes(k)'
  BY DEF CallsRelyOnOutcomes
<1>1. CASE k = c
  BY <1>1, CallKeepsRelying
<1>2. ASSUME k # c, k \in Calls, pc'[k] = pc[k], res'[k] = res[k]
      PROVE  ReliesOnOutcomes(k)'
  <2>1. ReliesOnOutcomes(k)
    BY <1>0, <1>2 DEF CallsRelyOnOutcomes
  <2>2. SubtreeSettled(k) => SubtreeSettled(k)'
    BY <1>0, <1>2, SubtreesStaySettled
  <2>3. Desc(k) \in Digests
    BY <1>0, <1>2
  <2> QED
    BY <1>0, <1>2, <2>1, <2>2, <2>3, OutcomesAreFinal DEF ReliesOnOutcomes
<1>3. CASE Moved(c) /\ k # c
  BY <1>2, <1>3 DEF Moved
<1>4. ASSUME NEW new, Spawned(c, new), k # c
      PROVE  ReliesOnOutcomes(k)'
  <2>1. CASE k \in new
    BY <1>4, <2>1 DEF Spawned, ReliesOnOutcomes, Pushing
  <2>2. CASE k \notin new
    BY <1>2, <1>4, <2>2 DEF Spawned
  <2> QED
    BY <2>1, <2>2
<1> QED
  BY <1>0, <1>1, <1>3, <1>4, StepMoves, CallersSpawn

LEMMA SettledStep ==
  ASSUME WalkInvariant, NEW c \in Calls, Step(c)
  PROVE  SettledIsComplete'
<1>0. /\ TypeOK /\ OneOwnerPerDigest /\ SettledIsComplete /\ CallsRelyOnOutcomes
      /\ Desc(c) \in Digests
  BY CallShape DEF WalkInvariant, TypeOK
<1> SUFFICES ASSUME NEW d \in Digests, tasks'[d] = Ok
             PROVE  d \in dst' /\ \A k \in References(d) : tasks'[k] = Ok
  BY DEF SettledIsComplete
<1>1. \A k \in References(d) : tasks[k] = Ok => tasks'[k] = Ok
  BY <1>0, OutcomesAreFinal, ReferencesAreDigests
<1>2. CASE tasks[d] = Ok
  BY <1>0, <1>1, <1>2, OutcomesAreFinal DEF SettledIsComplete
<1>3. CASE tasks[d] # Ok /\ Settle(c)
  <2>1. pc[c] = "settle" /\ tasks' = [tasks EXCEPT ![Desc(c)] = res[c]]
    BY <1>3 DEF Settle, CloseTask
  <2>2. d = Desc(c) /\ res[c] = Ok
    BY <1>0, <1>3, <2>1 DEF TypeOK, BudgetTypeOK
  <2>3. SubtreeSettled(c) /\ d \in dst
    BY <1>0, <2>1, <2>2 DEF CallsRelyOnOutcomes, ReliesOnOutcomes
  <2> QED
    BY <1>0, <1>1, <2>2, <2>3, OutcomesAreFinal DEF SubtreeSettled
<1>4. CASE EnterClaim(c)
  BY <1>0, <1>2, <1>4, ErrorsDiffer DEF EnterClaim, Claim, TypeOK, BudgetTypeOK
<1>5. CASE Indifferent(c)
  BY <1>2, <1>5 DEF Indifferent
<1> QED
  BY <1>0, <1>2, <1>3, <1>4, <1>5, StepsOfOwners

-----------------------------------------------------------------------------
(* The theorems.                                                           *)

LEMMA InvariantAtFirst == Init => WalkInvariant
<1> SUFFICES ASSUME Init PROVE WalkInvariant
  OBVIOUS
<1>1. Calls = {RootCall} /\ pc[RootCall] = "copy"
  BY DEF Init, Calls
<1>2. TypeOK
  BY TypesAtFirst
<1>3. RootCall \in Seq(Link) \ {<< >>} /\ IsRoot(RootCall)
  BY <1>1, <1>2 DEF TypeOK, IsRoot, RootCall
<1>4. \A d \in Digests : tasks[d] = Unclaimed
  BY DEF Init, NewBudget
<1>5. OneOwnerPerDigest
  <2>1. \A d \in Digests : Owners(d) = {}
    BY <1>1 DEF Owners, Owning
  <2> QED
    BY <1>4, <2>1, ErrorsDiffer DEF OneOwnerPerDigest
<1>6. SettledIsComplete
  BY <1>4, ErrorsDiffer DEF SettledIsComplete
<1>7. CallsFormATree
  BY <1>1, <1>3 DEF CallsFormATree
<1>8. Kids(RootCall) \cap Calls = {}
  BY <1>1, <1>2, <1>3, <1>7, EarlyCallsAreLeaves DEF Early
<1>9. EldersSucceeded
  BY <1>1, <1>3, <1>8, KidsByPosition DEF EldersSucceeded
<1>10. GroupKnows
  BY <1>1 DEF GroupKnows
<1>11. CallsRelyOnOutcomes
  BY <1>1 DEF CallsRelyOnOutcomes, ReliesOnOutcomes, Pushing
<1> QED
  BY <1>2, <1>5, <1>6, <1>7, <1>9, <1>10, <1>11 DEF WalkInvariant

LEMMA InvariantKept == WalkInvariant /\ [Next]_vars => WalkInvariant'
<1> SUFFICES ASSUME WalkInvariant, [Next]_vars PROVE WalkInvariant'
  OBVIOUS
<1>1. ASSUME NEW c \in Calls, Step(c) PROVE WalkInvariant'
  BY <1>1, StepKeepsTypes, OwnersStep, SettledStep, TreeStep, EldersStep, GroupStep,
     CallsKeepRelying DEF WalkInvariant
<1>2. CASE UNCHANGED <<slots, tasks, failure, pc, res, group, dst>> /\ TypeOK'
  <2>1. TypeOK' /\ OneOwnerPerDigest' /\ SettledIsComplete'
    BY <1>2 DEF WalkInvariant, OneOwnerPerDigest, Owners, SettledIsComplete, Calls
  <2>2. CallsFormATree' /\ EldersSucceeded' /\ GroupKnows'
    BY <1>2 DEF WalkInvariant, CallsFormATree, EldersSucceeded, GroupKnows, Calls
  <2>3. CallsRelyOnOutcomes'
    BY <1>2 DEF WalkInvariant, CallsRelyOnOutcomes, ReliesOnOutcomes, SubtreeSettled, Calls
  <2> QED
    BY <2>1, <2>2, <2>3 DEF WalkInvariant
<1>3. CASE CallerCancels
  BY <1>2, <1>3 DEF CallerCancels, budgetVars, WalkInvariant, TypeOK, BudgetTypeOK, Calls
<1>4. CASE UNCHANGED vars
  BY <1>2, <1>4 DEF vars, WalkInvariant, TypeOK, BudgetTypeOK, Calls
<1> QED
  BY <1>1, <1>3, <1>4 DEF Next, Finished

(* The whole invariant, for every image, every limit and every behaviour   *)
(* of the endpoints.                                                       *)
THEOREM InvariantHolds == Spec => []WalkInvariant
BY InvariantAtFirst, InvariantKept, PTL DEF Spec

(* No digest ever has two workers: what lets LayoutStore write a blob to   *)
(* its final path without a temporary name of its own.                     *)
THEOREM OneOwner == Spec => []OneOwnerPerDigest
<1>1. WalkInvariant => OneOwnerPerDigest
  BY DEF WalkInvariant
<1> QED
  BY <1>1, InvariantHolds, PTL

(* A digest settled without error has its whole subtree in the             *)
(* destination, whichever route settled it.                                *)
THEOREM SettledSubtrees == Spec => []SettledIsComplete
<1>1. WalkInvariant => SettledIsComplete
  BY DEF WalkInvariant
<1> QED
  BY <1>1, InvariantHolds, PTL

(* Nothing lands before what it refers to, nor unless the source answered  *)
(* honestly for it.                                                        *)
THEOREM ParentsLast == Spec => ChildrenFirst
<1> DEFINE Lands == \A d \in dst' \ dst : References(d) \subseteq dst /\ d \in Honest \cup Blobs
<1>1. WalkInvariant /\ [Next]_vars => [Lands]_vars
  <2> SUFFICES ASSUME WalkInvariant, Next PROVE Lands
    BY DEF vars
  <2>1. ASSUME NEW c \in Calls, FinishPush(c) PROVE Lands
    <3>1. SubtreeSettled(c) /\ dst' = dst \cup {Desc(c)}
      BY <2>1 DEF FinishPush, WalkInvariant, CallsRelyOnOutcomes, ReliesOnOutcomes, Pushing
    <3>2. Desc(c) \in Digests
      BY CallShape DEF WalkInvariant, TypeOK
    <3> QED
      BY <3>1, <3>2, ReferencesAreDigests DEF SubtreeSettled, WalkInvariant, SettledIsComplete
  <2>2. ASSUME NEW c \in Calls, Step(c), ~FinishPush(c) PROVE dst' = dst
    BY <2>2 DEF Step, EnterCancelled, EnterClaim, EnterWait, ShareOutcome, AbandonWait,
       CheckContext, TakeSlot, LeaveQueue, FailTransfer, RejectContent, FinishFetch,
       Settle, Return, JoinGroup, JoinInOrder
  <2>3. CallerCancels \/ Finished => dst' = dst
    BY DEF CallerCancels, Finished, vars
  <2> QED
    BY <2>1, <2>2, <2>3 DEF Next
<1> QED
  BY <1>1, InvariantHolds, PTL DEF Spec, ChildrenFirst
-----------------------------------------------------------------------------
(* How the walk ends: a call that has not returned keeps all of its        *)
(* callers waiting, so nothing runs once the root has returned; and an     *)
(* error climbs from the call that met it to the root.                     *)


-----------------------------------------------------------------------------
(* Ancestors.                                                              *)

LEMMA AncestorShape ==
  ASSUME NEW c \in Seq(Link) \ {<< >>}, NEW n \in 1 .. Len(c)
  PROVE  /\ Ancestor(c, n) \in Seq(Link) \ {<< >>}
         /\ Len(Ancestor(c, n)) = n
         /\ \A i \in 1 .. n : Ancestor(c, n)[i] = c[i]
         /\ Desc(Ancestor(c, n)) = c[n].desc
         /\ n = Len(c) => Ancestor(c, n) = c
<1>1. Len(c) \in Nat /\ n \in Nat /\ n >= 1 /\ n <= Len(c)
  BY CallShape
<1> DEFINE a == SubSeq(c, 1, n)
<1>2. a \in Seq(Link) /\ Len(a) = n /\ \A i \in 1 .. n : a[i] = c[i]
  BY <1>1
<1> HIDE DEF a
<1>3. a # << >>
  <2>1. \A s \in Seq(Link) : Len(s) >= 1 => s # << >>
    OBVIOUS
  <2> QED BY <1>1, <1>2, <2>1
<1>4. n = Len(c) => a = c
  BY <1>1, <1>2
<1>5. a[n] = c[n]
  BY <1>1, <1>2
<1> QED
  BY <1>2, <1>3, <1>4, <1>5 DEF a, Ancestor, Desc

(* Whoever is above a child is its caller or above its caller.             *)
LEMMA AncestorsOfKid ==
  ASSUME NEW c \in Seq(Link) \ {<< >>}, NEW i \in 1 .. Width(c),
         NEW n \in 1 .. Len(c)
  PROVE  /\ Ancestor(Kid(c, i), n) = Ancestor(c, n)
         /\ Kid(c, i)[1] = c[1]
<1> DEFINE k == Kid(c, i)
<1>1. /\ k \in Seq(Link) \ {<< >>} /\ Len(k) = Len(c) + 1
      /\ Len(c) \in Nat /\ Len(c) >= 1
  BY CallShape
<1>2. \A m \in 1 .. Len(c) : k[m] = c[m]
  BY <1>1 DEF Kid
<1> HIDE DEF k
<1>3. n \in 1 .. Len(k)
  BY <1>1
<1>4. /\ Ancestor(k, n) \in Seq(Link) /\ Len(Ancestor(k, n)) = n
      /\ \A m \in 1 .. n : Ancestor(k, n)[m] = k[m]
      /\ Ancestor(c, n) \in Seq(Link) /\ Len(Ancestor(c, n)) = n
      /\ \A m \in 1 .. n : Ancestor(c, n)[m] = c[m]
  BY <1>1, <1>3, AncestorShape
<1>5. \A m \in 1 .. n : Ancestor(k, n)[m] = Ancestor(c, n)[m]
  BY <1>1, <1>2, <1>4
<1>6. Ancestor(k, n) = Ancestor(c, n)
  BY ONLY <1>4, <1>5
<1> QED
  BY <1>1, <1>2, <1>6 DEF k

(* A call that leaves copyAll leaves no child behind that is not done; if  *)
(* one of them failed, so does it.                                         *)
LEMMA JoinsLast ==
  ASSUME TypeOK, EldersSucceeded, GroupKnows, NEW c \in Calls, Step(c),
         pc[c] = "children", pc'[c] # "children",
         NEW k \in Kids(c), k \in Calls
  PROVE  /\ pc[k] = "done"
         /\ res[k] # Ok => pc'[c] = "settle" /\ res'[c] # Ok
<1>1. c \in Seq(Link) \ {<< >>} /\ Width(c) \in Nat
  BY CallShape DEF TypeOK
<1>2. JoinGroup(c) \/ JoinInOrder(c)
  BY DEF Step, EnterCancelled, EnterClaim, EnterWait, ShareOutcome, AbandonWait,
     CheckContext, TakeSlot, LeaveQueue, FailTransfer, RejectContent, FinishFetch,
     FinishPush, Settle, Return, Transferring
<1>3. CASE JoinGroup(c)
  <2>1. pc[k] = "done"
    BY <1>3 DEF JoinGroup
  <2>2. ASSUME res[k] # Ok PROVE pc'[c] = "settle" /\ res'[c] # Ok
    <3>1. group[c] # Ok
      BY <1>3, <2>1, <2>2 DEF JoinGroup, GroupKnows
    <3> QED
      BY <1>3, <3>1 DEF JoinGroup, GotoWith, TypeOK, Calls
  <2> QED BY <2>1, <2>2
<1>4. CASE JoinInOrder(c)
  <2>1. PICK i \in 1 .. Width(c) :
          /\ Kid(c, i) \in Calls
          /\ i < Width(c) => Kid(c, i + 1) \notin Calls
          /\ pc[Kid(c, i)] = "done"
          /\ IF res[Kid(c, i)] # Ok THEN GotoWith(c, "settle", res[Kid(c, i)])
             ELSE IF i < Width(c)   THEN Spawn(c, {Kid(c, i + 1)})
             ELSE Goto(c, "pushCheck")
    BY <1>4 DEF JoinInOrder
  <2>2. Sequential(Width(c))
    BY <1>4 DEF JoinInOrder
  <2>3. PICK j \in 1 .. Width(c) : k = Kid(c, j)
    BY <1>1, KidsByPosition
  <2>4. j <= i
    <3> SUFFICES ASSUME i < j PROVE FALSE
      BY <1>1
    <3>1. i + 1 \in 1 .. Width(c) /\ i < Width(c)
      BY <1>1
    <3>2. CASE j = i + 1
      BY <2>1, <2>3, <3>1, <3>2
    <3>3. CASE i + 1 < j
      <4>1. Kid(c, i + 1) \in Calls
        BY <2>2, <2>3, <3>1, <3>3 DEF EldersSucceeded
      <4> QED
        BY <2>1, <3>1, <4>1
    <3> QED
      BY <1>1, <3>2, <3>3
  <2>5. CASE j < i
    BY <2>1, <2>2, <2>3, <2>5 DEF EldersSucceeded
  <2>6. CASE j = i
    <3>1. pc[k] = "done"
      BY <2>1, <2>3, <2>6
    <3>2. res[k] # Ok => pc'[c] = "settle" /\ res'[c] # Ok
      BY <2>1, <2>3, <2>6 DEF GotoWith, TypeOK, Calls
    <3> QED BY <3>1, <3>2
  <2> QED
    BY <1>1, <2>4, <2>5, <2>6
<1> QED
  BY <1>2, <1>3, <1>4

-----------------------------------------------------------------------------
(* Everyone above a call that is not done is waiting in copyAll.           *)

(* The ancestors of a call that is made: the caller, and its ancestors.    *)
LEMMA SpawnedHaveAncestors ==
  ASSUME TypeOK, AncestorsWait, NEW c \in Calls, NEW new, Spawned(c, new),
         NEW k \in new, NEW n \in 1 .. Len(k) - 1
  PROVE  /\ k[1] = RootCall[1]
         /\ \/ n = Len(c) /\ Ancestor(k, n) = c /\ Ancestor(k, n + 1) = k
            \/ /\ n \in 1 .. Len(c) - 1
               /\ Ancestor(k, n) = Ancestor(c, n)
               /\ Ancestor(k, n + 1) = Ancestor(c, n + 1)
<1>1. c \in Seq(Link) \ {<< >>} /\ Len(c) \in Nat /\ Len(c) >= 1
  BY CallShape DEF TypeOK
<1>2. PICK i \in 1 .. Width(c) : k = Kid(c, i)
  BY <1>1, KidsByPosition DEF Spawned
<1>3. Len(k) = Len(c) + 1 /\ k \in Seq(Link) \ {<< >>}
  BY <1>1, <1>2, CallShape
<1>4. k[1] = RootCall[1]
  <2>1. 1 \in 1 .. Len(c)
    BY <1>1
  <2> QED
    BY <1>1, <1>2, <2>1, AncestorsOfKid DEF AncestorsWait
<1>5. n \in 1 .. Len(c) /\ Ancestor(k, n) = Ancestor(c, n)
  BY <1>1, <1>2, <1>3, AncestorsOfKid
<1>6. CASE n = Len(c)
  <2>1. n + 1 \in 1 .. Len(k) /\ n + 1 = Len(k)
    BY <1>1, <1>3, <1>6
  <2>2. Ancestor(k, n + 1) = k
    BY <1>3, <2>1, AncestorShape
  <2>3. Ancestor(c, n) = c
    BY <1>1, <1>5, <1>6, AncestorShape
  <2> QED
    BY <1>4, <1>5, <1>6, <2>2, <2>3
<1>7. CASE n # Len(c)
  <2>1. n \in 1 .. Len(c) - 1 /\ n + 1 \in 1 .. Len(c)
    BY <1>1, <1>5, <1>7
  <2>2. Ancestor(k, n + 1) = Ancestor(c, n + 1)
    BY <1>1, <1>2, <2>1, AncestorsOfKid
  <2> QED
    BY <1>4, <1>5, <2>1, <2>2
<1> QED
  BY <1>6, <1>7

(* A call is never its own ancestor.                                       *)
LEMMA AncestorsAreShorter ==
  ASSUME NEW k \in Seq(Link) \ {<< >>}, NEW n \in 1 .. Len(k) - 1
  PROVE  /\ Ancestor(k, n) # k
         /\ n \in 1 .. Len(k) /\ n + 1 \in 1 .. Len(k)
         /\ n + 1 = Len(k) => Ancestor(k, n + 1) = k
         /\ n + 1 # Len(k) => n + 1 \in 1 .. Len(k) - 1
<1>1. Len(k) \in Nat /\ n \in 1 .. Len(k) /\ n + 1 \in 1 .. Len(k)
  BY CallShape
<1>2. Len(Ancestor(k, n)) = n
  BY <1>1, AncestorShape
<1>3. Ancestor(k, n) # k
  BY <1>1, <1>2
<1> QED
  BY <1>1, <1>3, AncestorShape

LEMMA AncestorsStep ==
  ASSUME TypeOK, CallsFormATree, EldersSucceeded, GroupKnows, AncestorsWait,
         NEW c \in Calls, Step(c)
  PROVE  AncestorsWait'
<1>0. Calls \subseteq Seq(Link) \ {<< >>}
  BY DEF TypeOK
<1>1. CASE Moved(c)
  <2> SUFFICES ASSUME NEW k \in Calls, NEW n \in 1 .. Len(k) - 1, pc'[k] # "done"
               PROVE  pc'[Ancestor(k, n)] = "children"
    BY <1>1 DEF Moved, AncestorsWait, Ancestor, Kids, Kid, Desc, RootCall
  <2> DEFINE a == Ancestor(k, n)
             q == Ancestor(k, n + 1)
  <2>1. pc[k] # "done"
    BY <1>1 DEF Moved
  <2>2. a \in Calls /\ q \in Kids(a) /\ pc[a] = "children"
    BY <2>1 DEF AncestorsWait
  <2>3. CASE a # c
    BY <1>1, <2>2, <2>3 DEF Moved
  <2>4. CASE a = c
    <3>1. k # c /\ q \in Calls
      BY <1>0, <2>4, AncestorsAreShorter DEF AncestorsWait
    <3>2. pc[q] # "done"
      BY <1>0, <2>1, AncestorsAreShorter DEF AncestorsWait
    <3> HIDE DEF a, q
    <3> QED
      BY <1>1, <2>2, <2>4, <3>1, <3>2, JoinsLast DEF Moved
  <2> QED
    BY <2>3, <2>4
<1>2. CASE \E new : Spawned(c, new)
  <2>1. PICK new : Spawned(c, new)
    BY <1>2
  <2>2. ASSUME NEW k \in Calls
        PROVE  /\ k[1] = RootCall[1]
               /\ \A n \in 1 .. Len(k) - 1 :
                    /\ Ancestor(k, n) \in Calls'
                    /\ Ancestor(k, n + 1) \in Kids(Ancestor(k, n))
                    /\ pc'[k] # "done" => pc'[Ancestor(k, n)] = "children"
    BY <2>1 DEF Spawned, AncestorsWait
  <2>3. ASSUME NEW k \in new
        PROVE  /\ k[1] = RootCall[1]
               /\ \A n \in 1 .. Len(k) - 1 :
                    /\ Ancestor(k, n) \in Calls'
                    /\ Ancestor(k, n + 1) \in Kids(Ancestor(k, n))
                    /\ pc'[k] # "done" => pc'[Ancestor(k, n)] = "children"
    <3>1. k[1] = RootCall[1]
      <4>1. k \in Seq(Link) \ {<< >>} /\ Len(k) > 1
        <5>1. c \in Seq(Link) \ {<< >>} /\ k \in Kids(c)
          BY <1>0, <2>1 DEF Spawned
        <5>2. PICK i \in 1 .. Width(c) : k = Kid(c, i)
          BY <5>1, KidsByPosition
        <5> QED BY <5>1, <5>2, KidShape, CallShape
      <4>2. 1 \in 1 .. Len(k) - 1
        BY <4>1
      <4> QED
        BY <2>1, <4>2, SpawnedHaveAncestors
    <3>2. ASSUME NEW n \in 1 .. Len(k) - 1
          PROVE  /\ Ancestor(k, n) \in Calls'
                 /\ Ancestor(k, n + 1) \in Kids(Ancestor(k, n))
                 /\ pc'[Ancestor(k, n)] = "children"
      <4>1. CASE Ancestor(k, n) = c /\ Ancestor(k, n + 1) = k
        BY <2>1, <4>1 DEF Spawned
      <4>2. CASE /\ n \in 1 .. Len(c) - 1
                 /\ Ancestor(k, n) = Ancestor(c, n)
                 /\ Ancestor(k, n + 1) = Ancestor(c, n + 1)
        <5>1. pc[c] # "done"
          BY <2>1 DEF Spawned
        <5> QED
          BY <2>1, <4>2, <5>1 DEF Spawned, AncestorsWait
      <4> QED
        BY <2>1, <4>1, <4>2, SpawnedHaveAncestors
    <3> QED
      BY <3>1, <3>2
  <2>4. Calls' = Calls \cup new
    BY <2>1 DEF Spawned
  <2> QED
    BY <2>2, <2>3, <2>4 DEF AncestorsWait, Ancestor, Kids, Kid, Desc, RootCall
<1> QED
  BY <1>1, <1>2, StepMoves, CallersSpawn

-----------------------------------------------------------------------------
(* Errors climb, and the failure on record is one of them.                 *)

LEMMA ErringStays ==
  ASSUME TypeOK, NEW c \in Calls, Step(c), Erring(c)
  PROVE  Erring(c)' /\ pc'[c] \in {"return", "done"}
<1>1. Settle(c) \/ Return(c)
  BY DEF Erring, Step, EnterCancelled, EnterClaim, EnterWait, ShareOutcome, AbandonWait,
     CheckContext, TakeSlot, LeaveQueue, FailTransfer, RejectContent, FinishFetch,
     FinishPush, JoinGroup, JoinInOrder, Transferring
<1> QED
  BY <1>1 DEF Settle, Return, Goto, Erring, TypeOK, Calls

LEMMA ErrorsClimbStep ==
  ASSUME TypeOK, CallsFormATree, EldersSucceeded, GroupKnows, AncestorsWait, ErrorsClimb,
         NEW c \in Calls, Step(c)
  PROVE  ErrorsClimb'
<1> SUFFICES ASSUME NEW k \in Calls', pc'[k] = "done", res'[k] # Ok,
                    NEW n \in 1 .. Len(k) - 1
             PROVE  pc'[Ancestor(k, n)] = "children" \/ Erring(Ancestor(k, n))'
  BY DEF ErrorsClimb, Erring, Ancestor
<1> DEFINE a == Ancestor(k, n)
           q == Ancestor(k, n + 1)
<1>0. Calls \subseteq Seq(Link) \ {<< >>}
  BY DEF TypeOK
<1>1. CASE Moved(c)
  <2>1. k \in Calls /\ a \in Calls /\ q \in Kids(a)
    BY <1>1 DEF Moved, AncestorsWait
  <2>2. CASE k = c
    <3>1. pc[a] = "children" /\ a # c
      BY <1>0, <1>1, <2>1, <2>2, AncestorsAreShorter DEF Moved, AncestorsWait
    <3> QED
      BY <1>1, <2>1, <3>1 DEF Moved
  <2>3. CASE k # c
    <3>1. pc[k] = "done" /\ res[k] # Ok
      BY <1>1, <2>1, <2>3 DEF Moved
    <3>2. pc[a] = "children" \/ Erring(a)
      BY <2>1, <3>1 DEF ErrorsClimb
    <3>3. CASE a # c
      BY <1>1, <2>1, <3>2, <3>3 DEF Moved, Erring
    <3>4. CASE a = c /\ Erring(c)
      BY <3>4, ErringStays
    <3>5. CASE a = c /\ pc[c] = "children"
      <4>1. q \in Calls /\ (q = k \/ pc[q] = "children" \/ Erring(q))
        <5>1. CASE n + 1 = Len(k)
          BY <1>0, <2>1, <5>1, AncestorsAreShorter
        <5>2. CASE n + 1 # Len(k)
          <6>1. n + 1 \in 1 .. Len(k) - 1
            BY <1>0, <2>1, <5>2, AncestorsAreShorter
          <6> QED
            BY <2>1, <3>1, <6>1 DEF AncestorsWait, ErrorsClimb
        <5> QED
          BY <5>1, <5>2
      <4> HIDE DEF a, q
      <4>2. /\ pc[q] = "done"
            /\ res[q] # Ok => pc'[c] = "settle" /\ res'[c] # Ok
        BY <1>1, <2>1, <3>5, <4>1, JoinsLast DEF Moved
      <4>3. res[q] # Ok
        BY <3>1, <4>1, <4>2 DEF Erring
      <4>4. Erring(a)'
        BY <3>5, <4>2, <4>3 DEF Erring, a, Ancestor
      <4> QED
        BY <4>4 DEF a
    <3> QED
      BY <3>2, <3>3, <3>4, <3>5
  <2> QED
    BY <2>2, <2>3
<1>2. CASE \E new : Spawned(c, new)
  <2>1. PICK new : Spawned(c, new)
    BY <1>2
  <2>2. k \in Calls /\ pc[k] = "done" /\ res[k] # Ok
    BY <2>1 DEF Spawned
  <2>3. a \in Calls /\ (pc[a] = "children" \/ Erring(a))
    BY <2>2 DEF ErrorsClimb, AncestorsWait
  <2> QED
    BY <2>1, <2>3 DEF Spawned, Erring
<1> QED
  BY <1>1, <1>2, StepMoves, CallersSpawn

LEMMA FailureStep ==
  ASSUME TypeOK, CallsFormATree, FailureIsSomebodys, NEW c \in Calls, Step(c)
  PROVE  FailureIsSomebodys'
<1> SUFFICES ASSUME failure' # Ok
             PROVE  \E k \in Calls' : pc'[k] \in {"return", "done"} /\ res'[k] # Ok
  BY DEF FailureIsSomebodys
<1>1. /\ c \in Calls'
      /\ \A k \in Calls : k # c => k \in Calls' /\ pc'[k] = pc[k] /\ res'[k] = res[k]
  BY StepMoves, CallersSpawn DEF Moved, Spawned
<1>2. CASE failure # Ok
  <2>1. PICK k \in Calls : pc[k] \in {"return", "done"} /\ res[k] # Ok
    BY <1>2 DEF FailureIsSomebodys
  <2>2. CASE k # c
    BY <1>1, <2>1, <2>2
  <2>3. CASE k = c
    BY <1>1, <2>1, <2>3, ErringStays DEF Erring
  <2> QED
    BY <2>2, <2>3
<1>3. CASE failure = Ok
  <2>1. Settle(c)
    BY <1>3 DEF Step, EnterCancelled, EnterClaim, EnterWait, ShareOutcome, AbandonWait,
       CheckContext, TakeSlot, LeaveQueue, FailTransfer, RejectContent, FinishFetch,
       FinishPush, Return, JoinGroup, JoinInOrder, budgetVars
  <2>2. res[c] # Ok
    BY <1>3, <2>1, ErrorsDiffer DEF Settle, CloseTask, Record, Failures
  <2> QED
    BY <1>1, <2>1, <2>2, ErringStays DEF Settle, Erring
<1> QED
  BY <1>2, <1>3

-----------------------------------------------------------------------------
(* Where errors come from when no endpoint times out.                      *)

(* Nothing went wrong yet that is not about to be recorded.                *)
Clean ==
  /\ \A k \in Calls : group[k] = Ok /\ (res[k] # Ok => pc[k] = "settle" /\ res[k] \in Failures)
  /\ \A d \in Digests : Closed(d) => tasks[d] = Ok

LEMMA CleanGoto ==
  ASSUME TypeOK, Clean, NEW c \in Calls, NEW step, pc[c] # "settle", Goto(c, step)
  PROVE  \A k \in Calls' : group'[k] = Ok /\ (res'[k] # Ok => pc'[k] = "settle" /\ res'[k] \in Failures)
BY DEF Clean, Goto, TypeOK, Calls

LEMMA CleanGotoWith ==
  ASSUME TypeOK, Clean, NEW c \in Calls, NEW step, NEW err, GotoWith(c, step, err),
         err = Ok \/ (step = "settle" /\ err \in Failures)
  PROVE  \A k \in Calls' : group'[k] = Ok /\ (res'[k] # Ok => pc'[k] = "settle" /\ res'[k] \in Failures)
BY DEF Clean, GotoWith, TypeOK, Calls

LEMMA CleanStep ==
  ASSUME TypeOK, CallsFormATree, AncestorsWait, Clean, NEW c \in Calls, Step(c),
         MayTimeOut = {}, ~stopped, failure' = Ok, failure = Ok
  PROVE  Clean'
<1> DEFINE CallsClean == \A k \in Calls' :
             group'[k] = Ok /\ (res'[k] # Ok => pc'[k] = "settle" /\ res'[k] \in Failures)
<1>0. c \in Seq(Link) \ {<< >>} /\ Desc(c) \in Digests
  BY CallShape DEF TypeOK
<1>1. ~Cancelled(c)
  BY DEF Cancelled, Clean, AncestorsWait
<1>2. UNCHANGED tasks /\ CallsClean => Clean'
  BY DEF Clean, Closed
<1>3. Failed(Desc(c)) \in Failures
  BY <1>0, ErrorsDiffer
<1> HIDE DEF CallsClean
<1>4. CASE EnterCancelled(c) \/ AbandonWait(c) \/ LeaveQueue(c)
  BY <1>1, <1>4 DEF EnterCancelled, AbandonWait, LeaveQueue
<1>5. CASE EnterClaim(c)
  <2>1. CallsClean
    BY <1>3, <1>5, CleanGoto, CleanGotoWith DEF EnterClaim, CallsClean
  <2>2. \A d \in Digests : Closed(d)' => tasks'[d] = Ok
    BY <1>0, <1>5, ErrorsDiffer DEF EnterClaim, Claim, Closed, Clean, TypeOK, BudgetTypeOK
  <2> QED
    BY <2>1, <2>2 DEF Clean, CallsClean
<1>6. CASE EnterWait(c)
  BY <1>2, <1>6, CleanGoto DEF EnterWait, CallsClean, budgetVars
<1>7. CASE ShareOutcome(c)
  <2>1. GotoWith(c, "return", Ok) /\ UNCHANGED tasks
    BY <1>0, <1>7 DEF ShareOutcome, Clean, budgetVars
  <2> QED
    BY <1>2, <2>1, CleanGotoWith DEF CallsClean
<1>8. CASE CheckContext(c)
  BY <1>1, <1>2, <1>8, CleanGoto DEF CheckContext, CallsClean, budgetVars
<1>9. CASE TakeSlot(c)
  BY <1>2, <1>9, CleanGoto DEF TakeSlot, CallsClean
<1>10. CASE FailTransfer(c)
  <2>1. TransferErrors(c) \subseteq Failures
    BY <1>1, <1>3 DEF TransferErrors
  <2> QED
    BY <1>2, <1>10, <2>1, CleanGotoWith DEF FailTransfer, CallsClean
<1>11. CASE RejectContent(c)
  BY <1>2, <1>3, <1>11, CleanGotoWith DEF RejectContent, CallsClean
<1>12. CASE FinishPush(c)
  BY <1>2, <1>12, CleanGotoWith DEF FinishPush, CallsClean
<1>13. CASE Settle(c)
  <2>1. res[c] = Ok
    BY <1>13 DEF Settle, CloseTask, Record, Clean
  <2>2. CallsClean
    BY <1>13, <2>1 DEF Settle, Goto, Clean, CallsClean, TypeOK, Calls
  <2>3. \A d \in Digests : Closed(d)' => tasks'[d] = Ok
    BY <1>0, <1>13, <2>1 DEF Settle, CloseTask, Closed, Clean, TypeOK, BudgetTypeOK
  <2> QED
    BY <2>2, <2>3 DEF Clean, CallsClean
<1>14. CASE Return(c)
  <2>1. res[c] = Ok
    BY <1>14 DEF Return, Clean
  <2>2. CallsClean /\ UNCHANGED tasks
    BY <1>14, <2>1 DEF Return, Clean, CallsClean, TypeOK, Calls, budgetVars
  <2> QED
    BY <1>2, <2>2
<1>15. CASE JoinGroup(c)
  <2>1. Goto(c, "pushCheck") /\ UNCHANGED tasks /\ pc[c] # "settle"
    BY <1>15 DEF JoinGroup, Clean, budgetVars
  <2> QED
    BY <1>2, <2>1, CleanGoto DEF CallsClean
<1>16. CASE FinishFetch(c) /\ Width(c) = 0
  BY <1>2, <1>16, CleanGoto DEF FinishFetch, FanOut, CallsClean
<1>17. CASE \E new : Spawned(c, new)
  <2>1. CallsClean /\ UNCHANGED tasks
    BY <1>17 DEF Spawned, Clean, CallsClean
  <2> QED
    BY <1>2, <2>1
<1>18. CASE FinishFetch(c) /\ Width(c) # 0
  <2>1. FirstCall(c)
    BY <1>18 DEF FinishFetch, FanOut, FirstCall
  <2> QED
    BY <1>17, <2>1, CallersSpawn
<1>19. CASE JoinInOrder(c)
  <2>1. PICK i \in 1 .. Width(c) :
          /\ Kid(c, i) \in Calls
          /\ i < Width(c) => Kid(c, i + 1) \notin Calls
          /\ pc[Kid(c, i)] = "done"
          /\ IF res[Kid(c, i)] # Ok THEN GotoWith(c, "settle", res[Kid(c, i)])
             ELSE IF i < Width(c)   THEN Spawn(c, {Kid(c, i + 1)})
             ELSE Goto(c, "pushCheck")
    BY <1>19 DEF JoinInOrder
  <2>2. /\ pc[c] = "children" /\ Sequential(Width(c))
        /\ UNCHANGED <<tasks, failure, dst, stopped>>
    BY <1>19 DEF JoinInOrder, budgetVars
  <2>3. res[Kid(c, i)] = Ok
    BY <2>1 DEF Clean
  <2>4. CASE i < Width(c)
    <3>1. NextCall(c)
      BY <2>1, <2>2, <2>3, <2>4 DEF NextCall
    <3> QED
      BY <1>17, <3>1, CallersSpawn
  <2>5. CASE ~(i < Width(c))
    BY <1>2, <2>1, <2>2, <2>3, <2>5, CleanGoto DEF CallsClean
  <2> QED
    BY <2>4, <2>5
<1> QED
  BY <1>4, <1>5, <1>6, <1>7, <1>8, <1>9, <1>10, <1>11, <1>12, <1>13, <1>14,
     <1>15, <1>16, <1>18, <1>19 DEF Step

LEMMA CauseStep ==
  ASSUME TypeOK, CallsFormATree, AncestorsWait, ErrorsHaveCause, NEW c \in Calls, Step(c)
  PROVE  ErrorsHaveCause'
<1> SUFFICES ASSUME MayTimeOut = {}, ~stopped', failure' = Ok PROVE Clean'
  BY DEF ErrorsHaveCause, Clean
<1>1. ~stopped /\ failure = Ok
  <2>1. UNCHANGED stopped
    BY DEF Step, EnterCancelled, EnterClaim, EnterWait, ShareOutcome, AbandonWait,
       CheckContext, TakeSlot, LeaveQueue, FailTransfer, RejectContent, FinishFetch,
       FinishPush, Settle, Return, JoinGroup, JoinInOrder
  <2>2. failure = Ok \/ failure' = failure
    BY DEF Step, EnterCancelled, EnterClaim, EnterWait, ShareOutcome, AbandonWait,
       CheckContext, TakeSlot, LeaveQueue, FailTransfer, RejectContent, FinishFetch,
       FinishPush, Settle, CloseTask, Record, Return, JoinGroup, JoinInOrder, budgetVars
  <2> QED
    BY <2>1, <2>2
<1>2. Clean
  BY <1>1 DEF ErrorsHaveCause, Clean
<1> QED
  BY <1>1, <1>2, CleanStep

-----------------------------------------------------------------------------
(* Slots.                                                                  *)

(* A step changes the holders by at most the call that takes it.           *)
LEMMA HoldersStep ==
  ASSUME TypeOK, CallsFormATree, NEW c \in Calls, Step(c)
  PROVE  /\ pc'[c] \in Transferring => Holders' = Holders \cup {c}
         /\ pc'[c] \notin Transferring => Holders' = Holders \ {c}
<1>1. /\ c \in Calls'
      /\ \A k \in Calls : k # c => k \in Calls' /\ pc'[k] = pc[k]
      /\ \A k \in Calls' : k \in Calls \/ pc'[k] \notin Transferring
  BY StepMoves, CallersSpawn DEF Moved, Spawned, Transferring
<1> QED
  BY <1>1 DEF Holders

LEMMA SlotsStep ==
  ASSUME TypeOK, CallsFormATree, IsFiniteSet(Holders), SlotsAreTransfers,
         NEW c \in Calls, Step(c)
  PROVE  IsFiniteSet(Holders)' /\ SlotsAreTransfers'
<1>0. /\ Limit \in Nat /\ Limit >= 1 /\ slots \in 0 .. Limit
      /\ slots = Cardinality(Holders) /\ Cardinality(Holders) \in Nat
      /\ pc \in [Calls -> Steps]
  BY ConcurrencyIsPositive, FS_CardinalityType DEF SlotsAreTransfers, TypeOK
<1>1. CASE TakeSlot(c)
  <2>1. /\ c \notin Holders /\ pc'[c] \in Transferring
        /\ slots' = slots + 1 /\ slots < Limit
    BY <1>0, <1>1 DEF TakeSlot, AcquireSlot, HoldFor, Goto, Holders, Transferring
  <2>2. /\ IsFiniteSet(Holders \cup {c})
        /\ Cardinality(Holders \cup {c}) = Cardinality(Holders) + 1
    BY <2>1, FS_AddElement
  <2>3. Holders' = Holders \cup {c}
    BY <2>1, HoldersStep
  <2>4. slots' = Cardinality(Holders') /\ slots' \in 0 .. Limit
    BY <1>0, <2>1, <2>2, <2>3
  <2> QED
    BY <2>2, <2>3, <2>4 DEF SlotsAreTransfers, Limit
<1>2. CASE FailTransfer(c) \/ RejectContent(c) \/ FinishFetch(c) \/ FinishPush(c)
  <2>1. /\ c \in Holders /\ pc'[c] \notin Transferring
        /\ slots' = slots - 1
    BY <1>0, <1>2 DEF FailTransfer, RejectContent, FinishFetch, FanOut, Spawn, FinishPush,
       ReleaseSlot, Goto, GotoWith, Holders, Transferring, Calls
  <2>2. /\ IsFiniteSet(Holders \ {c})
        /\ Cardinality(Holders \ {c}) = Cardinality(Holders) - 1
    BY <2>1, FS_RemoveElement
  <2>3. Holders' = Holders \ {c}
    BY <2>1, HoldersStep
  <2>4. Cardinality(Holders \ {c}) \in Nat
    BY <2>2, FS_CardinalityType
  <2>5. slots' = Cardinality(Holders') /\ slots' \in 0 .. Limit
    BY <1>0, <2>1, <2>2, <2>3, <2>4
  <2> QED
    BY <2>2, <2>3, <2>5 DEF SlotsAreTransfers, Limit
<1>3. CASE UNCHANGED slots /\ pc[c] \notin Transferring /\ pc'[c] \notin Transferring
  <2>1. Holders' = Holders
    BY <1>3, HoldersStep DEF Holders
  <2> QED
    BY <1>3, <2>1 DEF SlotsAreTransfers, Limit
<1>4. CASE EnterCancelled(c) \/ EnterClaim(c) \/ EnterWait(c) \/ ShareOutcome(c)
           \/ AbandonWait(c) \/ CheckContext(c) \/ LeaveQueue(c)
  BY <1>0, <1>3, <1>4 DEF EnterCancelled, EnterClaim, EnterWait, ShareOutcome, AbandonWait,
     CheckContext, QueueFor, LeaveQueue, Goto, GotoWith, budgetVars, Transferring
<1>5. CASE Settle(c) \/ Return(c) \/ JoinGroup(c) \/ JoinInOrder(c)
  BY <1>0, <1>3, <1>5 DEF Settle, Return, JoinGroup, JoinInOrder, Goto, GotoWith, Spawn,
     budgetVars, Transferring, Calls
<1> QED
  BY <1>1, <1>2, <1>4, <1>5 DEF Step

-----------------------------------------------------------------------------
(* The invariant as a whole.                                               *)

EndInvariant == WalkInvariant /\ ReturnInvariant /\ IsFiniteSet(Holders) /\ SlotsAreTransfers

LEMMA EndInvariantAtFirst == Init => EndInvariant
<1> SUFFICES ASSUME Init PROVE EndInvariant
  OBVIOUS
<1>1. WalkInvariant
  BY InvariantAtFirst
<1>2. Calls = {RootCall} /\ pc[RootCall] = "copy" /\ Len(RootCall) = 1
  BY DEF Init, Calls, RootCall
<1>3. AncestorsWait /\ ErrorsClimb /\ FailureIsSomebodys
  <2>1. 1 .. Len(RootCall) - 1 = {}
    BY <1>2
  <2>2. \A k \in Calls : k = RootCall
    BY <1>2
  <2>3. AncestorsWait
    BY <1>2, <2>1, <2>2 DEF AncestorsWait
  <2>4. ErrorsClimb
    BY <1>2 DEF ErrorsClimb
  <2>5. FailureIsSomebodys
    BY DEF FailureIsSomebodys, Init, NewBudget
  <2> QED
    BY <2>3, <2>4, <2>5
<1>4. ErrorsHaveCause
  BY <1>2, ErrorsDiffer DEF ErrorsHaveCause, Init, NewBudget, Closed
<1>5. Holders = {} /\ IsFiniteSet(Holders) /\ SlotsAreTransfers
  <2>1. Holders = {}
    BY <1>2 DEF Holders, Transferring
  <2> QED
    BY <2>1, FS_EmptySet, ConcurrencyIsPositive DEF SlotsAreTransfers, Init, NewBudget
<1> QED
  BY <1>1, <1>3, <1>4, <1>5 DEF EndInvariant, ReturnInvariant

LEMMA EndInvariantKept == EndInvariant /\ [Next]_vars => EndInvariant'
<1> SUFFICES ASSUME EndInvariant, [Next]_vars PROVE EndInvariant'
  OBVIOUS
<1>1. WalkInvariant'
  BY InvariantKept DEF EndInvariant
<1>2. ASSUME NEW c \in Calls, Step(c) PROVE EndInvariant'
  BY <1>1, <1>2, AncestorsStep, ErrorsClimbStep, FailureStep, CauseStep, SlotsStep
     DEF EndInvariant, WalkInvariant, ReturnInvariant
<1>3. CASE UNCHANGED <<slots, tasks, failure, pc, res, group, dst>> /\ (stopped => stopped')
  <2>1. AncestorsWait' /\ ErrorsClimb' /\ FailureIsSomebodys' /\ ErrorsHaveCause'
    BY <1>3 DEF EndInvariant, ReturnInvariant, AncestorsWait, ErrorsClimb, Erring, Ancestor,
       FailureIsSomebodys, ErrorsHaveCause, Closed, Calls, Kids, Kid, Desc, RootCall
  <2>2. IsFiniteSet(Holders)' /\ SlotsAreTransfers'
    BY <1>3 DEF EndInvariant, SlotsAreTransfers, Holders, Calls, Limit
  <2> QED
    BY <1>1, <2>1, <2>2 DEF EndInvariant, ReturnInvariant
<1>4. CASE CallerCancels
  BY <1>3, <1>4 DEF CallerCancels, budgetVars
<1>5. CASE UNCHANGED vars
  BY <1>3, <1>5 DEF vars
<1> QED
  BY <1>2, <1>4, <1>5 DEF Next, Finished

LEMMA EndInvariantHolds == Spec => []EndInvariant
BY EndInvariantAtFirst, EndInvariantKept, PTL DEF Spec

-----------------------------------------------------------------------------
(* What the invariant says of a walk that is over.                         *)

LEMMA RootIsWalkedFirst ==
  ASSUME EndInvariant, NEW k \in Calls
  PROVE  k # RootCall => 1 \in 1 .. Len(k) - 1 /\ Ancestor(k, 1) = RootCall
<1>1. /\ k \in Seq(Link) \ {<< >>} /\ Len(k) \in Nat /\ Len(k) >= 1
      /\ k[1] = RootCall[1]
  BY CallShape DEF EndInvariant, WalkInvariant, TypeOK, ReturnInvariant, AncestorsWait
<1>2. [pos |-> 0, desc |-> Root] \in Link
  BY CopyAssumption DEF Link
<1>3. RootCall \in Seq(Link) \ {<< >>} /\ Len(RootCall) = 1
  BY <1>2 DEF RootCall
<1>4. Len(k) = 1 => k = RootCall
  BY ONLY <1>1, <1>3
<1>5. Ancestor(k, 1) = RootCall
  <2>1. 1 \in 1 .. Len(k)
    BY <1>1
  <2>2. /\ Ancestor(k, 1) \in Seq(Link) /\ Len(Ancestor(k, 1)) = 1
        /\ \A i \in 1 .. 1 : Ancestor(k, 1)[i] = k[i]
    BY <1>1, <2>1, AncestorShape
  <2>3. Ancestor(k, 1)[1] = k[1]
    BY <2>2
  <2> HIDE DEF RootCall
  <2> QED
    BY ONLY <1>1, <1>3, <2>2, <2>3
<1>6. Len(k) # 1 => 1 \in 1 .. Len(k) - 1
  <2> DEFINE m == Len(k)
  <2>1. m \in Nat /\ m >= 1
    BY <1>1
  <2> HIDE DEF m
  <2>2. m # 1 => 1 \in 1 .. m - 1
    BY <2>1
  <2> QED
    BY <2>2 DEF m
<1> QED
  BY <1>4, <1>5, <1>6

LEMMA AllDoneAtTheEnd ==
  ASSUME EndInvariant, Returned, NEW k \in Calls
  PROVE  pc[k] = "done"
<1>1. CASE k = RootCall
  BY <1>1 DEF Returned
<1>2. CASE k # RootCall
  BY <1>2, RootIsWalkedFirst DEF Returned, EndInvariant, ReturnInvariant, AncestorsWait
<1> QED
  BY <1>1, <1>2

(* Callers wait for what they called, an error fails everyone above it,    *)
(* and the recorded failure is the error of a call, for every graph and    *)
(* every behaviour of the endpoints.                                       *)
THEOREM EndsWell == Spec => []ReturnInvariant
<1>1. EndInvariant => ReturnInvariant
  BY DEF EndInvariant
<1> QED
  BY <1>1, EndInvariantHolds, PTL

(* A slot is held exactly while a request is in flight, and never more     *)
(* than the limit are: none leaks and none is returned twice.              *)
THEOREM SlotsCount == Spec => []SlotsAreTransfers
<1>1. EndInvariant => SlotsAreTransfers
  BY DEF EndInvariant
<1> QED
  BY <1>1, EndInvariantHolds, PTL

(* When Copy returns, no goroutine of it runs, no slot is taken, and no    *)
(* digest is left claimed: the layout's lock may be released.              *)
THEOREM NothingRunsOn == Spec => []NothingLeftRunning
<1>1. EndInvariant => NothingLeftRunning
  <2> SUFFICES ASSUME EndInvariant, Returned
               PROVE  /\ \A c \in Calls : pc[c] = "done"
                      /\ slots = 0
                      /\ \A d \in Digests : tasks[d] # Claimed
    BY DEF NothingLeftRunning
  <2>1. \A c \in Calls : pc[c] = "done"
    BY AllDoneAtTheEnd
  <2>2. Holders = {}
    BY <2>1 DEF Holders, Transferring
  <2>3. slots = 0
    BY <2>2, FS_EmptySet DEF EndInvariant, SlotsAreTransfers
  <2>4. \A d \in Digests : Owners(d) = {}
    BY <2>1 DEF Owners, Owning
  <2>5. \A d \in Digests : tasks[d] # Claimed
    BY <2>4 DEF EndInvariant, WalkInvariant, OneOwnerPerDigest
  <2> QED
    BY <2>1, <2>3, <2>5
<1> QED
  BY <1>1, EndInvariantHolds, PTL

(* The loop check of walk never fires, whatever graph the source           *)
(* describes: whoever is on its own path has found the digest claimed.     *)
THEOREM LoopsAreNotWalked == Spec => []LoopCheckIsDead
<1>1. EndInvariant => LoopCheckIsDead
  <2> SUFFICES ASSUME EndInvariant, NEW c \in Calls, OnPath(c), pc[c] \in Owning
               PROVE  FALSE
    BY DEF LoopCheckIsDead, EndInvariant, WalkInvariant, TypeOK, Steps, Owning
  <2>1. PICK n \in 1 .. Len(c) - 1 : c[n].desc = Desc(c)
    BY DEF OnPath
  <2>2. /\ c \in Seq(Link) \ {<< >>} /\ Desc(c) \in Digests
    BY CallShape DEF EndInvariant, WalkInvariant, TypeOK
  <2>3. Ancestor(c, n) # c /\ Desc(Ancestor(c, n)) = Desc(c)
    BY <2>1, <2>2, AncestorsAreShorter, AncestorShape
  <2>4. Ancestor(c, n) \in Calls /\ pc[Ancestor(c, n)] = "children"
    BY DEF EndInvariant, ReturnInvariant, AncestorsWait, Owning
  <2>5. c \in Owners(Desc(c)) /\ Ancestor(c, n) \in Owners(Desc(c))
    BY <2>3, <2>4 DEF Owners, Owning
  <2> QED
    BY <2>2, <2>3, <2>5 DEF EndInvariant, WalkInvariant, OneOwnerPerDigest
<1> QED
  BY <1>1, EndInvariantHolds, PTL

(* Unless an endpoint times out, a copy the caller did not cancel names a  *)
(* genuine failure or succeeds, and one that saw a failure reports it.     *)
THEOREM FailuresAreReported == MayTimeOut = {} => (Spec => []ReportsTheFailure)
<1> SUFFICES ASSUME MayTimeOut = {} PROVE Spec => []ReportsTheFailure
  OBVIOUS
<1>1. EndInvariant => ReportsTheFailure
  <2> SUFFICES ASSUME EndInvariant, Returned
               PROVE  /\ Report = Canceled => stopped
                      /\ Report = Ok <=> res[RootCall] = Ok
                      /\ failure # Ok => Report = failure
    BY DEF ReportsTheFailure
  <2>0. failure \in {Ok} \cup Failures /\ Canceled \notin Failures
    BY DEF EndInvariant, WalkInvariant, TypeOK, BudgetTypeOK, Failures, Failed, Canceled
  <2>1. Report = Ok <=> res[RootCall] = Ok
    BY DEF Report, Cause
  <2>2. failure # Ok => res[RootCall] # Ok
    <3> SUFFICES ASSUME failure # Ok PROVE res[RootCall] # Ok
      OBVIOUS
    <3>1. PICK k \in Calls : res[k] # Ok
      BY DEF EndInvariant, ReturnInvariant, FailureIsSomebodys
    <3>2. CASE k = RootCall
      BY <3>1, <3>2
    <3>3. CASE k # RootCall
      BY <3>1, <3>3, RootIsWalkedFirst, AllDoneAtTheEnd
         DEF EndInvariant, ReturnInvariant, ErrorsClimb, Erring, Returned
    <3> QED
      BY <3>2, <3>3
  <2>3. failure # Ok => Report = failure
    BY <2>2 DEF Report, Cause
  <2>4. ASSUME Report = Canceled PROVE stopped
    <3>1. failure = Ok /\ res[RootCall] # Ok
      BY <2>0, <2>1, <2>3, <2>4, ErrorsDiffer
    <3>2. FailureIsSomebodys /\ ErrorsHaveCause
      BY DEF EndInvariant, ReturnInvariant
    <3>3. RootCall \in Calls
      BY DEF EndInvariant, ReturnInvariant, AncestorsWait
    <3> QED
      BY <3>1, <3>2, <3>3 DEF ErrorsHaveCause, Returned
  <2> QED
    BY <2>1, <2>3, <2>4
<1> QED
  BY <1>1, EndInvariantHolds, PTL
-----------------------------------------------------------------------------

(* The error the root call returns is reported as an error.                *)
LEMMA ReportIsOkay == Report = Ok <=> res[RootCall] = Ok
BY DEF Report, Cause

LEMMA OutcomesDiffer ==
  /\ Outcome = "running" <=> ~Returned
  /\ Returned => Outcome = IF res[RootCall] = Ok THEN "ok" ELSE "failed"
BY ReportIsOkay DEF Outcome

(* What landed lands on top of what it refers to, while the copy runs.     *)
LEMMA PushLands ==
  ASSUME EndInvariant, NEW c \in Calls, FinishPush(c)
  PROVE  Promise!Next
<1>1. /\ Desc(c) \in Digests /\ RootCall \in Calls
      /\ TypeOK /\ SettledIsComplete /\ AncestorsWait
  BY CallShape DEF EndInvariant, WalkInvariant, TypeOK, ReturnInvariant, AncestorsWait
<1>2. SubtreeSettled(c)
  BY DEF EndInvariant, WalkInvariant, CallsRelyOnOutcomes, ReliesOnOutcomes, Pushing, FinishPush
<1>3. References(Desc(c)) \subseteq dst
  BY <1>1, <1>2, ReferencesAreDigests DEF SubtreeSettled, SettledIsComplete
<1>4. ~Returned /\ ~Returned'
  <2>1. ~Returned
    BY AllDoneAtTheEnd DEF FinishPush
  <2>2. pc'[RootCall] # "done"
    BY <1>1, <2>1 DEF FinishPush, GotoWith, Returned, TypeOK, Calls
  <2> QED
    BY <2>1, <2>2 DEF Returned
<1>5. Outcome = "running" /\ Outcome' = "running"
  BY <1>4, OutcomesDiffer DEF Outcome
<1>6. dst' = dst \cup {Desc(c)}
  BY DEF FinishPush
<1>7. Promise!Land(Desc(c))
  BY <1>3, <1>5, <1>6 DEF Promise!Land, Promise!References, References
<1> QED
  BY <1>1, <1>7 DEF Promise!Next

(* A walk that ends without error ends over a complete artifact: what was  *)
(* settled without error is closed under references.                       *)
LEMMA SettledRootIsComplete ==
  ASSUME EndInvariant, tasks[Root] = Ok
  PROVE  Promise!Complete(dst)
<1> DEFINE part == {d \in Digests : tasks[d] = Ok}
<1>1. SettledIsComplete /\ Root \in Digests
  BY CopyAssumption DEF EndInvariant, WalkInvariant
<1>2. part \in SUBSET dst /\ Root \in part
  BY <1>1 DEF SettledIsComplete
<1>3. \A d \in part : References(d) \subseteq part
  BY <1>1, ReferencesAreDigests DEF SettledIsComplete
<1> HIDE DEF part
<1> QED
  BY <1>2, <1>3 DEF Promise!Complete, Promise!References, References

LEMMA RootReturns ==
  ASSUME EndInvariant, Return(RootCall), RootCall \in Calls
  PROVE  Promise!Next
<1>1. /\ TypeOK /\ pc[RootCall] = "return" /\ pc'[RootCall] = "done"
      /\ UNCHANGED <<dst, res, tasks>>
  BY DEF Return, EndInvariant, WalkInvariant, TypeOK, budgetVars
<1>2. Outcome = "running"
  BY <1>1, OutcomesDiffer DEF Returned
<1>3. Outcome' = IF res[RootCall] = Ok THEN "ok" ELSE "failed"
  BY <1>1 DEF Outcome, Returned, Report, Cause
<1>4. CASE res[RootCall] = Ok
  <2>1. Desc(RootCall) = Root
    BY DEF RootCall, Desc
  <2>2. tasks[Root] = Ok
    BY <1>1, <1>4, <2>1 DEF EndInvariant, WalkInvariant, CallsRelyOnOutcomes, ReliesOnOutcomes
  <2>3. Promise!Succeed
    BY <1>1, <1>2, <1>3, <1>4, <2>2, SettledRootIsComplete DEF Promise!Succeed
  <2> QED
    BY <2>3 DEF Promise!Next
<1>5. CASE res[RootCall] # Ok
  <2>1. Promise!Fail
    BY <1>1, <1>2, <1>3, <1>5 DEF Promise!Fail
  <2> QED
    BY <2>1 DEF Promise!Next
<1> QED
  BY <1>4, <1>5

(* Every other step changes nothing the caller sees.                       *)
LEMMA OthersStutter ==
  ASSUME EndInvariant, NEW c \in Calls, Step(c),
         ~FinishPush(c), ~(c = RootCall /\ Return(c))
  PROVE  UNCHANGED <<dst, Outcome>>
<1>0. TypeOK /\ RootCall \in Calls /\ CallsFormATree
  BY DEF EndInvariant, WalkInvariant, ReturnInvariant, AncestorsWait
<1>1. dst' = dst
  BY DEF Step, EnterCancelled, EnterClaim, EnterWait, ShareOutcome, AbandonWait,
     CheckContext, TakeSlot, LeaveQueue, FailTransfer, RejectContent, FinishFetch,
     Settle, Return, JoinGroup, JoinInOrder
<1>2. pc[c] # "done"
  BY StepMoves, <1>0 DEF Moved, FirstCall, NextCall
<1>3. ~Returned
  BY <1>2, AllDoneAtTheEnd
<1>4. pc'[RootCall] # "done"
  <2>1. CASE c # RootCall
    BY <1>0, <1>3, <2>1, StepMoves, CallersSpawn DEF Moved, Spawned, Returned
  <2>2. CASE c = RootCall
    BY <1>0, <2>2, StepMoves, CallersSpawn DEF Moved, Spawned
  <2> QED
    BY <2>1, <2>2
<1> QED
  BY <1>1, <1>3, <1>4 DEF Outcome, Returned

(* The walk implements what Copy promises.                                 *)
THEOREM CopyKeepsItsPromise == Spec => ImplementsTransfer
<1>1. Init => Promise!Init
  <2> SUFFICES ASSUME Init PROVE Promise!Init
    OBVIOUS
  <2>1. pc[RootCall] = "copy"
    BY DEF Init
  <2>2. Outcome = "running"
    BY <2>1, OutcomesDiffer DEF Returned
  <2> QED
    BY <2>2 DEF Init, Promise!Init
<1>2. EndInvariant /\ [Next]_vars => [Promise!Next]_(Promise!vars)
  <2> SUFFICES ASSUME EndInvariant, [Next]_vars
               PROVE  Promise!Next \/ UNCHANGED <<dst, Outcome>>
    BY DEF Promise!vars
  <2>1. ASSUME NEW c \in Calls, Step(c)
        PROVE  Promise!Next \/ UNCHANGED <<dst, Outcome>>
    BY <2>1, PushLands, RootReturns, OthersStutter
  <2>2. CASE UNCHANGED <<failure, pc, res, dst>>
    BY <2>2 DEF Outcome, Returned, Report, Cause
  <2>3. CASE CallerCancels
    BY <2>2, <2>3 DEF CallerCancels, budgetVars
  <2>4. CASE UNCHANGED vars
    BY <2>2, <2>4 DEF vars
  <2> QED
    BY <2>1, <2>3, <2>4 DEF Next, Finished
<1> QED
  BY <1>1, <1>2, EndInvariantHolds, PTL DEF Spec, ImplementsTransfer, Promise!Spec
=============================================================================

------------------------------- MODULE Budget -------------------------------
(***************************************************************************)
(* The concurrency budget of one operation, internal/parallel/budget.go:   *)
(* the slots that cap the transfers in flight, the digests already         *)
(* claimed, and the first genuine failure.  The module holds the budget's  *)
(* state and one operator per critical section of its methods; the walks   *)
(* that use it (CopyWalk) decide when the operators are taken.             *)
(* A definition marked as a slip stands for a bug in the code of the one   *)
(* below it; no specification uses it, it is what the properties catch.    *)
(***************************************************************************)
EXTENDS Integers

CONSTANTS Digests,      \* the keys work is claimed under
          Concurrency   \* what the caller passed as -j; may be zero or less

VARIABLES slots,        \* how many tokens are in the channel b.slots
          tasks,        \* b.tasks: who was claimed, and the outcome once done
          failure       \* b.failure, Ok while nothing genuine was recorded

ASSUME ConcurrencyAssumption == Concurrency \in Int

-----------------------------------------------------------------------------
(* Errors, as far as the code tells them apart with errors.Is.              *)

Ok               == <<"ok">>
Canceled         == <<"context.Canceled">>
DeadlineExceeded == <<"context.DeadlineExceeded">>
Failed(d)        == <<"failed", d>>

ContextErrors == {Canceled, DeadlineExceeded}
Failures      == {Failed(d) : d \in Digests}
Errors        == {Ok} \cup ContextErrors \cup Failures

(* A task is free, claimed, or done with the error its waiters share.       *)
Unclaimed == <<"unclaimed">>
Claimed   == <<"claimed">>

-----------------------------------------------------------------------------
BudgetTypeOK == /\ slots \in Int
                /\ tasks \in [Digests -> {Unclaimed, Claimed} \cup Errors]
                /\ failure \in {Ok} \cup Failures

(* NewBudget clamps the limit, so that the channel never has no capacity.   *)
Limit == IF Concurrency < 1 THEN 1 ELSE Concurrency

NewBudget == /\ slots = 0
             /\ tasks = [d \in Digests |-> Unclaimed]
             /\ failure = Ok

(* Each runs n calls in order, in the caller's goroutine and under the      *)
(* caller's context, or fans them out under an errgroup.                    *)
Sequential(n) == Limit < 2 \/ n < 2

(* The two sides of the channel in Slot.                                    *)
AcquireSlot == /\ slots < Limit
               /\ slots' = slots + 1
LeakSlot == slots' = slots                  \* slip: a return without the defer
ReleaseSlot == slots' = slots - 1

(* Once: whoever finds the key free owns it; the others find a task.        *)
FoundClosed(d) == tasks[d] \in Errors       \* slip: stored when done, not when begun
Found(d) == tasks[d] # Unclaimed
Claim(d) == tasks' = [tasks EXCEPT ![d] = Claimed]

(* The channel `done` of a task is closed exactly when it has an outcome.   *)
Closed(d) == tasks[d] \in Errors

(* Record keeps the first error that is not a context error.                *)
Record(f, err) == IF err \in Failures /\ f = Ok THEN err ELSE f

(* The end of Once: the outcome is recorded, stored and published.          *)
CloseOnSuccess(d, err) ==                   \* slip: an error return before close(done)
  /\ tasks' = IF err = Ok THEN [tasks EXCEPT ![d] = err] ELSE tasks
  /\ failure' = Record(failure, err)
CloseTask(d, err) == /\ tasks' = [tasks EXCEPT ![d] = err]
                     /\ failure' = Record(failure, err)

(* Cause: what the operation reports when its walk ended in err.            *)
WalkError(err) == err                       \* slip: Copy returns what copy returned
Cause(err) == IF err # Ok /\ failure # Ok THEN failure ELSE err

budgetVars == <<slots, tasks, failure>>
=============================================================================

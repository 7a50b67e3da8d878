------------------------------ MODULE Transfer ------------------------------
(***************************************************************************)
(* What registry.Copy promises its caller (the comment on Copy,            *)
(* pkg/registry/copy.go:52-66), with no budget, no walk and no goroutines: *)
(* content lands in the destination one digest at a time and only on top   *)
(* of what it refers to, the call succeeds only over a complete artifact,  *)
(* what landed stays, and after the call is over nothing lands any more.   *)
(***************************************************************************)
EXTENDS Naturals, Sequences

CONSTANTS Digests, Root, Children

VARIABLES dst,      \* the digests the destination holds
          outcome   \* "running", then "ok" or "failed"

vars == <<dst, outcome>>

References(d) == {Children[d][i] : i \in 1 .. Len(Children[d])}

(* Root and everything reachable from it is there: some part of the        *)
(* destination holds Root and is closed under references.                  *)
Complete(held) ==
  \E part \in SUBSET held :
    Root \in part /\ \A d \in part : References(d) \subseteq part

Init == dst \in SUBSET Digests /\ outcome = "running"

Land(d) == /\ outcome = "running"
           /\ References(d) \subseteq dst
           /\ dst' = dst \cup {d}
           /\ UNCHANGED outcome

Succeed == /\ outcome = "running"
           /\ Complete(dst)
           /\ outcome' = "ok"
           /\ UNCHANGED dst

Fail == /\ outcome = "running"
        /\ outcome' = "failed"
        /\ UNCHANGED dst

Next == (\E d \in Digests : Land(d)) \/ Succeed \/ Fail

Spec == Init /\ [][Next]_vars
=============================================================================

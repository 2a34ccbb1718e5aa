--------------------------- MODULE PlanRefinement ---------------------------
(***************************************************************************)
(* The durable store, with all its racing handlers, implements the promised   *)
(* history.                                                                  *)
(***************************************************************************)
EXTENDS PlanSafety

(***************************************************************************)
(* The store implements the promised history: its revisions in number order, *)
(* the numbers of its approvals and the number of its baseline.               *)
(***************************************************************************)
NumberOf(r) == IF r = NULL THEN 0 ELSE revisions[r].number

At(n) == CHOOSE r \in Stored : revisions[r].number = n

Promise == INSTANCE PlanHistory WITH
  history <- [n \in 1 .. NumberOf(head) |->
                [content |-> revisions[At(n)].content,
                 locked  |-> revisions[At(n)].locked,
                 sem     |-> revisions[At(n)].sem,
                 note    |-> revisions[At(n)].note]],
  frozen  <- {revisions[r].number : r \in {a \in Stored : approvals[a] # NULL}},
  base    <- NumberOf(baseline)

KeepsPromise == Promise!HistorySpec

=============================================================================

----------------------------- MODULE PlanStore -----------------------------
(***************************************************************************)
(* The durable project: two pointers and two append-only tables, written     *)
(* only by the two checked procedures.  A procedure runs in one transaction  *)
(* that holds the project row, so each is one atomic step.  Every actor has   *)
(* a role the procedure accepts; membership is not modelled.                 *)
(***************************************************************************)
EXTENDS PlanWorkspace

VARIABLES
  head,        (* acs_projects.head_revision_id                            *)
  baseline,    (* acs_projects.baseline_revision_id                        *)
  revisions,   (* acs_plan_revisions, NULL where there is no row           *)
  approvals    (* acs_plan_approvals, NULL where there is no row           *)

storeVars == <<head, baseline, revisions, approvals>>

StoreTypeOK ==
  /\ head \in RevIds \cup {NULL}
  /\ baseline \in RevIds \cup {NULL}
  /\ revisions \in [RevIds -> Rows \cup {NULL}]
  /\ approvals \in [RevIds -> Receipts \cup {NULL}]

StoreInit ==
  /\ head = NULL
  /\ baseline = NULL
  /\ revisions = [r \in RevIds |-> NULL]
  /\ approvals = [r \in RevIds |-> NULL]

Stored == {r \in RevIds : revisions[r] # NULL}

Snapshot == [head |-> head, baseline |-> baseline,
             revs |-> revisions, apps |-> approvals]

-----------------------------------------------------------------------------
(* The insert keeps the rows it finds: a revision id or a number already     *)
(* taken in the project is a unique violation.                               *)

PreviousNumber(expected) ==
  IF expected = NULL THEN 0 ELSE revisions[expected].number

(* Slip: the draft is trusted to know its own parent and number.           *)
SaveRevisionOutcomeByParent(expected, rid, row) ==
  IF row.parent # expected THEN "INVALID_REVISION_CHAIN"
  ELSE IF revisions[rid] # NULL THEN "REVISION_EXISTS"
  ELSE "OK"

SaveRevisionOutcome(expected, rid, row) ==
  IF head # expected THEN "STALE_REVISION"
  ELSE IF \/ row.parent # expected
          \/ expected # NULL /\ revisions[expected] = NULL
          \/ row.number # PreviousNumber(expected) + 1
       THEN "INVALID_REVISION_CHAIN"
  ELSE IF \/ revisions[rid] # NULL
          \/ \E r \in Stored : revisions[r].number = row.number
       THEN "REVISION_EXISTS"
  ELSE "OK"

(* Slip: the newest revision becomes the baseline.                         *)
CommitRevisionAsBaseline(rid, row) ==
  /\ revisions' = [revisions EXCEPT ![rid] = row]
  /\ head' = rid
  /\ baseline' = rid
  /\ UNCHANGED approvals

(* Slip: parent and child share one lock list.                             *)
CommitRevisionSharingLocks(rid, row) ==
  /\ revisions' = [r \in RevIds |->
                     IF r = rid THEN row
                     ELSE IF r = row.parent
                     THEN [revisions[r] EXCEPT !.locked = row.locked]
                     ELSE revisions[r]]
  /\ head' = rid
  /\ UNCHANGED <<baseline, approvals>>

CommitRevision(rid, row) ==
  /\ revisions' = [revisions EXCEPT ![rid] = row]
  /\ head' = rid
  /\ UNCHANGED <<baseline, approvals>>

(* Slip: the receipt is checked, the head is not.                          *)
SaveApprovalOutcomeOfAny(expected, receipt) ==
  IF revisions[receipt.rid] = NULL THEN "REVISION_NOT_FOUND"
  ELSE IF receipt # Receipt(receipt.rid, revisions[receipt.rid])
       THEN "APPROVAL_RECEIPT_CHANGED"
  ELSE IF approvals[receipt.rid] # NULL THEN "APPROVAL_EXISTS"
  ELSE "OK"

SaveApprovalOutcome(expected, receipt) ==
  IF head # expected \/ receipt.rid # expected THEN "STALE_REVISION"
  ELSE IF revisions[receipt.rid] = NULL THEN "REVISION_NOT_FOUND"
  ELSE IF receipt # Receipt(receipt.rid, revisions[receipt.rid])
       THEN "APPROVAL_RECEIPT_CHANGED"
  ELSE IF approvals[receipt.rid] # NULL THEN "APPROVAL_EXISTS"
  ELSE "OK"

(* Slip: the receipt is inserted, the baseline pointer stays.              *)
CommitApprovalOnly(receipt) ==
  /\ approvals' = [approvals EXCEPT ![receipt.rid] = receipt]
  /\ UNCHANGED <<head, baseline, revisions>>

CommitApproval(receipt) ==
  /\ approvals' = [approvals EXCEPT ![receipt.rid] = receipt]
  /\ baseline' = receipt.rid
  /\ UNCHANGED <<head, revisions>>

=============================================================================

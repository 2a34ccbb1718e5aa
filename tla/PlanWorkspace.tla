--------------------------- MODULE PlanWorkspace ---------------------------
(***************************************************************************)
(* The process-local plan workspace: the lock-bound facade together with    *)
(* the revision aggregate it wraps, as operators on one workspace record.    *)
(* Each command is an outcome (an error code, or "OK") and, for "OK", the    *)
(* workspace it leaves.  The workspace is rebuilt from a store snapshot for  *)
(* every command, so its shape is the shape of a snapshot.                   *)
(***************************************************************************)
EXTENDS PlanContent

Workspaces == [head     : RevIds \cup {NULL},
               baseline : RevIds \cup {NULL},
               revs     : [RevIds -> Rows \cup {NULL}],
               apps     : [RevIds -> Receipts \cup {NULL}]]

StoredIn(w) == {r \in RevIds : w.revs[r] # NULL}

HeadRow(w) == w.revs[w.head]

-----------------------------------------------------------------------------
(* Reconstruction of a persisted project: one outcome for the checks in the *)
(* order in which the loader makes them.                                    *)

SingleChain(w) ==
  \A r \in StoredIn(w) :
    /\ w.revs[r].number \in 1 .. Cardinality(StoredIn(w))
    /\ \A s \in StoredIn(w) : w.revs[s].number = w.revs[r].number => s = r
    /\ IF w.revs[r].number = 1
       THEN w.revs[r].parent = NULL
       ELSE \E p \in StoredIn(w) :
              /\ w.revs[r].parent = p
              /\ w.revs[p].number + 1 = w.revs[r].number

LocksWellFormed(w) ==
  \A r \in StoredIn(w) :
    /\ w.revs[r].locked \subseteq PresentRooms(w.revs[r].content)
    /\ w.revs[r].sem # NULL =>
         VerifyManifest(w.revs[r].content, w.revs[r].content, w.revs[r].sem)

(* Slip: any stored revision is taken for the head.                        *)
HeadIsStored(w) == IF StoredIn(w) = {} THEN w.head = NULL ELSE w.head \in StoredIn(w)

HeadIsLast(w) ==
  IF StoredIn(w) = {} THEN w.head = NULL
  ELSE /\ w.head \in StoredIn(w)
       /\ \A r \in StoredIn(w) : w.revs[r].number <= w.revs[w.head].number

ApprovalsMatch(w) ==
  \A r \in RevIds : w.apps[r] # NULL =>
    /\ r \in StoredIn(w)
    /\ w.apps[r] = Receipt(r, w.revs[r])

LoadOutcome(w) ==
  IF Cardinality(StoredIn(w)) > MaxRevisions THEN "HISTORY_LIMIT"
  ELSE IF ~ (SingleChain(w) /\ LocksWellFormed(w)) THEN "INVALID_REVISION_CHAIN"
  ELSE IF ~ HeadIsLast(w) THEN "STORED_PROJECT_TAMPERED"
  ELSE IF ~ ApprovalsMatch(w) THEN "STORED_APPROVAL_TAMPERED"
  ELSE IF w.baseline # NULL /\ w.apps[w.baseline] = NULL
       THEN "STORED_PROJECT_TAMPERED"
  ELSE "OK"

-----------------------------------------------------------------------------
(* Admission of a new draft: the facade checks the inherited semantic locks *)
(* before the aggregate checks the history limit and the room locks.        *)

SemanticLocksAllow(w, content) ==
  (w.head # NULL /\ HeadRow(w).sem # NULL) =>
    VerifyManifest(HeadRow(w).content, content, HeadRow(w).sem)

RoomLocksAllow(w, content) ==
  w.head # NULL => RoomLocksHold(HeadRow(w).content, content, HeadRow(w).locked)

HistoryFull(w) == Cardinality(StoredIn(w)) >= MaxRevisions

(* Slip: the expected head is left to the store to test.                   *)
ProposeOutcomeOnAnyHead(w, expected, content) ==
  IF ~ SemanticLocksAllow(w, content) \/ ~ RoomLocksAllow(w, content)
  THEN "LOCK_VIOLATION"
  ELSE IF HistoryFull(w) THEN "HISTORY_LIMIT"
  ELSE "OK"

ProposeOutcome(w, expected, content) ==
  IF expected # w.head THEN "STALE_REVISION"
  ELSE IF ~ SemanticLocksAllow(w, content) THEN "LOCK_VIOLATION"
  ELSE IF HistoryFull(w) THEN "HISTORY_LIMIT"
  ELSE IF ~ RoomLocksAllow(w, content) THEN "LOCK_VIOLATION"
  ELSE "OK"

(* The draft inherits room locks and re-captures the semantic manifest.     *)
DraftRow(w, content, note) ==
  [number  |-> Cardinality(StoredIn(w)) + 1,
   parent  |-> w.head,
   content |-> content,
   locked  |-> IF w.head = NULL THEN {} ELSE HeadRow(w).locked,
   sem     |-> IF w.head = NULL THEN NULL ELSE Rebind(HeadRow(w).sem, content),
   note    |-> note]

WithDraft(w, rid, row) ==
  [w EXCEPT !.revs = [w.revs EXCEPT ![rid] = row], !.head = rid]

-----------------------------------------------------------------------------
(* The other writing commands, all admitted through the same door.          *)

RoomLockOutcome(w, expected, room) ==
  IF expected # w.head THEN "STALE_REVISION"
  ELSE IF room \notin PresentRooms(HeadRow(w).content) THEN "ROOM_NOT_FOUND"
  ELSE IF HistoryFull(w) THEN "HISTORY_LIMIT"
  ELSE "OK"

RoomLockRow(w, room, on) ==
  [DraftRow(w, HeadRow(w).content, IF on THEN "lock" ELSE "unlock")
     EXCEPT !.locked = IF on THEN @ \cup {room} ELSE @ \ {room}]

SelectorsOutcome(w, expected, selectors) ==
  IF expected # w.head THEN "STALE_REVISION"
  ELSE IF \E s \in selectors : ~ Resolvable(HeadRow(w).content, s)
       THEN "LOCK_TARGET_NOT_FOUND"
  ELSE IF HistoryFull(w) THEN "HISTORY_LIMIT"
  ELSE "OK"

SelectorsRow(w, selectors) ==
  [DraftRow(w, HeadRow(w).content, "selectors")
     EXCEPT !.sem = IF selectors = {} THEN NULL
                    ELSE BuildManifest(HeadRow(w).content, selectors)]

(* Slip: a plan that was valid once is not admitted again.                 *)
RestoreOutcomeUnguarded(w, expected, source) ==
  IF expected # w.head THEN "STALE_REVISION"
  ELSE IF source \notin StoredIn(w) THEN "REVISION_NOT_FOUND"
  ELSE IF source = w.head THEN "RESTORE_NOT_NEEDED"
  ELSE IF HistoryFull(w) THEN "HISTORY_LIMIT"
  ELSE "OK"

RestoreOutcome(w, expected, source) ==
  IF expected # w.head THEN "STALE_REVISION"
  ELSE IF source \notin StoredIn(w) THEN "REVISION_NOT_FOUND"
  ELSE IF source = w.head THEN "RESTORE_NOT_NEEDED"
  ELSE ProposeOutcome(w, expected, w.revs[source].content)

-----------------------------------------------------------------------------
(* Approval.  verified is what the injected geometry verifier answered: it   *)
(* may be unavailable, and then nothing can be approved.                    *)

(* Slip: the geometry verifier is asked, the review gates are not.         *)
CanApproveUnreviewed(row, verified) == verified

CanApprove(row, verified) == verified /\ row.content \in Approvable

ApproveOutcome(w, expected, verified) ==
  IF expected = NULL \/ expected # w.head THEN "STALE_REVISION"
  ELSE IF ~ CanApprove(HeadRow(w), verified) THEN "PLAN_NOT_READY"
  ELSE "OK"

(* An earlier receipt of the same revision is kept; the baseline moves.      *)
Approved(w) ==
  [w EXCEPT !.apps = [w.apps EXCEPT ![w.head] =
                        IF @ # NULL THEN @ ELSE Receipt(w.head, HeadRow(w))],
            !.baseline = w.head]

=============================================================================

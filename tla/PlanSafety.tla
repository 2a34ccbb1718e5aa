----------------------------- MODULE PlanSafety -----------------------------
(***************************************************************************)
(* The properties of concurrent plan requests.                               *)
(***************************************************************************)
EXTENDS PlanClients

(***************************************************************************)
(* The stored revisions are one chain, numbered without gaps from 1, whose   *)
(* last element is the head: no fork and no lost update, whatever handlers    *)
(* race or crash (the expected-head test of the save procedure).             *)
(***************************************************************************)
OneChain ==
  /\ (head = NULL) <=> (Stored = {})
  /\ head # NULL => head \in Stored
  /\ \A r \in Stored :
       /\ revisions[r].number <= revisions[head].number
       /\ \A s \in Stored : revisions[s].number = revisions[r].number => s = r
       /\ IF revisions[r].parent = NULL
          THEN revisions[r].number = 1
          ELSE /\ revisions[r].parent \in Stored
               /\ revisions[revisions[r].parent].number + 1 = revisions[r].number

(***************************************************************************)
(* A locked room and a semantically locked element are the same in a         *)
(* revision as in its parent, and a lock disappears only by the command that  *)
(* removes it, although every command works on a private copy of the project  *)
(* and a provider proposed the content (admission in propose, manifests        *)
(* rebound to the child, one writer per head).                               *)
(***************************************************************************)
LocksHonoured ==
  \A r \in Stored : revisions[r].parent # NULL =>
    Honours(revisions[revisions[r].parent], revisions[r])

(***************************************************************************)
(* A receipt describes exactly the stored revision it names, that revision   *)
(* passed the review, and the baseline has a receipt: what was approved can    *)
(* not be swapped for something else (approve, the receipt check of the save   *)
(* procedure, and the handoff).                                              *)
(***************************************************************************)
ApprovalBindsContent ==
  /\ \A r \in RevIds : approvals[r] # NULL =>
       /\ r \in Stored
       /\ approvals[r] = Receipt(r, revisions[r])
       /\ revisions[r].content \in Approvable
  /\ baseline # NULL => approvals[baseline] # NULL

(***************************************************************************)
(* Whatever was written, the project can be opened again: reconstruction     *)
(* never finds a state the handlers themselves left to be tampered with.      *)
(***************************************************************************)
AlwaysLoadable == LoadOutcome(Snapshot) = "OK"

(***************************************************************************)
(* A handler only ever works on a project that existed: whatever was written  *)
(* between its reads, the revisions it goes on with are the stored history up  *)
(* to the head it read, and its receipts are stored receipts (the checks of    *)
(* reconstruction; a torn SQLite read is refused).                            *)
(***************************************************************************)
Working(c) == pc[c] \in {"provider", "execute"}

SnapshotIsPast ==
  \A c \in Clients : Working(c) =>
    /\ StoredIn(ws[c]) =
         {r \in Stored : /\ ws[c].head # NULL
                         /\ revisions[r].number <= revisions[ws[c].head].number}
    /\ \A r \in StoredIn(ws[c]) : ws[c].revs[r] = revisions[r]
    /\ \A r \in RevIds : ws[c].apps[r] # NULL => ws[c].apps[r] = approvals[r]

(***************************************************************************)
(* Every definite answer is true, also after other handlers moved on.  A        *)
(* handler that answered OK wrote a revision that is durable, or an approval    *)
(* that is recorded and was not overtaken by an older baseline.  A write that    *)
(* was refused with its reason left no draft in the history, so repeating it     *)
(* cannot duplicate it; only an unavailable store leaves the outcome open.  The   *)
(* isolated chat edit is the exception, see RefusedChatIsNotStored.             *)
(***************************************************************************)
AcknowledgedIsDurable ==
  \A c \in Clients : (resp[c].code = "OK" /\ resp[c].rid # NULL) =>
    /\ resp[c].rid \in Stored
    /\ resp[c].action = "approve" =>
         /\ approvals[resp[c].rid] # NULL
         /\ baseline # NULL
         /\ revisions[resp[c].rid].number <= revisions[baseline].number

Writing == {"chat_edit", "room_lock", "semantic_locks", "restore",
            "generate", "geometry"}

Refused(c) == resp[c].code \notin {"none", "OK", "STORE_UNAVAILABLE"}

RefusedIsNotStored ==
  \A c \in Clients :
    (Refused(c) /\ resp[c].action \in Writing) => resp[c].rid \notin Stored

AnswersAreTrue == AcknowledgedIsDurable /\ RefusedIsNotStored

(***************************************************************************)
(* Nothing is rebased silently: a revision is only ever stored on the head    *)
(* its author had seen when the request was made.                            *)
(***************************************************************************)
StoredOnSeenHead ==
  \A r \in RevIds : (revisions[r] = NULL /\ revisions'[r] # NULL) =>
    \E c \in Clients : /\ pc[c] = "saveRevision"
                       /\ ws[c].head = r
                       /\ req[c].expected = revisions'[r].parent

NoSilentRebase == [][StoredOnSeenHead]_vars

(***************************************************************************)
(* Published rows never change: not their content, not their locks, not the  *)
(* receipt of an approval.                                                   *)
(***************************************************************************)
RowsStay ==
  \A r \in RevIds : /\ revisions[r] # NULL => revisions'[r] = revisions[r]
                    /\ approvals[r] # NULL => approvals'[r] = approvals[r]

PublishedIsImmutable == [][RowsStay]_vars

(***************************************************************************)
(* The frozen baseline moves only to the current head, only forward, and     *)
(* only by an approval: no edit, restore or generation ever moves it.         *)
(***************************************************************************)
BaselineToNewerHead ==
  baseline' # baseline =>
    /\ head' = head /\ baseline' = head
    /\ baseline # NULL => revisions[baseline].number < revisions[head].number

BaselineMovesForward == [][BaselineToNewerHead]_vars

-----------------------------------------------------------------------------
(***************************************************************************)
(* What two comments of the code say, and the code does not do.              *)
(***************************************************************************)

(* A concurrent winner is reported as STALE_REVISION, not as tampering (the   *)
(* persisted command executor, whose two reads are not one snapshot).         *)
ConcurrentWinnerIsStale ==
  \A c \in Clients : resp[c].code # "STORED_PROJECT_TAMPERED"

(* A chat edit that loses against a concurrent head change fails closed: a    *)
(* chat edit reported as stale is not in the history (the confirming read     *)
(* after the save).                                                          *)
RefusedChatIsNotStored ==
  \A c \in Clients :
    (resp[c].action = "isolated_chat" /\ resp[c].code = "STALE_REVISION") =>
      resp[c].rid \notin Stored

=============================================================================

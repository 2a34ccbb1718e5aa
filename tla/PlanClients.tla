---------------------------- MODULE PlanClients ----------------------------
(***************************************************************************)
(* Concurrent requests against one durable project.  A client is a backend   *)
(* request handler: it reads the durable project, rebuilds the workspace,     *)
(* runs one command on it and saves the result with the head it read as an    *)
(* optimistic token.  Four handlers share these steps:                        *)
(*   command   the persisted command executor (review, chat edit, room lock,  *)
(*             semantic locks, restore, approve)                              *)
(*   chat      the isolated chat edit: reloads after its provider worker      *)
(*   generate  generation of one option: reloads after its provider worker    *)
(*   geometry  the direct room edit                                           *)
(* Handlers may be in different processes; nothing but the store is shared.   *)
(***************************************************************************)
EXTENDS PlanStore

CONSTANTS
  Clients,      (* concurrent request handlers                             *)
  Drafts,       (* bound: the plans a provider or an engineer comes up with *)
  Commands,     (* bound: the commands that are issued                     *)
  Backend       (* "supabase", or "sqlite" whose snapshot is three reads   *)

AllCommands == {"review", "chat_edit", "room_lock", "semantic_locks",
                "restore", "approve", "isolated_chat", "generate", "geometry"}

ASSUME ClientAssumption ==
  /\ NULL \notin Clients
  /\ Drafts \subseteq Contents
  /\ Commands \subseteq AllCommands
  /\ Backend \in {"supabase", "sqlite"}

VARIABLES
  minted,   (* revision ids drawn so far                                   *)
  pc,       (* the step a handler is at                                    *)
  req,      (* its request: action, expected head, pass                    *)
  before,   (* the pointers its first read captured                        *)
  ws,       (* the workspace it rebuilt, with the draft it added           *)
  cand,     (* the candidate its provider worker returned                  *)
  resp      (* the last response it gave, and the revision it was about    *)

vars == <<head, baseline, revisions, approvals,
          minted, pc, req, before, ws, cand, resp>>

clientVars == <<minted, pc, req, before, ws, cand, resp>>

Steps == {"idle", "state", "load", "loadRevisions", "loadApprovals",
          "provider", "execute", "saveRevision", "saveApproval", "confirm"}

Idle == [action |-> "none", expected |-> NULL, pass |-> 0]

WithState  == {"review", "chat_edit", "room_lock", "semantic_locks",
               "restore", "approve", "isolated_chat"}
WithWorker == {"isolated_chat", "generate"}

Codes == {"none", "OK", "STALE_REVISION", "STORED_PROJECT_TAMPERED",
          "STORED_APPROVAL_TAMPERED", "INVALID_REVISION_CHAIN",
          "HISTORY_LIMIT", "LOCK_VIOLATION", "ROOM_NOT_FOUND",
          "LOCK_TARGET_NOT_FOUND", "REVISION_NOT_FOUND", "RESTORE_NOT_NEEDED",
          "PLAN_NOT_READY", "REVISION_EXISTS", "APPROVAL_EXISTS",
          "APPROVAL_RECEIPT_CHANGED", "PROVIDER_FAILED", "STORE_UNAVAILABLE"}

TypeOK ==
  /\ StoreTypeOK
  /\ minted \subseteq RevIds
  /\ pc \in [Clients -> Steps]
  /\ req \in [Clients -> [action : AllCommands \cup {"none"},
                          expected : RevIds \cup {NULL}, pass : 0 .. 2]]
  /\ before \in [Clients -> [head : RevIds \cup {NULL},
                             baseline : RevIds \cup {NULL}]]
  /\ ws \in [Clients -> Workspaces \cup {NULL}]
  /\ cand \in [Clients -> Contents \cup {NULL}]
  /\ resp \in [Clients -> [action : AllCommands \cup {"none"}, code : Codes,
                           rid : RevIds \cup {NULL}]]

NoPointers == [head |-> NULL, baseline |-> NULL]

NoResponse == [action |-> "none", code |-> "none", rid |-> NULL]

Init ==
  /\ StoreInit
  /\ minted = {}
  /\ pc = [c \in Clients |-> "idle"]
  /\ req = [c \in Clients |-> Idle]
  /\ before = [c \in Clients |-> NoPointers]
  /\ ws = [c \in Clients |-> NULL]
  /\ cand = [c \in Clients |-> NULL]
  /\ resp = [c \in Clients |-> NoResponse]

-----------------------------------------------------------------------------
(* Shared pieces of the steps.                                             *)

Goto(c, step) == pc' = [pc EXCEPT ![c] = step]

Reset(c) ==
  /\ Goto(c, "idle")
  /\ req' = [req EXCEPT ![c] = Idle]
  /\ before' = [before EXCEPT ![c] = NoPointers]
  /\ ws' = [ws EXCEPT ![c] = NULL]
  /\ cand' = [cand EXCEPT ![c] = NULL]

(* The revision a response is about: the head of the handler's workspace once *)
(* it has run its command.                                                   *)
Subject(c) ==
  IF pc[c] \in {"saveRevision", "saveApproval", "confirm"}
  THEN ws[c].head ELSE NULL

Respond(c, code) ==
  /\ Reset(c)
  /\ resp' = [resp EXCEPT ![c] = [action |-> req[c].action, code |-> code,
                                  rid |-> Subject(c)]]

-----------------------------------------------------------------------------
(* A request carries the head its sender last saw, any revision stored by     *)
(* then or none; a review carries the revision it asks for.  Bound: a request *)
(* that may draft a revision starts only while there is an id for it to draw. *)

Drafting == AllCommands \ {"review", "approve"}

MayDraft(c) ==
  req[c].action \in Drafting /\ pc[c] \notin {"saveRevision", "confirm"}

Start(c, action, expected) ==
  /\ pc[c] = "idle"
  /\ action \in Commands
  /\ expected \in Stored \/ (expected = NULL /\ action \in {"generate", "review"})
  /\ action \in Drafting =>
       Cardinality(minted) + Cardinality({d \in Clients : MayDraft(d)})
         < Cardinality(RevIds)
  /\ req' = [req EXCEPT ![c] =
               [action |-> action, expected |-> expected, pass |-> 1]]
  /\ Goto(c, IF action \in WithState THEN "state" ELSE "load")
  /\ resp' = [resp EXCEPT ![c] = NoResponse]
  /\ UNCHANGED <<storeVars, minted, before, ws, cand>>

ReadState(c) ==
  /\ pc[c] = "state"
  /\ IF req[c].action = "isolated_chat" /\ head # req[c].expected
     THEN Respond(c, "STALE_REVISION")
     ELSE /\ before' = [before EXCEPT ![c] =
                          [head |-> head, baseline |-> baseline]]
          /\ Goto(c, "load")
          /\ UNCHANGED <<req, ws, cand, resp>>
  /\ UNCHANGED <<storeVars, minted>>

(* What a handler concludes from the workspace it has just rebuilt.          *)
PointersMoved(c, w) ==
  /\ req[c].action \in WithState
  /\ <<w.head, w.baseline>> # <<before[c].head, before[c].baseline>>

HeadChecked(c) == req[c].action \in {"isolated_chat", "generate", "geometry"}

Accept(c, w) ==
  IF LoadOutcome(w) # "OK" THEN Respond(c, LoadOutcome(w))
  ELSE IF PointersMoved(c, w) THEN Respond(c, "STORED_PROJECT_TAMPERED")
  ELSE IF HeadChecked(c) /\ w.head # req[c].expected
       THEN Respond(c, "STALE_REVISION")
  ELSE /\ ws' = [ws EXCEPT ![c] = w]
       /\ Goto(c, IF req[c].action \in WithWorker /\ req[c].pass = 1
                  THEN "provider" ELSE "execute")
       /\ UNCHANGED <<req, before, cand, resp>>

(* The snapshot procedure reads pointers and tables in one statement.        *)
Load(c) ==
  /\ Backend = "supabase"
  /\ pc[c] = "load"
  /\ Accept(c, Snapshot)
  /\ UNCHANGED <<storeVars, minted>>

(* The SQLite adapter reads project, revisions and approvals in autocommit:   *)
(* three statements, three points in time.                                    *)
LoadProject(c) ==
  /\ Backend = "sqlite"
  /\ pc[c] = "load"
  /\ ws' = [ws EXCEPT ![c] = [head |-> head, baseline |-> baseline,
                              revs |-> [r \in RevIds |-> NULL],
                              apps |-> [r \in RevIds |-> NULL]]]
  /\ Goto(c, "loadRevisions")
  /\ UNCHANGED <<storeVars, minted, req, before, cand, resp>>

LoadRevisions(c) ==
  /\ pc[c] = "loadRevisions"
  /\ ws' = [ws EXCEPT ![c] = [@ EXCEPT !.revs = revisions]]
  /\ Goto(c, "loadApprovals")
  /\ UNCHANGED <<storeVars, minted, req, before, cand, resp>>

LoadApprovals(c) ==
  /\ pc[c] = "loadApprovals"
  /\ Accept(c, [ws[c] EXCEPT !.apps = approvals])
  /\ UNCHANGED <<storeVars, minted>>

(* Provider work: slow, outside every transaction, on detached geometry. The *)
(* worker returns a candidate or fails; then everything is read again.        *)
ProviderAnswers(c, content) ==
  /\ pc[c] = "provider"
  /\ cand' = [cand EXCEPT ![c] = content]
  /\ ws' = [ws EXCEPT ![c] = NULL]
  /\ req' = [req EXCEPT ![c].pass = 2]
  /\ Goto(c, IF req[c].action \in WithState THEN "state" ELSE "load")
  /\ UNCHANGED <<storeVars, minted, before, resp>>

(* The worker fails, or its candidate is not admissible geometry.            *)
ProviderFails(c) ==
  /\ \/ pc[c] = "provider"
     \/ pc[c] = "execute" /\ req[c].action \in WithWorker \cup {"chat_edit"}
  /\ Respond(c, "PROVIDER_FAILED")
  /\ UNCHANGED <<storeVars, minted>>

-----------------------------------------------------------------------------
(* Commands on the rebuilt workspace.                                      *)

Executing(c, action) == pc[c] = "execute" /\ req[c].action = action

(* Refuse with the outcome of the command, or keep the draft under a fresh   *)
(* id and go on to save it.                                                 *)
Draft(c, outcome, rid, row) ==
  /\ rid \in RevIds \ minted
  /\ IF outcome # "OK"
     THEN Respond(c, outcome) /\ UNCHANGED minted
     ELSE /\ ws' = [ws EXCEPT ![c] = WithDraft(ws[c], rid, row)]
          /\ minted' = minted \cup {rid}
          /\ Goto(c, "saveRevision")
          /\ UNCHANGED <<req, before, cand, resp>>
  /\ UNCHANGED storeVars

Review(c) ==
  /\ Executing(c, "review")
  /\ IF req[c].expected \notin StoredIn(ws[c])
     THEN Respond(c, "REVISION_NOT_FOUND")
     ELSE Goto(c, "confirm") /\ UNCHANGED <<req, before, ws, cand, resp>>
  /\ UNCHANGED <<storeVars, minted>>

(* The synchronous chat edit calls its provider here.                        *)
ChatEdit(c, rid, content) ==
  /\ Executing(c, "chat_edit")
  /\ Draft(c, ProposeOutcome(ws[c], req[c].expected, content), rid,
           DraftRow(ws[c], content, "edit"))

(* The direct edit moves or resizes one room of the head and nothing else.   *)
EditGeometry(c, rid, room, value) ==
  /\ Executing(c, "geometry")
  /\ IF room \notin PresentRooms(HeadRow(ws[c]).content)
     THEN Respond(c, "ROOM_NOT_FOUND") /\ UNCHANGED <<storeVars, minted>>
     ELSE LET content == [HeadRow(ws[c]).content EXCEPT !.rooms[room] = value]
          IN Draft(c, ProposeOutcome(ws[c], req[c].expected, content), rid,
                   DraftRow(ws[c], content, "edit"))

(* The candidate of the worker, admitted on the workspace read after it.     *)
Admit(c, rid) ==
  /\ Executing(c, "isolated_chat") \/ Executing(c, "generate")
  /\ Draft(c, ProposeOutcome(ws[c], req[c].expected, cand[c]), rid,
           DraftRow(ws[c], cand[c],
                    IF req[c].action = "generate" THEN "generate" ELSE "edit"))

SetRoomLock(c, rid, room, on) ==
  /\ Executing(c, "room_lock")
  /\ Draft(c, RoomLockOutcome(ws[c], req[c].expected, room), rid,
           RoomLockRow(ws[c], room, on))

ReplaceSemanticLocks(c, rid, selectors) ==
  /\ Executing(c, "semantic_locks")
  /\ Draft(c, SelectorsOutcome(ws[c], req[c].expected, selectors), rid,
           SelectorsRow(ws[c], selectors))

Restore(c, rid, source) ==
  /\ Executing(c, "restore")
  /\ Draft(c, RestoreOutcome(ws[c], req[c].expected, source), rid,
           DraftRow(ws[c], ws[c].revs[source].content, "restore"))

(* An approval that does not move the baseline is a repeated one: nothing is  *)
(* written.                                                                  *)
Approve(c, verified) ==
  /\ Executing(c, "approve")
  /\ LET outcome == ApproveOutcome(ws[c], req[c].expected, verified) IN
       IF outcome # "OK"
       THEN Respond(c, outcome)
       ELSE /\ ws' = [ws EXCEPT ![c] = Approved(ws[c])]
            /\ Goto(c, IF ws[c].head # before[c].baseline
                       THEN "saveApproval" ELSE "confirm")
            /\ UNCHANGED <<req, before, cand, resp>>
  /\ UNCHANGED <<storeVars, minted>>

-----------------------------------------------------------------------------
(* Durable writes.  The reply of a committed write may be lost; the caller    *)
(* then sees STORE_UNAVAILABLE, exactly as for a write that never arrived.     *)

TokenOf(c) ==
  IF req[c].action \in WithState \ WithWorker
  THEN before[c].head ELSE req[c].expected

SaveRevision(c, replied) ==
  /\ pc[c] = "saveRevision"
  /\ Backend = "sqlite" => replied
  /\ LET rid     == ws[c].head
         row     == ws[c].revs[rid]
         outcome == SaveRevisionOutcome(TokenOf(c), rid, row)
     IN IF outcome = "OK"
        THEN /\ CommitRevision(rid, row)
             /\ IF ~ replied THEN Respond(c, "STORE_UNAVAILABLE")
                ELSE IF req[c].action \in WithState
                THEN /\ Goto(c, "confirm")
                     /\ UNCHANGED <<req, before, ws, cand, resp>>
                ELSE Respond(c, "OK")
        ELSE /\ Respond(c, outcome)
             /\ UNCHANGED storeVars
  /\ UNCHANGED minted

SaveApproval(c, replied) ==
  /\ pc[c] = "saveApproval"
  /\ Backend = "sqlite" => replied
  /\ LET receipt == ws[c].apps[ws[c].head]
         outcome == SaveApprovalOutcome(ws[c].head, receipt)
     IN IF outcome = "OK"
        THEN /\ CommitApproval(receipt)
             /\ IF ~ replied THEN Respond(c, "STORE_UNAVAILABLE")
                ELSE /\ Goto(c, "confirm")
                     /\ UNCHANGED <<req, before, ws, cand, resp>>
        ELSE /\ Respond(c, outcome)
             /\ UNCHANGED storeVars
  /\ UNCHANGED minted

(* The last read of the handlers that captured pointers.  A read-only command *)
(* must not answer from a snapshot that is no longer current, and an isolated  *)
(* chat edit must still be the head.                                          *)
Wrote(c) == ws[c].head # before[c].head \/ ws[c].baseline # before[c].baseline

(* Slip: every handler insists that what it wrote is still the head.        *)
ConfirmStillHead(c) ==
  /\ pc[c] = "confirm"
  /\ IF head # ws[c].head \/ baseline # ws[c].baseline
     THEN Respond(c, "STALE_REVISION")
     ELSE Respond(c, "OK")
  /\ UNCHANGED <<storeVars, minted>>

Confirm(c) ==
  /\ pc[c] = "confirm"
  /\ IF \/ req[c].action = "isolated_chat" /\ head # ws[c].head
        \/ /\ ~ Wrote(c)
           /\ <<head, baseline>> # <<before[c].head, before[c].baseline>>
     THEN Respond(c, "STALE_REVISION")
     ELSE Respond(c, "OK")
  /\ UNCHANGED <<storeVars, minted>>

(* A call to the hosted store does not get through.                          *)
Unavailable(c) ==
  /\ Backend = "supabase"
  /\ pc[c] \in {"state", "load", "saveRevision", "saveApproval", "confirm"}
  /\ Respond(c, "STORE_UNAVAILABLE")
  /\ UNCHANGED <<storeVars, minted>>

(* The process of a handler dies: no response, nothing but the store is left. *)
Crash(c) ==
  /\ pc[c] # "idle"
  /\ Reset(c)
  /\ UNCHANGED <<storeVars, minted, resp>>

-----------------------------------------------------------------------------
Client(c) ==
  \/ \E a \in AllCommands, e \in RevIds \cup {NULL} : Start(c, a, e)
  \/ ReadState(c)
  \/ Load(c)
  \/ LoadProject(c)
  \/ LoadRevisions(c)
  \/ LoadApprovals(c)
  \/ \E content \in Drafts : ProviderAnswers(c, content)
  \/ ProviderFails(c)
  \/ Review(c)
  \/ \E rid \in RevIds, content \in Drafts : ChatEdit(c, rid, content)
  \/ \E rid \in RevIds, room \in Rooms, value \in Values :
       EditGeometry(c, rid, room, value)
  \/ \E rid \in RevIds : Admit(c, rid)
  \/ \E rid \in RevIds, room \in Rooms, on \in BOOLEAN :
       SetRoomLock(c, rid, room, on)
  \/ \E rid \in RevIds, selectors \in SUBSET Selectors :
       ReplaceSemanticLocks(c, rid, selectors)
  \/ \E rid \in RevIds, source \in RevIds : Restore(c, rid, source)
  \/ \E verified \in BOOLEAN : Approve(c, verified)
  \/ \E replied \in BOOLEAN : SaveRevision(c, replied)
  \/ \E replied \in BOOLEAN : SaveApproval(c, replied)
  \/ Confirm(c)
  \/ Unavailable(c)
  \/ Crash(c)

Next == \E c \in Clients : Client(c)

Spec == Init /\ [][Next]_vars

=============================================================================

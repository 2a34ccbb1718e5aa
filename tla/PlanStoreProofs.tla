-------------------------- MODULE PlanStoreProofs --------------------------
(***************************************************************************)
(* What the store guarantees of one project, for every set of revision ids,   *)
(* handlers, plans and commands.  The proofs about the tables follow the two    *)
(* writes, the only steps that change the store (StoreSteps).  Those about      *)
(* drafts, snapshots and answers need what a handler remembers between its       *)
(* steps (DraftsOK, RememberOK); they go by the shape of a step (StepShape).    *)
(* Last, the store implements PlanHistory.                                   *)
(***************************************************************************)
EXTENDS PlanProofs, PlanRefinement, SequenceTheorems

-----------------------------------------------------------------------------
(* One chain.                                                              *)

LEMMA OneChainStep ==
  ASSUME Inductive, OneChain, [Next]_vars
  PROVE  OneChain'
<1>1. CASE UNCHANGED storeVars
  BY <1>1 DEF OneChain, Stored, storeVars
<1>2. ASSUME NEW c \in Clients, StoresApproval(c)
      PROVE  OneChain'
  BY <1>2 DEF StoresApproval, CommitApproval, OneChain, Stored
<1>3. ASSUME NEW c \in Clients, StoresRevision(c)
      PROVE  OneChain'
  <2> DEFINE rid == ws[c].head
             row == ws[c].revs[rid]
  <2>1. /\ head = row.parent
        /\ row \in Rows /\ row # NULL
        /\ rid \in RevIds /\ rid # NULL /\ revisions[rid] = NULL
        /\ row.parent # NULL => revisions[row.parent] # NULL
        /\ row.number = PreviousNumber(row.parent) + 1
    BY <1>3, TokenIsParent, ContentAssumption, RecordAssumption
  <2>2. /\ head' = rid
        /\ revisions' = [revisions EXCEPT ![rid] = row]
        /\ revisions \in [RevIds -> Rows \cup {NULL}]
    BY <1>3 DEF StoresRevision, CommitRevision, Inductive, TypeOK, StoreTypeOK
  <2> HIDE DEF row, rid
  <2>3. /\ Stored' = Stored \cup {rid} /\ rid \notin Stored
        /\ revisions'[rid] = row
        /\ \A r \in Stored : revisions'[r] = revisions[r] /\ r # rid
    BY <2>1, <2>2 DEF Stored
  <2>4. \A r \in Stored : revisions[r].number \in Nat
    BY <2>2 DEF Stored, Rows
  <2>5. CASE head = NULL
    <3>1. Stored = {} /\ row.number = 1 /\ row.parent = NULL
      BY <2>1, <2>5 DEF OneChain, PreviousNumber
    <3> QED
      BY <2>1, <2>2, <2>3, <3>1 DEF OneChain
  <2>6. CASE head # NULL
    <3>1. /\ head \in Stored
          /\ row.number = revisions[head].number + 1
      BY <2>1, <2>6 DEF OneChain, PreviousNumber
    <3>2. \A r \in Stored : revisions[r].number < row.number
      BY <2>4, <3>1, <2>6 DEF OneChain
    <3>3. ASSUME NEW r \in Stored'
          PROVE  /\ revisions'[r].number <= revisions'[head'].number
                 /\ \A s \in Stored' :
                      revisions'[s].number = revisions'[r].number => s = r
                 /\ IF revisions'[r].parent = NULL
                    THEN revisions'[r].number = 1
                    ELSE /\ revisions'[r].parent \in Stored'
                         /\ revisions'[revisions'[r].parent].number + 1
                              = revisions'[r].number
      <4>1. CASE r = rid
        <5>1. /\ revisions'[r] = row /\ revisions'[head'] = row
              /\ row.number \in Nat
          BY <2>1, <2>2, <2>3, <4>1 DEF Rows
        <5>2. \A s \in Stored' : revisions'[s].number = row.number => s = r
          BY <2>3, <2>4, <3>2, <4>1, <5>1
        <5>3. /\ revisions'[row.parent] = revisions[head]
              /\ row.parent \in Stored' /\ row.parent # NULL
          BY <2>1, <2>3, <2>6, <3>1
        <5> QED
          BY <3>1, <5>1, <5>2, <5>3
      <4>2. CASE r # rid
        <5>1. r \in Stored /\ revisions'[r] = revisions[r]
          BY <2>3, <4>2
        <5>2. revisions'[head'] = row
          BY <2>2, <2>3
        <5>3. revisions[r].number <= row.number
          BY <2>4, <3>1, <3>2, <5>1
        <5>4. \A s \in Stored' : revisions'[s].number = revisions[r].number => s = r
          BY <2>3, <2>4, <3>2, <5>1 DEF OneChain
        <5>5. IF revisions[r].parent = NULL
              THEN revisions[r].number = 1
              ELSE /\ revisions[r].parent \in Stored
                   /\ revisions[revisions[r].parent].number + 1
                        = revisions[r].number
          BY <5>1 DEF OneChain
        <5> QED
          BY <2>3, <5>1, <5>2, <5>3, <5>4, <5>5
      <4> QED
        BY <4>1, <4>2
    <3>4. head' \in Stored' /\ head' # NULL
      BY <2>1, <2>2, <2>3
    <3> QED
      BY <3>3, <3>4 DEF OneChain
  <2> QED
    BY <2>5, <2>6
<1> QED
  BY <1>1, <1>2, <1>3, StoreSteps

(***************************************************************************)
(* The history of a project is one chain that ends at the head, whatever      *)
(* handlers race, lose their answers or crash: OneChain.                      *)
(***************************************************************************)
THEOREM HistoryIsOneChain == Spec => []OneChain
<1>1. Init => OneChain
  BY DEF Init, StoreInit, OneChain, Stored
<1>2. Inductive /\ OneChain /\ [Next]_vars => OneChain'
  BY OneChainStep
<1> QED
  BY <1>1, <1>2, HandlersKnow, PTL DEF Spec

-----------------------------------------------------------------------------
(* Locks.                                                                  *)

LEMMA LocksStep ==
  ASSUME Inductive, OneChain, LocksHonoured, [Next]_vars
  PROVE  LocksHonoured'
<1>1. CASE UNCHANGED storeVars
  BY <1>1 DEF LocksHonoured, Stored, storeVars
<1>2. ASSUME NEW c \in Clients, StoresApproval(c)
      PROVE  LocksHonoured'
  BY <1>2 DEF StoresApproval, CommitApproval, LocksHonoured, Stored
<1>3. ASSUME NEW c \in Clients, StoresRevision(c)
      PROVE  LocksHonoured'
  <2> DEFINE rid == ws[c].head
             row == ws[c].revs[rid]
  <2>1. /\ row \in Rows /\ rid \in RevIds /\ revisions[rid] = NULL
        /\ row.parent # NULL => /\ revisions[row.parent] # NULL
                                /\ Honours(revisions[row.parent], row)
    BY <1>3, TokenIsParent DEF StoresRevision, Admitted
  <2>2. /\ revisions' = [revisions EXCEPT ![rid] = row]
        /\ revisions \in [RevIds -> Rows \cup {NULL}]
    BY <1>3 DEF StoresRevision, CommitRevision, Inductive, TypeOK, StoreTypeOK
  <2> HIDE DEF row, rid
  <2> SUFFICES ASSUME NEW r \in Stored', revisions'[r].parent # NULL
               PROVE  Honours(revisions'[revisions'[r].parent], revisions'[r])
    BY DEF LocksHonoured
  <2>3. CASE r = rid
    <3>1. revisions'[r] = row /\ row.parent \in RevIds \ {rid}
      BY <2>1, <2>2, <2>3 DEF Rows
    <3>2. revisions'[row.parent] = revisions[row.parent]
      BY <2>2, <3>1
    <3> QED
      BY <2>1, <3>1, <3>2
  <2>4. CASE r # rid
    <3>1. r \in Stored /\ revisions'[r] = revisions[r]
      BY <2>2, <2>4 DEF Stored
    <3>2. revisions[r].parent \in Stored
      BY <3>1 DEF OneChain
    <3>3. revisions'[revisions[r].parent] = revisions[revisions[r].parent]
      BY <2>1, <2>2, <3>2 DEF Stored
    <3> QED
      BY <3>1, <3>3 DEF LocksHonoured
  <2> QED
    BY <2>3, <2>4
<1> QED
  BY <1>1, <1>2, <1>3, StoreSteps

(***************************************************************************)
(* Every stored revision honours the locks of its parent, although it was     *)
(* admitted on a private copy and only saved later: LocksHonoured.            *)
(***************************************************************************)
THEOREM LocksAlwaysHonoured == Spec => []LocksHonoured
<1>1. Init => LocksHonoured
  BY DEF Init, StoreInit, LocksHonoured, Stored
<1>2. Inductive /\ OneChain /\ LocksHonoured /\ [Next]_vars => LocksHonoured'
  BY LocksStep
<1> QED
  BY <1>1, <1>2, HandlersKnow, HistoryIsOneChain, PTL DEF Spec

-----------------------------------------------------------------------------
(* Approvals.                                                              *)

LEMMA ApprovedReceipt ==
  ASSUME NEW c \in Clients, StoresApproval(c)
  PROVE  LET receipt == ws[c].apps[ws[c].head] IN
           /\ receipt \in Receipts /\ receipt # NULL
           /\ receipt.rid = head /\ head \in RevIds
           /\ revisions[head] # NULL
           /\ receipt = Receipt(head, revisions[head])
           /\ receipt.content \in Approvable
           /\ approvals[head] = NULL
<1> DEFINE receipt == ws[c].apps[ws[c].head]
<1>1. /\ receipt \in Receipts /\ receipt # NULL
      /\ receipt.content \in Approvable
  BY RecordAssumption DEF StoresApproval, Receipted
<1>2. /\ receipt.rid = head
      /\ revisions[receipt.rid] # NULL
      /\ receipt = Receipt(receipt.rid, revisions[receipt.rid])
      /\ approvals[receipt.rid] = NULL
  <2>1. SaveApprovalOutcome(ws[c].head, receipt) = "OK"
    BY DEF StoresApproval
  <2> HIDE DEF receipt
  <2> QED
    BY <2>1 DEF SaveApprovalOutcome
<1>3. receipt.rid \in RevIds
  BY <1>1 DEF Receipts
<1> QED
  BY <1>1, <1>2, <1>3

LEMMA ApprovalStep ==
  ASSUME Inductive, ApprovalBindsContent, [Next]_vars
  PROVE  ApprovalBindsContent'
<1>1. CASE UNCHANGED storeVars
  BY <1>1 DEF ApprovalBindsContent, Stored, storeVars
<1>2. ASSUME NEW c \in Clients, StoresRevision(c)
      PROVE  ApprovalBindsContent'
  <2> DEFINE rid == ws[c].head
             row == ws[c].revs[rid]
  <2>1. /\ revisions' = [revisions EXCEPT ![rid] = row]
        /\ approvals' = approvals /\ baseline' = baseline
        /\ revisions[rid] = NULL
        /\ revisions \in [RevIds -> Rows \cup {NULL}]
    BY <1>2, TokenIsParent
    DEF StoresRevision, CommitRevision, Inductive, TypeOK, StoreTypeOK
  <2> HIDE DEF row, rid
  <2>2. \A r \in Stored : revisions'[r] = revisions[r] /\ r \in Stored'
    BY <2>1 DEF Stored
  <2> QED
    BY <2>1, <2>2 DEF ApprovalBindsContent
<1>3. ASSUME NEW c \in Clients, StoresApproval(c)
      PROVE  ApprovalBindsContent'
  <2> DEFINE receipt == ws[c].apps[ws[c].head]
  <2>1. /\ receipt # NULL /\ receipt.rid = head /\ head \in RevIds
        /\ revisions[head] # NULL
        /\ receipt = Receipt(head, revisions[head])
        /\ receipt.content \in Approvable
    BY <1>3, ApprovedReceipt
  <2>2. /\ approvals' = [approvals EXCEPT ![head] = receipt]
        /\ baseline' = head /\ revisions' = revisions
        /\ approvals \in [RevIds -> Receipts \cup {NULL}]
    BY <1>3, <2>1 DEF StoresApproval, CommitApproval, Inductive, TypeOK, StoreTypeOK
  <2> HIDE DEF receipt
  <2>3. receipt.content = revisions[head].content
    BY <2>1 DEF Receipt
  <2> QED
    BY <2>1, <2>2, <2>3 DEF ApprovalBindsContent, Stored
<1> QED
  BY <1>1, <1>2, <1>3, StoreSteps

(***************************************************************************)
(* A receipt always describes the stored revision it names, which passed the  *)
(* review, and the baseline always has one: ApprovalBindsContent.             *)
(***************************************************************************)
THEOREM ApprovalsBind == Spec => []ApprovalBindsContent
<1>1. Init => ApprovalBindsContent
  BY DEF Init, StoreInit, ApprovalBindsContent
<1>2. Inductive /\ ApprovalBindsContent /\ [Next]_vars => ApprovalBindsContent'
  BY ApprovalStep
<1> QED
  BY <1>1, <1>2, HandlersKnow, PTL DEF Spec

LEMMA BaselineStep ==
  ASSUME Inductive, OneChain, ApprovalBindsContent, [Next]_vars
  PROVE  [BaselineToNewerHead]_vars
<1>1. CASE UNCHANGED storeVars
  BY <1>1 DEF BaselineToNewerHead, storeVars
<1>2. ASSUME NEW c \in Clients, StoresRevision(c)
      PROVE  BaselineToNewerHead
  BY <1>2 DEF StoresRevision, CommitRevision, BaselineToNewerHead
<1>3. ASSUME NEW c \in Clients, StoresApproval(c)
      PROVE  BaselineToNewerHead
  <2>1. /\ head \in Stored /\ approvals[head] = NULL
        /\ ws[c].apps[ws[c].head].rid = head
    BY <1>3, ApprovedReceipt DEF Stored
  <2>2. head' = head /\ baseline' = head
    BY <1>3, <2>1 DEF StoresApproval, CommitApproval
  <2>3. ASSUME baseline # NULL
        PROVE  revisions[baseline].number < revisions[head].number
    <3>1. baseline \in RevIds /\ revisions \in [RevIds -> Rows \cup {NULL}]
      BY <2>3 DEF Inductive, TypeOK, StoreTypeOK
    <3>2. baseline \in Stored /\ baseline # head
      BY <2>1, <2>3, <3>1 DEF ApprovalBindsContent
    <3>3. /\ revisions[baseline].number <= revisions[head].number
          /\ revisions[baseline].number # revisions[head].number
      BY <2>1, <3>2 DEF OneChain
    <3>4. /\ revisions[baseline].number \in Nat
          /\ revisions[head].number \in Nat
      BY <2>1, <3>1, <3>2 DEF Stored, Rows
    <3> QED
      BY <3>3, <3>4
  <2> QED
    BY <2>2, <2>3 DEF BaselineToNewerHead
<1> QED
  BY <1>1, <1>2, <1>3, StoreSteps

(***************************************************************************)
(* The frozen baseline moves only by an approval, only to the head, and only  *)
(* forward: BaselineMovesForward.                                            *)
(***************************************************************************)
THEOREM BaselineNeverReturns == Spec => BaselineMovesForward
<1>1. Inductive /\ OneChain /\ ApprovalBindsContent /\ [Next]_vars =>
        [BaselineToNewerHead]_vars
  BY BaselineStep
<1> QED
  BY <1>1, HandlersKnow, HistoryIsOneChain, ApprovalsBind, PTL
  DEF Spec, BaselineMovesForward

-----------------------------------------------------------------------------
(* What a draft is made of.  A stored row is one that reconstruction accepts, *)
(* because the command that drafted it admitted no other.                    *)

WellFormed(row) ==
  /\ row.locked \subseteq PresentRooms(row.content)
  /\ row.sem # NULL => VerifyManifest(row.content, row.content, row.sem)
  /\ row.number <= MaxRevisions
  /\ row.parent = NULL => row.locked = {} /\ row.sem = NULL

LEMMA RoomForDraft ==
  ASSUME NEW w, ~ HistoryFull(w), NEW content, NEW note
  PROVE  DraftRow(w, content, note).number <= MaxRevisions
<1>1. Cardinality(StoredIn(w)) \in Nat
  BY FS_Subset, FS_CardinalityType, ContentAssumption DEF StoredIn
<1>2. MaxRevisions \in Nat
  BY ContentAssumption
<1>3. DraftRow(w, content, note).number = Cardinality(StoredIn(w)) + 1
  BY DEF DraftRow
<1> QED
  BY <1>1, <1>2, <1>3 DEF HistoryFull

(* A manifest that is captured again on the content it was checked against.  *)
LEMMA RebindVerifies ==
  ASSUME NEW old, NEW manifest, NEW content, Rebind(manifest, content) # NULL,
         manifest # NULL => VerifyManifest(old, content, manifest)
  PROVE  VerifyManifest(content, content, Rebind(manifest, content))
<1>1. /\ manifest # NULL
      /\ Rebind(manifest, content) = [source |-> content,
                                      selectors |-> manifest.selectors]
  BY DEF Rebind, BuildManifest
<1> QED
  BY <1>1 DEF VerifyManifest, SameTarget, Resolvable

LEMMA ProposedWell ==
  ASSUME NEW w \in Workspaces, NEW expected, NEW content, NEW note,
         ProposeOutcome(w, expected, content) = "OK"
  PROVE  WellFormed(DraftRow(w, content, note))
<1> DEFINE row == DraftRow(w, content, note)
<1> SUFFICES WellFormed(row)
  OBVIOUS
<1>1. /\ SemanticLocksAllow(w, content) /\ RoomLocksAllow(w, content)
      /\ ~ HistoryFull(w)
  BY DEF ProposeOutcome
<1>2. row.number <= MaxRevisions
  BY <1>1, RoomForDraft
<1>3. row.content = content /\ row.parent = w.head
  BY DraftRowFields
<1>4. CASE w.head = NULL
  <2>1. row.locked = {} /\ row.sem = NULL
    BY <1>4 DEF DraftRow
  <2> HIDE DEF row
  <2> QED
    BY <1>2, <2>1 DEF WellFormed
<1>5. CASE w.head # NULL
  <2>1. /\ row.locked = HeadRow(w).locked
        /\ row.sem = Rebind(HeadRow(w).sem, content)
    BY <1>5, DraftRowFields
  <2>2. row.locked \subseteq PresentRooms(content)
    BY <1>1, <1>5, <2>1 DEF RoomLocksAllow, RoomLocksHold
  <2>3. row.sem # NULL => VerifyManifest(content, content, row.sem)
    BY <1>1, <1>5, <2>1, RebindVerifies DEF SemanticLocksAllow
  <2> HIDE DEF row
  <2> QED
    BY <1>2, <1>3, <1>5, <2>2, <2>3 DEF WellFormed
<1> QED
  BY <1>4, <1>5

LEMMA RoomLockWell ==
  ASSUME NEW w \in Workspaces, LoadOutcome(w) = "OK",
         NEW expected \in RevIds, NEW room, NEW on \in BOOLEAN,
         RoomLockOutcome(w, expected, room) = "OK"
  PROVE  WellFormed(RoomLockRow(w, room, on))
<1> DEFINE old  == HeadRow(w)
           note == IF on THEN "lock" ELSE "unlock"
           base == DraftRow(w, old.content, note)
           row  == RoomLockRow(w, room, on)
<1>1. /\ w.head # NULL /\ ~ HistoryFull(w)
      /\ room \in PresentRooms(old.content)
  BY ContentAssumption DEF RoomLockOutcome
<1>2. base.number <= MaxRevisions
  BY <1>1, RoomForDraft
<1>3. /\ base.content = old.content /\ base.parent = w.head
      /\ base.locked = old.locked /\ base.sem = Rebind(old.sem, old.content)
  BY <1>1, DraftRowFields
<1>4. /\ row.number = base.number /\ row.content = base.content
      /\ row.parent = base.parent /\ row.sem = base.sem
      /\ row.locked = IF on THEN base.locked \cup {room}
                            ELSE base.locked \ {room}
  BY DEF RoomLockRow, DraftRow
<1>5. /\ old.locked \subseteq PresentRooms(old.content)
      /\ old.sem # NULL => VerifyManifest(old.content, old.content, old.sem)
  BY <1>1, LoadedHead
<1>6. base.sem # NULL => VerifyManifest(old.content, old.content, base.sem)
  <2> HIDE DEF base, old
  <2> QED
    BY <1>3, <1>5, RebindVerifies
<1> HIDE DEF row, base, old
<1> QED
  BY <1>1, <1>2, <1>3, <1>4, <1>5, <1>6 DEF WellFormed, row

LEMMA SelectorsWell ==
  ASSUME NEW w \in Workspaces, LoadOutcome(w) = "OK",
         NEW expected \in RevIds, NEW selectors,
         SelectorsOutcome(w, expected, selectors) = "OK"
  PROVE  WellFormed(SelectorsRow(w, selectors))
<1> DEFINE old  == HeadRow(w)
           base == DraftRow(w, old.content, "selectors")
           row  == SelectorsRow(w, selectors)
<1>1. /\ w.head # NULL /\ ~ HistoryFull(w)
      /\ \A s \in selectors : Resolvable(old.content, s)
  BY ContentAssumption DEF SelectorsOutcome
<1>2. base.number <= MaxRevisions
  BY <1>1, RoomForDraft
<1>3. /\ base.content = old.content /\ base.parent = w.head
      /\ base.locked = old.locked
  BY <1>1, DraftRowFields
<1>4. /\ row.number = base.number /\ row.content = base.content
      /\ row.parent = base.parent /\ row.locked = base.locked
      /\ row.sem = IF selectors = {} THEN NULL
                   ELSE [source |-> old.content, selectors |-> selectors]
  BY DEF SelectorsRow, DraftRow, BuildManifest
<1>5. old.locked \subseteq PresentRooms(old.content)
  BY <1>1, LoadedHead
<1>6. row.sem # NULL => VerifyManifest(old.content, old.content, row.sem)
  <2> HIDE DEF row, old, base
  <2> QED
    BY <1>1, <1>4 DEF VerifyManifest, SameTarget
<1> HIDE DEF row, base, old
<1> QED
  BY <1>1, <1>2, <1>3, <1>4, <1>5, <1>6 DEF WellFormed, row

LEMMA RestoredWell ==
  ASSUME NEW w \in Workspaces, NEW expected, NEW source,
         RestoreOutcome(w, expected, source) = "OK"
  PROVE  WellFormed(DraftRow(w, w.revs[source].content, "restore"))
<1>1. ProposeOutcome(w, expected, w.revs[source].content) = "OK"
  BY DEF RestoreOutcome
<1> QED
  BY <1>1, ProposedWell

-----------------------------------------------------------------------------
(***************************************************************************)
(* The shapes of a step.  Twenty-one actions leave few traces: a handler       *)
(* ends, goes to read, copies a part of the store, takes a snapshot it         *)
(* accepts, keeps a draft, goes on to confirm, or writes.  The invariants      *)
(* below are about what it remembers at each of these.                        *)
(***************************************************************************)
Apart(c) ==
  \A d \in Clients \ {c} :
    /\ pc'[d] = pc[d] /\ req'[d] = req[d] /\ before'[d] = before[d]
    /\ ws'[d] = ws[d] /\ resp'[d] = resp[d]

Says(c, code) ==
  resp'[c] = [action |-> req[c].action, code |-> code, rid |-> Subject(c)]

Same(c) == /\ req'[c] = req[c] /\ before'[c] = before[c] /\ resp'[c] = resp[c]

Ends(c) ==
  /\ UNCHANGED <<storeVars, minted>> /\ pc'[c] = "idle"
  /\ \/ resp'[c] = resp[c]
     \/ Confirm(c)
     \/ \E code \in Codes \ {"OK"} :
          /\ Says(c, code)
          /\ pc[c] = "confirm" => code = "STORE_UNAVAILABLE"

GoesToRead(c) ==
  /\ UNCHANGED <<storeVars, minted>> /\ pc'[c] \in {"state", "load"}
  /\ resp'[c] = resp[c] \/ resp'[c] = NoResponse

Copies(c) ==
  /\ UNCHANGED <<storeVars, minted>> /\ resp'[c] = resp[c]
  /\ \/ /\ pc'[c] = "loadRevisions"
        /\ ws'[c].head = head /\ ws'[c].baseline = baseline
     \/ /\ pc[c] = "loadRevisions" /\ pc'[c] = "loadApprovals"
        /\ ws'[c] = [ws[c] EXCEPT !.revs = revisions]

Takes(c) ==
  /\ UNCHANGED <<storeVars, minted>> /\ Same(c)
  /\ pc'[c] \in {"provider", "execute"}
  /\ LoadOutcome(ws'[c]) = "OK"
  /\ req[c].action \in WithState => /\ ws'[c].head = before[c].head
                                    /\ ws'[c].baseline = before[c].baseline
  /\ \/ ws'[c] = Snapshot
     \/ /\ pc[c] = "loadApprovals"
        /\ ws'[c] = [ws[c] EXCEPT !.apps = approvals]

KeepsDraft(c) ==
  /\ UNCHANGED storeVars /\ Same(c)
  /\ pc[c] = "execute" /\ pc'[c] = "saveRevision"
  /\ req[c].action \in Drafting
  /\ \E rid \in RevIds \ minted, row \in Rows :
       /\ ws'[c] = WithDraft(ws[c], rid, row)
       /\ minted' = minted \cup {rid}
       /\ WellFormed(row)

Reviews(c) ==
  /\ UNCHANGED <<storeVars, minted>> /\ Same(c)
  /\ pc[c] = "execute" /\ pc'[c] = "confirm" /\ req[c].action = "review"
  /\ ws'[c] = ws[c]

Approves(c) ==
  /\ UNCHANGED <<storeVars, minted>> /\ Same(c)
  /\ pc[c] = "execute" /\ req[c].action = "approve"
  /\ ws[c].head # NULL
  /\ pc'[c] = IF ws[c].head # before[c].baseline
              THEN "saveApproval" ELSE "confirm"
  /\ ws'[c] = Approved(ws[c])

(* After a write: the answer is lost, given, or still to be confirmed.       *)
Writes(c) ==
  /\ StoresRevision(c) \/ StoresApproval(c)
  /\ UNCHANGED minted
  /\ \/ pc'[c] = "idle" /\ Says(c, "STORE_UNAVAILABLE")
     \/ pc'[c] = "confirm" /\ ws'[c] = ws[c] /\ Same(c)
          /\ (pc[c] = "saveRevision" => req[c].action \in WithState)
     \/ pc'[c] = "idle" /\ Says(c, "OK") /\ pc[c] = "saveRevision"

Shape(c) ==
  \/ Ends(c) \/ GoesToRead(c) \/ Copies(c) \/ Takes(c)
  \/ KeepsDraft(c) \/ Reviews(c) \/ Approves(c) \/ Writes(c)

LEMMA ResetShape ==
  ASSUME Inductive, NEW c \in Clients, Reset(c),
         \A d \in Clients \ {c} : resp'[d] = resp[d]
  PROVE  Apart(c) /\ pc'[c] = "idle"
BY DEF Reset, Goto, Inductive, TypeOK, Apart

LEMMA RespondShape ==
  ASSUME Inductive, NEW c \in Clients, NEW code, Respond(c, code)
  PROVE  Apart(c) /\ pc'[c] = "idle" /\ Says(c, code)
<1>1. Reset(c) /\ Says(c, code) /\ \A d \in Clients \ {c} : resp'[d] = resp[d]
  BY DEF Respond, Inductive, TypeOK, Says
<1> QED
  BY <1>1, ResetShape

(* Refusals.                                                               *)
LEMMA RefusalShape ==
  ASSUME Inductive, NEW c \in Clients, NEW code \in Codes \ {"OK"},
         Respond(c, code), UNCHANGED <<storeVars, minted>>,
         pc[c] = "confirm" => code = "STORE_UNAVAILABLE"
  PROVE  Apart(c) /\ Shape(c)
BY RespondShape DEF Ends, Shape

LEMMA GoOnShape ==
  ASSUME Inductive, NEW c \in Clients, NEW step, Goto(c, step),
         NEW w, ws' = [ws EXCEPT ![c] = w],
         UNCHANGED <<req, before, resp>>
  PROVE  Apart(c) /\ Same(c) /\ pc'[c] = step /\ ws'[c] = w
BY DEF Goto, Inductive, TypeOK, Apart, Same

LEMMA AcceptShape ==
  ASSUME Inductive, NEW c \in Clients, NEW w, Accept(c, w),
         UNCHANGED <<storeVars, minted>>,
         \/ pc[c] = "load" /\ w = Snapshot
         \/ pc[c] = "loadApprovals" /\ w = [ws[c] EXCEPT !.apps = approvals]
  PROVE  Apart(c) /\ Shape(c)
<1>1. CASE LoadOutcome(w) # "OK"
  BY <1>1, OutcomeCodes, RefusalShape DEF Accept
<1>2. CASE /\ LoadOutcome(w) = "OK"
           /\ \/ PointersMoved(c, w)
              \/ HeadChecked(c) /\ w.head # req[c].expected
  <2>1. \E code \in {"STORED_PROJECT_TAMPERED", "STALE_REVISION"} :
          Respond(c, code)
    BY <1>2 DEF Accept
  <2> QED
    BY <2>1, RefusalShape DEF Codes
<1>3. CASE /\ LoadOutcome(w) = "OK" /\ ~ PointersMoved(c, w)
           /\ HeadChecked(c) => w.head = req[c].expected
  <2> DEFINE step == IF req[c].action \in WithWorker /\ req[c].pass = 1
                     THEN "provider" ELSE "execute"
  <2>1. /\ Goto(c, step) /\ ws' = [ws EXCEPT ![c] = w]
        /\ UNCHANGED <<req, before, cand, resp>>
    BY <1>3 DEF Accept
  <2>2. Apart(c) /\ Same(c) /\ pc'[c] = step /\ ws'[c] = w
    BY <2>1, GoOnShape
  <2>3. req[c].action \in WithState => /\ w.head = before[c].head
                                       /\ w.baseline = before[c].baseline
    BY <1>3 DEF PointersMoved
  <2>4. step \in {"provider", "execute"}
    OBVIOUS
  <2> HIDE DEF step
  <2> QED
    BY <1>3, <2>2, <2>3, <2>4 DEF Takes, Shape
<1> QED
  BY <1>1, <1>2, <1>3

LEMMA DraftShape ==
  ASSUME Inductive, NEW c \in Clients, pc[c] = "execute",
         req[c].action \in Drafting,
         NEW outcome \in Codes, NEW rid, NEW row, Draft(c, outcome, rid, row),
         outcome = "OK" => row \in Rows /\ WellFormed(row)
  PROVE  Apart(c) /\ Shape(c)
<1>1. CASE outcome # "OK"
  BY <1>1, RefusalShape DEF Draft
<1>2. CASE outcome = "OK"
  <2>1. /\ rid \in RevIds \ minted /\ minted' = minted \cup {rid}
        /\ ws' = [ws EXCEPT ![c] = WithDraft(ws[c], rid, row)]
        /\ Goto(c, "saveRevision")
        /\ UNCHANGED <<req, before, cand, resp>>
        /\ UNCHANGED storeVars
    BY <1>2 DEF Draft
  <2>2. /\ Apart(c) /\ Same(c) /\ pc'[c] = "saveRevision"
        /\ ws'[c] = WithDraft(ws[c], rid, row)
    BY <2>1, GoOnShape
  <2> QED
    BY <1>2, <2>1, <2>2 DEF KeepsDraft, Shape
<1> QED
  BY <1>1, <1>2

(* The commands that draft.                                                *)
LEMMA DraftingShapes ==
  ASSUME Inductive, NEW c \in Clients, NEW rid \in RevIds
  PROVE  /\ \A content \in Drafts :
              ChatEdit(c, rid, content) => Apart(c) /\ Shape(c)
         /\ \A room \in Rooms, value \in Values :
              EditGeometry(c, rid, room, value) => Apart(c) /\ Shape(c)
         /\ Admit(c, rid) => Apart(c) /\ Shape(c)
         /\ \A room \in Rooms, on \in BOOLEAN :
              SetRoomLock(c, rid, room, on) => Apart(c) /\ Shape(c)
         /\ \A selectors \in SUBSET Selectors :
              ReplaceSemanticLocks(c, rid, selectors) => Apart(c) /\ Shape(c)
         /\ \A source \in RevIds :
              Restore(c, rid, source) => Apart(c) /\ Shape(c)
<1>1. ASSUME NEW content \in Drafts, ChatEdit(c, rid, content)
      PROVE  Apart(c) /\ Shape(c)
  <2> DEFINE outcome == ProposeOutcome(ws[c], req[c].expected, content)
             row     == DraftRow(ws[c], content, "edit")
  <2>1. /\ pc[c] = "execute" /\ req[c].action \in Drafting
        /\ ws[c] \in Workspaces /\ LoadOutcome(ws[c]) = "OK"
        /\ content \in Contents
    BY <1>1, Executable, ClientAssumption DEF ChatEdit, AllCommands, Drafting
  <2>2. outcome \in Codes
    BY OutcomeCodes
  <2>3. outcome = "OK" => row \in Rows /\ WellFormed(row)
    BY <2>1, ProposedFits, ProposedWell DEF DraftFits, Notes
  <2>4. Draft(c, outcome, rid, row)
    BY <1>1 DEF ChatEdit
  <2> HIDE DEF outcome, row
  <2> QED
    BY <2>1, <2>2, <2>3, <2>4, DraftShape
<1>2. ASSUME NEW room \in Rooms, NEW value \in Values,
             EditGeometry(c, rid, room, value)
      PROVE  Apart(c) /\ Shape(c)
  <2> DEFINE content == [HeadRow(ws[c]).content EXCEPT !.rooms[room] = value]
             outcome == ProposeOutcome(ws[c], req[c].expected, content)
             row     == DraftRow(ws[c], content, "edit")
  <2>1. /\ pc[c] = "execute" /\ req[c].action \in Drafting
        /\ ws[c] \in Workspaces /\ LoadOutcome(ws[c]) = "OK"
        /\ req[c].expected \in RevIds /\ ws[c].head = req[c].expected
    BY <1>2, Executable
    DEF EditGeometry, AllCommands, Drafting, HeadChecked, Executing
  <2>2. CASE room \notin PresentRooms(HeadRow(ws[c]).content)
    <3>1. Respond(c, "ROOM_NOT_FOUND") /\ UNCHANGED <<storeVars, minted>>
      BY <1>2, <2>2 DEF EditGeometry
    <3> QED
      BY <2>1, <3>1, RefusalShape DEF Codes
  <2>3. CASE room \in PresentRooms(HeadRow(ws[c]).content)
    <3>1. HeadRow(ws[c]).content \in Contents
      BY <2>1, LoadedHead, ContentAssumption DEF Rows
    <3>2. content \in Contents
      BY <3>1 DEF Contents
    <3>3. Draft(c, outcome, rid, row)
      BY <1>2, <2>3 DEF EditGeometry
    <3>4. outcome \in Codes
      BY OutcomeCodes
    <3> HIDE DEF content
    <3>5. outcome = "OK" => row \in Rows /\ WellFormed(row)
      BY <2>1, <3>2, ProposedFits, ProposedWell DEF DraftFits, Notes
    <3> HIDE DEF outcome, row
    <3> QED
      BY <2>1, <3>3, <3>4, <3>5, DraftShape
  <2> QED
    BY <2>2, <2>3
<1>3. ASSUME Admit(c, rid)
      PROVE  Apart(c) /\ Shape(c)
  <2> DEFINE note    == IF req[c].action = "generate" THEN "generate" ELSE "edit"
             outcome == ProposeOutcome(ws[c], req[c].expected, cand[c])
             row     == DraftRow(ws[c], cand[c], note)
  <2>1. /\ pc[c] = "execute" /\ req[c].action \in Drafting
        /\ ws[c] \in Workspaces /\ LoadOutcome(ws[c]) = "OK"
        /\ cand[c] \in Contents
    BY <1>3, Executable DEF Admit, AllCommands, Drafting, WithWorker
  <2>2. outcome \in Codes /\ note \in Notes
    BY OutcomeCodes DEF Notes
  <2>3. Draft(c, outcome, rid, row)
    BY <1>3 DEF Admit
  <2> HIDE DEF note
  <2>4. outcome = "OK" => row \in Rows /\ WellFormed(row)
    BY <2>1, <2>2, ProposedFits, ProposedWell DEF DraftFits
  <2> HIDE DEF outcome, row
  <2> QED
    BY <2>1, <2>2, <2>3, <2>4, DraftShape
<1>4. ASSUME NEW room \in Rooms, NEW on \in BOOLEAN,
             SetRoomLock(c, rid, room, on)
      PROVE  Apart(c) /\ Shape(c)
  <2> DEFINE outcome == RoomLockOutcome(ws[c], req[c].expected, room)
             row     == RoomLockRow(ws[c], room, on)
  <2>1. /\ pc[c] = "execute" /\ req[c].action \in Drafting
        /\ ws[c] \in Workspaces /\ LoadOutcome(ws[c]) = "OK"
        /\ req[c].expected \in RevIds
    BY <1>4, Executable DEF SetRoomLock, AllCommands, Drafting
  <2>2. outcome \in Codes
    BY OutcomeCodes
  <2>3. outcome = "OK" => row \in Rows /\ WellFormed(row)
    BY <2>1, RoomLockFits, RoomLockWell DEF DraftFits
  <2>4. Draft(c, outcome, rid, row)
    BY <1>4 DEF SetRoomLock
  <2> HIDE DEF outcome, row
  <2> QED
    BY <2>1, <2>2, <2>3, <2>4, DraftShape
<1>5. ASSUME NEW selectors \in SUBSET Selectors,
             ReplaceSemanticLocks(c, rid, selectors)
      PROVE  Apart(c) /\ Shape(c)
  <2> DEFINE outcome == SelectorsOutcome(ws[c], req[c].expected, selectors)
             row     == SelectorsRow(ws[c], selectors)
  <2>1. /\ pc[c] = "execute" /\ req[c].action \in Drafting
        /\ ws[c] \in Workspaces /\ LoadOutcome(ws[c]) = "OK"
        /\ req[c].expected \in RevIds
    BY <1>5, Executable DEF ReplaceSemanticLocks, AllCommands, Drafting
  <2>2. outcome \in Codes
    BY OutcomeCodes
  <2>3. outcome = "OK" => row \in Rows /\ WellFormed(row)
    BY <2>1, SelectorsFit, SelectorsWell DEF DraftFits
  <2>4. Draft(c, outcome, rid, row)
    BY <1>5 DEF ReplaceSemanticLocks
  <2> HIDE DEF outcome, row
  <2> QED
    BY <2>1, <2>2, <2>3, <2>4, DraftShape
<1>6. ASSUME NEW source \in RevIds, Restore(c, rid, source)
      PROVE  Apart(c) /\ Shape(c)
  <2> DEFINE outcome == RestoreOutcome(ws[c], req[c].expected, source)
             row     == DraftRow(ws[c], ws[c].revs[source].content, "restore")
  <2>1. /\ pc[c] = "execute" /\ req[c].action \in Drafting
        /\ ws[c] \in Workspaces /\ LoadOutcome(ws[c]) = "OK"
    BY <1>6, Executable DEF Restore, AllCommands, Drafting
  <2>2. outcome \in Codes
    BY OutcomeCodes
  <2>3. outcome = "OK" => row \in Rows /\ WellFormed(row)
    BY <2>1, RestoredFits, RestoredWell DEF DraftFits
  <2>4. Draft(c, outcome, rid, row)
    BY <1>6 DEF Restore
  <2> HIDE DEF outcome, row
  <2> QED
    BY <2>1, <2>2, <2>3, <2>4, DraftShape
<1> QED
  BY <1>1, <1>2, <1>3, <1>4, <1>5, <1>6

(* The reads.                                                              *)
LEMMA ReadingShapes ==
  ASSUME Inductive, NEW c \in Clients
  PROVE  /\ \A a \in AllCommands, e \in RevIds \cup {NULL} :
              Start(c, a, e) => Apart(c) /\ Shape(c)
         /\ ReadState(c) => Apart(c) /\ Shape(c)
         /\ Load(c) => Apart(c) /\ Shape(c)
         /\ LoadProject(c) => Apart(c) /\ Shape(c)
         /\ LoadRevisions(c) => Apart(c) /\ Shape(c)
         /\ LoadApprovals(c) => Apart(c) /\ Shape(c)
         /\ \A content \in Drafts :
              ProviderAnswers(c, content) => Apart(c) /\ Shape(c)
<1>1. ASSUME NEW a \in AllCommands, NEW e \in RevIds \cup {NULL}, Start(c, a, e)
      PROVE  Apart(c) /\ GoesToRead(c)
  <2>1. /\ pc' = [pc EXCEPT ![c] = IF a \in WithState THEN "state" ELSE "load"]
        /\ req' = [req EXCEPT ![c] = [action |-> a, expected |-> e, pass |-> 1]]
        /\ resp' = [resp EXCEPT ![c] = NoResponse]
        /\ UNCHANGED <<storeVars, minted, before, ws, cand>>
    BY <1>1 DEF Start, Goto
  <2> QED
    BY <2>1 DEF Inductive, TypeOK, Apart, GoesToRead
<1>2. ASSUME ReadState(c)
      PROVE  Apart(c) /\ Shape(c)
  <2>1. UNCHANGED <<storeVars, minted>> /\ pc[c] = "state"
    BY <1>2 DEF ReadState
  <2>2. CASE Respond(c, "STALE_REVISION")
    BY <2>1, <2>2, RefusalShape DEF Codes
  <2>3. CASE ~ Respond(c, "STALE_REVISION")
    <3>1. /\ pc' = [pc EXCEPT ![c] = "load"]
          /\ before' = [before EXCEPT ![c] =
                          [head |-> head, baseline |-> baseline]]
          /\ UNCHANGED <<req, ws, cand, resp>>
      BY <1>2, <2>3 DEF ReadState, Goto
    <3>2. Apart(c) /\ pc'[c] = "load" /\ resp'[c] = resp[c]
      BY <3>1 DEF Inductive, TypeOK, Apart
    <3> QED
      BY <2>1, <3>2 DEF GoesToRead, Shape
  <2> QED
    BY <2>2, <2>3
<1>3. ASSUME Load(c)
      PROVE  Apart(c) /\ Shape(c)
  BY <1>3, AcceptShape DEF Load
<1>4. ASSUME LoadProject(c)
      PROVE  Apart(c) /\ Copies(c)
  <2> DEFINE w == [head |-> head, baseline |-> baseline,
                   revs |-> [r \in RevIds |-> NULL],
                   apps |-> [r \in RevIds |-> NULL]]
  <2>1. /\ Goto(c, "loadRevisions") /\ ws' = [ws EXCEPT ![c] = w]
        /\ UNCHANGED <<storeVars, minted, req, before, cand, resp>>
    BY <1>4 DEF LoadProject
  <2>2. Apart(c) /\ Same(c) /\ pc'[c] = "loadRevisions" /\ ws'[c] = w
    BY <2>1, GoOnShape
  <2> QED
    BY <2>1, <2>2 DEF Copies, Same
<1>5. ASSUME LoadRevisions(c)
      PROVE  Apart(c) /\ Copies(c)
  <2> DEFINE w == [ws[c] EXCEPT !.revs = revisions]
  <2>1. /\ Goto(c, "loadApprovals") /\ ws' = [ws EXCEPT ![c] = w]
        /\ UNCHANGED <<storeVars, minted, req, before, cand, resp>>
        /\ pc[c] = "loadRevisions"
    BY <1>5 DEF LoadRevisions, Inductive, TypeOK
  <2>2. Apart(c) /\ Same(c) /\ pc'[c] = "loadApprovals" /\ ws'[c] = w
    BY <2>1, GoOnShape
  <2> QED
    BY <2>1, <2>2 DEF Copies, Same
<1>6. ASSUME LoadApprovals(c)
      PROVE  Apart(c) /\ Shape(c)
  BY <1>6, AcceptShape DEF LoadApprovals
<1>7. ASSUME NEW content \in Drafts, ProviderAnswers(c, content)
      PROVE  Apart(c) /\ GoesToRead(c)
  <2>1. /\ pc' = [pc EXCEPT ![c] = IF req[c].action \in WithState
                                   THEN "state" ELSE "load"]
        /\ ws' = [ws EXCEPT ![c] = NULL]
        /\ req' = [req EXCEPT ![c].pass = 2]
        /\ UNCHANGED <<storeVars, minted, before, resp>>
    BY <1>7 DEF ProviderAnswers, Goto
  <2> QED
    BY <2>1 DEF Inductive, TypeOK, Apart, GoesToRead
<1> QED
  BY <1>1, <1>2, <1>3, <1>4, <1>5, <1>6, <1>7 DEF Shape

(* Reviews, approvals, writes and ends.                                    *)
LEMMA ClosingShapes ==
  ASSUME Inductive, NEW c \in Clients
  PROVE  /\ ProviderFails(c) \/ Unavailable(c) => Apart(c) /\ Shape(c)
         /\ Review(c) => Apart(c) /\ Shape(c)
         /\ \A verified \in BOOLEAN :
              Approve(c, verified) => Apart(c) /\ Shape(c)
         /\ \A replied \in BOOLEAN :
              /\ SaveRevision(c, replied) => Apart(c) /\ Shape(c)
              /\ SaveApproval(c, replied) => Apart(c) /\ Shape(c)
         /\ Confirm(c) => Apart(c) /\ Shape(c)
         /\ Crash(c) => Apart(c) /\ Shape(c)
<1>1. ASSUME ProviderFails(c) \/ Unavailable(c)
      PROVE  Apart(c) /\ Shape(c)
  <2>1. \E code \in Codes \ {"OK"} :
          /\ Respond(c, code)
          /\ pc[c] = "confirm" => code = "STORE_UNAVAILABLE"
    BY <1>1 DEF ProviderFails, Unavailable, Codes
  <2> QED
    BY <1>1, <2>1, RefusalShape DEF ProviderFails, Unavailable
<1>2. ASSUME Review(c)
      PROVE  Apart(c) /\ Shape(c)
  <2>1. /\ pc[c] = "execute" /\ req[c].action = "review"
        /\ UNCHANGED <<storeVars, minted>>
    BY <1>2 DEF Review, Executing
  <2>2. CASE Respond(c, "REVISION_NOT_FOUND")
    BY <2>1, <2>2, RefusalShape DEF Codes
  <2>3. CASE ~ Respond(c, "REVISION_NOT_FOUND")
    <3>1. Goto(c, "confirm") /\ UNCHANGED <<req, before, ws, cand, resp>>
      BY <1>2, <2>3 DEF Review
    <3>2. ws' = [ws EXCEPT ![c] = ws[c]]
      BY <3>1 DEF Inductive, TypeOK
    <3>3. Apart(c) /\ Same(c) /\ pc'[c] = "confirm" /\ ws'[c] = ws[c]
      BY <3>1, <3>2, GoOnShape
    <3> QED
      BY <2>1, <3>3 DEF Reviews, Shape
  <2> QED
    BY <2>2, <2>3
<1>3. ASSUME NEW verified \in BOOLEAN, Approve(c, verified)
      PROVE  Apart(c) /\ Shape(c)
  <2> DEFINE outcome == ApproveOutcome(ws[c], req[c].expected, verified)
             step    == IF ws[c].head # before[c].baseline
                        THEN "saveApproval" ELSE "confirm"
  <2>1. /\ pc[c] = "execute" /\ req[c].action = "approve"
        /\ UNCHANGED <<storeVars, minted>> /\ outcome \in Codes
    BY <1>3, OutcomeCodes DEF Approve, Executing
  <2>2. CASE outcome # "OK"
    BY <1>3, <2>1, <2>2, RefusalShape DEF Approve
  <2>3. CASE outcome = "OK"
    <3>1. /\ Goto(c, step) /\ ws' = [ws EXCEPT ![c] = Approved(ws[c])]
          /\ UNCHANGED <<req, before, cand, resp>>
      BY <1>3, <2>3 DEF Approve
    <3>2. ws[c].head # NULL
      BY <2>3 DEF ApproveOutcome
    <3>3. /\ Apart(c) /\ Same(c) /\ pc'[c] = step
          /\ ws'[c] = Approved(ws[c])
      BY <3>1, GoOnShape
    <3> QED
      BY <2>1, <3>2, <3>3 DEF Approves, Shape
  <2> QED
    BY <2>2, <2>3
<1>4. ASSUME NEW replied \in BOOLEAN, SaveRevision(c, replied)
      PROVE  Apart(c) /\ Shape(c)
  <2> DEFINE outcome == SaveRevisionOutcome(TokenOf(c), ws[c].head,
                                            ws[c].revs[ws[c].head])
  <2>1. /\ pc[c] = "saveRevision" /\ UNCHANGED minted
        /\ Admitted(ws[c], req[c].expected) /\ outcome \in Codes
    BY <1>4, OutcomeCodes
    DEF SaveRevision, Inductive, HandlersOK, HandlerOK
  <2>2. CASE outcome # "OK"
    <3>1. Respond(c, outcome) /\ UNCHANGED storeVars
      BY <1>4, <2>2 DEF SaveRevision
    <3> HIDE DEF outcome
    <3> QED
      BY <2>1, <2>2, <3>1, RefusalShape
  <2>3. CASE outcome = "OK"
    <3>1. StoresRevision(c)
      BY <1>4, <2>1, <2>3 DEF SaveRevision, StoresRevision
    <3>2. \/ Respond(c, "STORE_UNAVAILABLE")
          \/ Respond(c, "OK")
          \/ /\ Goto(c, "confirm") /\ UNCHANGED <<req, before, ws, cand, resp>>
             /\ req[c].action \in WithState
      BY <1>4, <2>3 DEF SaveRevision
    <3>3. CASE /\ Goto(c, "confirm") /\ UNCHANGED <<req, before, ws, cand, resp>>
               /\ req[c].action \in WithState
      <4>1. ws' = [ws EXCEPT ![c] = ws[c]]
        BY <3>3 DEF Inductive, TypeOK
      <4>2. Apart(c) /\ Same(c) /\ pc'[c] = "confirm" /\ ws'[c] = ws[c]
        BY <3>3, <4>1, GoOnShape
      <4> QED
        BY <2>1, <3>1, <3>3, <4>2 DEF Writes, Shape
    <3>4. CASE Respond(c, "STORE_UNAVAILABLE") \/ Respond(c, "OK")
      <4>1. /\ Apart(c) /\ pc'[c] = "idle"
            /\ Says(c, "STORE_UNAVAILABLE") \/ Says(c, "OK")
        BY <3>4, RespondShape
      <4> QED
        BY <2>1, <3>1, <4>1 DEF Writes, Shape
    <3> QED
      BY <3>2, <3>3, <3>4
  <2> QED
    BY <2>2, <2>3
<1>5. ASSUME NEW replied \in BOOLEAN, SaveApproval(c, replied)
      PROVE  Apart(c) /\ Shape(c)
  <2> DEFINE outcome == SaveApprovalOutcome(ws[c].head, ws[c].apps[ws[c].head])
  <2>1. /\ pc[c] = "saveApproval" /\ UNCHANGED minted
        /\ Receipted(ws[c]) /\ outcome \in Codes
    BY <1>5, OutcomeCodes
    DEF SaveApproval, Inductive, HandlersOK, HandlerOK
  <2>2. CASE outcome # "OK"
    <3>1. Respond(c, outcome) /\ UNCHANGED storeVars
      BY <1>5, <2>2 DEF SaveApproval
    <3> HIDE DEF outcome
    <3> QED
      BY <2>1, <2>2, <3>1, RefusalShape
  <2>3. CASE outcome = "OK"
    <3>1. StoresApproval(c)
      BY <1>5, <2>1, <2>3 DEF SaveApproval, StoresApproval
    <3>2. \/ Respond(c, "STORE_UNAVAILABLE")
          \/ Goto(c, "confirm") /\ UNCHANGED <<req, before, ws, cand, resp>>
      BY <1>5, <2>3 DEF SaveApproval
    <3>3. CASE Goto(c, "confirm") /\ UNCHANGED <<req, before, ws, cand, resp>>
      <4>1. ws' = [ws EXCEPT ![c] = ws[c]]
        BY <3>3 DEF Inductive, TypeOK
      <4>2. Apart(c) /\ Same(c) /\ pc'[c] = "confirm" /\ ws'[c] = ws[c]
        BY <3>3, <4>1, GoOnShape
      <4> QED
        BY <2>1, <3>1, <4>2 DEF Writes, Shape
    <3>4. CASE Respond(c, "STORE_UNAVAILABLE")
      <4>1. Apart(c) /\ pc'[c] = "idle" /\ Says(c, "STORE_UNAVAILABLE")
        BY <3>4, RespondShape
      <4> QED
        BY <2>1, <3>1, <4>1 DEF Writes, Shape
    <3> QED
      BY <3>2, <3>3, <3>4
  <2> QED
    BY <2>2, <2>3
<1>6. ASSUME Confirm(c)
      PROVE  Apart(c) /\ Shape(c)
  <2>1. \E code \in {"STALE_REVISION", "OK"} : Respond(c, code)
    BY <1>6 DEF Confirm
  <2>2. Apart(c) /\ pc'[c] = "idle"
    BY <2>1, RespondShape
  <2>3. UNCHANGED <<storeVars, minted>>
    BY <1>6 DEF Confirm
  <2> QED
    BY <1>6, <2>2, <2>3 DEF Ends, Shape
<1>7. ASSUME Crash(c)
      PROVE  Apart(c) /\ Shape(c)
  <2>1. Reset(c) /\ UNCHANGED <<storeVars, minted, resp>>
    BY <1>7 DEF Crash
  <2>2. Apart(c) /\ pc'[c] = "idle" /\ resp'[c] = resp[c]
    BY <2>1, ResetShape
  <2> QED
    BY <2>1, <2>2 DEF Ends, Shape
<1> QED
  BY <1>1, <1>2, <1>3, <1>4, <1>5, <1>6, <1>7

LEMMA StepShape ==
  ASSUME Inductive, [Next]_vars
  PROVE  UNCHANGED vars \/ \E c \in Clients : Apart(c) /\ Shape(c)
<1>1. ASSUME NEW c \in Clients, Client(c)
      PROVE  Apart(c) /\ Shape(c)
  <2>1. CASE \/ \E rid \in RevIds, content \in Drafts : ChatEdit(c, rid, content)
             \/ \E rid \in RevIds, room \in Rooms, value \in Values :
                  EditGeometry(c, rid, room, value)
             \/ \E rid \in RevIds : Admit(c, rid)
             \/ \E rid \in RevIds, room \in Rooms, on \in BOOLEAN :
                  SetRoomLock(c, rid, room, on)
             \/ \E rid \in RevIds, selectors \in SUBSET Selectors :
                  ReplaceSemanticLocks(c, rid, selectors)
             \/ \E rid \in RevIds, source \in RevIds : Restore(c, rid, source)
    BY <2>1, DraftingShapes
  <2>2. CASE \/ \E a \in AllCommands, e \in RevIds \cup {NULL} : Start(c, a, e)
             \/ ReadState(c)
             \/ Load(c)
             \/ LoadProject(c)
             \/ LoadRevisions(c)
             \/ LoadApprovals(c)
             \/ \E content \in Drafts : ProviderAnswers(c, content)
    BY <2>2, ReadingShapes
  <2>3. CASE \/ ProviderFails(c)
             \/ Review(c)
             \/ \E verified \in BOOLEAN : Approve(c, verified)
             \/ \E replied \in BOOLEAN : SaveRevision(c, replied)
             \/ \E replied \in BOOLEAN : SaveApproval(c, replied)
             \/ Confirm(c)
             \/ Unavailable(c)
             \/ Crash(c)
    BY <2>3, ClosingShapes
  <2> QED
    BY <1>1, <2>1, <2>2, <2>3 DEF Client
<1> QED
  BY <1>1 DEF Next

-----------------------------------------------------------------------------
(***************************************************************************)
(* Drafts on their way to the store.  A draft that waits to be saved has an   *)
(* id that no row, no answer and no other draft carries; what waits to be      *)
(* confirmed is stored.                                                      *)
(***************************************************************************)
Fresh(c) ==
  /\ req[c].action \in Drafting
  /\ ws[c].head \in minted \ Stored
  /\ WellFormed(ws[c].revs[ws[c].head])
  /\ \A d \in Clients : resp[d].rid # ws[c].head
  /\ \A d \in Clients \ {c} : pc[d] = "saveRevision" => ws[d].head # ws[c].head

DraftOK(c) ==
  /\ pc[c] = "saveRevision" => Fresh(c)
  /\ pc[c] \in {"saveApproval", "confirm"} => ws[c].head \in Stored \cup {NULL}
  /\ pc[c] = "saveApproval" => req[c].action = "approve"
  /\ resp[c].rid \in minted \cup {NULL}

RowsOK == Stored \subseteq minted /\ \A r \in Stored : WellFormed(revisions[r])

DraftsOK == RowsOK /\ \A c \in Clients : DraftOK(c)

(* A step that stores no revision and keeps no draft.                        *)
LEMMA DraftsQuiet ==
  ASSUME Inductive, DraftsOK, NEW c \in Clients, Apart(c),
         UNCHANGED <<revisions, minted>>,
         pc'[c] # "saveRevision",
         pc'[c] \in {"saveApproval", "confirm"} =>
           ws'[c].head \in Stored \cup {NULL},
         pc'[c] = "saveApproval" => req'[c].action = "approve",
         resp'[c].rid \in {resp[c].rid, NULL, Subject(c)}
  PROVE  DraftsOK'
<1>1. Stored' = Stored /\ RowsOK'
  BY DEF Stored, RowsOK, DraftsOK, WellFormed
<1>2. Subject(c) \in minted \cup {NULL}
  BY DEF Subject, DraftsOK, DraftOK, Fresh, RowsOK
<1>3. ASSUME NEW d \in Clients \ {c}, pc[d] = "saveRevision"
      PROVE  Subject(c) # ws[d].head
  <2>1. /\ Fresh(d) /\ ws[d].head \notin Stored \cup {NULL}
    BY <1>3, ContentAssumption
    DEF DraftsOK, DraftOK, Fresh, Inductive, TypeOK
  <2> QED
    BY <1>3, <2>1 DEF Subject, DraftsOK, DraftOK, Fresh
<1>4. DraftOK(c)'
  BY <1>1, <1>2 DEF DraftsOK, DraftOK
<1>5. ASSUME NEW d \in Clients \ {c}
      PROVE  DraftOK(d)'
  <2>1. /\ pc'[d] = pc[d] /\ req'[d] = req[d] /\ ws'[d] = ws[d]
        /\ resp'[d] = resp[d] /\ DraftOK(d)
    BY DEF Apart, DraftsOK
  <2>2. ASSUME pc[d] = "saveRevision"
        PROVE  Fresh(d)'
    <3>1. Fresh(d) /\ ws[d].head # NULL
      BY <2>1, <2>2, ContentAssumption DEF DraftOK, Fresh, Inductive, TypeOK
    <3>2. ASSUME NEW e \in Clients
          PROVE  resp'[e].rid # ws[d].head
      BY <1>3, <2>2, <3>1 DEF Apart, Fresh
    <3>3. ASSUME NEW e \in Clients \ {d}, pc'[e] = "saveRevision"
          PROVE  ws'[e].head # ws[d].head
      BY <3>1, <3>3 DEF Apart, Fresh
    <3> QED
      BY <1>1, <2>1, <3>1, <3>2, <3>3 DEF Fresh, WellFormed
  <2> QED
    BY <1>1, <2>1, <2>2 DEF DraftOK
<1> QED
  BY <1>1, <1>4, <1>5 DEF DraftsOK

(* The head of a loaded workspace is stored.                                *)
LEMMA LoadedHeadStored ==
  ASSUME Inductive, NEW c \in Clients, Working(c)
  PROVE  /\ ws[c] \in Workspaces /\ Copied(ws[c])
         /\ LoadOutcome(ws[c]) = "OK"
         /\ ws[c].head \in Stored \cup {NULL}
         /\ ws[c].head # NULL => /\ ws[c].head \in StoredIn(ws[c])
                                 /\ HeadRow(ws[c]) = revisions[ws[c].head]
<1>1. /\ ws[c] \in Workspaces /\ Copied(ws[c])
      /\ LoadOutcome(ws[c]) = "OK"
  BY DEF Inductive, HandlersOK, HandlerOK, Working, HasWorkspace, Copying
<1>2. CASE ws[c].head # NULL
  <2>1. ws[c].head \in RevIds /\ HeadRow(ws[c]) \in Rows
    BY <1>1, <1>2, LoadedHead
  <2>2. HeadRow(ws[c]) # NULL
    BY <2>1, RecordAssumption
  <2> QED
    BY <1>1, <2>1, <2>2 DEF HeadRow, Copied, Stored, StoredIn
<1> QED
  BY <1>1, <1>2

LEMMA StoredGrows ==
  ASSUME Inductive, NEW c \in Clients, StoresRevision(c)
  PROVE  LET rid == ws[c].head
             row == ws[c].revs[rid]
         IN /\ rid \in RevIds \ Stored /\ rid # NULL /\ row \in Rows
            /\ Stored' = Stored \cup {rid} /\ revisions'[rid] = row
            /\ \A r \in Stored : revisions'[r] = revisions[r]
            /\ head' = rid
<1> DEFINE rid == ws[c].head
           row == ws[c].revs[rid]
<1>1. rid \in RevIds /\ row \in Rows /\ row # NULL /\ revisions[rid] = NULL
  BY TokenIsParent, RecordAssumption
<1>2. /\ revisions' = [revisions EXCEPT ![rid] = row] /\ head' = rid
      /\ revisions \in [RevIds -> Rows \cup {NULL}]
  BY DEF StoresRevision, CommitRevision, Inductive, TypeOK, StoreTypeOK
<1> HIDE DEF rid, row
<1>3. /\ rid \in RevIds \ Stored /\ rid # NULL
      /\ Stored' = Stored \cup {rid} /\ revisions'[rid] = row
      /\ \A r \in Stored : revisions'[r] = revisions[r]
  BY <1>1, <1>2, ContentAssumption DEF Stored
<1> QED
  BY <1>1, <1>2, <1>3 DEF rid, row

LEMMA DraftsSaved ==
  ASSUME Inductive, DraftsOK, NEW c \in Clients, Apart(c),
         StoresRevision(c), Writes(c)
  PROVE  DraftsOK'
<1> DEFINE rid == ws[c].head
           row == ws[c].revs[rid]
<1>1. /\ pc[c] = "saveRevision" /\ Fresh(c)
      /\ minted' = minted
  BY DEF StoresRevision, DraftsOK, DraftOK, Writes
<1>2. /\ Stored' = Stored \cup {rid} /\ revisions'[rid] = row
      /\ \A r \in Stored : revisions'[r] = revisions[r]
  BY StoredGrows
<1>3. RowsOK'
  <2>1. rid \in minted /\ WellFormed(row)
    BY <1>1 DEF Fresh
  <2> HIDE DEF rid, row
  <2> QED
    BY <1>1, <1>2, <2>1 DEF RowsOK, DraftsOK, WellFormed
<1>4. /\ pc'[c] \in {"idle", "confirm"}
      /\ pc'[c] = "confirm" => ws'[c].head = rid
      /\ resp'[c].rid \in {resp[c].rid, rid}
  BY <1>1 DEF Writes, Says, Same, Subject
<1>5. DraftOK(c)'
  BY <1>1, <1>2, <1>4 DEF DraftsOK, DraftOK, Fresh
<1>6. ASSUME NEW d \in Clients \ {c}
      PROVE  DraftOK(d)'
  <2>1. /\ pc'[d] = pc[d] /\ req'[d] = req[d] /\ ws'[d] = ws[d]
        /\ resp'[d] = resp[d] /\ DraftOK(d)
    BY DEF Apart, DraftsOK
  <2>2. ASSUME pc[d] = "saveRevision"
        PROVE  Fresh(d)'
    <3>1. Fresh(d) /\ ws[d].head # rid
      BY <1>1, <2>1, <2>2 DEF DraftOK, Fresh
    <3>2. ASSUME NEW e \in Clients
          PROVE  resp'[e].rid # ws[d].head
      BY <1>4, <3>1 DEF Apart, Fresh
    <3>3. ASSUME NEW e \in Clients \ {d}, pc'[e] = "saveRevision"
          PROVE  ws'[e].head # ws[d].head
      BY <1>4, <3>1, <3>3 DEF Apart, Fresh
    <3> QED
      BY <1>1, <1>2, <2>1, <3>1, <3>2, <3>3 DEF Fresh, WellFormed
  <2> QED
    BY <1>1, <1>2, <2>1, <2>2 DEF DraftOK
<1> QED
  BY <1>3, <1>5, <1>6 DEF DraftsOK

LEMMA DraftsKept ==
  ASSUME Inductive, DraftsOK, NEW c \in Clients, Apart(c), KeepsDraft(c)
  PROVE  DraftsOK'
<1>1. PICK rid \in RevIds \ minted, row \in Rows :
        /\ ws'[c] = WithDraft(ws[c], rid, row)
        /\ minted' = minted \cup {rid}
        /\ WellFormed(row)
  BY DEF KeepsDraft
<1>2. /\ pc[c] = "execute" /\ pc'[c] = "saveRevision" /\ Same(c)
      /\ req[c].action \in Drafting /\ revisions' = revisions
  BY DEF KeepsDraft, storeVars
<1>3. ws'[c].head = rid /\ ws'[c].revs[rid] = row
  BY <1>1, <1>2, LoadedHeadStored DEF Working, WithDraft, Workspaces
<1>4. /\ Stored' = Stored /\ RowsOK' /\ rid \notin Stored
      /\ rid # NULL
  BY <1>1, <1>2, ContentAssumption DEF Stored, RowsOK, DraftsOK, WellFormed
<1>5. \A d \in Clients : resp'[d].rid = resp[d].rid /\ resp[d].rid # rid
  BY <1>2, <1>4 DEF Apart, Same, DraftsOK, DraftOK
<1>6. DraftOK(c)'
  <2>1. ASSUME NEW d \in Clients \ {c}, pc'[d] = "saveRevision"
        PROVE  ws'[d].head # rid
    BY <2>1 DEF Apart, DraftsOK, DraftOK, Fresh
  <2> QED
    BY <1>1, <1>2, <1>3, <1>4, <1>5, <2>1
    DEF DraftsOK, DraftOK, Fresh, Same, WellFormed
<1>7. ASSUME NEW d \in Clients \ {c}
      PROVE  DraftOK(d)'
  <2>1. /\ pc'[d] = pc[d] /\ req'[d] = req[d] /\ ws'[d] = ws[d]
        /\ resp'[d] = resp[d] /\ DraftOK(d)
    BY DEF Apart, DraftsOK
  <2>2. ASSUME pc[d] = "saveRevision"
        PROVE  Fresh(d)'
    <3>1. Fresh(d) /\ ws[d].head # rid
      BY <2>1, <2>2 DEF DraftOK, Fresh
    <3>2. ASSUME NEW e \in Clients \ {d}, pc'[e] = "saveRevision"
          PROVE  ws'[e].head # ws[d].head
      BY <1>3, <3>1, <3>2 DEF Apart, Fresh
    <3> QED
      BY <1>1, <1>4, <1>5, <2>1, <3>1, <3>2 DEF Fresh, WellFormed
  <2> QED
    BY <1>1, <1>4, <2>1, <2>2 DEF DraftOK
<1> QED
  BY <1>4, <1>6, <1>7 DEF DraftsOK

LEMMA DraftsStep ==
  ASSUME Inductive, DraftsOK, [Next]_vars
  PROVE  DraftsOK'
<1>1. CASE UNCHANGED vars
  BY <1>1 DEF vars, DraftsOK, DraftOK, RowsOK, Fresh, Stored, WellFormed
<1>2. ASSUME NEW c \in Clients, Apart(c), Shape(c)
      PROVE  DraftsOK'
  <2>1. CASE Ends(c)
    <3>1. Confirm(c) => \E code \in {"STALE_REVISION", "OK"} : Respond(c, code)
      BY DEF Confirm
    <3>2. Confirm(c) => \E code : Says(c, code)
      BY <1>2, <3>1, RespondShape
    <3>3. resp'[c] = resp[c] \/ \E code : Says(c, code)
      BY <2>1, <3>2 DEF Ends
    <3>4. resp'[c].rid \in {resp[c].rid, Subject(c)}
      <4>1. ASSUME NEW code, Says(c, code) PROVE resp'[c].rid = Subject(c)
        BY <4>1 DEF Says
      <4> QED
        BY <3>3, <4>1
    <3> QED
      BY <1>2, <2>1, <3>4, DraftsQuiet DEF Ends, storeVars
  <2>2. CASE GoesToRead(c)
    BY <1>2, <2>2, DraftsQuiet DEF GoesToRead, NoResponse, storeVars
  <2>3. CASE Copies(c)
    BY <1>2, <2>3, DraftsQuiet DEF Copies, storeVars
  <2>4. CASE Takes(c)
    BY <1>2, <2>4, DraftsQuiet DEF Takes, Same, storeVars
  <2>5. CASE Reviews(c)
    <3>1. ws[c].head \in Stored \cup {NULL}
      BY <2>5, LoadedHeadStored DEF Reviews, Working
    <3> QED
      BY <1>2, <2>5, <3>1, DraftsQuiet DEF Reviews, Same, storeVars
  <2>6. CASE Approves(c)
    <3>1. ws[c].head \in Stored \cup {NULL} /\ ws[c] \in Workspaces
      BY <2>6, LoadedHeadStored DEF Approves, Working
    <3>2. Approved(ws[c]).head = ws[c].head
      BY <3>1 DEF Approved, Workspaces
    <3> QED
      BY <1>2, <2>6, <3>1, <3>2, DraftsQuiet DEF Approves, Same, storeVars
  <2>7. CASE KeepsDraft(c)
    BY <1>2, <2>7, DraftsKept
  <2>8. CASE Writes(c) /\ StoresRevision(c)
    BY <1>2, <2>8, DraftsSaved
  <2>9. CASE Writes(c) /\ StoresApproval(c)
    <3>1. /\ revisions' = revisions /\ minted' = minted
          /\ pc[c] = "saveApproval"
      BY <2>9 DEF StoresApproval, CommitApproval, Writes
    <3>2. /\ pc'[c] \in {"idle", "confirm"}
          /\ pc'[c] = "confirm" => ws'[c].head = ws[c].head
          /\ resp'[c].rid \in {resp[c].rid, Subject(c)}
      BY <2>9 DEF Writes, Says, Same
    <3>3. ws[c].head \in Stored \cup {NULL}
      BY <3>1 DEF DraftsOK, DraftOK
    <3> QED
      BY <1>2, <3>1, <3>2, <3>3, DraftsQuiet
  <2> QED
    BY <1>2, <2>1, <2>2, <2>3, <2>4, <2>5, <2>6, <2>7, <2>8, <2>9
    DEF Shape, Writes
<1> QED
  BY <1>1, <1>2, StepShape

(* A draft on its way to the store is well formed and nobody else's, and so   *)
(* every stored row is well formed.                                          *)
THEOREM DraftsAreFresh == Spec => []DraftsOK
<1>1. Init => DraftsOK
  BY DEF Init, StoreInit, DraftsOK, DraftOK, RowsOK, Stored, NoResponse
<1>2. Inductive /\ DraftsOK /\ [Next]_vars => DraftsOK'
  BY DraftsStep
<1> QED
  BY <1>1, <1>2, HandlersKnow, PTL DEF Spec

-----------------------------------------------------------------------------
(* The store can always be opened again.                                    *)

Numbered ==
  /\ Cardinality(Stored) = NumberOf(head)
  /\ \A n \in 1 .. NumberOf(head) : \E r \in Stored : revisions[r].number = n

LEMMA StoredFinite ==
  ASSUME TRUE
  PROVE  IsFiniteSet(Stored) /\ Cardinality(Stored) \in Nat
BY FS_Subset, FS_CardinalityType, ContentAssumption DEF Stored

LEMMA NumbersStep ==
  ASSUME Inductive, OneChain, Numbered, [Next]_vars
  PROVE  Numbered'
<1>1. CASE UNCHANGED storeVars
  BY <1>1 DEF Numbered, NumberOf, Stored, storeVars
<1>2. ASSUME NEW c \in Clients, StoresApproval(c)
      PROVE  Numbered'
  BY <1>2 DEF StoresApproval, CommitApproval, Numbered, NumberOf, Stored
<1>3. ASSUME NEW c \in Clients, StoresRevision(c)
      PROVE  Numbered'
  <2> DEFINE rid == ws[c].head
             row == ws[c].revs[rid]
  <2>1. row.number = PreviousNumber(head) + 1
    BY <1>3, TokenIsParent
  <2>2. /\ rid \in RevIds \ Stored /\ rid # NULL
        /\ Stored' = Stored \cup {rid} /\ revisions'[rid] = row
        /\ \A r \in Stored : revisions'[r] = revisions[r]
        /\ head' = rid
    BY <1>3, StoredGrows
  <2> HIDE DEF rid, row
  <2>3. NumberOf(head) = PreviousNumber(head) /\ NumberOf(head) \in Nat
    BY StoredFinite DEF Numbered, NumberOf, PreviousNumber
  <2>4. NumberOf(head)' = NumberOf(head) + 1
    BY <2>1, <2>2, <2>3 DEF NumberOf
  <2>5. Cardinality(Stored \cup {rid}) = Cardinality(Stored) + 1
    BY <2>2, StoredFinite, FS_AddElement
  <2>6. \A n \in 1 .. NumberOf(head) + 1 :
          \E r \in Stored' : revisions'[r].number = n
    <3> TAKE n \in 1 .. NumberOf(head) + 1
    <3>1. CASE n = NumberOf(head) + 1
      BY <2>1, <2>2, <2>3, <3>1
    <3>2. CASE n # NumberOf(head) + 1
      <4>1. n \in 1 .. NumberOf(head)
        BY <2>3, <3>2
      <4>2. PICK r \in Stored : revisions[r].number = n
        BY <4>1 DEF Numbered
      <4> QED
        BY <2>2, <4>2
    <3> QED
      BY <3>1, <3>2
  <2> QED
    BY <2>2, <2>4, <2>5, <2>6 DEF Numbered
<1> QED
  BY <1>1, <1>2, <1>3, StoreSteps

(* There are as many revisions as the head's number says, one of each number. *)
THEOREM NumbersHaveNoGap == Spec => []Numbered
<1>1. Init => Numbered
  BY FS_EmptySet DEF Init, StoreInit, Numbered, NumberOf, Stored
<1>2. Inductive /\ OneChain /\ Numbered /\ [Next]_vars => Numbered'
  BY NumbersStep
<1> QED
  BY <1>1, <1>2, HandlersKnow, HistoryIsOneChain, PTL DEF Spec

LEMMA NumberBounds ==
  ASSUME TypeOK, OneChain, NEW r \in Stored
  PROVE  /\ revisions[r] \in Rows /\ revisions[r].number \in Nat
         /\ head \in Stored /\ head # NULL
         /\ NumberOf(head) \in Nat
         /\ revisions[r].number \in 1 .. NumberOf(head)
<1>1. \A s \in Stored : revisions[s] \in Rows /\ revisions[s].number \in Nat
  BY DEF TypeOK, StoreTypeOK, Stored, Rows
<1>2. head \in Stored /\ head # NULL
  BY DEF OneChain
<1>3. revisions[r].number <= NumberOf(head) /\ NumberOf(head) \in Nat
  BY <1>1, <1>2 DEF OneChain, NumberOf
<1>4. revisions[r].number >= 1
  <2>1. CASE revisions[r].parent = NULL
    BY <2>1 DEF OneChain
  <2>2. CASE revisions[r].parent # NULL
    <3>1. /\ revisions[r].parent \in Stored
          /\ revisions[revisions[r].parent].number + 1 = revisions[r].number
      BY <2>2 DEF OneChain
    <3> QED
      BY <1>1, <3>1
  <2> QED
    BY <2>1, <2>2
<1> QED
  BY <1>1, <1>2, <1>3, <1>4

LEMMA StoreLoads ==
  ASSUME TypeOK, OneChain, ApprovalBindsContent, RowsOK, Numbered
  PROVE  AlwaysLoadable
<1> DEFINE w == Snapshot
<1>1. /\ StoredIn(w) = Stored /\ w.head = head /\ w.baseline = baseline
      /\ w.revs = revisions /\ w.apps = approvals
  BY DEF Snapshot, StoredIn, Stored
<1> HIDE DEF w
<1>2. Cardinality(Stored) <= MaxRevisions
  <2>1. CASE head = NULL
    BY <2>1, ContentAssumption DEF Numbered, NumberOf
  <2>2. CASE head # NULL
    BY <2>2 DEF Numbered, NumberOf, OneChain, RowsOK, WellFormed
  <2> QED
    BY <2>1, <2>2
<1>3. SingleChain(w)
  <2> SUFFICES ASSUME NEW r \in Stored
      PROVE  /\ revisions[r].number \in 1 .. Cardinality(Stored)
             /\ \A s \in Stored :
                  revisions[s].number = revisions[r].number => s = r
             /\ IF revisions[r].number = 1
                THEN revisions[r].parent = NULL
                ELSE \E p \in Stored :
                       /\ revisions[r].parent = p
                       /\ revisions[p].number + 1 = revisions[r].number
    BY <1>1 DEF SingleChain
  <2>1. revisions[r].number \in 1 .. Cardinality(Stored)
    BY NumberBounds DEF Numbered
  <2>2. \A s \in Stored : revisions[s].number = revisions[r].number => s = r
    BY DEF OneChain
  <2>3. CASE revisions[r].parent = NULL
    BY <2>1, <2>2, <2>3 DEF OneChain
  <2>4. CASE revisions[r].parent # NULL
    <3>1. /\ revisions[r].parent \in Stored
          /\ revisions[revisions[r].parent].number + 1 = revisions[r].number
      BY <2>4 DEF OneChain
    <3>2. revisions[revisions[r].parent].number \in Nat \ {0}
      BY <3>1, NumberBounds
    <3> QED
      BY <2>1, <2>2, <3>1, <3>2
  <2> QED
    BY <2>3, <2>4
<1>4. LocksWellFormed(w)
  BY <1>1 DEF LocksWellFormed, RowsOK, WellFormed
<1>5. HeadIsLast(w)
  BY <1>1 DEF HeadIsLast, OneChain
<1>6. ApprovalsMatch(w)
  BY <1>1 DEF ApprovalsMatch, ApprovalBindsContent
<1>7. ~ (w.baseline # NULL /\ w.apps[w.baseline] = NULL)
  BY <1>1 DEF ApprovalBindsContent
<1>8. ~ (Cardinality(StoredIn(w)) > MaxRevisions)
  BY <1>1, <1>2, StoredFinite, ContentAssumption
<1>9. LoadOutcome(w) = "OK"
  BY <1>3, <1>4, <1>5, <1>6, <1>7, <1>8 DEF LoadOutcome
<1> QED
  BY <1>9 DEF AlwaysLoadable, w

(***************************************************************************)
(* The checks of reconstruction never refuse what the handlers themselves      *)
(* stored: the chain is complete, every row was admitted well formed, and     *)
(* every receipt fits: AlwaysLoadable.                                        *)
(***************************************************************************)
THEOREM StoreAlwaysLoads == Spec => []AlwaysLoadable
<1>1. /\ TypeOK /\ OneChain /\ ApprovalBindsContent /\ DraftsOK /\ Numbered
      => AlwaysLoadable
  BY StoreLoads DEF DraftsOK
<1> QED
  BY <1>1, TypeCorrect, HistoryIsOneChain, ApprovalsBind, DraftsAreFresh,
     NumbersHaveNoGap, PTL

-----------------------------------------------------------------------------
(***************************************************************************)
(* What a handler remembers of the store.  A copy ends where the head it      *)
(* read was; what is stored later is numbered beyond it.  A baseline or an     *)
(* approval, once seen, stays or is overtaken by a newer one.                 *)
(***************************************************************************)
Beyond(w) ==
  \A r \in Stored \ StoredIn(w), s \in StoredIn(w) :
    w.revs[s].number < revisions[r].number

Overtaken(b) ==
  /\ approvals[b] # NULL /\ baseline # NULL
  /\ revisions[b].number <= revisions[baseline].number

Rewriting == Drafting \cap WithState

Remembers(c) ==
  /\ pc[c] = "loadApprovals" \/ Working(c) => Beyond(ws[c])
  /\ Working(c) => \A r \in RevIds :
                     ws[c].apps[r] # NULL => ws[c].apps[r] = approvals[r]
  /\ pc[c] \in Copying /\ ws[c].baseline # NULL => Overtaken(ws[c].baseline)
  /\ pc[c] = "execute" /\ req[c].action \in WithState =>
       /\ ws[c].head = before[c].head
       /\ ws[c].baseline = before[c].baseline
  /\ pc[c] \in {"saveRevision", "confirm"} /\ req[c].action \in Rewriting =>
       ws[c].head # before[c].head
  /\ pc[c] = "confirm" => req[c].action \in WithState
  /\ pc[c] = "confirm" /\ req[c].action = "approve" =>
       ws[c].head \in Stored /\ Overtaken(ws[c].head)

RememberOK == \A c \in Clients : Remembers(c)

StoreOK == Inductive /\ OneChain /\ ApprovalBindsContent

LEMMA Forward ==
  ASSUME StoreOK, [Next]_vars
  PROVE  /\ RowsStay /\ Stored \subseteq Stored'
         /\ \A r \in Stored' \ Stored, s \in Stored :
              revisions[s].number < revisions'[r].number
         /\ \A b \in RevIds : Overtaken(b) => Overtaken(b)'
<1> USE DEF StoreOK
<1>1. RowsStay
  BY RowsStayStep
<1>2. Stored \subseteq Stored'
  BY <1>1 DEF RowsStay, Stored
<1>3. ASSUME NEW r \in Stored' \ Stored, NEW s \in Stored
      PROVE  revisions[s].number < revisions'[r].number
  <2>1. PICK c \in Clients : StoresRevision(c)
    BY <1>3, StoreSteps
    DEF storeVars, StoresApproval, CommitApproval, Stored
  <2>2. r = ws[c].head /\ revisions'[r] = ws[c].revs[ws[c].head]
    BY <1>3, <2>1, StoredGrows
  <2>3. revisions'[r].number = PreviousNumber(head) + 1
    BY <2>1, <2>2, TokenIsParent
  <2>4. /\ head # NULL /\ NumberOf(head) \in Nat
        /\ revisions[s].number \in 1 .. NumberOf(head)
    BY <1>3, NumberBounds DEF Inductive
  <2>5. PreviousNumber(head) = NumberOf(head)
    BY DEF PreviousNumber, NumberOf
  <2> QED
    BY <2>3, <2>4, <2>5
<1>4. ASSUME NEW b \in RevIds, Overtaken(b)
      PROVE  Overtaken(b)'
  <2>1. /\ b \in Stored /\ baseline \in Stored
        /\ approvals'[b] = approvals[b]
        /\ revisions'[b] = revisions[b]
        /\ revisions'[baseline] = revisions[baseline]
    BY <1>1, <1>4
    DEF Overtaken, ApprovalBindsContent, RowsStay, Stored, Inductive,
        TypeOK, StoreTypeOK
  <2>2. CASE baseline' = baseline
    BY <1>4, <2>1, <2>2 DEF Overtaken
  <2>3. CASE baseline' # baseline
    <3>1. /\ baseline' = head
          /\ revisions[baseline].number < revisions[head].number
      BY <1>4, <2>3, BaselineStep DEF BaselineToNewerHead, Overtaken, vars
    <3>2. head \in Stored /\ head # NULL
      BY <2>1 DEF OneChain
    <3>3. revisions'[head] = revisions[head]
      BY <1>1, <3>2 DEF RowsStay, Stored
    <3>4. \A r \in {b, baseline, head} : revisions[r].number \in Nat
      BY <2>1, <3>2, NumberBounds DEF Inductive
    <3>5. revisions[b].number <= revisions[head].number
      BY <1>4, <3>1, <3>4 DEF Overtaken
    <3> QED
      BY <1>4, <2>1, <3>1, <3>2, <3>3, <3>5 DEF Overtaken
  <2> QED
    BY <2>2, <2>3
<1> QED
  BY <1>1, <1>2, <1>3, <1>4

LEMMA BeyondStays ==
  ASSUME StoreOK, [Next]_vars, NEW w \in Workspaces, Copied(w), Beyond(w)
  PROVE  \A r \in Stored' \ StoredIn(w), s \in StoredIn(w) :
           w.revs[s].number < revisions'[r].number
<1>1. \A s \in StoredIn(w) : s \in Stored /\ w.revs[s] = revisions[s]
  BY DEF Copied, StoredIn, Stored
<1>2. ASSUME NEW r \in Stored' \ StoredIn(w), NEW s \in StoredIn(w)
      PROVE  w.revs[s].number < revisions'[r].number
  <2>1. CASE r \in Stored
    <3>1. revisions'[r] = revisions[r]
      BY <2>1, Forward DEF RowsStay, Stored
    <3> QED
      BY <1>2, <2>1, <3>1 DEF Beyond
  <2>2. CASE r \notin Stored
    BY <1>1, <1>2, <2>2, Forward
  <2> QED
    BY <2>1, <2>2
<1> QED
  BY <1>2

(* The steps of one handler do not disturb what the others remember.         *)
LEMMA OthersRemember ==
  ASSUME StoreOK, [Next]_vars, RememberOK, DraftsOK,
         NEW c \in Clients, Apart(c), NEW d \in Clients \ {c}
  PROVE  Remembers(d)'
<1>1. /\ pc'[d] = pc[d] /\ req'[d] = req[d] /\ before'[d] = before[d]
      /\ ws'[d] = ws[d] /\ Remembers(d) /\ HandlerOK(d) /\ DraftOK(d)
  BY DEF Apart, RememberOK, StoreOK, Inductive, HandlersOK, DraftsOK
<1>2. Working(d)' <=> Working(d)
  BY <1>1 DEF Working
<1>3. ASSUME pc[d] = "loadApprovals" \/ Working(d)
      PROVE  Beyond(ws[d])'
  <2>1. ws[d] \in Workspaces /\ Copied(ws[d]) /\ Beyond(ws[d])
    BY <1>1, <1>3 DEF HandlerOK, Remembers, Working, HasWorkspace, Copying
  <2>2. \A r \in Stored' \ StoredIn(ws[d]), s \in StoredIn(ws[d]) :
          ws[d].revs[s].number < revisions'[r].number
    BY <2>1, BeyondStays
  <2> QED
    BY <1>1, <2>2 DEF Beyond, StoredIn
<1>4. ASSUME Working(d), NEW r \in RevIds, ws[d].apps[r] # NULL
      PROVE  ws[d].apps[r] = approvals'[r]
  BY <1>1, <1>4, Forward DEF Remembers, RowsStay
<1>5. ASSUME pc[d] \in Copying, ws[d].baseline # NULL
      PROVE  Overtaken(ws[d].baseline)'
  <2>1. ws[d].baseline \in RevIds /\ Overtaken(ws[d].baseline)
    BY <1>1, <1>5 DEF Remembers, HandlerOK, Copying, HasWorkspace, Workspaces
  <2> QED
    BY <1>1, <2>1, Forward DEF Overtaken
<1>6. ASSUME pc[d] = "confirm", req[d].action = "approve"
      PROVE  ws[d].head \in Stored' /\ Overtaken(ws[d].head)'
  <2>1. ws[d].head \in RevIds /\ ws[d].head \in Stored /\ Overtaken(ws[d].head)
    BY <1>1, <1>6 DEF Remembers, Stored
  <2> QED
    BY <1>1, <2>1, Forward DEF Overtaken
<1> QED
  BY <1>1, <1>2, <1>3, <1>4, <1>5, <1>6 DEF Remembers

(* What a handler remembers after its own step.                             *)
LEMMA TakesRemember ==
  ASSUME StoreOK, RememberOK, NEW c \in Clients, Takes(c)
  PROVE  Remembers(c)'
<1>1. /\ UNCHANGED storeVars /\ Same(c) /\ pc'[c] \in {"provider", "execute"}
      /\ LoadOutcome(ws'[c]) = "OK"
      /\ req[c].action \in WithState => /\ ws'[c].head = before[c].head
                                        /\ ws'[c].baseline = before[c].baseline
  BY DEF Takes
<1>2. /\ revisions' = revisions /\ approvals' = approvals
      /\ baseline' = baseline /\ Stored' = Stored
  BY <1>1 DEF storeVars, Stored
<1>3. CASE ws'[c] = Snapshot
  <2>1. /\ ws'[c].revs = revisions /\ ws'[c].apps = approvals
        /\ ws'[c].baseline = baseline /\ StoredIn(ws[c])' = Stored
    BY <1>3 DEF Snapshot, StoredIn, Stored
  <2>2. baseline # NULL => Overtaken(baseline)
    <3>1. baseline # NULL => baseline \in Stored /\ approvals[baseline] # NULL
      BY DEF StoreOK, Inductive, TypeOK, StoreTypeOK, ApprovalBindsContent
    <3>2. baseline # NULL => revisions[baseline].number \in Nat
      BY <3>1, NumberBounds DEF StoreOK, Inductive
    <3> QED
      BY <3>1, <3>2 DEF Overtaken
  <2>3. Beyond(ws[c])'
    BY <1>2, <2>1 DEF Beyond
  <2> QED
    BY <1>1, <1>2, <2>1, <2>2, <2>3 DEF Remembers, Overtaken, Same
<1>4. CASE /\ pc[c] = "loadApprovals"
           /\ ws'[c] = [ws[c] EXCEPT !.apps = approvals]
  <2>1. /\ Remembers(c) /\ ws[c] \in Workspaces /\ Beyond(ws[c])
    BY <1>4
    DEF RememberOK, Remembers, StoreOK, Inductive, HandlersOK, HandlerOK,
        HasWorkspace
  <2>2. /\ ws'[c].revs = ws[c].revs /\ ws'[c].apps = approvals
        /\ ws'[c].baseline = ws[c].baseline
    BY <1>4, <2>1 DEF Workspaces
  <2>3. Beyond(ws[c])'
    BY <1>2, <2>1, <2>2 DEF Beyond, StoredIn
  <2>4. ws[c].baseline # NULL => Overtaken(ws[c].baseline)
    BY <1>4, <2>1 DEF Remembers, Copying
  <2> QED
    BY <1>1, <1>2, <2>2, <2>3, <2>4 DEF Remembers, Overtaken, Same
<1> QED
  BY <1>3, <1>4 DEF Takes

LEMMA CopiesRemember ==
  ASSUME StoreOK, RememberOK, NEW c \in Clients, Copies(c)
  PROVE  Remembers(c)'
<1>1. /\ revisions' = revisions /\ approvals' = approvals
      /\ baseline' = baseline /\ Stored' = Stored
  BY DEF Copies, storeVars, Stored
<1>2. CASE pc'[c] = "loadRevisions" /\ ws'[c].baseline = baseline
  <2>1. baseline # NULL => baseline \in Stored /\ approvals[baseline] # NULL
    BY DEF StoreOK, Inductive, TypeOK, StoreTypeOK, ApprovalBindsContent
  <2>2. baseline # NULL => revisions[baseline].number \in Nat
    BY <2>1, NumberBounds DEF StoreOK, Inductive
  <2> QED
    BY <1>1, <1>2, <2>1, <2>2 DEF Remembers, Overtaken, Working
<1>3. CASE /\ pc[c] = "loadRevisions" /\ pc'[c] = "loadApprovals"
           /\ ws'[c] = [ws[c] EXCEPT !.revs = revisions]
  <2>1. ws[c] \in Workspaces /\ Remembers(c)
    BY <1>3
    DEF RememberOK, StoreOK, Inductive, HandlersOK, HandlerOK, HasWorkspace
  <2>2. ws'[c].revs = revisions /\ ws'[c].baseline = ws[c].baseline
    BY <1>3, <2>1 DEF Workspaces
  <2>3. Beyond(ws[c])'
    BY <1>1, <2>2 DEF Beyond, StoredIn, Stored
  <2>4. ws[c].baseline # NULL => Overtaken(ws[c].baseline)
    BY <1>3, <2>1 DEF Remembers, Copying
  <2> QED
    BY <1>1, <1>3, <2>2, <2>3, <2>4 DEF Remembers, Overtaken, Working
<1> QED
  BY <1>2, <1>3 DEF Copies

LEMMA ClosingRemember ==
  ASSUME StoreOK, RememberOK, DraftsOK, NEW c \in Clients,
         KeepsDraft(c) \/ Reviews(c) \/ Approves(c)
  PROVE  Remembers(c)'
<1>1. /\ pc[c] = "execute" /\ Remembers(c) /\ Working(c)
      /\ revisions' = revisions /\ approvals' = approvals
      /\ baseline' = baseline /\ Stored' = Stored /\ Same(c)
  BY DEF KeepsDraft, Reviews, Approves, RememberOK, storeVars, Stored, Working
<1>2. ws[c] \in Workspaces /\ ws[c].head \in Stored \cup {NULL}
  BY <1>1, LoadedHeadStored DEF StoreOK
<1>3. CASE KeepsDraft(c)
  <2>1. PICK rid \in RevIds \ minted, row \in Rows :
          ws'[c] = WithDraft(ws[c], rid, row)
    BY <1>3 DEF KeepsDraft
  <2>2. ws'[c].head = rid /\ pc'[c] = "saveRevision"
    BY <1>2, <1>3, <2>1 DEF WithDraft, Workspaces, KeepsDraft
  <2>3. rid \notin Stored \cup {NULL}
    BY <2>1, ContentAssumption DEF DraftsOK, RowsOK
  <2>4. req[c].action \in WithState => ws[c].head = before[c].head
    BY <1>1 DEF Remembers
  <2> QED
    BY <1>1, <1>2, <2>2, <2>3, <2>4
    DEF Remembers, Working, Copying, Same, Rewriting
<1>4. CASE Reviews(c)
  BY <1>1, <1>4
  DEF Reviews, Remembers, Working, Copying, Same, Rewriting, Drafting, WithState
<1>5. CASE Approves(c)
  <2>1. /\ pc'[c] = IF ws[c].head # before[c].baseline
                    THEN "saveApproval" ELSE "confirm"
        /\ req[c].action = "approve" /\ ws[c].head # NULL
        /\ ws'[c] = Approved(ws[c])
    BY <1>5 DEF Approves
  <2>2. ws'[c].head = ws[c].head
    BY <1>2, <2>1 DEF Approved, Workspaces
  <2>3. pc'[c] = "confirm" => Overtaken(ws[c].head)
    <3>1. ws[c].baseline = before[c].baseline
      BY <1>1, <2>1 DEF Remembers, WithState
    <3>2. ws[c].baseline # NULL => Overtaken(ws[c].baseline)
      BY <1>1 DEF Remembers, Copying
    <3> QED
      BY <2>1, <3>1, <3>2
  <2> QED
    BY <1>1, <1>2, <2>1, <2>2, <2>3
    DEF Remembers, Working, Copying, Same, Rewriting, Drafting, WithState,
        Overtaken
<1> QED
  BY <1>3, <1>4, <1>5

LEMMA WritesRemember ==
  ASSUME StoreOK, RememberOK, DraftsOK, NEW c \in Clients, Writes(c)
  PROVE  Remembers(c)'
<1>1. pc'[c] \in {"idle", "confirm"} /\ Remembers(c) /\ DraftOK(c)
  BY DEF Writes, RememberOK, DraftsOK
<1>2. CASE pc'[c] = "idle"
  BY <1>2 DEF Remembers, Working, Copying
<1>3. CASE pc'[c] = "confirm" /\ StoresRevision(c)
  <2>1. /\ pc[c] = "saveRevision" /\ Same(c) /\ ws'[c] = ws[c]
        /\ req[c].action \in WithState /\ req[c].action \in Drafting
    BY <1>1, <1>3 DEF StoresRevision, Writes, DraftOK, Fresh
  <2> QED
    BY <1>1, <1>3, <2>1
    DEF Remembers, Working, Copying, Same, Rewriting, Drafting
<1>4. CASE pc'[c] = "confirm" /\ StoresApproval(c)
  <2>1. /\ pc[c] = "saveApproval" /\ Same(c) /\ ws'[c] = ws[c]
        /\ req[c].action = "approve"
    BY <1>1, <1>4 DEF StoresApproval, Writes, DraftOK
  <2> DEFINE receipt == ws[c].apps[ws[c].head]
  <2>2. /\ receipt.rid = head /\ head \in Stored /\ receipt # NULL
    BY <1>4, ApprovedReceipt DEF Stored
  <2>3. ws[c].head = head
    <3>1. SaveApprovalOutcome(ws[c].head, receipt) = "OK"
      BY <1>4 DEF StoresApproval
    <3> HIDE DEF receipt
    <3> QED
      BY <3>1 DEF SaveApprovalOutcome
  <2>4. /\ approvals' = [approvals EXCEPT ![head] = receipt]
        /\ baseline' = head /\ revisions' = revisions
    BY <1>4, <2>2 DEF StoresApproval, CommitApproval
  <2> HIDE DEF receipt
  <2>5. /\ head \in RevIds /\ head # NULL
        /\ revisions[head].number \in Nat
        /\ approvals \in [RevIds -> Receipts \cup {NULL}]
    BY <2>2, NumberBounds DEF StoreOK, Inductive, TypeOK, StoreTypeOK, Stored
  <2>6. Overtaken(ws[c].head)' /\ Stored' = Stored
    BY <2>1, <2>2, <2>3, <2>4, <2>5 DEF Overtaken, Stored
  <2> QED
    BY <1>4, <2>1, <2>2, <2>3, <2>6
    DEF Remembers, Working, Copying, Same, Rewriting, Drafting, WithState
<1> QED
  BY <1>1, <1>2, <1>3, <1>4 DEF Writes

LEMMA RememberStep ==
  ASSUME StoreOK, RememberOK, DraftsOK, [Next]_vars
  PROVE  RememberOK'
<1>1. CASE UNCHANGED vars
  BY <1>1
  DEF vars, RememberOK, Remembers, Working, Beyond, Overtaken, Stored
<1>2. ASSUME NEW c \in Clients, Apart(c), Shape(c)
      PROVE  RememberOK'
  <2>1. ASSUME Ends(c) \/ GoesToRead(c)
        PROVE  Remembers(c)'
    BY <2>1 DEF Ends, GoesToRead, Remembers, Working, Copying
  <2>2. Remembers(c)'
    BY <1>2, <2>1, TakesRemember, CopiesRemember, ClosingRemember,
       WritesRemember
    DEF Shape
  <2> QED
    BY <1>2, <2>2, OthersRemember DEF RememberOK
<1> QED
  BY <1>1, <1>2, StepShape DEF StoreOK

(* The store's invariants and what the handlers know of it, together.       *)
THEOREM StoreInvariant == Spec => []StoreOK
<1>1. Inductive /\ OneChain /\ ApprovalBindsContent => StoreOK
  BY DEF StoreOK
<1> QED
  BY <1>1, HandlersKnow, HistoryIsOneChain, ApprovalsBind, PTL

(* At each of its steps a handler remembers what Remembers says.            *)
THEOREM HandlersRemember == Spec => []RememberOK
<1>1. Init => RememberOK
  BY DEF Init, RememberOK, Remembers, Working, Copying
<1>2. StoreOK /\ RememberOK /\ DraftsOK /\ [Next]_vars => RememberOK'
  BY RememberStep
<1> QED
  BY <1>1, <1>2, StoreInvariant, DraftsAreFresh, PTL DEF Spec

LEMMA PastSnapshot ==
  ASSUME StoreOK, RememberOK
  PROVE  SnapshotIsPast
<1> SUFFICES ASSUME NEW c \in Clients, Working(c)
    PROVE  /\ StoredIn(ws[c]) =
                {r \in Stored : /\ ws[c].head # NULL
                                /\ revisions[r].number
                                     <= revisions[ws[c].head].number}
           /\ \A r \in StoredIn(ws[c]) : ws[c].revs[r] = revisions[r]
           /\ \A r \in RevIds :
                ws[c].apps[r] # NULL => ws[c].apps[r] = approvals[r]
  BY DEF SnapshotIsPast
<1> DEFINE w == ws[c]
<1>1. /\ w \in Workspaces /\ Copied(w) /\ HeadIsLast(w) /\ Beyond(w)
      /\ \A r \in RevIds : w.apps[r] # NULL => w.apps[r] = approvals[r]
      /\ w.head # NULL => w.head \in StoredIn(w)
  BY LoadedHeadStored DEF StoreOK, RememberOK, Remembers, LoadOutcome
<1> HIDE DEF w
<1>2. \A r \in StoredIn(w) : r \in Stored /\ w.revs[r] = revisions[r]
  BY <1>1 DEF Copied, StoredIn, Stored
<1>3. \A r \in Stored : revisions[r].number \in Nat
  BY NumberBounds DEF StoreOK, Inductive
<1>4. ASSUME NEW r \in StoredIn(w)
      PROVE  /\ w.head # NULL
             /\ revisions[r].number <= revisions[w.head].number
  <2>1. w.head \in StoredIn(w) /\ w.revs[r].number <= w.revs[w.head].number
    BY <1>1 DEF HeadIsLast
  <2> QED
    BY <1>2, <2>1, ContentAssumption DEF StoredIn
<1>5. ASSUME NEW r \in Stored, w.head # NULL,
             revisions[r].number <= revisions[w.head].number
      PROVE  r \in StoredIn(w)
  <2>1. w.head \in StoredIn(w)
    BY <1>1, <1>5
  <2>2. CASE r \notin StoredIn(w)
    BY <1>1, <1>2, <1>3, <1>5, <2>1, <2>2 DEF Beyond
  <2> QED
    BY <2>2
<1>6. StoredIn(w) = {r \in Stored : /\ w.head # NULL
                                    /\ revisions[r].number
                                         <= revisions[w.head].number}
  BY <1>2, <1>4, <1>5
<1> QED
  BY <1>1, <1>2, <1>6 DEF w

(***************************************************************************)
(* Whatever was written between its reads, a handler works on the stored       *)
(* history up to the head it read, and on stored receipts: SnapshotIsPast.     *)
(***************************************************************************)
THEOREM SnapshotsArePast == Spec => []SnapshotIsPast
<1>1. StoreOK /\ RememberOK => SnapshotIsPast
  BY PastSnapshot
<1> QED
  BY <1>1, StoreInvariant, HandlersRemember, PTL

-----------------------------------------------------------------------------
(* Definite answers are true, also after other handlers moved on.            *)

Durable(c) ==
  resp[c].code = "OK" /\ resp[c].rid # NULL =>
    /\ resp[c].rid \in Stored
    /\ resp[c].action = "approve" => Overtaken(resp[c].rid)

Unstored(c) ==
  Refused(c) /\ resp[c].action \in Writing => resp[c].rid \notin Stored

AnswersOK == \A c \in Clients : Durable(c) /\ Unstored(c)

(* A step leaves the answers already given true: what was acknowledged stays, *)
(* and nobody saves the draft of a request that was refused.                  *)
LEMMA AnswersStay ==
  ASSUME StoreOK, DraftsOK, AnswersOK, [Next]_vars,
         NEW c \in Clients, resp'[c] = resp[c]
  PROVE  Durable(c)' /\ Unstored(c)'
<1>1. Durable(c)'
  <2>1. ASSUME resp[c].code = "OK", resp[c].rid # NULL
        PROVE  /\ resp[c].rid \in Stored'
               /\ resp[c].action = "approve" => Overtaken(resp[c].rid)'
    <3>1. /\ resp[c].rid \in Stored /\ resp[c].rid \in RevIds
          /\ resp[c].action = "approve" => Overtaken(resp[c].rid)
      BY <2>1 DEF AnswersOK, Durable, Stored
    <3> QED
      BY <3>1, Forward DEF Overtaken
  <2> QED
    BY <2>1 DEF Durable, Overtaken
<1>2. ASSUME resp[c].rid \notin Stored
      PROVE  resp[c].rid \notin Stored'
  <2>1. CASE UNCHANGED storeVars
    BY <1>2, <2>1 DEF storeVars, Stored
  <2>2. ASSUME NEW d \in Clients, StoresApproval(d)
        PROVE  resp[c].rid \notin Stored'
    BY <1>2, <2>2 DEF StoresApproval, CommitApproval, Stored
  <2>3. ASSUME NEW d \in Clients, StoresRevision(d)
        PROVE  resp[c].rid \notin Stored'
    <3>1. Stored' = Stored \cup {ws[d].head}
      BY <2>3, StoredGrows DEF StoreOK
    <3>2. resp[c].rid # ws[d].head
      BY <2>3 DEF StoresRevision, DraftsOK, DraftOK, Fresh
    <3> QED
      BY <1>2, <3>1, <3>2
  <2> QED
    BY <2>1, <2>2, <2>3, StoreSteps DEF StoreOK
<1> QED
  BY <1>1, <1>2 DEF AnswersOK, Unstored, Refused

(* The answer of the confirming read.                                       *)
LEMMA ConfirmedAnswer ==
  ASSUME StoreOK, DraftsOK, RememberOK, NEW c \in Clients, Confirm(c)
  PROVE  Durable(c)' /\ Unstored(c)'
<1>1. /\ pc[c] = "confirm" /\ Remembers(c) /\ DraftOK(c)
      /\ UNCHANGED storeVars
  BY DEF Confirm, RememberOK, DraftsOK
<1>2. /\ Respond(c, "OK") => Says(c, "OK")
      /\ Respond(c, "STALE_REVISION") => Says(c, "STALE_REVISION")
  BY RespondShape DEF StoreOK
<1>3. Subject(c) = ws[c].head /\ ws[c].head \in Stored \cup {NULL}
  BY <1>1 DEF Subject, DraftOK
<1>4. /\ revisions' = revisions /\ approvals' = approvals
      /\ baseline' = baseline /\ Stored' = Stored
  BY <1>1 DEF storeVars, Stored
<1>5. CASE Respond(c, "OK")
  <2>1. /\ resp'[c].code = "OK" /\ resp'[c].rid = ws[c].head
        /\ resp'[c].action = req[c].action
    BY <1>2, <1>3, <1>5 DEF Says
  <2>2. req[c].action = "approve" => Overtaken(ws[c].head)
    BY <1>1 DEF Remembers
  <2> QED
    BY <1>3, <1>4, <2>1, <2>2 DEF Durable, Unstored, Refused, Overtaken
<1>6. CASE ~ Respond(c, "OK")
  <2>1. /\ Respond(c, "STALE_REVISION")
        /\ req[c].action = "isolated_chat" \/ ~ Wrote(c)
    BY <1>6 DEF Confirm
  <2>2. /\ resp'[c].code = "STALE_REVISION"
        /\ resp'[c].action = req[c].action
    BY <1>2, <2>1 DEF Says
  <2>3. req[c].action \notin Rewriting \ {"isolated_chat"}
    BY <1>1, <2>1 DEF Remembers, Wrote
  <2>4. req[c].action \in WithState
    BY <1>1 DEF Remembers
  <2>5. req[c].action \notin Writing
    BY <2>3, <2>4 DEF Writing, Rewriting, Drafting, AllCommands, WithState
  <2> QED
    BY <2>2, <2>5 DEF Durable, Unstored
<1> QED
  BY <1>5, <1>6

LEMMA AnswersStep ==
  ASSUME StoreOK, DraftsOK, RememberOK, AnswersOK, [Next]_vars
  PROVE  AnswersOK'
<1>1. CASE UNCHANGED vars
  BY <1>1 DEF vars, AnswersOK, Durable, Unstored, Refused, Overtaken, Stored
<1>2. ASSUME NEW c \in Clients, Apart(c), Shape(c)
      PROVE  AnswersOK'
  <2>1. ASSUME NEW d \in Clients \ {c}
        PROVE  Durable(d)' /\ Unstored(d)'
    BY <1>2, <2>1, AnswersStay DEF Apart
  <2>2. ASSUME resp'[c] = resp[c]
        PROVE  Durable(c)' /\ Unstored(c)'
    BY <2>2, AnswersStay
  <2>3. ASSUME resp'[c] = NoResponse
        PROVE  Durable(c)' /\ Unstored(c)'
    BY <2>3 DEF NoResponse, Durable, Unstored, Refused
  <2>4. ASSUME NEW code \in Codes \ {"OK"}, Says(c, code),
               UNCHANGED storeVars, pc[c] = "confirm" => code = "STORE_UNAVAILABLE"
        PROVE  Durable(c)' /\ Unstored(c)'
    <3>1. /\ resp'[c].code = code /\ resp'[c].rid = Subject(c)
          /\ resp'[c].action = req[c].action
      BY <2>4 DEF Says
    <3>2. Stored' = Stored
      BY <2>4 DEF storeVars, Stored
    <3>3. CASE pc[c] = "saveRevision"
      <4>1. Subject(c) = ws[c].head /\ ws[c].head \notin Stored
        BY <3>3 DEF Subject, DraftsOK, DraftOK, Fresh
      <4> QED
        BY <2>4, <3>1, <3>2, <4>1 DEF Durable, Unstored
    <3>4. CASE pc[c] = "saveApproval"
      <4>1. req[c].action \notin Writing
        BY <3>4 DEF DraftsOK, DraftOK, Writing
      <4> QED
        BY <2>4, <3>1, <4>1 DEF Durable, Unstored
    <3>5. CASE pc[c] = "confirm"
      BY <2>4, <3>1, <3>5 DEF Durable, Unstored, Refused
    <3>6. CASE pc[c] \notin {"saveRevision", "saveApproval", "confirm"}
      <4>1. Subject(c) = NULL /\ NULL \notin Stored
        BY <3>6, ContentAssumption DEF Subject, Stored
      <4> QED
        BY <2>4, <3>1, <3>2, <4>1 DEF Durable, Unstored
    <3> QED
      BY <3>3, <3>4, <3>5, <3>6
  <2>5. ASSUME Ends(c)
        PROVE  Durable(c)' /\ Unstored(c)'
    BY <2>2, <2>4, <2>5, ConfirmedAnswer DEF Ends
  <2>6. ASSUME GoesToRead(c) \/ Copies(c) \/ Takes(c) \/ KeepsDraft(c)
               \/ Reviews(c) \/ Approves(c)
        PROVE  Durable(c)' /\ Unstored(c)'
    BY <2>2, <2>3, <2>6
    DEF GoesToRead, Copies, Takes, KeepsDraft, Reviews, Approves, Same
  <2>7. ASSUME Writes(c)
        PROVE  Durable(c)' /\ Unstored(c)'
    <3>1. CASE Says(c, "STORE_UNAVAILABLE")
      BY <3>1 DEF Says, Durable, Unstored, Refused
    <3>2. CASE resp'[c] = resp[c]
      BY <2>2, <3>2
    <3>3. CASE Says(c, "OK") /\ pc[c] = "saveRevision"
      <4>1. /\ resp'[c].code = "OK" /\ resp'[c].action = req[c].action
            /\ resp'[c].rid = ws[c].head
        BY <3>3 DEF Says, Subject
      <4>2. StoresRevision(c)
        BY <2>7, <3>3 DEF Writes, StoresApproval
      <4>3. ws[c].head \in Stored'
        BY <4>2, StoredGrows DEF StoreOK
      <4>4. req[c].action # "approve"
        BY <3>3 DEF DraftsOK, DraftOK, Fresh, Drafting
      <4> QED
        BY <4>1, <4>3, <4>4 DEF Durable, Unstored, Refused
    <3> QED
      BY <2>7, <3>1, <3>2, <3>3 DEF Writes, Same
  <2> QED
    BY <1>2, <2>1, <2>5, <2>6, <2>7 DEF Shape, AnswersOK
<1> QED
  BY <1>1, <1>2, StepShape DEF StoreOK

(***************************************************************************)
(* What was acknowledged is durable, and what was refused with its reason is   *)
(* not in the history, whatever other handlers did since: AnswersAreTrue.      *)
(***************************************************************************)
THEOREM AnswersHold == Spec => []AnswersAreTrue
<1>1. Init => AnswersOK
  BY DEF Init, AnswersOK, Durable, Unstored, Refused, NoResponse
<1>2. StoreOK /\ DraftsOK /\ RememberOK /\ AnswersOK /\ [Next]_vars
      => AnswersOK'
  BY AnswersStep
<1>3. AnswersOK => AnswersAreTrue
  BY DEF AnswersOK, Durable, Unstored, AnswersAreTrue, Overtaken,
         AcknowledgedIsDurable, RefusedIsNotStored
<1> QED
  BY <1>1, <1>2, <1>3, StoreInvariant, DraftsAreFresh, HandlersRemember, PTL
  DEF Spec

-----------------------------------------------------------------------------
(***************************************************************************)
(* The store implements the promised history.  The revision of each number    *)
(* is unique (OneChain) and there is one (Numbered), so saving a revision       *)
(* appends one version, saving an approval freezes the last one, and every     *)
(* other step leaves the history as it is.                                   *)
(***************************************************************************)
Version(row) == [content |-> row.content, locked |-> row.locked,
                 sem |-> row.sem, note |-> row.note]

History == [n \in 1 .. NumberOf(head) |-> Version(revisions[At(n)])]

Approvals == {revisions[r].number : r \in {a \in Stored : approvals[a] # NULL}}

(* A function on 1 .. k is a sequence of length k.                           *)
LEMMA LengthOf ==
  ASSUME NEW k \in Nat, NEW S, NEW f \in [1 .. k -> S]
  PROVE  Len(f) = k /\ (f = <<>> <=> k = 0)
<1>1. f \in Seq(S)
  BY SeqDef
<1>2. Len(f) \in Nat /\ DOMAIN f = 1 .. Len(f)
  BY <1>1, LenProperties
<1>3. Len(f) = k
  BY <1>2
<1> QED
  BY <1>1, <1>3, EmptySeq

(* The one row of its number.                                              *)
LEMMA ChosenRow ==
  ASSUME NEW S, NEW f, NEW r \in S,
         \A s \in S : f[s].number = f[r].number => s = r
  PROVE  (CHOOSE x \in S : f[x].number = f[r].number) = r
OBVIOUS

LEMMA AtNumber ==
  ASSUME OneChain, NEW r \in Stored
  PROVE  At(revisions[r].number) = r
<1>1. \A s \in Stored : revisions[s].number = revisions[r].number => s = r
  BY DEF OneChain
<1> QED
  BY <1>1, ChosenRow DEF At

LEMMA HistoryLength ==
  ASSUME TypeOK, OneChain
  PROVE  /\ NumberOf(head) \in Nat
         /\ NumberOf(head) = 0 <=> head = NULL
         /\ Len(History) = NumberOf(head)
         /\ History = <<>> <=> head = NULL
         /\ head # NULL => History[NumberOf(head)] = Version(revisions[head])
<1>1. NumberOf(head) \in Nat /\ (NumberOf(head) = 0 <=> head = NULL)
  <2>1. CASE head = NULL
    BY <2>1 DEF NumberOf
  <2>2. CASE head # NULL
    BY <2>2, NumberBounds DEF NumberOf, OneChain
  <2> QED
    BY <2>1, <2>2
<1> DEFINE k == NumberOf(head)
           S == {Version(revisions[At(n)]) : n \in 1 .. k}
<1>2. History \in [1 .. k -> S]
  BY DEF History
<1>3. k \in Nat
  BY <1>1
<1> HIDE DEF k, S
<1>4. Len(History) = k /\ (History = <<>> <=> k = 0)
  BY <1>2, <1>3, LengthOf
<1>5. head # NULL => History[k] = Version(revisions[head])
  <2>1. SUFFICES ASSUME head # NULL
                 PROVE  History[k] = Version(revisions[head])
    OBVIOUS
  <2>2. k \in 1 .. k
    BY <1>1, <1>3, <2>1 DEF k
  <2>3. At(k) = head
    BY <2>1, AtNumber DEF k, NumberOf, OneChain
  <2> QED
    BY <2>2, <2>3 DEF History, k
<1> QED
  BY <1>1, <1>4, <1>5 DEF k

LEMMA AppendsVersion ==
  ASSUME StoreOK, Numbered, DraftsOK, OneChain', TypeOK', NEW c \in Clients,
         StoresRevision(c)
  PROVE  Promise!Extend
<1> DEFINE rid == ws[c].head
           row == ws[c].revs[rid]
           k   == NumberOf(head)
<1>1. /\ row.number = PreviousNumber(head) + 1 /\ head = row.parent
      /\ row.parent # NULL => Honours(revisions[row.parent], row)
      /\ approvals' = approvals /\ baseline' = baseline
  BY TokenIsParent DEF StoresRevision, Admitted, CommitRevision
<1>2. /\ rid \in RevIds \ Stored /\ rid # NULL
      /\ Stored' = Stored \cup {rid} /\ revisions'[rid] = row
      /\ \A r \in Stored : revisions'[r] = revisions[r]
      /\ head' = rid
  BY StoredGrows DEF StoreOK
<1>3. WellFormed(row)
  BY DEF StoresRevision, DraftsOK, DraftOK, Fresh
<1> HIDE DEF rid, row
<1>4. /\ k \in Nat /\ (k = 0 <=> head = NULL)
      /\ Len(History) = k /\ (History = <<>> <=> head = NULL)
      /\ head # NULL => History[k] = Version(revisions[head])
  BY HistoryLength DEF StoreOK, Inductive
<1>5. NumberOf(head)' = k + 1
  BY <1>1, <1>2 DEF NumberOf, PreviousNumber
<1>6. \A n \in 1 .. k : History'[n] = History[n]
  <2> TAKE n \in 1 .. k
  <2>1. PICK r \in Stored : revisions[r].number = n
    BY DEF Numbered
  <2>2. At(n) = r
    BY <2>1, AtNumber DEF StoreOK
  <2>3. r \in Stored' /\ revisions'[r] = revisions[r]
    BY <1>2, <2>1
  <2>4. At(n)' = r
    <3>1. \A s \in Stored' : revisions'[s].number = revisions'[r].number => s = r
      BY <2>3 DEF OneChain
    <3>2. (CHOOSE x \in Stored' : revisions'[x].number = revisions'[r].number) = r
      BY <2>3, <3>1, ChosenRow
    <3> QED
      BY <2>1, <2>3, <3>2 DEF At
  <2>5. n \in 1 .. k + 1
    BY <1>4
  <2> QED
    BY <1>4, <1>5, <2>2, <2>3, <2>4, <2>5 DEF History
<1>7. History'[k + 1] = Version(row)
  <2>1. PICK j \in Nat : j = k + 1
    BY <1>4
  <2>2. At(j)' = rid
    <3>1. \A s \in Stored' : revisions'[s].number = revisions'[rid].number
                             => s = rid
      BY <1>2 DEF OneChain
    <3>2. (CHOOSE x \in Stored' : revisions'[x].number = revisions'[rid].number)
            = rid
      BY <1>2, <3>1, ChosenRow
    <3>3. revisions'[rid].number = j
      BY <1>1, <1>2, <2>1 DEF NumberOf, PreviousNumber
    <3> QED
      BY <3>2, <3>3 DEF At
  <2>3. j \in 1 .. j /\ NumberOf(head)' = j
    BY <1>4, <1>5, <2>1
  <2>4. History'[j] = Version(row)
    BY <1>2, <2>2, <2>3 DEF History, Version
  <2> QED
    BY <2>1, <2>4
<1>8. Len(History)' = k + 1
  <2> DEFINE j == k + 1
             S == {Version(revisions'[At(n)']) : n \in 1 .. j}
  <2>1. History' \in [1 .. j -> S]
    BY <1>5 DEF History
  <2>2. j \in Nat
    BY <1>4
  <2> HIDE DEF j, S
  <2>3. Len(History') = j
    BY <2>1, <2>2, LengthOf
  <2> QED
    BY <2>3 DEF j
<1>9. Approvals' = Approvals
  <2>1. \A r \in Stored' : approvals'[r] # NULL => r \in Stored
    BY <1>1, <1>2 DEF StoreOK, ApprovalBindsContent
  <2> QED
    BY <1>1, <1>2, <2>1 DEF Approvals
<1>10. NumberOf(baseline)' = NumberOf(baseline)
  <2>1. baseline # NULL => baseline \in Stored
    BY DEF StoreOK, Inductive, TypeOK, StoreTypeOK, ApprovalBindsContent
  <2> QED
    BY <1>1, <1>2, <2>1 DEF NumberOf
<1>11. CASE head = NULL
  <2>1. Version(row).locked = {} /\ Version(row).sem = NULL
    BY <1>1, <1>3, <1>11 DEF Version, WellFormed
  <2> QED
    BY <1>4, <1>6, <1>7, <1>8, <1>9, <1>10, <1>11, <2>1
    DEF Promise!Extend, History, Approvals, Version
<1>12. CASE head # NULL
  <2>1. Promise!Honours(Version(revisions[head]), Version(row))
    BY <1>1, <1>12
    DEF Honours, RoomLocksHold, PresentRooms, SelectorsOf, SameTarget,
        Resolvable, Version, Promise!Honours, Promise!RoomLocksHold,
        Promise!PresentRooms, Promise!SelectorsOf, Promise!SameTarget,
        Promise!Resolvable
  <2> QED
    BY ZenonT(40), <1>4, <1>6, <1>7, <1>8, <1>9, <1>10, <1>12, <2>1
    DEF Promise!Extend, History, Approvals, Version
<1> QED
  BY <1>11, <1>12

LEMMA FreezesVersion ==
  ASSUME StoreOK, NEW c \in Clients, StoresApproval(c)
  PROVE  Promise!Freeze
<1> DEFINE receipt == ws[c].apps[ws[c].head]
<1>1. /\ receipt # NULL /\ receipt.rid = head /\ head \in Stored
      /\ head \in RevIds /\ head # NULL
      /\ revisions[head].content \in Approvable
      /\ approvals[head] = NULL
  BY ApprovedReceipt, ContentAssumption DEF Receipt, Stored
<1>2. /\ approvals' = [approvals EXCEPT ![head] = receipt]
      /\ approvals \in [RevIds -> Receipts \cup {NULL}]
      /\ baseline' = head /\ revisions' = revisions /\ head' = head
  BY <1>1
  DEF StoresApproval, CommitApproval, StoreOK, Inductive, TypeOK, StoreTypeOK
<1> HIDE DEF receipt
<1>3. Stored' = Stored
  BY <1>2 DEF Stored
<1>4. /\ Len(History) = NumberOf(head)
      /\ History # <<>>
      /\ History[NumberOf(head)] = Version(revisions[head])
  BY <1>1, HistoryLength DEF StoreOK, Inductive
<1>5. NumberOf(head) = revisions[head].number
  BY <1>1 DEF NumberOf
<1>6. NumberOf(head) \notin Approvals
  BY <1>1, <1>5 DEF Approvals, StoreOK, OneChain
<1>7. Approvals' = Approvals \cup {NumberOf(head)}
  <2>1. {a \in Stored : approvals'[a] # NULL}
          = {a \in Stored : approvals[a] # NULL} \cup {head}
    BY <1>1, <1>2 DEF Stored
  <2> QED
    BY <1>2, <1>3, <1>5, <2>1 DEF Approvals
<1>8. NumberOf(baseline)' = NumberOf(head)
  BY <1>1, <1>2 DEF NumberOf
<1>9. History' = History
  BY <1>2, <1>3 DEF History, NumberOf, At
<1>10. History[Len(History)].content \in Approvable
  BY <1>1, <1>4 DEF Version
<1>11. /\ Len(History) \notin Approvals
       /\ Approvals' = Approvals \cup {Len(History)}
       /\ NumberOf(baseline)' = Len(History)
  BY <1>4, <1>6, <1>7, <1>8
<1> QED
  BY <1>4, <1>9, <1>10, <1>11
  DEF Promise!Freeze, History, Approvals, Version

LEMMA PromiseStep ==
  ASSUME StoreOK, Numbered, DraftsOK, OneChain', TypeOK', [Next]_vars
  PROVE  [Promise!Extend \/ Promise!Freeze]_(Promise!historyVars)
<1>1. CASE UNCHANGED storeVars
  <2>1. History' = History
    BY <1>1 DEF storeVars, History, NumberOf, At, Stored
  <2>2. Approvals' = Approvals
    BY <1>1 DEF storeVars, Approvals, Stored
  <2>3. NumberOf(baseline)' = NumberOf(baseline)
    BY <1>1 DEF storeVars, NumberOf
  <2> QED
    BY <2>1, <2>2, <2>3 DEF Promise!historyVars, History, Approvals, Version
<1>2. CASE \E c \in Clients : StoresRevision(c)
  BY <1>2, AppendsVersion
<1>3. CASE \E c \in Clients : StoresApproval(c)
  BY <1>3, FreezesVersion
<1> QED
  BY <1>1, <1>2, <1>3, StoreSteps DEF StoreOK

LEMMA PromiseInit ==
  ASSUME Init
  PROVE  Promise!HistoryInit
<1>1. head = NULL /\ baseline = NULL /\ Stored = {}
  BY DEF Init, StoreInit, Stored
<1>2. NumberOf(head) = 0 /\ NumberOf(baseline) = 0
  BY <1>1 DEF NumberOf
<1>3. History \in [1 .. 0 -> {}]
  BY <1>2 DEF History
<1>4. History = <<>>
  BY <1>3, LengthOf
<1>5. Approvals = {}
  BY <1>1 DEF Approvals
<1> QED
  BY <1>2, <1>4, <1>5 DEF Promise!HistoryInit, History, Approvals, Version

(***************************************************************************)
(* The durable store, with all its racing handlers, lost answers and crashes,  *)
(* implements the promised history: KeepsPromise.                             *)
(***************************************************************************)
THEOREM StoreKeepsPromise == Spec => KeepsPromise
<1>1. Init => Promise!HistoryInit
  BY PromiseInit
<1>2. /\ StoreOK /\ Numbered /\ DraftsOK /\ OneChain' /\ TypeOK' /\ [Next]_vars
      => [Promise!Extend \/ Promise!Freeze]_(Promise!historyVars)
  BY PromiseStep
<1> QED
  BY <1>1, <1>2, StoreInvariant, NumbersHaveNoGap, DraftsAreFresh,
     HistoryIsOneChain, TypeCorrect, PTL
  DEF Spec, KeepsPromise, Promise!HistorySpec

=============================================================================

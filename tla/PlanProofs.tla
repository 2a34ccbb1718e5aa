----------------------------- MODULE PlanProofs -----------------------------
(***************************************************************************)
(* Proofs, for every set of revision ids, handlers, plans and commands, of    *)
(* the safety of the durable plan store.                                     *)
(*                                                                          *)
(* The invariants are not inductive: what a save stores was computed on a     *)
(* private copy, several steps earlier.  HandlerOK says what a handler still    *)
(* knows of the store at each of its steps; it survives the steps of the        *)
(* others because published rows never change.                               *)
(***************************************************************************)
EXTENDS PlanSafety, FiniteSetTheorems, TLAPS

-----------------------------------------------------------------------------
(* The inductive invariant.                                                *)

HasWorkspace == {"loadRevisions", "loadApprovals", "provider", "execute",
                 "saveRevision", "saveApproval", "confirm"}

Copying == {"loadRevisions", "loadApprovals", "provider", "execute"}

(* The copy holds no row the store does not hold.                           *)
Copied(w) == \A r \in RevIds : w.revs[r] # NULL => w.revs[r] = revisions[r]

(* The draft of w was admitted on the head its author expected.             *)
Admitted(w, expected) ==
  LET row == w.revs[w.head] IN
    /\ w.head \in RevIds
    /\ row \in Rows
    /\ row.parent = expected
    /\ expected # NULL => /\ revisions[expected] # NULL
                          /\ Honours(revisions[expected], row)

Receipted(w) ==
  /\ w.head \in RevIds
  /\ w.apps[w.head] \in Receipts
  /\ w.apps[w.head].content \in Approvable

HandlerOK(c) ==
  /\ pc[c] \in HasWorkspace => ws[c] \in Workspaces
  /\ req[c].action \notin {"none", "generate", "review"} =>
       req[c].expected \in RevIds
  /\ req[c].action \in WithWorker => req[c].pass \in {1, 2}
  /\ req[c].pass = 2 => cand[c] \in Contents
  /\ pc[c] = "execute" /\ req[c].action \in WithWorker => req[c].pass = 2
  /\ pc[c] \in Copying => Copied(ws[c])
  /\ Working(c) => LoadOutcome(ws[c]) = "OK"
  /\ pc[c] = "execute" /\ HeadChecked(c) => ws[c].head = req[c].expected
  /\ pc[c] = "saveRevision" => Admitted(ws[c], req[c].expected)
  /\ pc[c] = "saveApproval" => Receipted(ws[c])

HandlersOK == \A c \in Clients : HandlerOK(c)

Inductive == TypeOK /\ HandlersOK

-----------------------------------------------------------------------------
(* What the operators of the workspace return.                             *)

LEMMA OutcomeCodes ==
  ASSUME NEW w, NEW e, NEW x, NEW y
  PROVE  /\ LoadOutcome(w) \in Codes
         /\ ProposeOutcome(w, e, x) \in Codes
         /\ RoomLockOutcome(w, e, x) \in Codes
         /\ SelectorsOutcome(w, e, x) \in Codes
         /\ RestoreOutcome(w, e, x) \in Codes
         /\ ApproveOutcome(w, e, x) \in Codes
         /\ SaveRevisionOutcome(e, x, y) \in Codes
         /\ SaveApprovalOutcome(e, x) \in Codes
BY DEF LoadOutcome, ProposeOutcome, RoomLockOutcome, SelectorsOutcome,
       RestoreOutcome, ApproveOutcome, SaveRevisionOutcome,
       SaveApprovalOutcome, Codes

(* A workspace that reconstruction accepts has a stored, well-formed head.   *)
LEMMA LoadedHead ==
  ASSUME NEW w \in Workspaces, LoadOutcome(w) = "OK", w.head # NULL
  PROVE  /\ w.head \in RevIds
         /\ HeadRow(w) \in Rows
         /\ HeadRow(w).locked \subseteq PresentRooms(HeadRow(w).content)
         /\ HeadRow(w).sem # NULL =>
              VerifyManifest(HeadRow(w).content, HeadRow(w).content,
                             HeadRow(w).sem)
<1>1. LocksWellFormed(w) /\ HeadIsLast(w)
  BY DEF LoadOutcome
<1>2. w.head \in StoredIn(w)
  BY <1>1 DEF HeadIsLast
<1>3. w.head \in RevIds /\ w.revs[w.head] \in Rows
  BY <1>2 DEF StoredIn, Workspaces
<1> QED
  BY <1>1, <1>2, <1>3 DEF LocksWellFormed, HeadRow

LEMMA RebindType ==
  ASSUME NEW manifest \in Manifests \cup {NULL}, NEW child \in Contents
  PROVE  /\ Rebind(manifest, child) \in Manifests \cup {NULL}
         /\ SelectorsOf(Rebind(manifest, child)) = SelectorsOf(manifest)
<1>1. CASE manifest = NULL
  BY <1>1 DEF Rebind, SelectorsOf
<1>2. CASE manifest # NULL
  <2>1. /\ manifest \in Manifests
        /\ BuildManifest(child, manifest.selectors) \in Manifests
    BY <1>2 DEF Manifests, BuildManifest
  <2> QED
    BY <1>2, <2>1, RecordAssumption DEF Rebind, SelectorsOf, BuildManifest
<1> QED
  BY <1>1, <1>2

LEMMA DraftRowType ==
  ASSUME NEW w \in Workspaces, LoadOutcome(w) = "OK",
         NEW content \in Contents, NEW note \in Notes
  PROVE  DraftRow(w, content, note) \in Rows
<1>1. Cardinality(StoredIn(w)) \in Nat
  BY FS_Subset, FS_CardinalityType, ContentAssumption DEF StoredIn
<1>2. CASE w.head = NULL
  BY <1>1, <1>2 DEF DraftRow, Rows
<1>3. CASE w.head # NULL
  <2>1. w.head \in RevIds /\ HeadRow(w) \in Rows
    BY <1>3, LoadedHead
  <2>2. /\ HeadRow(w).locked \in SUBSET Rooms
        /\ Rebind(HeadRow(w).sem, content) \in Manifests \cup {NULL}
    BY <2>1, RebindType DEF Rows
  <2> QED
    BY <1>1, <1>3, <2>1, <2>2 DEF DraftRow, Rows
<1> QED
  BY <1>2, <1>3

(***************************************************************************)
(* The three ways to draft a revision: each refuses, or yields a row on the   *)
(* head of the workspace that honours the head.                              *)
(***************************************************************************)
DraftFits(w, row) ==
  /\ row \in Rows
  /\ row.parent = w.head
  /\ w.head # NULL => Honours(HeadRow(w), row)

LEMMA DraftRowFields ==
  ASSUME NEW w, NEW content, NEW note
  PROVE  /\ DraftRow(w, content, note).parent = w.head
         /\ DraftRow(w, content, note).content = content
         /\ DraftRow(w, content, note).note = note
         /\ w.head # NULL =>
              /\ DraftRow(w, content, note).locked = HeadRow(w).locked
              /\ DraftRow(w, content, note).sem = Rebind(HeadRow(w).sem, content)
BY DEF DraftRow

LEMMA ProposedFits ==
  ASSUME NEW w \in Workspaces, LoadOutcome(w) = "OK",
         NEW expected, NEW content \in Contents, NEW note \in Notes,
         ProposeOutcome(w, expected, content) = "OK"
  PROVE  /\ expected = w.head
         /\ DraftFits(w, DraftRow(w, content, note))
<1> DEFINE row == DraftRow(w, content, note)
<1>1. /\ expected = w.head
      /\ SemanticLocksAllow(w, content)
      /\ RoomLocksAllow(w, content)
  BY DEF ProposeOutcome
<1>2. row \in Rows
  BY DraftRowType
<1>3. ASSUME w.head # NULL PROVE Honours(HeadRow(w), row)
  <2>1. HeadRow(w) \in Rows
    BY <1>3, LoadedHead
  <2>2. /\ row.content = content
        /\ row.locked = HeadRow(w).locked
        /\ row.sem = Rebind(HeadRow(w).sem, content)
    BY <1>3, DraftRowFields
  <2>3. RoomLocksHold(HeadRow(w).content, row.content, HeadRow(w).locked)
    BY <1>1, <1>3, <2>2 DEF RoomLocksAllow
  <2>4. \A s \in SelectorsOf(HeadRow(w).sem) :
          SameTarget(HeadRow(w).content, row.content, s)
    BY <1>1, <1>3, <2>2
    DEF SemanticLocksAllow, VerifyManifest, SelectorsOf
  <2>5. HeadRow(w).sem \in Manifests \cup {NULL}
    BY <2>1 DEF Rows
  <2>6. SelectorsOf(row.sem) = SelectorsOf(HeadRow(w).sem)
    BY <2>2, <2>5, RebindType
  <2> QED
    BY <2>2, <2>3, <2>4, <2>6 DEF Honours
<1>4. row.parent = w.head
  BY DraftRowFields
<1> QED
  BY <1>1, <1>2, <1>3, <1>4 DEF DraftFits

(* Content that is not touched satisfies every lock.                         *)
LEMMA UntouchedHonours ==
  ASSUME NEW w \in Workspaces, LoadOutcome(w) = "OK", w.head # NULL
  PROVE  /\ RoomLocksHold(HeadRow(w).content, HeadRow(w).content,
                          HeadRow(w).locked)
         /\ \A s \in SelectorsOf(HeadRow(w).sem) :
              SameTarget(HeadRow(w).content, HeadRow(w).content, s)
BY LoadedHead DEF RoomLocksHold, SelectorsOf, VerifyManifest

LEMMA RoomLockFits ==
  ASSUME NEW w \in Workspaces, LoadOutcome(w) = "OK",
         NEW expected \in RevIds, NEW room \in Rooms, NEW on \in BOOLEAN,
         RoomLockOutcome(w, expected, room) = "OK"
  PROVE  /\ expected = w.head
         /\ DraftFits(w, RoomLockRow(w, room, on))
<1> DEFINE note == IF on THEN "lock" ELSE "unlock"
           old  == HeadRow(w)
           base == DraftRow(w, old.content, note)
           row  == RoomLockRow(w, room, on)
<1>1. expected = w.head
  BY DEF RoomLockOutcome
<1>2. w.head # NULL
  BY <1>1, ContentAssumption
<1>3. old \in Rows /\ old.content \in Contents
  BY <1>2, LoadedHead DEF Rows
<1>4. note \in Notes
  BY DEF Notes
<1>5. base \in Rows
  BY <1>3, <1>4, DraftRowType
<1>6. /\ base.parent = w.head /\ base.content = old.content
      /\ base.note = note /\ base.locked = old.locked
      /\ base.sem = Rebind(old.sem, old.content)
  BY <1>2, DraftRowFields
<1>7. row = [base EXCEPT !.locked = IF on THEN base.locked \cup {room}
                                          ELSE base.locked \ {room}]
  BY DEF RoomLockRow
<1>8. /\ row \in Rows
      /\ row.parent = base.parent /\ row.content = base.content
      /\ row.note = base.note /\ row.sem = base.sem
  <2> HIDE DEF base, row
  <2> QED
    BY <1>5, <1>7 DEF Rows
<1>9. SelectorsOf(row.sem) = SelectorsOf(old.sem)
  <2>1. old.sem \in Manifests \cup {NULL}
    BY <1>3 DEF Rows
  <2> QED
    BY <1>3, <1>6, <1>8, <2>1, RebindType
<1>10. Honours(old, row)
  <2>1. row.note \in {"lock", "unlock"}
    BY <1>6, <1>8
  <2> QED
    BY <1>2, <1>6, <1>8, <1>9, <2>1, UntouchedHonours DEF Honours
<1> QED
  BY <1>1, <1>6, <1>8, <1>10 DEF DraftFits

LEMMA SelectorsFit ==
  ASSUME NEW w \in Workspaces, LoadOutcome(w) = "OK",
         NEW expected \in RevIds, NEW selectors \in SUBSET Selectors,
         SelectorsOutcome(w, expected, selectors) = "OK"
  PROVE  /\ expected = w.head
         /\ DraftFits(w, SelectorsRow(w, selectors))
<1> DEFINE old  == HeadRow(w)
           base == DraftRow(w, old.content, "selectors")
           row  == SelectorsRow(w, selectors)
           sem  == IF selectors = {} THEN NULL
                   ELSE BuildManifest(old.content, selectors)
<1>1. expected = w.head
  BY DEF SelectorsOutcome
<1>2. w.head # NULL
  BY <1>1, ContentAssumption
<1>3. old \in Rows /\ old.content \in Contents
  BY <1>2, LoadedHead DEF Rows
<1>4. base \in Rows
  BY <1>3, DraftRowType DEF Notes
<1>5. /\ base.parent = w.head /\ base.content = old.content
      /\ base.note = "selectors" /\ base.locked = old.locked
  BY <1>2, DraftRowFields
<1>6. sem \in Manifests \cup {NULL}
  BY <1>3 DEF BuildManifest, Manifests
<1>7. row = [base EXCEPT !.sem = sem]
  BY DEF SelectorsRow
<1>8. /\ row \in Rows
      /\ row.parent = base.parent /\ row.content = base.content
      /\ row.note = base.note /\ row.locked = base.locked
  <2> HIDE DEF base, row, sem
  <2> QED
    BY <1>4, <1>6, <1>7 DEF Rows
<1>9. Honours(old, row)
  BY <1>2, <1>5, <1>8, UntouchedHonours DEF Honours
<1> QED
  BY <1>1, <1>5, <1>8, <1>9 DEF DraftFits

LEMMA RestoredFits ==
  ASSUME NEW w \in Workspaces, LoadOutcome(w) = "OK", NEW expected,
         NEW source \in RevIds, RestoreOutcome(w, expected, source) = "OK"
  PROVE  /\ expected = w.head
         /\ DraftFits(w, DraftRow(w, w.revs[source].content, "restore"))
<1>1. /\ source \in StoredIn(w)
      /\ ProposeOutcome(w, expected, w.revs[source].content) = "OK"
  BY DEF RestoreOutcome
<1>2. w.revs[source].content \in Contents
  BY <1>1 DEF StoredIn, Workspaces, Rows
<1> QED
  BY <1>1, <1>2, ProposedFits DEF Notes

-----------------------------------------------------------------------------
(* Steps of one handler leave the others alone.                            *)

Published == \A r \in RevIds : revisions[r] # NULL => revisions'[r] = revisions[r]

OnlyOf(c) ==
  \A d \in Clients \ {c} : /\ pc'[d] = pc[d]
                           /\ req'[d] = req[d]
                           /\ ws'[d] = ws[d]
                           /\ cand'[d] = cand[d]

LEMMA OthersKeep ==
  ASSUME NEW c \in Clients, HandlersOK, OnlyOf(c), Published, HandlerOK(c)'
  PROVE  HandlersOK'
<1> SUFFICES ASSUME NEW d \in Clients \ {c}
             PROVE  HandlerOK(d)'
  BY DEF HandlersOK
<1>1. /\ pc'[d] = pc[d] /\ req'[d] = req[d]
      /\ ws'[d] = ws[d] /\ cand'[d] = cand[d]
  BY DEF OnlyOf
<1>2. HandlerOK(d)
  BY DEF HandlersOK
<1>3. /\ Working(d)' <=> Working(d)
      /\ HeadChecked(d)' <=> HeadChecked(d)
  BY <1>1 DEF Working, HeadChecked
<1>4. Copied(ws[d]) => Copied(ws[d])'
  BY <1>1 DEF Copied, Published
<1>5. ASSUME Admitted(ws[d], req[d].expected)
      PROVE  Admitted(ws[d], req[d].expected)'
  <2>1. req[d].expected \in RevIds \cup {NULL}
    BY <1>5 DEF Admitted, Rows
  <2>2. req[d].expected # NULL =>
          revisions'[req[d].expected] = revisions[req[d].expected]
    BY <1>5, <2>1 DEF Admitted, Published
  <2> QED
    BY <1>1, <1>5, <2>2 DEF Admitted
<1>6. Receipted(ws[d])' <=> Receipted(ws[d])
  BY <1>1 DEF Receipted
<1> QED
  BY <1>1, <1>2, <1>3, <1>4, <1>5, <1>6 DEF HandlerOK

(* A handler that gives up or answers knows nothing any more.                *)
LEMMA ResetKeeps ==
  ASSUME Inductive, NEW c \in Clients, Reset(c), Published,
         StoreTypeOK', minted' \subseteq RevIds,
         resp' \in [Clients -> [action : AllCommands \cup {"none"},
                                code : Codes, rid : RevIds \cup {NULL}]]
  PROVE  Inductive'
<1> USE DEF Inductive
<1>1. OnlyOf(c)
  BY DEF OnlyOf, Reset, Goto, TypeOK
<1>2. TypeOK'
  <2>1. /\ Idle \in [action : AllCommands \cup {"none"},
                     expected : RevIds \cup {NULL}, pass : 0 .. 2]
        /\ NoPointers \in [head : RevIds \cup {NULL},
                           baseline : RevIds \cup {NULL}]
        /\ "idle" \in Steps
    BY DEF Idle, NoPointers, Steps
  <2>2. /\ pc' = [pc EXCEPT ![c] = "idle"]
        /\ req' = [req EXCEPT ![c] = Idle]
        /\ before' = [before EXCEPT ![c] = NoPointers]
        /\ ws' = [ws EXCEPT ![c] = NULL]
        /\ cand' = [cand EXCEPT ![c] = NULL]
    BY DEF Reset, Goto
  <2> QED
    BY <2>1, <2>2 DEF TypeOK
<1>3. HandlerOK(c)'
  BY DEF HandlerOK, TypeOK, Reset, Goto, Idle, HasWorkspace, Copying,
         Working, WithWorker, HeadChecked
<1> QED
  BY <1>1, <1>2, <1>3, OthersKeep

LEMMA RespondKeeps ==
  ASSUME Inductive, NEW c \in Clients, NEW code \in Codes, Respond(c, code),
         Published, StoreTypeOK', minted' \subseteq RevIds
  PROVE  Inductive'
<1>1. Subject(c) \in RevIds \cup {NULL}
  BY DEF Subject, Inductive, HandlersOK, HandlerOK, HasWorkspace, Workspaces
<1>2. resp' \in [Clients -> [action : AllCommands \cup {"none"},
                             code : Codes, rid : RevIds \cup {NULL}]]
  BY <1>1 DEF Respond, Inductive, TypeOK
<1> QED
  BY <1>2, ResetKeeps DEF Respond

(* Going on with the workspace w.                                           *)
LEMMA GoOnKeeps ==
  ASSUME Inductive, NEW c \in Clients, NEW step \in Steps, Goto(c, step),
         NEW w \in Workspaces, ws' = [ws EXCEPT ![c] = w],
         UNCHANGED <<req, before, cand, resp>>,
         Published, StoreTypeOK', minted' \subseteq RevIds,
         HandlerOK(c)'
  PROVE  Inductive'
<1> USE DEF Inductive
<1>1. OnlyOf(c)
  BY DEF OnlyOf, Goto, TypeOK
<1>2. TypeOK'
  BY DEF TypeOK, Goto
<1> QED
  BY <1>1, <1>2, OthersKeep

LEMMA Quiet ==
  ASSUME Inductive, UNCHANGED storeVars
  PROVE  StoreTypeOK' /\ Published
BY DEF Inductive, TypeOK, StoreTypeOK, Published, storeVars

LEMMA AcceptKeeps ==
  ASSUME Inductive, NEW c \in Clients, NEW w \in Workspaces, Copied(w),
         Accept(c, w), UNCHANGED <<storeVars, minted>>
  PROVE  Inductive'
<1>1. StoreTypeOK' /\ Published /\ minted' \subseteq RevIds
  BY Quiet DEF Inductive, TypeOK
<1>2. ASSUME NEW code \in Codes, Respond(c, code) PROVE Inductive'
  BY <1>1, <1>2, RespondKeeps
<1>3. CASE LoadOutcome(w) # "OK" \/ PointersMoved(c, w)
           \/ (HeadChecked(c) /\ w.head # req[c].expected)
  <2>1. \E code \in Codes : Respond(c, code)
    BY <1>3, OutcomeCodes DEF Accept, Codes
  <2> QED
    BY <1>2, <2>1
<1>4. CASE /\ LoadOutcome(w) = "OK"
           /\ ~ PointersMoved(c, w)
           /\ HeadChecked(c) => w.head = req[c].expected
  <2> DEFINE step == IF req[c].action \in WithWorker /\ req[c].pass = 1
                     THEN "provider" ELSE "execute"
  <2>1. /\ Goto(c, step)
        /\ ws' = [ws EXCEPT ![c] = w]
        /\ UNCHANGED <<req, before, cand, resp>>
    BY <1>4 DEF Accept
  <2>2. step \in Steps
    BY DEF Steps
  <2>3. /\ pc'[c] = step /\ ws'[c] = w
        /\ req' = req /\ cand' = cand
    BY <2>1 DEF Goto, Inductive, TypeOK
  <2>4. Copied(w)'
    BY DEF Copied, storeVars
  <2>5. HandlerOK(c)
    BY DEF Inductive, HandlersOK
  <2>6. HandlerOK(c)'
    BY <1>4, <2>3, <2>4, <2>5
    DEF HandlerOK, Working, HeadChecked, HasWorkspace, Copying
  <2> QED
    BY <1>1, <2>1, <2>2, <2>6, GoOnKeeps
<1> QED
  BY <1>3, <1>4

LEMMA DraftKeeps ==
  ASSUME Inductive, NEW c \in Clients, pc[c] = "execute",
         NEW outcome \in Codes, NEW rid, NEW row,
         Draft(c, outcome, rid, row),
         outcome = "OK" => /\ req[c].expected = ws[c].head
                           /\ DraftFits(ws[c], row)
  PROVE  Inductive'
<1>1. /\ HandlerOK(c)
      /\ ws[c] \in Workspaces /\ LoadOutcome(ws[c]) = "OK" /\ Copied(ws[c])
  BY DEF Inductive, HandlersOK, HandlerOK, HasWorkspace, Copying, Working
<1>2. StoreTypeOK' /\ Published
  BY Quiet DEF Draft
<1>3. CASE outcome # "OK"
  BY <1>2, <1>3, RespondKeeps DEF Draft, Inductive, TypeOK
<1>4. CASE outcome = "OK"
  <2> DEFINE w == WithDraft(ws[c], rid, row)
  <2>1. /\ rid \in RevIds
        /\ ws' = [ws EXCEPT ![c] = w]
        /\ minted' \subseteq RevIds
        /\ Goto(c, "saveRevision")
        /\ UNCHANGED <<req, before, cand, resp>>
        /\ UNCHANGED revisions
    BY <1>4 DEF Draft, Inductive, TypeOK, storeVars
  <2>2. row \in Rows
    BY <1>4 DEF DraftFits
  <2>3. /\ w \in Workspaces
        /\ w.head = rid /\ w.revs[w.head] = row
    BY <1>1, <2>1, <2>2 DEF WithDraft, Workspaces
  <2>4. ASSUME req[c].expected # NULL
        PROVE  /\ revisions[req[c].expected] # NULL
               /\ Honours(revisions[req[c].expected], row)
    <3>1. req[c].expected = ws[c].head /\ Honours(HeadRow(ws[c]), row)
      BY <1>4, <2>4 DEF DraftFits
    <3>2. ws[c].head \in RevIds /\ HeadRow(ws[c]) \in Rows
      BY <1>1, <2>4, <3>1, LoadedHead
    <3>3. HeadRow(ws[c]) = revisions[ws[c].head] /\ HeadRow(ws[c]) # NULL
      BY <1>1, <3>2, RecordAssumption DEF HeadRow, Copied
    <3> QED
      BY <3>1, <3>3
  <2>5. Admitted(w, req[c].expected)
    BY <1>4, <2>1, <2>2, <2>3, <2>4 DEF Admitted, DraftFits
  <2>6. /\ pc'[c] = "saveRevision" /\ ws'[c] = w
        /\ req' = req /\ cand' = cand /\ revisions' = revisions
    BY <2>1 DEF Inductive, TypeOK, Goto
  <2>7. Admitted(ws[c], req[c].expected)'
    <3> HIDE DEF w
    <3> QED
      BY <2>5, <2>6 DEF Admitted
  <2>8. HandlerOK(c)'
    <3> HIDE DEF w
    <3> QED
      BY <1>1, <2>3, <2>6, <2>7
      DEF HandlerOK, Working, HeadChecked, HasWorkspace, Copying
  <2>9. "saveRevision" \in Steps
    BY DEF Steps
  <2> HIDE DEF w
  <2> QED
    BY <1>2, <2>1, <2>3, <2>8, <2>9, GoOnKeeps
<1> QED
  BY <1>3, <1>4

-----------------------------------------------------------------------------
(* One step lemma per action.                                              *)

LEMMA StartKeeps ==
  ASSUME Inductive, NEW c \in Clients, NEW action \in AllCommands,
         NEW expected \in RevIds \cup {NULL}, Start(c, action, expected)
  PROVE  Inductive'
<1> DEFINE request == [action |-> action, expected |-> expected, pass |-> 1]
           step    == IF action \in WithState THEN "state" ELSE "load"
<1>1. /\ pc' = [pc EXCEPT ![c] = step] /\ req' = [req EXCEPT ![c] = request]
      /\ resp' = [resp EXCEPT ![c] = NoResponse]
      /\ UNCHANGED <<storeVars, minted, before, ws, cand>>
  BY DEF Start, Goto
<1>2. expected \in RevIds \/ action \in {"generate", "review"}
  BY DEF Start, Stored
<1>3. OnlyOf(c) /\ Published
  BY <1>1, Quiet DEF OnlyOf, Inductive, TypeOK
<1>4. TypeOK'
  <2>1. /\ step \in Steps
        /\ request \in [action : AllCommands \cup {"none"},
                        expected : RevIds \cup {NULL}, pass : 0 .. 2]
        /\ NoResponse \in [action : AllCommands \cup {"none"}, code : Codes,
                           rid : RevIds \cup {NULL}]
    BY DEF Steps, NoResponse, Codes
  <2> HIDE DEF step, request
  <2> QED
    BY <1>1, <2>1 DEF Inductive, TypeOK, StoreTypeOK, storeVars
<1>5. HandlerOK(c)'
  <2>1. /\ pc'[c] = step /\ step \in {"state", "load"}
        /\ req'[c] = request
    BY <1>1 DEF Inductive, TypeOK
  <2> HIDE DEF step
  <2> QED
    BY <1>2, <2>1 DEF HandlerOK, Working, HasWorkspace, Copying
<1> QED
  BY <1>3, <1>4, <1>5, OthersKeep DEF Inductive

LEMMA ReadStateKeeps ==
  ASSUME Inductive, NEW c \in Clients, ReadState(c)
  PROVE  Inductive'
<1>1. UNCHANGED <<storeVars, minted>> /\ pc[c] = "state"
  BY DEF ReadState
<1>2. StoreTypeOK' /\ Published /\ minted' \subseteq RevIds
  BY <1>1, Quiet DEF Inductive, TypeOK
<1>3. CASE Respond(c, "STALE_REVISION")
  BY <1>2, <1>3, RespondKeeps DEF Codes
<1>4. CASE ~ Respond(c, "STALE_REVISION")
  <2>1. /\ pc' = [pc EXCEPT ![c] = "load"]
        /\ before' = [before EXCEPT ![c] = [head |-> head, baseline |-> baseline]]
        /\ UNCHANGED <<req, ws, cand, resp>>
    BY <1>4 DEF ReadState, Goto
  <2>2. OnlyOf(c)
    BY <2>1 DEF OnlyOf, Inductive, TypeOK
  <2>3. TypeOK'
    <3>1. [head |-> head, baseline |-> baseline] \in
            [head : RevIds \cup {NULL}, baseline : RevIds \cup {NULL}]
      BY DEF Inductive, TypeOK, StoreTypeOK
    <3>2. "load" \in Steps
      BY DEF Steps
    <3> QED
      BY <1>2, <2>1, <3>1, <3>2 DEF Inductive, TypeOK
  <2>4. HandlerOK(c)'
    <3>1. pc'[c] = "load" /\ req' = req /\ cand' = cand /\ HandlerOK(c)
      BY <2>1 DEF Inductive, TypeOK, HandlersOK
    <3> QED
      BY <3>1 DEF HandlerOK, Working, HasWorkspace, Copying
  <2> QED
    BY <1>2, <2>2, <2>3, <2>4, OthersKeep DEF Inductive
<1> QED
  BY <1>3, <1>4

LEMMA LoadKeeps ==
  ASSUME Inductive, NEW c \in Clients, Load(c)
  PROVE  Inductive'
<1>1. Snapshot \in Workspaces /\ Copied(Snapshot)
  BY DEF Snapshot, Workspaces, Copied, Inductive, TypeOK, StoreTypeOK
<1> QED
  BY <1>1, AcceptKeeps DEF Load

LEMMA LoadProjectKeeps ==
  ASSUME Inductive, NEW c \in Clients, LoadProject(c)
  PROVE  Inductive'
<1> DEFINE w == [head |-> head, baseline |-> baseline,
                 revs |-> [r \in RevIds |-> NULL],
                 apps |-> [r \in RevIds |-> NULL]]
<1>1. w \in Workspaces /\ Copied(w)
  BY DEF Workspaces, Copied, Inductive, TypeOK, StoreTypeOK
<1>2. /\ Goto(c, "loadRevisions") /\ ws' = [ws EXCEPT ![c] = w]
      /\ UNCHANGED <<storeVars, minted, req, before, cand, resp>>
  BY DEF LoadProject
<1>3. \A r \in RevIds : w.revs[r] = NULL
  OBVIOUS
<1>4. HandlerOK(c)'
  <2> HIDE DEF w
  <2>1. /\ pc'[c] = "loadRevisions" /\ ws'[c] = w
        /\ req' = req /\ cand' = cand /\ HandlerOK(c)
    BY <1>2 DEF Goto, Inductive, TypeOK, HandlersOK
  <2>2. Copied(ws[c])'
    BY <1>3, <2>1 DEF Copied
  <2> QED
    BY <1>1, <2>1, <2>2 DEF HandlerOK, Working, HasWorkspace, Copying
<1> HIDE DEF w
<1> QED
  BY <1>1, <1>2, <1>4, Quiet, GoOnKeeps DEF Steps, Inductive, TypeOK

LEMMA LoadRevisionsKeeps ==
  ASSUME Inductive, NEW c \in Clients, LoadRevisions(c)
  PROVE  Inductive'
<1> DEFINE w == [ws[c] EXCEPT !.revs = revisions]
<1>1. HandlerOK(c) /\ pc[c] = "loadRevisions"
  BY DEF Inductive, HandlersOK, LoadRevisions
<1>2. w \in Workspaces /\ w.revs = revisions
  BY <1>1 DEF HandlerOK, HasWorkspace, Workspaces, Inductive, TypeOK, StoreTypeOK
<1>3. /\ Goto(c, "loadApprovals") /\ ws' = [ws EXCEPT ![c] = w]
      /\ UNCHANGED <<storeVars, minted, req, before, cand, resp>>
  BY DEF LoadRevisions, Inductive, TypeOK
<1>4. HandlerOK(c)'
  <2> HIDE DEF w
  <2>1. /\ pc'[c] = "loadApprovals" /\ ws'[c] = w /\ revisions' = revisions
        /\ req' = req /\ cand' = cand
    BY <1>3 DEF Goto, Inductive, TypeOK, storeVars
  <2>2. Copied(ws[c])'
    BY <1>2, <2>1 DEF Copied
  <2> QED
    BY <1>1, <1>2, <2>1, <2>2 DEF HandlerOK, Working, HasWorkspace, Copying
<1> HIDE DEF w
<1> QED
  BY <1>2, <1>3, <1>4, Quiet, GoOnKeeps DEF Steps, Inductive, TypeOK

LEMMA LoadApprovalsKeeps ==
  ASSUME Inductive, NEW c \in Clients, LoadApprovals(c)
  PROVE  Inductive'
<1> DEFINE w == [ws[c] EXCEPT !.apps = approvals]
<1>1. HandlerOK(c) /\ pc[c] = "loadApprovals"
  BY DEF Inductive, HandlersOK, LoadApprovals
<1>2. w \in Workspaces /\ Copied(w)
  BY <1>1 DEF HandlerOK, HasWorkspace, Copying, Copied, Workspaces,
              Inductive, TypeOK, StoreTypeOK
<1> QED
  BY <1>2, AcceptKeeps DEF LoadApprovals

LEMMA ProviderAnswersKeeps ==
  ASSUME Inductive, NEW c \in Clients, NEW content \in Drafts,
         ProviderAnswers(c, content)
  PROVE  Inductive'
<1> DEFINE step == IF req[c].action \in WithState THEN "state" ELSE "load"
<1>1. /\ pc' = [pc EXCEPT ![c] = step]
      /\ cand' = [cand EXCEPT ![c] = content]
      /\ ws' = [ws EXCEPT ![c] = NULL]
      /\ req' = [req EXCEPT ![c].pass = 2]
      /\ UNCHANGED <<storeVars, minted, before, resp>>
  BY DEF ProviderAnswers, Goto
<1>2. step \in {"state", "load"} /\ content \in Contents
  BY ClientAssumption
<1> HIDE DEF step
<1>3. OnlyOf(c) /\ Published
  BY <1>1, Quiet DEF OnlyOf, Inductive, TypeOK
<1>4. TypeOK'
  <2> DEFINE request == [req[c] EXCEPT !.pass = 2]
  <2>1. step \in Steps
    BY <1>2 DEF Steps
  <2>2. /\ request \in [action : AllCommands \cup {"none"},
                        expected : RevIds \cup {NULL}, pass : 0 .. 2]
        /\ req' = [req EXCEPT ![c] = request]
    <3>1. req[c] \in [action : AllCommands \cup {"none"},
                      expected : RevIds \cup {NULL}, pass : 0 .. 2]
      BY DEF Inductive, TypeOK
    <3>2. 2 \in 0 .. 2
      OBVIOUS
    <3>3. request \in [action : AllCommands \cup {"none"},
                       expected : RevIds \cup {NULL}, pass : 0 .. 2]
      BY <3>1, <3>2
    <3> QED
      BY <1>1, <3>3
  <2>3. StoreTypeOK' /\ minted' \subseteq RevIds
    BY <1>1, Quiet DEF Inductive, TypeOK
  <2> HIDE DEF request
  <2> QED
    BY <1>1, <1>2, <2>1, <2>2, <2>3 DEF Inductive, TypeOK
<1>5. HandlerOK(c)'
  <2>1. /\ pc'[c] = step /\ cand'[c] = content /\ HandlerOK(c)
        /\ req'[c] = [req[c] EXCEPT !.pass = 2]
    BY <1>1 DEF Inductive, TypeOK, HandlersOK
  <2>2. /\ req'[c].pass = 2 /\ req'[c].action = req[c].action
        /\ req'[c].expected = req[c].expected
    BY <2>1 DEF Inductive, TypeOK
  <2> QED
    BY <1>2, <2>1, <2>2 DEF HandlerOK, Working, HasWorkspace, Copying
<1> QED
  BY <1>3, <1>4, <1>5, OthersKeep DEF Inductive

LEMMA AnswerKeeps ==
  ASSUME Inductive, NEW c \in Clients, NEW code \in Codes, Respond(c, code),
         UNCHANGED <<storeVars, minted>>
  PROVE  Inductive'
BY Quiet, RespondKeeps DEF Inductive, TypeOK

(* Going on with the workspace as it is.                                    *)
LEMMA ConfirmNextKeeps ==
  ASSUME Inductive, NEW c \in Clients, NEW w \in Workspaces,
         Goto(c, "confirm"), ws' = [ws EXCEPT ![c] = w],
         UNCHANGED <<minted, req, before, cand, resp>>,
         StoreTypeOK', Published
  PROVE  Inductive'
<1>1. /\ pc'[c] = "confirm" /\ ws'[c] = w
      /\ req' = req /\ cand' = cand /\ HandlerOK(c)
  BY DEF Goto, Inductive, TypeOK, HandlersOK
<1>2. HandlerOK(c)'
  BY <1>1 DEF HandlerOK, Working, HasWorkspace, Copying
<1> QED
  BY <1>2, GoOnKeeps DEF Steps, Inductive, TypeOK

LEMMA ReviewKeeps ==
  ASSUME Inductive, NEW c \in Clients, Review(c)
  PROVE  Inductive'
<1>1. pc[c] = "execute" /\ ws[c] \in Workspaces
  BY DEF Review, Executing, Inductive, HandlersOK, HandlerOK, HasWorkspace
<1>2. CASE Respond(c, "REVISION_NOT_FOUND")
  BY <1>2, AnswerKeeps DEF Review, Codes
<1>3. CASE ~ Respond(c, "REVISION_NOT_FOUND")
  <2>1. /\ Goto(c, "confirm") /\ ws' = [ws EXCEPT ![c] = ws[c]]
        /\ UNCHANGED <<storeVars, minted, req, before, cand, resp>>
    BY <1>3 DEF Review, Inductive, TypeOK
  <2> QED
    BY <1>1, <2>1, Quiet, ConfirmNextKeeps
<1> QED
  BY <1>2, <1>3

(* What a handler that executes a command may rely on.                      *)
LEMMA Executable ==
  ASSUME Inductive, NEW c \in Clients, NEW action \in AllCommands,
         Executing(c, action)
  PROVE  /\ pc[c] = "execute" /\ req[c].action = action
         /\ ws[c] \in Workspaces /\ LoadOutcome(ws[c]) = "OK"
         /\ action \notin {"generate", "review"} => req[c].expected \in RevIds
         /\ action \in WithWorker => cand[c] \in Contents
         /\ HeadChecked(c) => ws[c].head = req[c].expected
BY DEF Executing, Inductive, HandlersOK, HandlerOK, HasWorkspace, Working,
       AllCommands

LEMMA ChatEditKeeps ==
  ASSUME Inductive, NEW c \in Clients, NEW rid, NEW content \in Drafts,
         ChatEdit(c, rid, content)
  PROVE  Inductive'
<1>1. /\ pc[c] = "execute" /\ ws[c] \in Workspaces
      /\ LoadOutcome(ws[c]) = "OK" /\ content \in Contents
  BY Executable, ClientAssumption DEF ChatEdit, AllCommands
<1> DEFINE outcome == ProposeOutcome(ws[c], req[c].expected, content)
<1>2. outcome \in Codes
  BY OutcomeCodes
<1>3. outcome = "OK" => /\ req[c].expected = ws[c].head
                        /\ DraftFits(ws[c], DraftRow(ws[c], content, "edit"))
  BY <1>1, ProposedFits DEF Notes
<1> QED
  BY <1>1, <1>2, <1>3, DraftKeeps DEF ChatEdit

LEMMA EditGeometryKeeps ==
  ASSUME Inductive, NEW c \in Clients, NEW rid, NEW room \in Rooms,
         NEW value \in Values, EditGeometry(c, rid, room, value)
  PROVE  Inductive'
<1>1. /\ pc[c] = "execute" /\ ws[c] \in Workspaces
      /\ LoadOutcome(ws[c]) = "OK" /\ req[c].expected \in RevIds
      /\ ws[c].head = req[c].expected
  BY Executable DEF EditGeometry, AllCommands, HeadChecked, Executing
<1>2. CASE room \notin PresentRooms(HeadRow(ws[c]).content)
  BY <1>2, AnswerKeeps DEF EditGeometry, Codes
<1>3. CASE room \in PresentRooms(HeadRow(ws[c]).content)
  <2> DEFINE content == [HeadRow(ws[c]).content EXCEPT !.rooms[room] = value]
             outcome == ProposeOutcome(ws[c], req[c].expected, content)
  <2>1. HeadRow(ws[c]).content \in Contents
    BY <1>1, LoadedHead, ContentAssumption DEF Rows
  <2>2. content \in Contents
    BY <2>1 DEF Contents
  <2> HIDE DEF content
  <2>3. outcome \in Codes
    BY OutcomeCodes
  <2>4. outcome = "OK" => /\ req[c].expected = ws[c].head
                          /\ DraftFits(ws[c], DraftRow(ws[c], content, "edit"))
    BY <1>1, <2>2, ProposedFits DEF Notes
  <2>5. Draft(c, outcome, rid, DraftRow(ws[c], content, "edit"))
    BY <1>3 DEF EditGeometry, content
  <2> QED
    BY <1>1, <2>3, <2>4, <2>5, DraftKeeps
<1> QED
  BY <1>2, <1>3

LEMMA AdmitKeeps ==
  ASSUME Inductive, NEW c \in Clients, NEW rid, Admit(c, rid)
  PROVE  Inductive'
<1> DEFINE note    == IF req[c].action = "generate" THEN "generate" ELSE "edit"
           outcome == ProposeOutcome(ws[c], req[c].expected, cand[c])
<1>1. /\ pc[c] = "execute" /\ ws[c] \in Workspaces
      /\ LoadOutcome(ws[c]) = "OK" /\ cand[c] \in Contents
  BY Executable DEF Admit, AllCommands, WithWorker
<1>2. outcome \in Codes
  BY OutcomeCodes
<1>3. note \in Notes
  BY DEF Notes
<1>4. outcome = "OK" => /\ req[c].expected = ws[c].head
                        /\ DraftFits(ws[c], DraftRow(ws[c], cand[c], note))
  <2> HIDE DEF note
  <2> QED
    BY <1>1, <1>3, ProposedFits
<1>5. Draft(c, outcome, rid, DraftRow(ws[c], cand[c], note))
  BY DEF Admit
<1> HIDE DEF note, outcome
<1> QED
  BY <1>1, <1>2, <1>4, <1>5, DraftKeeps

LEMMA SetRoomLockKeeps ==
  ASSUME Inductive, NEW c \in Clients, NEW rid, NEW room \in Rooms,
         NEW on \in BOOLEAN, SetRoomLock(c, rid, room, on)
  PROVE  Inductive'
<1>1. /\ pc[c] = "execute" /\ ws[c] \in Workspaces
      /\ LoadOutcome(ws[c]) = "OK" /\ req[c].expected \in RevIds
  BY Executable DEF SetRoomLock, AllCommands
<1> DEFINE outcome == RoomLockOutcome(ws[c], req[c].expected, room)
<1>2. outcome \in Codes
  BY OutcomeCodes
<1>3. outcome = "OK" => /\ req[c].expected = ws[c].head
                        /\ DraftFits(ws[c], RoomLockRow(ws[c], room, on))
  BY <1>1, RoomLockFits
<1> QED
  BY <1>1, <1>2, <1>3, DraftKeeps DEF SetRoomLock

LEMMA ReplaceSemanticLocksKeeps ==
  ASSUME Inductive, NEW c \in Clients, NEW rid,
         NEW selectors \in SUBSET Selectors,
         ReplaceSemanticLocks(c, rid, selectors)
  PROVE  Inductive'
<1>1. /\ pc[c] = "execute" /\ ws[c] \in Workspaces
      /\ LoadOutcome(ws[c]) = "OK" /\ req[c].expected \in RevIds
  BY Executable DEF ReplaceSemanticLocks, AllCommands
<1> DEFINE outcome == SelectorsOutcome(ws[c], req[c].expected, selectors)
<1>2. outcome \in Codes
  BY OutcomeCodes
<1>3. outcome = "OK" => /\ req[c].expected = ws[c].head
                        /\ DraftFits(ws[c], SelectorsRow(ws[c], selectors))
  BY <1>1, SelectorsFit
<1> QED
  BY <1>1, <1>2, <1>3, DraftKeeps DEF ReplaceSemanticLocks

LEMMA RestoreKeeps ==
  ASSUME Inductive, NEW c \in Clients, NEW rid, NEW source \in RevIds,
         Restore(c, rid, source)
  PROVE  Inductive'
<1>1. /\ pc[c] = "execute" /\ ws[c] \in Workspaces
      /\ LoadOutcome(ws[c]) = "OK"
  BY Executable DEF Restore, AllCommands
<1> DEFINE outcome == RestoreOutcome(ws[c], req[c].expected, source)
           row     == DraftRow(ws[c], ws[c].revs[source].content, "restore")
<1>2. outcome \in Codes
  BY OutcomeCodes
<1>3. outcome = "OK" => /\ req[c].expected = ws[c].head
                        /\ DraftFits(ws[c], row)
  BY <1>1, RestoredFits
<1> QED
  BY <1>1, <1>2, <1>3, DraftKeeps DEF Restore

LEMMA ApproveKeeps ==
  ASSUME Inductive, NEW c \in Clients, NEW verified \in BOOLEAN,
         Approve(c, verified)
  PROVE  Inductive'
<1> DEFINE outcome == ApproveOutcome(ws[c], req[c].expected, verified)
           w       == Approved(ws[c])
           step    == IF ws[c].head # before[c].baseline
                      THEN "saveApproval" ELSE "confirm"
<1>1. /\ pc[c] = "execute" /\ ws[c] \in Workspaces
      /\ LoadOutcome(ws[c]) = "OK" /\ req[c].expected \in RevIds
  BY Executable DEF Approve, AllCommands
<1>2. UNCHANGED <<storeVars, minted>> /\ outcome \in Codes
  BY OutcomeCodes DEF Approve
<1>3. CASE outcome # "OK"
  BY <1>2, <1>3, AnswerKeeps DEF Approve
<1>4. CASE outcome = "OK"
  <2>1. /\ Goto(c, step) /\ ws' = [ws EXCEPT ![c] = w]
        /\ UNCHANGED <<req, before, cand, resp>>
    BY <1>4 DEF Approve
  <2>2. /\ ws[c].head \in RevIds
        /\ HeadRow(ws[c]).content \in Approvable
    BY <1>1, <1>4 DEF ApproveOutcome, CanApprove
  <2>3. HeadRow(ws[c]) \in Rows
    BY <1>1, <2>2, LoadedHead, ContentAssumption
  <2>4. Receipt(ws[c].head, HeadRow(ws[c])) \in Receipts
    BY <2>2, <2>3 DEF Receipt, Receipts, Rows
  <2>5. ws[c].apps[ws[c].head] # NULL =>
          ws[c].apps[ws[c].head] = Receipt(ws[c].head, HeadRow(ws[c]))
    BY <1>1, <2>2 DEF LoadOutcome, ApprovalsMatch, HeadRow
  <2>6. /\ w.head = ws[c].head
        /\ w.apps = [ws[c].apps EXCEPT
                       ![ws[c].head] = Receipt(ws[c].head, HeadRow(ws[c]))]
        /\ w \in Workspaces
    <3>1. Approved(ws[c]) =
            [ws[c] EXCEPT
               !.apps = [ws[c].apps EXCEPT
                           ![ws[c].head] = Receipt(ws[c].head, HeadRow(ws[c]))],
               !.baseline = ws[c].head]
      BY <2>5 DEF Approved
    <3> QED
      BY <1>1, <2>2, <2>4, <3>1 DEF Workspaces
  <2>7. Receipted(w)
    <3>1. w.apps[w.head] = Receipt(ws[c].head, HeadRow(ws[c]))
      BY <1>1, <2>2, <2>6 DEF Workspaces
    <3> HIDE DEF w
    <3> QED
      BY <2>2, <2>4, <2>6, <3>1 DEF Receipted, Receipt
  <2> HIDE DEF w, step
  <2>8. HandlerOK(c)'
    <3>1. /\ pc'[c] = step /\ ws'[c] = w
          /\ req' = req /\ cand' = cand /\ HandlerOK(c)
      BY <2>1 DEF Goto, Inductive, TypeOK, HandlersOK
    <3>2. step \in {"saveApproval", "confirm"}
      BY DEF step
    <3>3. Receipted(ws[c])'
      BY <2>7, <3>1 DEF Receipted
    <3> QED
      BY <2>6, <3>1, <3>2, <3>3 DEF HandlerOK, Working, HasWorkspace, Copying
  <2>9. step \in Steps
    BY DEF step, Steps
  <2> QED
    BY <1>2, <2>1, <2>6, <2>8, <2>9, Quiet, GoOnKeeps DEF Inductive, TypeOK
<1> QED
  BY <1>3, <1>4

(***************************************************************************)
(* The two writes: what they add to the store.                              *)
(***************************************************************************)
LEMMA CommitRevisionPublishes ==
  ASSUME Inductive, NEW rid \in RevIds, NEW row \in Rows, NEW expected,
         SaveRevisionOutcome(expected, rid, row) = "OK",
         CommitRevision(rid, row)
  PROVE  StoreTypeOK' /\ Published /\ approvals' = approvals
<1>1. revisions[rid] = NULL
  BY DEF SaveRevisionOutcome
<1> QED
  BY <1>1 DEF CommitRevision, Inductive, TypeOK, StoreTypeOK, Published

LEMMA CommitApprovalPublishes ==
  ASSUME Inductive, NEW expected, NEW receipt \in Receipts,
         SaveApprovalOutcome(expected, receipt) = "OK",
         CommitApproval(receipt)
  PROVE  /\ StoreTypeOK' /\ Published
         /\ \A r \in RevIds : approvals[r] # NULL => approvals'[r] = approvals[r]
<1>1. receipt.rid \in RevIds /\ approvals[receipt.rid] = NULL
  BY DEF SaveApprovalOutcome, Receipts
<1> QED
  BY <1>1 DEF CommitApproval, Inductive, TypeOK, StoreTypeOK, Published

LEMMA SaveRevisionKeeps ==
  ASSUME Inductive, NEW c \in Clients, NEW replied \in BOOLEAN,
         SaveRevision(c, replied)
  PROVE  Inductive'
<1> DEFINE rid     == ws[c].head
           row     == ws[c].revs[rid]
           outcome == SaveRevisionOutcome(TokenOf(c), rid, row)
<1>1. /\ pc[c] = "saveRevision" /\ minted' = minted
      /\ ws[c] \in Workspaces /\ rid \in RevIds /\ row \in Rows
  BY DEF SaveRevision, Inductive, HandlersOK, HandlerOK, HasWorkspace, Admitted
<1>2. CASE outcome # "OK"
  <2>1. Respond(c, outcome) /\ UNCHANGED storeVars
    BY <1>2 DEF SaveRevision
  <2>2. outcome \in Codes
    BY OutcomeCodes
  <2> QED
    BY <1>1, <2>1, <2>2, AnswerKeeps
<1>3. CASE outcome = "OK"
  <2>1. /\ CommitRevision(rid, row)
        /\ \/ Respond(c, "STORE_UNAVAILABLE")
           \/ Respond(c, "OK")
           \/ Goto(c, "confirm") /\ UNCHANGED <<req, before, ws, cand, resp>>
    BY <1>3 DEF SaveRevision
  <2>2. StoreTypeOK' /\ Published
    BY <1>1, <1>3, <2>1, CommitRevisionPublishes
  <2>3. ASSUME NEW code \in {"STORE_UNAVAILABLE", "OK"}, Respond(c, code)
        PROVE  Inductive'
    BY <1>1, <2>2, <2>3, RespondKeeps DEF Codes, Inductive, TypeOK
  <2>4. CASE Goto(c, "confirm") /\ UNCHANGED <<req, before, ws, cand, resp>>
    <3>1. ws' = [ws EXCEPT ![c] = ws[c]]
      BY <2>4 DEF Inductive, TypeOK
    <3> QED
      BY <1>1, <2>2, <2>4, <3>1, ConfirmNextKeeps
  <2> QED
    BY <2>1, <2>3, <2>4
<1> QED
  BY <1>2, <1>3

LEMMA SaveApprovalKeeps ==
  ASSUME Inductive, NEW c \in Clients, NEW replied \in BOOLEAN,
         SaveApproval(c, replied)
  PROVE  Inductive'
<1> DEFINE receipt == ws[c].apps[ws[c].head]
           outcome == SaveApprovalOutcome(ws[c].head, receipt)
<1>1. /\ pc[c] = "saveApproval" /\ minted' = minted
      /\ ws[c] \in Workspaces /\ receipt \in Receipts
  BY DEF SaveApproval, Inductive, HandlersOK, HandlerOK, HasWorkspace, Receipted
<1>2. CASE outcome # "OK"
  <2>1. Respond(c, outcome) /\ UNCHANGED storeVars
    BY <1>2 DEF SaveApproval
  <2>2. outcome \in Codes
    BY OutcomeCodes
  <2> QED
    BY <1>1, <2>1, <2>2, AnswerKeeps
<1>3. CASE outcome = "OK"
  <2>1. /\ CommitApproval(receipt)
        /\ \/ Respond(c, "STORE_UNAVAILABLE")
           \/ Goto(c, "confirm") /\ UNCHANGED <<req, before, ws, cand, resp>>
    BY <1>3 DEF SaveApproval
  <2>2. StoreTypeOK' /\ Published
    BY <1>1, <1>3, <2>1, CommitApprovalPublishes
  <2>3. CASE Respond(c, "STORE_UNAVAILABLE")
    BY <1>1, <2>2, <2>3, RespondKeeps DEF Codes, Inductive, TypeOK
  <2>4. CASE Goto(c, "confirm") /\ UNCHANGED <<req, before, ws, cand, resp>>
    <3>1. ws' = [ws EXCEPT ![c] = ws[c]]
      BY <2>4 DEF Inductive, TypeOK
    <3> QED
      BY <1>1, <2>2, <2>4, <3>1, ConfirmNextKeeps
  <2> QED
    BY <2>1, <2>3, <2>4
<1> QED
  BY <1>2, <1>3

LEMMA ConfirmKeeps ==
  ASSUME Inductive, NEW c \in Clients, Confirm(c)
  PROVE  Inductive'
<1>1. \E code \in {"STALE_REVISION", "OK"} : Respond(c, code)
  BY DEF Confirm
<1> QED
  BY <1>1, AnswerKeeps DEF Confirm, Codes

LEMMA CrashKeeps ==
  ASSUME Inductive, NEW c \in Clients, Crash(c)
  PROVE  Inductive'
BY Quiet, ResetKeeps DEF Crash, Inductive, TypeOK

-----------------------------------------------------------------------------
(* The whole next-state relation.                                          *)

LEMMA InductiveInit ==
  ASSUME Init
  PROVE  Inductive
<1>1. TypeOK
  <2>1. /\ Idle \in [action : AllCommands \cup {"none"},
                     expected : RevIds \cup {NULL}, pass : 0 .. 2]
        /\ NoPointers \in [head : RevIds \cup {NULL},
                           baseline : RevIds \cup {NULL}]
        /\ NoResponse \in [action : AllCommands \cup {"none"}, code : Codes,
                           rid : RevIds \cup {NULL}]
        /\ "idle" \in Steps
    BY DEF Idle, NoPointers, NoResponse, Codes, Steps
  <2> QED
    BY <2>1 DEF Init, TypeOK, StoreInit, StoreTypeOK
<1>2. ASSUME NEW c \in Clients PROVE HandlerOK(c)
  BY DEF Init, HandlerOK, Idle, HasWorkspace, Copying, Working, WithWorker
<1> QED
  BY <1>1, <1>2 DEF Inductive, HandlersOK

(* A step of a handler is one of its actions; a stored revision or receipt    *)
(* comes from a save.                                                        *)
LEMMA InductiveNext ==
  ASSUME Inductive, [Next]_vars
  PROVE  Inductive'
<1>1. CASE UNCHANGED vars
  BY <1>1 DEF vars, Inductive, TypeOK, StoreTypeOK, HandlersOK, HandlerOK,
              Working, HeadChecked, Copied, Admitted, Receipted
<1>2. ASSUME NEW c \in Clients, Client(c)
      PROVE  Inductive'
  <2>1. CASE \E a \in AllCommands, e \in RevIds \cup {NULL} : Start(c, a, e)
    BY <2>1, StartKeeps
  <2>2. CASE ReadState(c)
    BY <2>2, ReadStateKeeps
  <2>3. CASE Load(c)
    BY <2>3, LoadKeeps
  <2>4. CASE LoadProject(c)
    BY <2>4, LoadProjectKeeps
  <2>5. CASE LoadRevisions(c)
    BY <2>5, LoadRevisionsKeeps
  <2>6. CASE LoadApprovals(c)
    BY <2>6, LoadApprovalsKeeps
  <2>7. CASE \E content \in Drafts : ProviderAnswers(c, content)
    BY <2>7, ProviderAnswersKeeps
  <2>8. CASE ProviderFails(c) \/ Unavailable(c)
    BY <2>8, AnswerKeeps DEF ProviderFails, Unavailable, Codes
  <2>9. CASE Review(c)
    BY <2>9, ReviewKeeps
  <2>10. CASE \E rid \in RevIds, content \in Drafts : ChatEdit(c, rid, content)
    BY <2>10, ChatEditKeeps
  <2>11. CASE \E rid \in RevIds, room \in Rooms, value \in Values :
                EditGeometry(c, rid, room, value)
    BY <2>11, EditGeometryKeeps
  <2>12. CASE \E rid \in RevIds : Admit(c, rid)
    BY <2>12, AdmitKeeps
  <2>13. CASE \E rid \in RevIds, room \in Rooms, on \in BOOLEAN :
                SetRoomLock(c, rid, room, on)
    BY <2>13, SetRoomLockKeeps
  <2>14. CASE \E rid \in RevIds, selectors \in SUBSET Selectors :
                ReplaceSemanticLocks(c, rid, selectors)
    BY <2>14, ReplaceSemanticLocksKeeps
  <2>15. CASE \E rid \in RevIds, source \in RevIds : Restore(c, rid, source)
    BY <2>15, RestoreKeeps
  <2>16. CASE \E verified \in BOOLEAN : Approve(c, verified)
    BY <2>16, ApproveKeeps
  <2>17. CASE \E replied \in BOOLEAN : SaveRevision(c, replied)
    BY <2>17, SaveRevisionKeeps
  <2>18. CASE \E replied \in BOOLEAN : SaveApproval(c, replied)
    BY <2>18, SaveApprovalKeeps
  <2>19. CASE Confirm(c)
    BY <2>19, ConfirmKeeps
  <2>20. CASE Crash(c)
    BY <2>20, CrashKeeps
  <2> QED
    BY <1>2, <2>1, <2>2, <2>3, <2>4, <2>5, <2>6, <2>7, <2>8, <2>9, <2>10,
       <2>11, <2>12, <2>13, <2>14, <2>15, <2>16, <2>17, <2>18, <2>19, <2>20
    DEF Client
<1> QED
  BY <1>1, <1>2 DEF Next

(***************************************************************************)
(* Type correctness, and what every handler knows at each of its steps.      *)
(***************************************************************************)
THEOREM TypeCorrect == Spec => []TypeOK
<1>1. Init => Inductive
  BY InductiveInit
<1>2. Inductive /\ [Next]_vars => Inductive'
  BY InductiveNext
<1>3. Inductive => TypeOK
  BY DEF Inductive
<1> QED
  BY <1>1, <1>2, <1>3, PTL DEF Spec

THEOREM HandlersKnow == Spec => []Inductive
<1>1. Init => Inductive
  BY InductiveInit
<1>2. Inductive /\ [Next]_vars => Inductive'
  BY InductiveNext
<1> QED
  BY <1>1, <1>2, PTL DEF Spec

-----------------------------------------------------------------------------
(* What any step does to the store.                                        *)

StoresRevision(c) ==
  LET rid == ws[c].head
      row == ws[c].revs[rid]
  IN /\ pc[c] = "saveRevision"
     /\ Admitted(ws[c], req[c].expected)
     /\ SaveRevisionOutcome(TokenOf(c), rid, row) = "OK"
     /\ CommitRevision(rid, row)

StoresApproval(c) ==
  LET receipt == ws[c].apps[ws[c].head]
  IN /\ pc[c] = "saveApproval"
     /\ Receipted(ws[c])
     /\ SaveApprovalOutcome(ws[c].head, receipt) = "OK"
     /\ CommitApproval(receipt)

LEMMA StoreSteps ==
  ASSUME Inductive, [Next]_vars
  PROVE  \/ UNCHANGED storeVars
         \/ \E c \in Clients : StoresRevision(c) \/ StoresApproval(c)
<1>1. CASE UNCHANGED vars
  BY <1>1 DEF vars, storeVars
<1>2. ASSUME NEW c \in Clients, Client(c)
      PROVE  UNCHANGED storeVars \/ StoresRevision(c) \/ StoresApproval(c)
  <2>1. HandlerOK(c)
    BY DEF Inductive, HandlersOK
  <2>2. CASE \E replied \in BOOLEAN : SaveRevision(c, replied)
    BY <2>1, <2>2 DEF SaveRevision, StoresRevision, HandlerOK
  <2>3. CASE \E replied \in BOOLEAN : SaveApproval(c, replied)
    BY <2>1, <2>3 DEF SaveApproval, StoresApproval, HandlerOK
  <2>4. CASE /\ ~ \E replied \in BOOLEAN : SaveRevision(c, replied)
             /\ ~ \E replied \in BOOLEAN : SaveApproval(c, replied)
    BY <1>2, <2>4
    DEF Client, Start, ReadState, Load, LoadProject, LoadRevisions,
        LoadApprovals, ProviderAnswers, ProviderFails, Review, ChatEdit,
        EditGeometry, Admit, SetRoomLock, ReplaceSemanticLocks, Restore,
        Approve, Confirm, Unavailable, Crash, Draft
  <2> QED
    BY <2>2, <2>3, <2>4
<1> QED
  BY <1>1, <1>2 DEF Next

LEMMA TokenIsParent ==
  ASSUME NEW c \in Clients, StoresRevision(c)
  PROVE  LET row == ws[c].revs[ws[c].head] IN
           /\ head = row.parent
           /\ row.parent = req[c].expected
           /\ row \in Rows /\ ws[c].head \in RevIds
           /\ revisions[ws[c].head] = NULL
           /\ row.parent # NULL => revisions[row.parent] # NULL
           /\ row.number = PreviousNumber(row.parent) + 1
BY DEF StoresRevision, Admitted, SaveRevisionOutcome

LEMMA RowsStayStep ==
  ASSUME Inductive, [Next]_vars
  PROVE  RowsStay
<1>1. CASE UNCHANGED storeVars
  BY <1>1 DEF storeVars, RowsStay
<1>2. CASE \E c \in Clients : StoresRevision(c)
  BY <1>2, TokenIsParent, CommitRevisionPublishes
  DEF StoresRevision, Published, RowsStay
<1>3. CASE \E c \in Clients : StoresApproval(c)
  BY <1>3, CommitApprovalPublishes
  DEF StoresApproval, Receipted, Published, RowsStay
<1> QED
  BY <1>1, <1>2, <1>3, StoreSteps

(***************************************************************************)
(* Rows and receipts never change once they are stored, whichever handlers    *)
(* race: PublishedIsImmutable.                                               *)
(***************************************************************************)
THEOREM HistoryIsImmutable == Spec => PublishedIsImmutable
<1>1. Inductive /\ [Next]_vars => [RowsStay]_vars
  BY RowsStayStep
<1> QED
  BY <1>1, HandlersKnow, PTL DEF PublishedIsImmutable, Spec

(***************************************************************************)
(* A revision is only ever stored on the head its author had seen:           *)
(* NoSilentRebase.                                                           *)
(***************************************************************************)
THEOREM NothingIsRebased == Spec => NoSilentRebase
<1>1. ASSUME Inductive, [Next]_vars
      PROVE  StoredOnSeenHead
  <2>1. CASE UNCHANGED storeVars
    BY <2>1 DEF storeVars, StoredOnSeenHead
  <2>2. ASSUME NEW c \in Clients, StoresRevision(c), NEW r \in RevIds,
               revisions[r] = NULL, revisions'[r] # NULL
        PROVE  /\ pc[c] = "saveRevision" /\ ws[c].head = r
               /\ req[c].expected = revisions'[r].parent
    BY <1>1, <2>2, TokenIsParent
    DEF StoresRevision, CommitRevision, Inductive, TypeOK, StoreTypeOK
  <2>3. CASE \E c \in Clients : StoresApproval(c)
    BY <2>3 DEF StoresApproval, CommitApproval, StoredOnSeenHead
  <2> QED
    BY <1>1, <2>1, <2>2, <2>3, StoreSteps DEF StoredOnSeenHead
<1>2. Inductive /\ [Next]_vars => [StoredOnSeenHead]_vars
  BY <1>1
<1> QED
  BY <1>2, HandlersKnow, PTL DEF NoSilentRebase, Spec

=============================================================================

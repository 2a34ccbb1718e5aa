----------------------------- MODULE ProjectProofs -----------------------------
(* What belongs to a project is kept.  Its history tells the truth and what the code  *)
(* holds to a revision is what was shown there, for every building, batch and         *)
(* proposal; the copy on the device stays, for any number of tabs, saves and faults; a source that was saved   *)
(* can be read for ever, for any number of uploads that claim its id and any number of    *)
(* lost replies.                                                              *)
EXTENDS AuthoringSafety, PlanSources, LocalProject, TLAPS, FiniteSetTheorems

(* What its sender saw is what the revision is made of.                            *)
RowShown(row) ==
  row.basis # None =>
    \E r \in Outcome(row.basis[2], row.change[2]) : r.model = row.model

(* A history, the kept buildings, the latest revision and its building agree;       *)
(* that every identifier names its building is what makes this inductive: an      *)
(* undo or redo may arrive at an identifier that was there before.                *)
Sequence(h) == Len(h) \in Nat /\ h \in Seq({h[i] : i \in 1 .. Len(h)})

Truthful(h, kept, id, m) ==
  /\ Sequence(h)
  /\ id[2] = m
  /\ \A k \in 1 .. Len(h) :
       h[k].id[2] = h[k].model /\ RowTrue(h, kept, k) /\ RowShown(h[k])
  /\ h # <<>> => id = h[Len(h)].id /\ m = h[Len(h)].model

ProjectInv ==
  /\ Truthful(history, snaps, current, model)
  /\ saved # None => Truthful(saved.history, saved.snaps, saved.current, saved.model)

-----------------------------------------------------------------------------
(* Histories are sequences before and after a row is appended.                    *)
LEMMA Appended ==
  ASSUME NEW h, Sequence(h), NEW row
  PROVE  /\ Sequence(Append(h, row))
         /\ Len(Append(h, row)) = Len(h) + 1
         /\ Append(h, row)[Len(h) + 1] = row
         /\ \A k \in 1 .. Len(h) : Append(h, row)[k] = h[k]
  <1> DEFINE S == {h[i] : i \in 1 .. Len(h)} \cup {row}
             g == Append(h, row)
  <1>1. h \in Seq(S)
    BY DEF Sequence
  <1>2. /\ g \in Seq(S) /\ Len(g) = Len(h) + 1 /\ Len(h) \in Nat
        /\ g[Len(h) + 1] = row /\ \A k \in 1 .. Len(h) : g[k] = h[k]
    BY <1>1
  <1>3. g \in Seq({g[i] : i \in 1 .. Len(g)})
    BY <1>2
  <1> QED BY SMTT(30), <1>2, <1>3 DEF Sequence

LEMMA EmptyIsTruthful ==
  ASSUME NEW kept, NEW id, NEW m, id[2] = m
  PROVE  Truthful(<<>>, kept, id, m)
  BY DEF Truthful, Sequence

(* Fewer kept buildings leave a history true.                                     *)
LEMMA ForgettingIsTruthful ==
  ASSUME NEW h, NEW kept, NEW fewer, NEW id, NEW m, Truthful(h, kept, id, m),
         DOMAIN fewer = {}
  PROVE  Truthful(h, fewer, id, m)
  BY DEF Truthful, RowTrue

(* A revision that is made of the latest one, and does what its change says,        *)
(* leaves a true history true.                                                 *)
LEMMA AdvanceKeeps ==
  ASSUME ProjectInv, NEW m, NEW change, NEW basis, Advance(m, change, basis),
         change[1] = "undo" =>
           \E k \in 2 .. Len(history) :
             history[k].id = change[2] /\ history[k - 1].model = m,
         change[1] = "redo" =>
           \A k \in 1 .. Len(history) :
             history[k].id = change[2] => history[k].model = m,
         RowShown(Row(Id(current, m, change), current, m, change, basis))
  PROVE  ProjectInv'
  <1> DEFINE id  == Id(current, m, change)
             row == Row(id, current, m, change, basis)
             n   == Len(history)
  <1>1. /\ history' = Append(history, row) /\ current' = id /\ model' = m
        /\ snaps' = [r \in DOMAIN snaps \cup {id} |-> IF r = id THEN m ELSE snaps[r]]
        /\ UNCHANGED saved
    BY DEF Advance
  <1>2. Truthful(history, snaps, current, model) /\ n \in Nat /\ Sequence(history)
    BY DEF ProjectInv, Truthful, Sequence
  <1>3. /\ Sequence(history') /\ Len(history') = n + 1
        /\ history'[n + 1] = row
        /\ \A k \in 1 .. n : history'[k] = history[k]
    BY <1>1, <1>2, Appended
  <1>4. /\ row.id = id /\ row.parent = current /\ row.model = m
        /\ row.change = change /\ row.basis = basis /\ id[2] = m
    BY DEF Row, Id
  <1>5. ASSUME NEW k \in 1 .. n
        PROVE  /\ history'[k].id[2] = history'[k].model
               /\ RowTrue(history', snaps', k) /\ RowShown(history'[k])
    <2>1. history'[k] = history[k] /\ k \in Nat
      BY <1>2, <1>3
    <2>2. /\ history[k].id[2] = history[k].model
          /\ RowTrue(history, snaps, k) /\ RowShown(history[k])
      BY <1>2 DEF Truthful
    <2>3. k > 1 => history'[k].parent = history'[k - 1].id
      BY <1>2, <1>3, <2>2 DEF RowTrue
    <2>4. history'[k].id \in DOMAIN snaps' => snaps'[history'[k].id] = history'[k].model
      BY <1>1, <1>4, <2>1, <2>2 DEF RowTrue
    <2>5. history'[k].change[1] = "undo" =>
            \E i \in 2 .. k - 1 : history'[i].id = history'[k].change[2]
                                  /\ history'[i - 1].model = history'[k].model
      <3>1. SUFFICES ASSUME history[k].change[1] = "undo"
                     PROVE  \E i \in 2 .. k - 1 : history'[i].id = history'[k].change[2]
                                  /\ history'[i - 1].model = history'[k].model
        BY <2>1
      <3>2. PICK i \in 2 .. k - 1 : history[i].id = history[k].change[2]
                                    /\ history[i - 1].model = history[k].model
        BY <2>2, <3>1 DEF RowTrue
      <3>3. i \in 1 .. n /\ i - 1 \in 1 .. n
        BY <1>2
      <3> QED BY <1>3, <2>1, <3>2, <3>3
    <2>6. history'[k].change[1] = "redo" =>
            \A i \in 1 .. k - 1 : history'[i].id = history'[k].change[2]
                                  => history'[i].model = history'[k].model
      BY <1>2, <1>3, <2>1, <2>2 DEF RowTrue
    <2> QED BY <2>1, <2>2, <2>3, <2>4, <2>5, <2>6 DEF RowTrue
  <1>6. row.id[2] = row.model /\ RowTrue(history', snaps', n + 1) /\ RowShown(row)
    <2>1. n + 1 > 1 => row.parent = history'[n].id
      <3>1. SUFFICES ASSUME n >= 1 PROVE row.parent = history'[n].id
        BY <1>2
      <3>2. history # <<>>
        BY <1>2, <3>1
      <3>3. current = history[n].id
        BY <1>2, <3>2 DEF Truthful
      <3> QED BY <1>2, <1>3, <1>4, <3>1, <3>3
    <2>2. snaps'[row.id] = row.model
      BY <1>1, <1>4
    <2>3. change[1] = "undo" =>
            \E i \in 2 .. n : history'[i].id = change[2] /\ history'[i - 1].model = m
      <3>1. SUFFICES ASSUME change[1] = "undo"
                     PROVE  \E i \in 2 .. n : history'[i].id = change[2]
                                              /\ history'[i - 1].model = m
        OBVIOUS
      <3>2. PICK i \in 2 .. n : history[i].id = change[2] /\ history[i - 1].model = m
        BY <3>1
      <3>3. i \in 1 .. n /\ i - 1 \in 1 .. n
        BY <1>2
      <3> QED BY <1>3, <3>2, <3>3
    <2>4. change[1] = "redo" =>
            \A i \in 1 .. n : history'[i].id = change[2] => history'[i].model = m
      BY <1>3
    <2>5. n + 1 - 1 = n /\ history'[n + 1] = row
      BY <1>2, <1>3
    <2>6. RowShown(row) /\ row.id[2] = row.model
      BY <1>4
    <2> QED BY <1>4, <2>1, <2>2, <2>3, <2>4, <2>5, <2>6 DEF RowTrue
  <1>7. \A k \in 1 .. n + 1 :
          /\ history'[k].id[2] = history'[k].model
          /\ RowTrue(history', snaps', k) /\ RowShown(history'[k])
    <2> SUFFICES ASSUME NEW k \in 1 .. n + 1
                 PROVE  /\ history'[k].id[2] = history'[k].model
                        /\ RowTrue(history', snaps', k) /\ RowShown(history'[k])
      OBVIOUS
    <2>1. k \in 1 .. n \/ k = n + 1
      BY <1>2
    <2> QED BY <1>3, <1>5, <1>6, <2>1
  <1>8. Truthful(history', snaps', current', model')
    BY <1>1, <1>3, <1>4, <1>7 DEF Truthful
  <1>9. saved' # None =>
          Truthful(saved'.history, saved'.snaps, saved'.current, saved'.model)
    BY <1>1 DEF ProjectInv
  <1> QED BY <1>8, <1>9 DEF ProjectInv

-----------------------------------------------------------------------------
LEMMA ProjectInitInv == AuthoringInit => ProjectInv
  <1> SUFFICES ASSUME AuthoringInit PROVE ProjectInv
    OBVIOUS
  <1> DEFINE id  == FirstId(imported)
             row == Row(id, None, imported, <<"create">>, None)
  <1>1. history = Append(<<>>, row) /\ Len(<<>>) = 0 /\ Sequence(<<>>)
    BY DEF AuthoringInit, Sequence
  <1>2. Sequence(history) /\ Len(history) = 1 /\ history[1] = row
    <2> HIDE DEF row
    <2>1. /\ Sequence(history) /\ Len(history) = Len(<<>>) + 1
          /\ history[Len(<<>>) + 1] = row
      BY <1>1, Appended, Zenon
    <2> QED BY <1>1, <2>1, SMT
  <1>3. /\ row.id = id /\ row.model = imported /\ row.basis = None
        /\ row.change[1] = "create" /\ id[2] = imported
    BY DEF Row, FirstId, Id
  <1>4. snaps[id] = imported /\ current = id /\ model = imported
    BY DEF AuthoringInit
  <1>5. RowTrue(history, snaps, 1)
    BY <1>2, <1>3, <1>4 DEF RowTrue
  <1>6. RowShown(row)
    BY <1>3 DEF RowShown
  <1>7. Truthful(history, snaps, current, model)
    BY <1>2, <1>3, <1>4, <1>5, <1>6 DEF Truthful
  <1> QED BY <1>7 DEF ProjectInv, AuthoringInit

(* A token that fits the current revision was given on it.                         *)
LEMMA CommitKeeps ==
  ASSUME ProjectInv, NEW commands, NEW base, Commit(commands, base)
  PROVE  ProjectInv'
  <1>1. PICK r \in Outcome(model, commands), on \in {None} \cup Seen :
          /\ base \in {None, current}
          /\ r.breaking => Digest(commands, on) = Digest(commands, current)
          /\ Advance(r.model, <<"commands", commands>>,
                     IF base # None THEN base ELSE IF r.breaking THEN on ELSE None)
    BY DEF Commit
  <1> DEFINE basis  == IF base # None THEN base ELSE IF r.breaking THEN on ELSE None
             change == <<"commands", commands>>
  <1>2. change[1] = "commands" /\ change[2] = commands
    OBVIOUS
  <1>3. basis # None => basis[2] = model
    <2>1. r.breaking => on = current
      BY <1>1 DEF Digest
    <2>2. current[2] = model
      BY DEF ProjectInv, Truthful
    <2> QED BY <1>1, <2>1, <2>2
  <1>4. RowShown(Row(Id(current, r.model, change), current, r.model, change, basis))
    BY <1>1, <1>2, <1>3 DEF RowShown, Row
  <1> QED BY <1>1, <1>2, <1>4, AdvanceKeeps

LEMMA ApproveKeeps ==
  ASSUME ProjectInv, NEW picked, NEW base, Approve(picked, base)
  PROVE  ProjectInv'
  <1> DEFINE offers   == SelectSeq(Offers, LAMBDA offer : offer \in picked)
             commands == FlattenSeq([k \in DOMAIN offers |-> offers[k].commands])
             change   == <<"commands", commands>>
  <1> HIDE DEF commands
  <1>1. PICK r \in Outcome(model, commands) :
          Advance(r.model, <<"commands", commands>>, base)
    BY DEF Approve, commands
  <1>2. change[1] = "commands" /\ change[2] = commands
    OBVIOUS
  <1>3. base # None => base[2] = model
    BY DEF Approve, ProjectInv, Truthful
  <1>4. RowShown(Row(Id(current, r.model, change), current, r.model, change, base))
    BY <1>1, <1>2, <1>3 DEF RowShown, Row
  <1> QED BY <1>1, <1>2, <1>4, AdvanceKeeps

(* What is undone was a row, and the building before it, if kept, is that row's.    *)
LEMMA UndoKeeps ==
  ASSUME ProjectInv, NEW target, Undo(target)
  PROVE  ProjectInv'
  <1> DEFINE change == <<"undo", target>>
  <1>1. PICK k \in 2 .. Len(history) :
          /\ history[k].id = target /\ history[k - 1].id \in DOMAIN snaps
          /\ Advance(snaps[history[k - 1].id], change, None)
    BY DEF Undo
  <1>2. change[1] = "undo" /\ change[2] = target
    OBVIOUS
  <1>3. k - 1 \in 1 .. Len(history)
    BY DEF ProjectInv, Truthful, Sequence
  <1>4. history[k - 1].model = snaps[history[k - 1].id]
    BY <1>1, <1>3 DEF ProjectInv, Truthful, RowTrue
  <1>5. RowShown(Row(Id(current, snaps[history[k - 1].id], change), current,
                     snaps[history[k - 1].id], change, None))
    BY DEF RowShown, Row
  <1> QED BY <1>1, <1>2, <1>4, <1>5, AdvanceKeeps

LEMMA RedoKeeps ==
  ASSUME ProjectInv, NEW target, Redo(target)
  PROVE  ProjectInv'
  <1> DEFINE change == <<"redo", target>>
  <1>1. target \in DOMAIN snaps /\ Advance(snaps[target], change, None)
    BY DEF Redo
  <1>2. change[1] = "redo" /\ change[2] = target
    OBVIOUS
  <1>3. \A k \in 1 .. Len(history) :
          history[k].id = change[2] => history[k].model = snaps[target]
    BY <1>1, <1>2 DEF ProjectInv, Truthful, RowTrue
  <1>4. RowShown(Row(Id(current, snaps[target], change), current, snaps[target],
                     change, None))
    BY DEF RowShown, Row
  <1> QED BY <1>1, <1>2, <1>3, <1>4, AdvanceKeeps

(* Without its history or its earlier buildings a project still tells no lies.       *)
LEMMA SaveKeeps ==
  ASSUME ProjectInv, NEW withHistory \in BOOLEAN, NEW withModels \in BOOLEAN,
         SaveProject(withHistory, withModels)
  PROVE  ProjectInv'
  <1> DEFINE h == IF withHistory THEN history ELSE <<>>
             s == IF withModels THEN snaps ELSE [r \in {} |-> model]
  <1>1. /\ saved' = [model |-> model, current |-> current, history |-> h, snaps |-> s]
        /\ UNCHANGED <<model, current, history, snaps>>
    BY DEF SaveProject, projectVars
  <1>2. Truthful(history, snaps, current, model)
    BY DEF ProjectInv
  <1>3. Truthful(history, s, current, model)
    <2>1. CASE withModels
      BY <1>2, <2>1
    <2>2. CASE ~ withModels
      <3>1. DOMAIN s = {}
        BY <2>2
      <3> HIDE DEF s
      <3> QED BY <1>2, <3>1, ForgettingIsTruthful
    <2> QED BY <2>1, <2>2
  <1>4. Truthful(h, s, current, model)
    <2>1. current[2] = model
      BY <1>2 DEF Truthful
    <2> HIDE DEF s
    <2>2. Truthful(<<>>, s, current, model)
      BY <2>1, EmptyIsTruthful
    <2> QED BY <1>3, <2>2
  <1>5. /\ saved'.history = h /\ saved'.snaps = s
        /\ saved'.current = current /\ saved'.model = model
    BY <1>1
  <1> HIDE DEF h, s
  <1> QED BY <1>1, <1>2, <1>4, <1>5 DEF ProjectInv

LEMMA ProjectStepInv == ProjectInv /\ [AuthoringNext]_authoringVars => ProjectInv'
  <1> SUFFICES ASSUME ProjectInv, [AuthoringNext]_authoringVars PROVE ProjectInv'
    OBVIOUS
  <1>1. CASE \E commands \in Batches, base \in {None} \cup Seen : Commit(commands, base)
    BY <1>1, CommitKeeps
  <1>2. CASE \E picked \in SUBSET {Offers[k] : k \in DOMAIN Offers},
                base \in {None} \cup Seen : Approve(picked, base)
    BY <1>2, ApproveKeeps
  <1>3. CASE \E target \in Seen : Undo(target) \/ Redo(target)
    BY <1>3, UndoKeeps, RedoKeeps
  <1>4. CASE \E withHistory, withModels \in BOOLEAN : SaveProject(withHistory, withModels)
    BY <1>4, SaveKeeps
  <1>5. CASE LoadProject
    BY <1>5 DEF LoadProject, ProjectInv
  <1>6. CASE UNCHANGED authoringVars
    BY <1>6 DEF ProjectInv, authoringVars, projectVars
  <1> QED BY <1>1, <1>2, <1>3, <1>4, <1>5, <1>6 DEF AuthoringNext

LEMMA SequenceDomain == ASSUME NEW h, Sequence(h) PROVE DOMAIN h = 1 .. Len(h)
  BY DEF Sequence

(* However a project is edited, undone, redone, saved in part and loaded, its         *)
(* history is one chain, undo and redo lead where they say, and kept buildings are    *)
(* those of their revisions (commit_transaction, undo, redo, load_project).          *)
THEOREM HistoryTellsTheTruth == AuthoringSpec => []HistoryTrue
  <1>1. ProjectInv => HistoryTrue
    BY SequenceDomain DEF ProjectInv, Truthful, HistoryTrue
  <1> QED BY <1>1, ProjectInitInv, ProjectStepInv, PTL DEF AuthoringSpec

(* A batch that names its revision, or breaks something and so had to be confirmed by  *)
(* its digest, and a plan that names its revision, did to the building what they did  *)
(* where they were shown, whatever happened in between, for every building, batch and *)
(* plan.  Batches that name none and break nothing, an AI's with any token among them, *)
(* and plans that name none are applied to whatever building there is, and nothing is  *)
(* claimed of them (_confirmation_digest, commit_transaction, approve).              *)
THEOREM HeldToWhatWasShown == AuthoringSpec => []WhatWasShown
  <1>1. ProjectInv => WhatWasShown
    BY SequenceDomain DEF ProjectInv, Truthful, RowShown, WhatWasShown
  <1> QED BY <1>1, ProjectInitInv, ProjectStepInv, PTL DEF AuthoringSpec

-----------------------------------------------------------------------------
(* Every building that can come back is the imported one, which nobody checked, or    *)
(* was checked as a whole when it was put together: the current one, the kept ones     *)
(* and those of the saved project.                                             *)
Checked(m) == m = imported \/ Coherent(m)

CheckedOnly(m, kept) == Checked(m) /\ \A id \in DOMAIN kept : Checked(kept[id])

CheckedInv ==
  /\ CheckedOnly(model, snaps)
  /\ saved # None => CheckedOnly(saved.model, saved.snaps)

LEMMA AdvanceChecked ==
  ASSUME CheckedInv, NEW m, NEW change, NEW basis, Advance(m, change, basis), Checked(m)
  PROVE  CheckedInv'
  <1>1. /\ model' = m /\ saved' = saved /\ imported' = imported
        /\ snaps' = [r \in DOMAIN snaps \cup {Id(current, m, change)} |->
                       IF r = Id(current, m, change) THEN m ELSE snaps[r]]
    BY DEF Advance
  <1>2. \A id \in DOMAIN snaps' : snaps'[id] = m \/ (id \in DOMAIN snaps /\ snaps'[id] = snaps[id])
    BY <1>1
  <1> QED BY <1>1, <1>2 DEF CheckedInv, CheckedOnly, Checked

LEMMA CheckedStep == CheckedInv /\ [AuthoringNext]_authoringVars => CheckedInv'
  <1> SUFFICES ASSUME CheckedInv, [AuthoringNext]_authoringVars PROVE CheckedInv'
    OBVIOUS
  <1>1. ASSUME NEW m, NEW commands, NEW r \in Outcome(m, commands) PROVE Checked(r.model)
    BY <1>1 DEF Outcome, Checked
  <1>2. CASE \E commands \in Batches, base \in {None} \cup Seen : Commit(commands, base)
    BY <1>1, <1>2, AdvanceChecked DEF Commit
  <1>3. CASE \E picked \in SUBSET {Offers[k] : k \in DOMAIN Offers},
                base \in {None} \cup Seen : Approve(picked, base)
    BY <1>1, <1>3, AdvanceChecked DEF Approve
  <1>4. CASE \E target \in Seen : Undo(target) \/ Redo(target)
    BY <1>4, AdvanceChecked DEF Undo, Redo, CheckedInv, CheckedOnly
  <1>5. CASE \E withHistory, withModels \in BOOLEAN : SaveProject(withHistory, withModels)
    <2>1. PICK withHistory \in BOOLEAN, withModels \in BOOLEAN :
                 SaveProject(withHistory, withModels)
      BY <1>5
    <2> DEFINE h == IF withHistory THEN history ELSE <<>>
               s == IF withModels THEN snaps ELSE [r \in {} |-> model]
    <2>2. /\ saved' = [model |-> model, current |-> current, history |-> h, snaps |-> s]
          /\ model' = model /\ snaps' = snaps /\ imported' = imported
      BY <2>1 DEF SaveProject, projectVars
    <2>3. CheckedOnly(model, s) /\ CheckedOnly(model, snaps)
      BY DEF CheckedInv, CheckedOnly
    <2> HIDE DEF h, s
    <2>4. saved'.model = model /\ saved'.snaps = s
      BY <2>2
    <2> QED BY <2>2, <2>3, <2>4 DEF CheckedInv, CheckedOnly, Checked
  <1>6. CASE LoadProject
    BY <1>6 DEF LoadProject, CheckedInv, CheckedOnly, Checked
  <1>7. CASE UNCHANGED authoringVars
    BY <1>7 DEF CheckedInv, CheckedOnly, Checked, authoringVars, projectVars
  <1> QED BY <1>2, <1>3, <1>4, <1>5, <1>6, <1>7 DEF AuthoringNext

(* What the whole-building check compares with halves of openings and with edges is    *)
(* that no place belongs to two spaces and no opening leaves its wall.               *)
LEMMA OpeningFits ==
  ASSUME NEW off \in Int, NEW wide \in Int, NEW span \in Int,
         2 * off - wide >= 0, 2 * off + wide <= 2 * span
  PROVE  ~ (off < (wide + 1) \div 2) /\ ~ (off > span - (wide + 1) \div 2)
  OBVIOUS

LEMMA CoherentIsSound ==
  ASSUME NEW m, Coherent(m)
  PROVE  Sound(m)
  <1>1. \E i \in LevelSet(m) : m.levels[i] \in Templates
    BY DEF Coherent
  <1>2. ASSUME NEW s \in RoomSet(m)
        PROVE  /\ m.rooms[s].w \in Int /\ m.rooms[s].x \in Int /\ m.rooms[s].w >= 1
               /\ \A o \in m.rooms[s].openings :
                    /\ o.off \in Int /\ o.wide \in Int /\ o.edge \in Edges
                    /\ Fits(m.rooms[s], o) /\ HostsOf(m, o.id) = {s}
    BY BuildingAssumption DEF Coherent, Identified, HostsOf, InBounds, Measured, AllFit
  <1>3. ASSUME NEW s \in RoomSet(m)
        PROVE  Cells(m.rooms[s]) # {}
    <2>1. m.rooms[s].x \in Cells(m.rooms[s])
      BY <1>2 DEF Cells
    <2> QED BY <2>1
  <1>4. ASSUME NEW s \in RoomSet(m), NEW r \in RoomSet(m) \ {s}, TemplateOf[r] = TemplateOf[s]
        PROVE  Cells(m.rooms[s]) \cap Cells(m.rooms[r]) = {}
    <2>1. r \in RoomsOf(m, TemplateOf[s]) \ {s}
      BY <1>4 DEF RoomsOf
    <2>2. ~ Overlap(m.rooms[s], m.rooms[r])
      BY <2>1 DEF Coherent
    <2>3. /\ m.rooms[s].w \in Int /\ m.rooms[s].x \in Int
          /\ m.rooms[r].w \in Int /\ m.rooms[r].x \in Int
      BY <1>2
    <2> QED BY <2>2, <2>3 DEF Overlap, Cells
  <1>5. ASSUME NEW s \in RoomSet(m), NEW o \in m.rooms[s].openings
        PROVE  ~ Floats(m, s, o) /\ Cardinality(HostsOf(m, o.id)) = 1
    <2>1. /\ o.off \in Int /\ o.wide \in Int /\ Fits(m.rooms[s], o)
          /\ HostsOf(m, o.id) = {s} /\ m.rooms[s].w \in Int
      BY <1>2, <1>5
    <2>2. Span(m.rooms[s], o.edge) \in Int
      BY <2>1, BuildingAssumption DEF Span
    <2>3. ~ Floats(m, s, o)
      BY <2>1, <2>2, OpeningFits DEF Fits, Floats
    <2> QED BY <2>1, <2>3, FS_Singleton
  <1> QED BY <1>1, <1>3, <1>4, <1>5 DEF Sound

(* Whatever is imported, sound or not, and whatever batches and plans are applied, every *)
(* other building that a project ever shows is sound: a revision is made of the outcome  *)
(* of a batch, which is checked as a whole, or of a building that was there before, and  *)
(* that is the imported one or came from a batch (create_project, validate_transaction,  *)
(* undo, redo, load_project).                                                *)
THEOREM BuildingStaysSound == AuthoringSpec => []SoundBuilding
  <1>1. AuthoringInit => CheckedInv
    <2> SUFFICES ASSUME AuthoringInit PROVE CheckedInv
      OBVIOUS
    <2>1. /\ model = imported /\ saved = None /\ DOMAIN snaps = {FirstId(imported)}
          /\ snaps[FirstId(imported)] = imported
      BY DEF AuthoringInit
    <2> QED BY <2>1 DEF CheckedInv, CheckedOnly, Checked
  <1>2. CheckedInv => SoundBuilding
    BY CoherentIsSound DEF CheckedInv, CheckedOnly, Checked, SoundBuilding
  <1> QED BY <1>1, <1>2, CheckedStep, PTL DEF AuthoringSpec

-----------------------------------------------------------------------------
Parts == {"original", "preview"}

SourceTypeOK ==
  /\ DOMAIN stored = Parts
  /\ upload \in [Uploads -> {"none", "original", "preview", "row", "read"}]
  /\ said \in [Uploads -> {"none", "unavailable", "saved", "taken"}]
  /\ stored = [part \in Parts |-> stored[part]]

(* How far an upload has come tells which objects are its own.                    *)
OwnObjects ==
  \A u \in Uploads :
    /\ upload[u] \in {"preview", "row", "read"} => stored["original"] = Bytes[u]["original"]
    /\ upload[u] \in {"row", "read"} => stored["preview"] = Bytes[u]["preview"]

SourceInv == SourceTypeOK /\ OwnObjects /\ SavedIsReadable

-----------------------------------------------------------------------------
(* Nothing that is stored is ever replaced.                                     *)
Immutable ==
  /\ DOMAIN stored' = DOMAIN stored
  /\ \A part \in Parts : stored[part] # NoBytes => stored'[part] = stored[part]
  /\ described # NoRow => described' = described

LEMMA OwnIsSomething ==
  ASSUME NEW u \in Uploads
  PROVE  /\ SourceRow(u) # NoRow
         /\ \A part \in Parts : Bytes[u][part] # NoBytes
  BY SourceAssumption DEF SourceRow, NoRow, Parts

LEMMA NothingIsReplaced ==
  ASSUME SourceInv, NEW u \in Uploads, UploadGoesOn(u) \/ CallFails(u)
  PROVE  Immutable
  <1>1. CASE PostObject(u)
    BY <1>1 DEF PostObject, Immutable, SourceInv, SourceTypeOK, Parts
  <1>2. CASE SaveSource(u) \/ PostRow(u) \/ ReadBack(u) \/ CallFails(u)
    BY <1>2 DEF SaveSource, PostRow, ReadBack, CallFails, Immutable
  <1> QED BY <1>1, <1>2 DEF UploadGoesOn

(* So what other uploads were told, and how far they came, stays true.               *)
LEMMA OthersKeep ==
  ASSUME SourceInv, Immutable, NEW v \in Uploads
  PROVE  /\ upload[v] \in {"preview", "row", "read"} =>
              stored'["original"] = Bytes[v]["original"]
         /\ upload[v] \in {"row", "read"} => stored'["preview"] = Bytes[v]["preview"]
         /\ said[v] = "saved" =>
              /\ described' = SourceRow(v)
              /\ \A part \in DOMAIN stored' : stored'[part] = Bytes[v][part]
  BY OwnIsSomething
     DEF SourceInv, SourceTypeOK, OwnObjects, SavedIsReadable, Immutable, Parts

LEMMA SourceInitInv == SourceInit => SourceInv
  BY DEF SourceInit, SourceInv, SourceTypeOK, OwnObjects, SavedIsReadable, Parts

(* An upload that goes on is told nothing.                                        *)
LEMMA GoesKeeps ==
  ASSUME SourceInv, NEW u \in Uploads,
         NEW to \in {"original", "preview", "row", "read"}, Goes(u, to),
         Immutable, stored' = [part \in Parts |-> stored'[part]],
         to \in {"preview", "row", "read"} => stored'["original"] = Bytes[u]["original"],
         to \in {"row", "read"} => stored'["preview"] = Bytes[u]["preview"]
  PROVE  SourceInv'
  <1>1. SourceTypeOK'
    BY DEF SourceInv, SourceTypeOK, Goes, Immutable
  <1>2. OwnObjects'
    BY OthersKeep DEF SourceInv, SourceTypeOK, OwnObjects, Goes
  <1>3. SavedIsReadable'
    BY OthersKeep DEF SavedIsReadable, Goes
  <1> QED BY <1>1, <1>2, <1>3 DEF SourceInv

(* An upload that ends owns nothing any more, and what it is told has to be true.      *)
LEMMA EndKeeps ==
  ASSUME SourceInv, NEW u \in Uploads, NEW what \in {"unavailable", "saved", "taken"},
         upload' = [upload EXCEPT ![u] = "none"], said' = [said EXCEPT ![u] = what],
         Immutable, stored' = [part \in Parts |-> stored'[part]],
         what = "saved" =>
           /\ described' = SourceRow(u)
           /\ \A part \in DOMAIN stored' : stored'[part] = Bytes[u][part]
  PROVE  SourceInv'
  <1>1. SourceTypeOK'
    BY DEF SourceInv, SourceTypeOK, Immutable
  <1>2. OwnObjects'
    BY OthersKeep DEF SourceInv, SourceTypeOK, OwnObjects
  <1>3. SavedIsReadable'
    BY OthersKeep DEF SourceInv, SourceTypeOK, SavedIsReadable
  <1> QED BY <1>1, <1>2, <1>3 DEF SourceInv

(* An object is written, or found to be the same, or found to be another one.          *)
LEMMA PostObjectKeeps ==
  ASSUME SourceInv, NEW u \in Uploads, PostObject(u)
  PROVE  SourceInv'
  <1>1. Immutable
    BY NothingIsReplaced DEF UploadGoesOn
  <1>2. PICK part \in Parts :
          /\ upload[u] = part
          /\ \/ /\ stored[part] = NoBytes
                /\ stored' = [stored EXCEPT ![part] = Bytes[u][part]]
                /\ Goes(u, IF part = "original" THEN "preview" ELSE "row") \/ Missed(u)
             \/ /\ stored[part] # NoBytes /\ UNCHANGED stored
                /\ \/ /\ SameBytes(u, part)
                      /\ Goes(u, IF part = "original" THEN "preview" ELSE "row")
                   \/ Ends(u, "unavailable")
    BY DEF PostObject, Parts
  <1>3. stored' = [p \in Parts |-> stored'[p]]
    BY <1>2 DEF SourceInv, SourceTypeOK
  <1>4. CASE Missed(u) \/ Ends(u, "unavailable")
    BY <1>1, <1>3, <1>4, EndKeeps DEF Missed, Ends
  <1>5. CASE Goes(u, IF part = "original" THEN "preview" ELSE "row")
             /\ stored'[part] = Bytes[u][part]
    <2>1. CASE part = "original"
      BY <1>1, <1>3, <1>5, <2>1, GoesKeeps
    <2>2. CASE part = "preview"
      <3>1. stored'["original"] = Bytes[u]["original"]
        BY <1>1, <1>2, <2>2, OthersKeep
      <3> QED BY <1>1, <1>3, <1>5, <2>2, <3>1, GoesKeeps
    <2> QED BY <2>1, <2>2 DEF Parts
  <1> QED BY <1>2, <1>4, <1>5 DEF SameBytes, SourceInv, SourceTypeOK

LEMMA SourceStepInv == SourceInv /\ [SourceNext]_sourceVars => SourceInv'
  <1> SUFFICES ASSUME SourceInv, [SourceNext]_sourceVars PROVE SourceInv'
    OBVIOUS
  <1>1. ASSUME NEW u \in Uploads, SaveSource(u) PROVE SourceInv'
    <2>1. Immutable /\ stored' = [p \in Parts |-> stored'[p]] /\ Goes(u, "original")
      BY <1>1 DEF SaveSource, Immutable, SourceInv, SourceTypeOK
    <2> QED BY <2>1, GoesKeeps
  <1>2. ASSUME NEW u \in Uploads, PostObject(u) PROVE SourceInv'
    BY <1>2, PostObjectKeeps
  <1>3. ASSUME NEW u \in Uploads, PostRow(u) PROVE SourceInv'
    <2>1. Immutable /\ stored' = [p \in Parts |-> stored'[p]]
      BY <1>3 DEF PostRow, Immutable, SourceInv, SourceTypeOK
    <2>2. upload[u] = "row" /\ (Goes(u, "read") \/ Missed(u))
      BY <1>3 DEF PostRow
    <2>3. CASE Goes(u, "read")
      <3>1. /\ stored'["original"] = Bytes[u]["original"]
            /\ stored'["preview"] = Bytes[u]["preview"]
        BY <2>1, <2>2, OthersKeep
      <3> QED BY <2>1, <2>3, <3>1, GoesKeeps
    <2>4. CASE Missed(u)
      BY <2>1, <2>4, EndKeeps DEF Missed
    <2> QED BY <2>2, <2>3, <2>4
  <1>4. ASSUME NEW u \in Uploads, ReadBack(u) PROVE SourceInv'
    <2>1. Immutable /\ stored' = [p \in Parts |-> stored'[p]]
      BY <1>4 DEF ReadBack, Immutable, SourceInv, SourceTypeOK
    <2>2. upload[u] = "read" /\ UNCHANGED <<stored, described>>
      BY <1>4 DEF ReadBack
    <2>3. CASE described = SourceRow(u)
      <3>1. \A part \in DOMAIN stored' : stored'[part] = Bytes[u][part]
        BY <2>2 DEF SourceInv, SourceTypeOK, OwnObjects, Parts
      <3>2. Ends(u, "saved")
        BY <1>4, <2>3 DEF ReadBack
      <3> QED BY <2>1, <2>2, <2>3, <3>1, <3>2, EndKeeps DEF Ends
    <2>4. CASE described # SourceRow(u)
      <3>1. Ends(u, "taken")
        BY <1>4, <2>4 DEF ReadBack
      <3> QED BY <2>1, <3>1, EndKeeps DEF Ends
    <2> QED BY <2>3, <2>4
  <1>5. ASSUME NEW u \in Uploads, CallFails(u) PROVE SourceInv'
    <2>1. Immutable /\ stored' = [p \in Parts |-> stored'[p]] /\ Missed(u)
      BY <1>5 DEF CallFails, Immutable, SourceInv, SourceTypeOK
    <2> QED BY <2>1, EndKeeps DEF Missed
  <1>6. CASE UNCHANGED sourceVars
    BY <1>6 DEF sourceVars, SourceInv, SourceTypeOK, OwnObjects, SavedIsReadable
  <1> QED BY <1>1, <1>2, <1>3, <1>4, <1>5, <1>6 DEF SourceNext, UploadGoesOn

(* Whoever races for an id and whatever is lost between the three writes, a source     *)
(* that was reported saved has its own row and its own two objects for ever              *)
(* (save_source, object_request, row_request).                                       *)
THEOREM SavedStaysReadable == SourceSpec => []SavedIsReadable
  <1>1. SourceInv => SavedIsReadable
    BY DEF SourceInv
  <1> QED BY <1>1, SourceInitInv, SourceStepInv, PTL DEF SourceSpec

-----------------------------------------------------------------------------
(* The copy on the device.                                                      *)

WriteSteps == {"none", "put", "check", "point", "prune", "over"}

LocalTypeOK ==
  /\ records \subseteq [at : Nat, state : RecordStates]
  /\ time \in Nat
  /\ held = [t \in Tabs |-> held[t]]
  /\ write \in [Saves -> [step : WriteSteps, at : Nat, prune : SUBSET Nat]]
  /\ shown \in [Saves -> {"nothing", "failed", "saved"}]
  /\ \A r \in records : r.at <= time
  /\ \A t \in Tabs : Known(t) \subseteq 0 .. time
  /\ \A s \in Saves : write[s].at <= time
  /\ \A s \in Saves : shown[s] = "saved" => write[s].step = "over"

(* What will be removed is older than what is written, and the times differ.          *)
PrunesOlder ==
  /\ \A s \in Saves : \A at \in write[s].prune : at < write[s].at
  /\ \A s, o \in Saves : (s # o /\ write[s].step # "none" /\ write[o].step # "none") =>
       write[s].at # write[o].at

(* A record that is still to be written is not known to anybody.                      *)
UnwrittenUnknown ==
  \A s \in Saves : write[s].step = "put" =>
    /\ \A r \in records : r.at # write[s].at
    /\ \A t \in Tabs : write[s].at \notin Known(t)
    /\ \A o \in Saves : write[s].at \notin write[o].prune

(* A save whose record was cleared removes nothing any more.                          *)
SweptAreHarmless ==
  \A s \in Saves : s \in swept =>
    /\ write[s].step \notin {"none", "put"} /\ 0 \in swept
    /\ \A r \in records : r.at \notin write[s].prune

(* From the moment it is read back, a record or a newer one is there.                  *)
Validated(s) == write[s].step \in {"point", "prune"} \/ shown[s] = "saved"

ValidatedAreKept ==
  \A s \in Saves : (Validated(s) /\ s \notin swept) =>
    \E r \in records : Usable(r) /\ r.at >= write[s].at

FirstIsKept ==
  (0 \notin swept /\ \E r \in FirstRecords : Usable(r)) => \E r \in records : Usable(r)

LocalInv ==
  /\ LocalTypeOK /\ PrunesOlder /\ UnwrittenUnknown /\ SweptAreHarmless
  /\ ValidatedAreKept /\ FirstIsKept

LEMMA LocalInitInv == LocalInit => LocalInv
  <1> SUFFICES ASSUME LocalInit PROVE LocalInv
    OBVIOUS
  <1>1. \A t \in Tabs : Known(t) \subseteq 0 .. time
    <2> TAKE t \in Tabs
    <2>1. held[t] \in {KnowsNothing, Recovered(FirstRecords, pointer)}
      BY DEF LocalInit
    <2>2. CASE held[t] = KnowsNothing
      BY <2>2 DEF Known, KnowsNothing
    <2>3. CASE held[t] = Recovered(FirstRecords, pointer)
      <3>1. Known(t) = {r.at : r \in FirstRecords}
        BY <2>3 DEF Known, Recovered
      <3> QED BY <3>1, LocalAssumption DEF LocalInit
    <2> QED BY <2>1, <2>2, <2>3
  <1>2. LocalTypeOK
    BY <1>1, LocalAssumption DEF LocalInit, LocalTypeOK, Unplanned, WriteSteps, Nothing, RecordStates
  <1>3. PrunesOlder /\ UnwrittenUnknown /\ SweptAreHarmless
    BY DEF LocalInit, PrunesOlder, UnwrittenUnknown, SweptAreHarmless, Unplanned
  <1>4. ValidatedAreKept /\ FirstIsKept
    BY DEF LocalInit, ValidatedAreKept, Validated, FirstIsKept, Unplanned
  <1> QED BY <1>2, <1>3, <1>4 DEF LocalInv

LEMMA TabOfSave ==
  ASSUME NEW s \in Saves
  PROVE  TabOf[s] \in Tabs
  BY LocalAssumption DEF Saves

(* What is planned to be removed is known, and older than now.                        *)
LEMMA PlanKeeps ==
  ASSUME LocalInv, NEW s \in Saves, PlanWrite(s)
  PROVE  LocalInv'
  <1> DEFINE old == Pruned(TabOf[s])
  <1>1. /\ write' = [write EXCEPT ![s] = [step |-> "put", at |-> time + 1, prune |-> old]]
        /\ write[s].step = "none" /\ time' = time + 1
        /\ UNCHANGED <<records, pointer, held, shown, swept, upsets>>
    BY DEF PlanWrite
  <1>2. old \subseteq 0 .. time /\ old \subseteq Known(TabOf[s])
    BY TabOfSave DEF LocalInv, LocalTypeOK, Pruned
  <1>3. time \in Nat /\ time + 1 \in Nat
    BY DEF LocalInv, LocalTypeOK
  <1>4. \A t \in Tabs : Known(t)' = Known(t)
    BY <1>1 DEF Known
  <1> HIDE DEF old
  <1>5. LocalTypeOK'
    BY <1>1, <1>2, <1>3, <1>4 DEF LocalInv, LocalTypeOK, WriteSteps
  <1>6. PrunesOlder'
    BY <1>1, <1>2, <1>3 DEF LocalInv, LocalTypeOK, PrunesOlder
  <1>7. UnwrittenUnknown'
    <2> SUFFICES ASSUME NEW o \in Saves, write'[o].step = "put"
        PROVE  /\ \A r \in records : r.at # write'[o].at
               /\ \A t \in Tabs : write'[o].at \notin Known(t)
               /\ \A p \in Saves : write'[o].at \notin write'[p].prune
      BY <1>1, <1>4 DEF UnwrittenUnknown
    <2>1. CASE o = s
      <3>1. write'[o].at = time + 1
        BY <1>1, <2>1 DEF LocalInv, LocalTypeOK
      <3>2. \A p \in Saves : \A at \in write'[p].prune : at <= time
        BY <1>1, <1>2, <1>3 DEF LocalInv, LocalTypeOK, PrunesOlder
      <3> QED BY <3>1, <3>2, <1>3 DEF LocalInv, LocalTypeOK
    <2>2. CASE o # s
      BY <1>1, <1>2, <2>2, TabOfSave DEF LocalInv, LocalTypeOK, UnwrittenUnknown
    <2> QED BY <2>1, <2>2
  <1>8. SweptAreHarmless'
    BY <1>1 DEF LocalInv, LocalTypeOK, SweptAreHarmless
  <1>9. ValidatedAreKept' /\ FirstIsKept'
    BY <1>1 DEF LocalInv, LocalTypeOK, ValidatedAreKept, Validated, FirstIsKept
  <1> QED BY <1>5, <1>6, <1>7, <1>8, <1>9 DEF LocalInv

(* A record is written of which nobody knows yet.                                   *)
LEMMA PutKeeps ==
  ASSUME LocalInv, NEW s \in Saves, PutRecord(s)
  PROVE  LocalInv'
  <1>1. PICK state \in {"usable", "damaged"} :
          records' = records \union {[at |-> write[s].at, state |-> state]}
    BY DEF PutRecord
  <1>2. /\ write[s].step = "put" /\ write' = [write EXCEPT ![s].step = "check"]
        /\ UNCHANGED <<held, shown, swept, time>>
    BY DEF PutRecord, GoesTo
  <1>3. \A t \in Tabs : Known(t)' = Known(t)
    BY <1>2 DEF Known
  <1>4. LocalTypeOK'
    BY <1>1, <1>2, <1>3 DEF LocalInv, LocalTypeOK, WriteSteps, RecordStates
  <1>5. PrunesOlder'
    BY <1>2 DEF LocalInv, LocalTypeOK, PrunesOlder
  <1>6. UnwrittenUnknown'
    BY <1>1, <1>2, <1>3 DEF LocalInv, LocalTypeOK, UnwrittenUnknown, PrunesOlder
  <1>7. SweptAreHarmless'
    BY <1>1, <1>2 DEF LocalInv, LocalTypeOK, SweptAreHarmless, UnwrittenUnknown
  <1>8. ValidatedAreKept' /\ FirstIsKept'
    BY <1>1, <1>2 DEF LocalInv, LocalTypeOK, ValidatedAreKept, Validated, FirstIsKept
  <1> QED BY <1>4, <1>5, <1>6, <1>7, <1>8 DEF LocalInv

(* A save goes on or ends without touching a record.                                *)
LEMMA MoveKeeps ==
  ASSUME LocalInv, NEW s \in Saves, NEW step \in {"point", "prune", "over"},
         write[s].step \in {"put", "check", "point", "prune"},
         write' = [write EXCEPT ![s].step = step],
         UNCHANGED <<records, held, swept, time>>,
         \/ shown' = shown
         \/ step = "over" /\ shown' = [shown EXCEPT ![s] = "failed"],
         step = "point" => \E r \in records : r.at = write[s].at /\ Usable(r),
         step = "prune" => write[s].step = "point"
  PROVE  LocalInv'
  <1>1. \A t \in Tabs : Known(t)' = Known(t)
    BY DEF Known
  <1>2. LocalTypeOK'
    BY <1>1 DEF LocalInv, LocalTypeOK, WriteSteps
  <1>3. PrunesOlder'
    BY DEF LocalInv, LocalTypeOK, PrunesOlder
  <1>4. UnwrittenUnknown'
    BY <1>1 DEF LocalInv, LocalTypeOK, UnwrittenUnknown
  <1>5. SweptAreHarmless'
    BY DEF LocalInv, LocalTypeOK, SweptAreHarmless
  <1>6. ValidatedAreKept'
    BY DEF LocalInv, LocalTypeOK, ValidatedAreKept, Validated
  <1>7. FirstIsKept'
    BY DEF LocalInv, FirstIsKept
  <1> QED BY <1>2, <1>3, <1>4, <1>5, <1>6, <1>7 DEF LocalInv

(* What is removed is older than the record that was validated, unless that was       *)
(* cleared; then what would be removed was cleared as well.                          *)
LEMMA PruneKeepsRecords ==
  ASSUME LocalInv, NEW s \in Saves, write[s].step = "prune",
         NEW r \in records, Usable(r)
  PROVE  \E q \in records : q.at \notin write[s].prune /\ Usable(q) /\ q.at >= r.at
  <1>1. r.at \in Nat
    BY DEF LocalInv, LocalTypeOK
  <1>2. CASE r.at \notin write[s].prune
    BY <1>1, <1>2
  <1>3. CASE r.at \in write[s].prune
    <2>1. s \notin swept
      BY <1>3 DEF LocalInv, SweptAreHarmless
    <2>2. PICK q \in records : Usable(q) /\ q.at >= write[s].at
      BY <2>1 DEF LocalInv, ValidatedAreKept, Validated
    <2>3. q.at \in Nat /\ write[s].at \in Nat /\ r.at < write[s].at
      BY <1>3 DEF LocalInv, LocalTypeOK, PrunesOlder
    <2>4. q.at \notin write[s].prune
      BY <2>2, <2>3 DEF LocalInv, LocalTypeOK, PrunesOlder
    <2> QED BY <1>1, <2>2, <2>3, <2>4
  <1> QED BY <1>2, <1>3

LEMMA PruneKeeps ==
  ASSUME LocalInv, NEW s \in Saves, PruneOld(s)
  PROVE  LocalInv'
  <1>1. /\ write[s].step = "prune"
        /\ records' = {r \in records : r.at \notin write[s].prune}
        /\ write' = [write EXCEPT ![s].step = "over"]
        /\ shown' = [shown EXCEPT ![s] = "saved"]
        /\ UNCHANGED <<pointer, swept, time, upsets>>
    BY DEF PruneOld
  <1>2. \A t \in Tabs : Known(t)' \subseteq Known(t) \union {write[s].at}
    BY TabOfSave DEF PruneOld, Known, LocalInv, LocalTypeOK
  <1>3. held' = [t \in Tabs |-> held'[t]]
    BY DEF PruneOld, LocalInv, LocalTypeOK
  <1>4. LocalTypeOK'
    BY <1>1, <1>2, <1>3 DEF LocalInv, LocalTypeOK, WriteSteps
  <1>5. PrunesOlder'
    BY <1>1 DEF LocalInv, LocalTypeOK, PrunesOlder
  <1>6. UnwrittenUnknown'
    BY <1>1, <1>2 DEF LocalInv, LocalTypeOK, UnwrittenUnknown, PrunesOlder
  <1>7. SweptAreHarmless'
    BY <1>1 DEF LocalInv, LocalTypeOK, SweptAreHarmless
  <1>8. ValidatedAreKept'
    <2> SUFFICES ASSUME NEW o \in Saves, Validated(o)', o \notin swept
        PROVE  \E q \in records' : Usable(q) /\ q.at >= write'[o].at
      BY <1>1 DEF ValidatedAreKept
    <2>1. write'[o].at = write[o].at /\ Validated(o)
      BY <1>1 DEF Validated, LocalInv, LocalTypeOK
    <2>2. PICK r \in records : Usable(r) /\ r.at >= write[o].at
      BY <2>1 DEF LocalInv, ValidatedAreKept
    <2>3. PICK q \in records : q.at \notin write[s].prune /\ Usable(q) /\ q.at >= r.at
      BY <1>1, <2>2, PruneKeepsRecords
    <2>4. r.at \in Nat /\ q.at \in Nat /\ write[o].at \in Nat
      BY DEF LocalInv, LocalTypeOK
    <2> QED BY <1>1, <2>1, <2>2, <2>3, <2>4
  <1>9. FirstIsKept'
    BY <1>1, PruneKeepsRecords DEF LocalInv, FirstIsKept
  <1> QED BY <1>4, <1>5, <1>6, <1>7, <1>8, <1>9 DEF LocalInv

(* A tab that takes over the store knows nothing that is still to be written.           *)
LEMMA TabKeeps ==
  ASSUME LocalInv, NEW t \in Tabs, Recover(t) \/ Clear(t) \/ Reload(t)
  PROVE  LocalInv'
  <1>1. CASE Recover(t)
    <2>1. /\ held' = [held EXCEPT ![t] = Recovered(records, pointer)]
          /\ UNCHANGED <<records, pointer, write, shown, swept, time>>
      BY <1>1 DEF Recover
    <2>2. \A o \in Tabs : Known(o)' \subseteq Known(o) \union {r.at : r \in records}
      BY <2>1 DEF Known, Recovered, LocalInv, LocalTypeOK
    <2>2a. {r.at : r \in records} \subseteq 0 .. time
      BY DEF LocalInv, LocalTypeOK
    <2>3. LocalTypeOK'
      BY <2>1, <2>2, <2>2a DEF LocalInv, LocalTypeOK
    <2>4. UnwrittenUnknown'
      BY <2>1, <2>2 DEF LocalInv, UnwrittenUnknown
    <2>5. PrunesOlder' /\ SweptAreHarmless' /\ ValidatedAreKept' /\ FirstIsKept'
      BY <2>1 DEF LocalInv, PrunesOlder, SweptAreHarmless, ValidatedAreKept, Validated, FirstIsKept
    <2> QED BY <2>3, <2>4, <2>5 DEF LocalInv
  <1>2. CASE Clear(t)
    <2>1. /\ records' = {} /\ held' = [held EXCEPT ![t] = KnowsNothing]
          /\ swept' = swept \union {0} \union {s \in Saves : write[s].step \notin {"none", "put"}}
          /\ UNCHANGED <<write, shown, time>>
      BY <1>2 DEF Clear
    <2>2. \A o \in Tabs : Known(o)' \subseteq Known(o)
      BY <2>1 DEF Known, KnowsNothing, LocalInv, LocalTypeOK
    <2>3. LocalTypeOK'
      BY <2>1, <2>2 DEF LocalInv, LocalTypeOK
    <2>4. UnwrittenUnknown'
      BY <2>1, <2>2 DEF LocalInv, UnwrittenUnknown
    <2>4a. 0 \notin Saves
      BY DEF Saves
    <2>5. PrunesOlder' /\ SweptAreHarmless'
      BY <2>1, <2>4a DEF LocalInv, PrunesOlder, SweptAreHarmless
    <2>6. ValidatedAreKept' /\ FirstIsKept'
      BY <2>1 DEF LocalInv, LocalTypeOK, ValidatedAreKept, Validated, FirstIsKept
    <2> QED BY <2>3, <2>4, <2>5, <2>6 DEF LocalInv
  <1>3. CASE Reload(t)
    <2>1. /\ held' = [held EXCEPT ![t] = KnowsNothing]
          /\ UNCHANGED <<records, shown, swept, time>>
          /\ DOMAIN write' = Saves
          /\ \A s \in Saves :
               \/ write'[s] = write[s]
               \/ write[s].step # "none" /\ write'[s] = [write[s] EXCEPT !.step = "over"]
          /\ write' = [s \in Saves |-> write'[s]]
      BY <1>3 DEF Reload
    <2>2. \A o \in Tabs : Known(o)' \subseteq Known(o)
      BY <2>1 DEF Known, KnowsNothing, LocalInv, LocalTypeOK
    <2>3. \A s \in Saves :
            /\ write'[s] \in [step : WriteSteps, at : Nat, prune : SUBSET Nat]
            /\ write'[s].at = write[s].at /\ write'[s].prune = write[s].prune
            /\ \/ write'[s].step = write[s].step
               \/ write[s].step # "none" /\ write'[s].step = "over"
      BY <2>1 DEF LocalInv, LocalTypeOK, WriteSteps
    <2>4. LocalTypeOK'
      BY ZenonT(40), <2>1, <2>2, <2>3 DEF LocalInv, LocalTypeOK
    <2>5. PrunesOlder' /\ UnwrittenUnknown'
      BY <2>1, <2>2, <2>3 DEF LocalInv, PrunesOlder, UnwrittenUnknown
    <2>6. SweptAreHarmless'
      BY <2>1, <2>3 DEF LocalInv, SweptAreHarmless
    <2>7. ValidatedAreKept' /\ FirstIsKept'
      BY <2>1, <2>3 DEF LocalInv, ValidatedAreKept, Validated, FirstIsKept
    <2> QED BY <2>4, <2>5, <2>6, <2>7 DEF LocalInv
  <1> QED BY <1>1, <1>2, <1>3

LEMMA LocalStepKeeps ==
  LocalInv /\ [LocalNext]_localVars => LocalInv'
  <1> SUFFICES ASSUME LocalInv, [LocalNext]_localVars PROVE LocalInv'
    OBVIOUS
  <1>1. ASSUME NEW t \in Tabs, Recover(t) \/ Clear(t) \/ Reload(t) PROVE LocalInv'
    BY <1>1, TabKeeps
  <1>2. ASSUME NEW s \in Saves, PlanWrite(s) PROVE LocalInv'
    BY <1>2, PlanKeeps
  <1>3. ASSUME NEW s \in Saves, SaveGoesOn(s) PROVE LocalInv'
    <2>1. CASE PutRecord(s)
      BY <2>1, PutKeeps
    <2>2. CASE PruneOld(s)
      BY <2>2, PruneKeeps
    <2>3. CASE ReadRecord(s)
      <3>1. CASE \E r \in records : r.at = write[s].at /\ Usable(r)
        BY <2>3, <3>1, MoveKeeps DEF ReadRecord, GoesTo
      <3>2. CASE ~ \E r \in records : r.at = write[s].at /\ Usable(r)
        BY <2>3, <3>2, MoveKeeps DEF ReadRecord, FailsToSave
      <3> QED BY <3>1, <3>2
    <2>4. CASE FlipPointer(s)
      BY <2>4, MoveKeeps DEF FlipPointer, GoesTo
    <2>5. CASE SaveFails(s)
      BY <2>5, MoveKeeps DEF SaveFails, FailsToSave
    <2> QED BY <1>3, <2>1, <2>2, <2>3, <2>4, <2>5 DEF SaveGoesOn
  <1>4. CASE UNCHANGED localVars
    BY <1>4 DEF localVars, LocalInv, LocalTypeOK, PrunesOlder, UnwrittenUnknown,
                SweptAreHarmless, ValidatedAreKept, Validated, FirstIsKept, Known
  <1> QED BY <1>1, <1>2, <1>3, <1>4 DEF LocalNext

(* Acknowledged work stays on the device, for any number of tabs and saves, any number   *)
(* of failures and clears, and any number of records kept (pSave, planWrite).          *)
THEOREM LocalWorkStays == LocalSpec => []WorkIsKept
  <1>1. LocalInv => WorkIsKept
    BY DEF LocalInv, ValidatedAreKept, Validated, FirstIsKept, WorkIsKept
  <1> QED BY <1>1, LocalInitInv, LocalStepKeeps, PTL DEF LocalSpec

=============================================================================

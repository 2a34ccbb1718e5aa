--------------------------- MODULE AuthoringSafety ----------------------------
(* What a project promises to those who edit it.                             *)
EXTENDS AuthoringProject

(* The history is one chain of revisions that ends in the current building,    *)
(* and says the truth: a kept building is that of its revision, an undo led to  *)
(* what was there before the revision it undid, whatever happened since, and a  *)
(* redo to the revision it names (commit_transaction, undo, redo,              *)
(* serialise_project, load_project).                                         *)
RowTrue(h, kept, k) ==
  /\ k > 1 => h[k].parent = h[k - 1].id
  /\ h[k].id \in DOMAIN kept => kept[h[k].id] = h[k].model
  /\ h[k].change[1] = "undo" =>
       \E i \in 2 .. k - 1 : h[i].id = h[k].change[2] /\ h[i - 1].model = h[k].model
  /\ h[k].change[1] = "redo" =>
       \A i \in 1 .. k - 1 : h[i].id = h[k].change[2] => h[i].model = h[k].model

HistoryTrue ==
  /\ \A k \in DOMAIN history : RowTrue(history, snaps, k)
  /\ history # <<>> =>
       current = history[Len(history)].id /\ model = history[Len(history)].model

(* The building is sound at every revision that is not the imported one again,   *)
(* also when an undo of some earlier revision, a plan or a saved project put it   *)
(* there: its spaces cover no place twice, and every opening is whole within the *)
(* wall of one space ("No opening is ever left floating"), although commands     *)
(* check only parts of it one by one, and undo, redo and load nothing of the kind *)
(* (validate_transaction, validate_model_integrity, undo, redo, load_project).    *)
(* Nothing says so of the imported building, which create_project copies as it   *)
(* is and an undo of the first repair brings back.                             *)
Cells(room) == room.x .. room.x + room.w - 1

Floats(m, s, o) ==
  \/ o.off < (o.wide + 1) \div 2
  \/ o.off > Span(m.rooms[s], o.edge) - (o.wide + 1) \div 2

Sound(m) ==
  /\ \E i \in LevelSet(m) : m.levels[i] \in Templates
  /\ \A s \in RoomSet(m) :
       /\ Cells(m.rooms[s]) # {}
       /\ \A r \in RoomSet(m) \ {s} :
            TemplateOf[r] = TemplateOf[s] => Cells(m.rooms[s]) \cap Cells(m.rooms[r]) = {}
       /\ \A o \in m.rooms[s].openings :
            ~ Floats(m, s, o) /\ Cardinality(HostsOf(m, o.id)) = 1

SoundBuilding == model = imported \/ Sound(model)

(* A batch that names its revision or is confirmed by its digest, as what is      *)
(* destructive has to be, and a plan that names its revision, do to the building   *)
(* what they did where they were shown: not the same commands applied to another  *)
(* one, where the same position in a list is another object                     *)
(* (_confirmation_digest, validate_transaction, commit_transaction, approve).    *)
(* It says nothing of three changes that nothing holds to the building they were   *)
(* shown on, and whose basis is None, so that the code may well apply them to       *)
(* another one: a batch that names no revision and breaks nothing, the same from an *)
(* AI, for which any token will do, and a plan that names no revision, which is     *)
(* the default of plan.                                                     *)
WhatWasShown ==
  \A k \in DOMAIN history :
    history[k].basis # None =>
      \E r \in Outcome(history[k].basis[2], history[k].change[2]) :
        r.model = history[k].model

=============================================================================

---------------------------- MODULE PlanContent ----------------------------
(***************************************************************************)
(* What a plan revision contains, as far as locks and approvals can tell    *)
(* two plans apart, and the immutable records built from it: revision rows, *)
(* semantic lock manifests and approval receipts.                           *)
(*                                                                          *)
(* A Building is a value per room plus one value for everything that         *)
(* encloses the rooms (site, levels, template defaults).  Hashes of the code *)
(* are modelled by the value they are computed from: two hashes are equal    *)
(* exactly when the hashed documents are.                                    *)
(***************************************************************************)
EXTENDS Naturals, FiniteSets

CONSTANTS
  RevIds,        (* identities uuid4 can draw for a revision               *)
  Rooms,         (* (template, room id) references                         *)
  Values,        (* contents of a room, and of the enclosing context       *)
  Absent,        (* the value of a room the plan does not have             *)
  NULL,          (* Python None / SQL null                                 *)
  Approvable,    (* the plans on which every required review scope passes  *)
  MaxRevisions   (* MAX_REVISIONS                                          *)

Contents == [rooms : [Rooms -> Values \cup {Absent}], context : Values]

ASSUME ContentAssumption ==
  /\ IsFiniteSet(RevIds)
  /\ NULL \notin RevIds
  /\ Absent \notin Values
  /\ Approvable \subseteq Contents
  /\ MaxRevisions \in Nat \ {0}

-----------------------------------------------------------------------------
(* Room locks.                                                             *)

PresentRooms(content) == {r \in Rooms : content.rooms[r] # Absent}

(* Every locked room is still there with the same content, and as soon as   *)
(* one room is locked the enclosing data is frozen too.                     *)
RoomLocksHold(old, new, locked) ==
  /\ \A r \in locked : r \in PresentRooms(new) /\ new.rooms[r] = old.rooms[r]
  /\ locked # {} => new.context = old.context

-----------------------------------------------------------------------------
(* Semantic locks.  A "placed" selector binds an element together with the  *)
(* context that places it; a "property" selector binds non-placement         *)
(* properties only, so the element may move but not change.                 *)

Selectors == [room : Rooms, kind : {"placed", "property"}]

Manifests == [source : Contents, selectors : SUBSET Selectors]

Resolvable(content, s) == content.rooms[s.room] # Absent

SameTarget(old, new, s) ==
  /\ Resolvable(new, s)
  /\ new.rooms[s.room] = old.rooms[s.room]
  /\ s.kind = "placed" => new.context = old.context

BuildManifest(content, selectors) ==
  [source |-> content, selectors |-> selectors]

VerifyManifest(source, candidate, manifest) ==
  /\ manifest.source = source
  /\ \A s \in manifest.selectors : SameTarget(source, candidate, s)

(* Slip: the child carries the manifest captured on its ancestor.           *)
RebindKeepsSource(manifest, child) == manifest

(* The inherited manifest re-captured on the admitted child, so that its    *)
(* source follows history.                                                  *)
Rebind(manifest, child) ==
  IF manifest = NULL THEN NULL ELSE BuildManifest(child, manifest.selectors)

SelectorsOf(manifest) == IF manifest = NULL THEN {} ELSE manifest.selectors

-----------------------------------------------------------------------------
(* Rows and receipts.                                                      *)

Notes == {"generate", "edit", "lock", "unlock", "selectors", "restore"}

Rows == [number  : Nat,
         parent  : RevIds \cup {NULL},
         content : Contents,
         locked  : SUBSET Rooms,
         sem     : Manifests \cup {NULL},
         note    : Notes]

(* The four hashes of an approval receipt, by the values they digest.       *)
Receipts == [rid : RevIds, content : Contents, locked : SUBSET Rooms,
             sem : Manifests \cup {NULL}]

Receipt(rid, row) ==
  [rid |-> rid, content |-> row.content, locked |-> row.locked, sem |-> row.sem]

(* None is none of the records.                                            *)
ASSUME RecordAssumption == NULL \notin Manifests \cup Rows \cup Receipts

-----------------------------------------------------------------------------
(* What locks promise of two consecutive versions: nothing locked changed,   *)
(* and a lock set changes only by the command that says so, which changes no  *)
(* content.                                                                  *)

Honours(old, new) ==
  /\ RoomLocksHold(old.content, new.content, old.locked)
  /\ \A s \in SelectorsOf(old.sem) : SameTarget(old.content, new.content, s)
  /\ new.locked # old.locked =>
       new.note \in {"lock", "unlock"} /\ new.content = old.content
  /\ SelectorsOf(new.sem) # SelectorsOf(old.sem) =>
       new.note = "selectors" /\ new.content = old.content

=============================================================================

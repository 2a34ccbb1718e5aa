--------------------------- MODULE AuthoringProject ---------------------------
(***************************************************************************)
(* A project: a building, and a history of revisions to which everything       *)
(* that changes the building appends one.  A revision is identified by what it  *)
(* is made of: the revision before it, the building and the change.  Nothing     *)
(* but identifiers protects clients that confirm a batch of commands, or        *)
(* approve the proposals of an engineering plan, some time after they saw what  *)
(* it does; what they hold is of any revision there ever was.                   *)
(***************************************************************************)
EXTENDS AuthoringModel

CONSTANTS
  None,
  Imports,       (* the buildings a project may be created with, be they sound *)
                 (* or not: nothing checks them                            *)
  Batches,       (* sequences of commands that clients send                 *)
  Offers,        (* the proposals of an engineering plan, in their order     *)
  MaxMade        (* bound: revisions made                                  *)

ASSUME ProjectAssumption == MaxMade \in Nat \ {0}

VARIABLES
  imported,         (* the building it was created with                    *)
  model, current,   (* the building and its revision                       *)
  history,          (* one row for every revision, the latest last          *)
  snaps,            (* revision_models: buildings by their revision         *)
  saved,            (* a serialised project                                *)
  made              (* revisions made so far                               *)

projectVars == <<model, current, history, snaps>>
authoringVars == <<imported, projectVars, saved, made>>

Id(parent, m, change) == <<parent, m, change>>

(* The basis of a change is the revision its sender had seen it on, or None when    *)
(* nothing in the code holds the change to that.  The code does not keep it.       *)
Row(id, parent, m, change, basis) ==
  [id |-> id, parent |-> parent, model |-> m, change |-> change, basis |-> basis]

FirstId(m) == Id(None, m, <<"create">>)

AuthoringInit ==
  /\ imported \in Imports
  /\ model = imported
  /\ current = FirstId(imported)
  /\ history = <<Row(FirstId(imported), None, imported, <<"create">>, None)>>
  /\ snaps = [r \in {FirstId(imported)} |-> imported]
  /\ saved = None
  /\ made = 0

Advance(m, change, basis) ==
  LET id == Id(current, m, change) IN
  /\ made < MaxMade /\ made' = made + 1
  /\ model' = m
  /\ current' = id
  /\ history' = Append(history, Row(id, current, m, change, basis))
  /\ snaps' = [r \in DOMAIN snaps \cup {id} |-> IF r = id THEN m ELSE snaps[r]]
  /\ UNCHANGED <<imported, saved>>

(* What clients may have seen: the revisions that are kept.                    *)
Seen == DOMAIN snaps \cup {current}

-----------------------------------------------------------------------------
(* Batches.  All of a batch is applied, in order, or nothing of it.            *)

Apply(m, c) == {r \in Effects(m, c) : \A subject \in c.keep : Keeps(subject, m, r.model)}

Then(results, c) ==
  UNION {{[next EXCEPT !.breaking = @ \/ r.breaking] : next \in Apply(r.model, c)} :
         r \in results}

(* Slip: only the commands are checked, not the building they result in.       *)
OutcomeUnchecked(m, commands) == FoldLeft(Then, {Same(m)}, commands)

Outcome(m, commands) ==
  IF commands = <<>> THEN {}
  ELSE {r \in FoldLeft(Then, {Same(m)}, commands) : Coherent(r.model)}

(* Slip: the token does not tell on which revision the batch was shown.        *)
DigestOfBatch(commands, revision) == <<commands, None>>

Digest(commands, revision) == <<commands, revision>>

IsNew(r, commands) ==
  \A k \in DOMAIN history : history[k].id # Id(current, r.model, <<"commands", commands>>)

(* All commands of a batch were authored against one revision, or do not say   *)
(* against which.  What breaks needs the token that was given for this batch on *)
(* this revision.  What an AI proposed and does not break needs a token as well, *)
(* which is not compared: it may have been given for anything on any revision.   *)
Commit(commands, base) ==
  /\ base \in {None, current}
  /\ \E r \in Outcome(model, commands), on \in {None} \cup Seen :
       /\ r.breaking => on # None /\ Digest(commands, on) = Digest(commands, current)
       /\ IsNew(r, commands)
       /\ Advance(r.model, <<"commands", commands>>,
                  IF base # None THEN base ELSE IF r.breaking THEN on ELSE None)

(* The proposals that a user picks from a plan, which need not say for which    *)
(* revision it was computed: then it may be a plan of any earlier building.  Rules *)
(* without a source and proposals without commands are not approved; what is     *)
(* approved counts as confirmed.                                            *)
Approve(picked, base) ==
  LET offers   == SelectSeq(Offers, LAMBDA offer : offer \in picked)
      commands == FlattenSeq([k \in DOMAIN offers |-> offers[k].commands])
  IN /\ picked # {}
     /\ \A offer \in picked : offer.sourced /\ offer.commands # <<>>
     /\ base \in {None, current}
     /\ \E r \in Outcome(model, commands) :
          /\ IsNew(r, commands)
          /\ Advance(r.model, <<"commands", commands>>, base)

-----------------------------------------------------------------------------
(* Undo and redo append a revision with an earlier building.                   *)

(* Slip: the building before the current revision, whichever is undone.        *)
UndoLatest(target) ==
  \E k \in 2 .. Len(history) :
    /\ history[k].id = target
    /\ history[Len(history) - 1].id \in DOMAIN snaps
    /\ Advance(snaps[history[Len(history) - 1].id], <<"undo", target>>, None)

Undo(target) ==
  \E k \in 2 .. Len(history) :
    /\ history[k].id = target
    /\ \A i \in 1 .. k - 1 : history[i].id # target
    /\ history[k - 1].id \in DOMAIN snaps
    /\ Advance(snaps[history[k - 1].id], <<"undo", target>>, None)

(* Any revision whose building is kept, above all the one just undone.         *)
Redo(target) ==
  /\ target \in DOMAIN snaps
  /\ Advance(snaps[target], <<"redo", target>>, None)

-----------------------------------------------------------------------------
(* A project is written with or without its history, with or without the        *)
(* earlier buildings; once, which is a bound.                                *)

SaveProject(withHistory, withModels) ==
  /\ saved = None
  /\ saved' = [model |-> model, current |-> current,
               history |-> IF withHistory THEN history ELSE <<>>,
               snaps |-> IF withModels THEN snaps ELSE [r \in {} |-> model]]
  /\ UNCHANGED <<imported, projectVars, made>>

(* Of the building only the identities of its openings are checked.             *)
LoadProject ==
  /\ saved # None /\ Identified(saved.model)
  /\ model' = saved.model /\ current' = saved.current
  /\ history' = saved.history /\ snaps' = saved.snaps
  /\ UNCHANGED <<imported, saved, made>>

AuthoringNext ==
  \/ \E commands \in Batches, base \in {None} \cup Seen : Commit(commands, base)
  \/ \E picked \in SUBSET {Offers[k] : k \in DOMAIN Offers}, base \in {None} \cup Seen :
        Approve(picked, base)
  \/ \E target \in Seen : Undo(target) \/ Redo(target)
  \/ \E withHistory, withModels \in BOOLEAN : SaveProject(withHistory, withModels)
  \/ LoadProject

AuthoringSpec == AuthoringInit /\ [][AuthoringNext]_authoringVars

=============================================================================

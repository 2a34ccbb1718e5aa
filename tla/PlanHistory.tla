---------------------------- MODULE PlanHistory ----------------------------
(***************************************************************************)
(* What the plan-first pipeline promises of one project, without stores,     *)
(* handlers or races: a history that only grows at its end, each version       *)
(* honouring the locks of the one before it, and a frozen baseline that is     *)
(* always a version that was approvable when it was the newest one.           *)
(***************************************************************************)
EXTENDS PlanContent, Sequences

VARIABLES
  history,   (* the versions, oldest first: content, locked, sem, note      *)
  frozen,    (* the positions that carry an approval                        *)
  base       (* the position of the frozen baseline, 0 if none              *)

historyVars == <<history, frozen, base>>

HistoryInit ==
  /\ history = <<>>
  /\ frozen = {}
  /\ base = 0

Extend ==
  /\ Len(history') = Len(history) + 1
  /\ \A n \in 1 .. Len(history) : history'[n] = history[n]
  /\ LET new == history'[Len(history) + 1] IN
       IF history = <<>>
       THEN new.locked = {} /\ new.sem = NULL
       ELSE Honours(history[Len(history)], new)
  /\ UNCHANGED <<frozen, base>>

Freeze ==
  /\ history # <<>>
  /\ history[Len(history)].content \in Approvable
  /\ Len(history) \notin frozen
  /\ frozen' = frozen \cup {Len(history)}
  /\ base' = Len(history)
  /\ UNCHANGED history

HistorySpec == HistoryInit /\ [][Extend \/ Freeze]_historyVars

=============================================================================

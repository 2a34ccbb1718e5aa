------------------------------ MODULE LocalProject ------------------------------
(***************************************************************************)
(* The copy of a project that the tabs of one browser keep on the device.  A save     *)
(* writes a new record, reads it back, points to it and only then removes old          *)
(* records, each a transaction of its own; what to remove was decided before the first *)
(* of them, from what the tab knows of the store.  A recovery takes the newest record    *)
(* that is usable.  Tabs save, clear, recover and reload in any order.                *)
(***************************************************************************)
EXTENDS Integers, FiniteSets

CONSTANTS
  Tabs,
  MaxSaves,         (* bound: saves of all tabs together                       *)
  TabOf,            (* whose save it is                                      *)
  FirstRecords,     (* what an earlier visit, or another build, left           *)
  FirstTime,        (* when the tabs are opened                              *)
  KeepRecords,      (* P_KEEP                                                *)
  MaxUpsets         (* bound: faults, clears, reloads and later recoveries together *)

RecordStates == {"usable", "damaged", "foreign"}

ASSUME LocalAssumption ==
  /\ MaxSaves \in Nat /\ TabOf \in [1 .. MaxSaves -> Tabs]
  /\ FirstTime \in Nat /\ KeepRecords \in Nat \ {0}
  /\ FirstRecords \subseteq [at : 1 .. FirstTime, state : RecordStates]

Saves == 1 .. MaxSaves     (* in the order in which they are planned            *)

Nothing == 0        (* no record: a record is known by its time                *)

VARIABLES
  records,          (* the records of the store                              *)
  pointer,          (* the record it points to                               *)
  held,             (* per tab: the records it knows, by place, and its pointer  *)
  write,            (* per save: its next transaction, its time, what it removes   *)
  shown,            (* per save: what its tab was told                        *)
  swept,            (* saves whose record was cleared; 0 is the earlier visit       *)
  time, upsets

localVars ==
  <<records, pointer, held, write, shown, swept, time, upsets>>

KnowsNothing == [place |-> [at \in {} |-> 0], pointer |-> Nothing]
Unplanned == [step |-> "none", at |-> Nothing, prune |-> {}]

(* A recovery takes over the whole store; the oldest record comes first.               *)
Recovered(recs, ptr) == [place |-> [at \in {r.at : r \in recs} |-> at], pointer |-> ptr]

LocalInit ==
  /\ records = FirstRecords
  /\ pointer \in {r.at : r \in FirstRecords} \union {Nothing}
  /\ held \in [Tabs -> {KnowsNothing, Recovered(FirstRecords, pointer)}]
  /\ write = [s \in Saves |-> Unplanned]
  /\ shown = [s \in Saves |-> "nothing"]
  /\ swept = {}
  /\ time = FirstTime /\ upsets = 0

-----------------------------------------------------------------------------
(* A record of another schema is sound but not for this build.                    *)
Usable(r) == r.state = "usable"

Known(t) == DOMAIN held[t].place

(* The records at the head of the list, as many as stay beside a new one.            *)
Leading(t) ==
  {at \in Known(t) :
     Cardinality({o \in Known(t) : held[t].place[o] < held[t].place[at]}) < KeepRecords - 1}

(* Before everything else in the list.                                            *)
AheadOf(place) ==
  IF place = [at \in {} |-> 0] THEN 0
  ELSE (CHOOSE first \in {place[at] : at \in DOMAIN place} :
          \A at \in DOMAIN place : first <= place[at]) - 1

Pruned(t) == Known(t) \ (Leading(t) \union {held[t].pointer})

PlanWrite(s) ==
  /\ write[s].step = "none" /\ \A o \in Saves : o < s => write[o].step # "none"
  /\ time' = time + 1
  /\ write' = [write EXCEPT ![s] =
                 [step |-> "put", at |-> time + 1, prune |-> Pruned(TabOf[s])]]
  /\ UNCHANGED <<records, pointer, held, shown, swept, upsets>>

Upset == upsets < MaxUpsets /\ upsets' = upsets + 1

GoesTo(s, step) ==
  /\ write' = [write EXCEPT ![s].step = step]
  /\ UNCHANGED <<held, shown, swept, time>>

(* A save that fails changes nothing its tab knows.                               *)
FailsToSave(s) ==
  /\ write' = [write EXCEPT ![s].step = "over"]
  /\ shown' = [shown EXCEPT ![s] = "failed"]
  /\ UNCHANGED <<held, swept, time>>

PutRecord(s) ==
  /\ write[s].step = "put"
  /\ \E state \in {"usable", "damaged"} :
       /\ records' = records \union {[at |-> write[s].at, state |-> state]}
       /\ IF state = "damaged" THEN Upset ELSE UNCHANGED upsets
  /\ GoesTo(s, "check")
  /\ UNCHANGED pointer

(* Slip: the record is only looked up, not validated.                              *)
ReadRecordAny(s) ==
  /\ write[s].step = "check"
  /\ IF \E r \in records : r.at = write[s].at
     THEN GoesTo(s, "point") ELSE FailsToSave(s)
  /\ UNCHANGED <<records, pointer, upsets>>

ReadRecord(s) ==
  /\ write[s].step = "check"
  /\ IF \E r \in records : r.at = write[s].at /\ Usable(r)
     THEN GoesTo(s, "point") ELSE FailsToSave(s)
  /\ UNCHANGED <<records, pointer, upsets>>

FlipPointer(s) ==
  /\ write[s].step = "point"
  /\ pointer' = write[s].at
  /\ GoesTo(s, "prune")
  /\ UNCHANGED <<records, upsets>>

(* The new list is made from what the tab knows by now.                            *)
PruneOld(s) ==
  /\ write[s].step = "prune"
  /\ records' = {r \in records : r.at \notin write[s].prune}
  /\ LET t == TabOf[s]
         left == Known(t) \ (write[s].prune \union {write[s].at})
         rest == [at \in left |-> held[t].place[at]]
     IN held' = [held EXCEPT ![t] =
          [place |-> [at \in left \union {write[s].at} |->
                        IF at = write[s].at THEN AheadOf(rest) ELSE rest[at]],
           pointer |-> write[s].at]]
  /\ write' = [write EXCEPT ![s].step = "over"]
  /\ shown' = [shown EXCEPT ![s] = "saved"]
  /\ UNCHANGED <<pointer, swept, time, upsets>>

(* The storage is full, blocked, or aborts a transaction.                          *)
SaveFails(s) ==
  /\ write[s].step \in {"put", "check", "point", "prune"}
  /\ Upset
  /\ FailsToSave(s)
  /\ UNCHANGED <<records, pointer>>

-----------------------------------------------------------------------------
Recover(t) ==
  /\ Upset
  /\ held' = [held EXCEPT ![t] = Recovered(records, pointer)]
  /\ UNCHANGED <<records, pointer, write, shown, swept, time>>

Clear(t) ==
  /\ Upset
  /\ records' = {} /\ pointer' = Nothing
  /\ held' = [held EXCEPT ![t] = KnowsNothing]
  /\ swept' = swept \union {0} \union {s \in Saves : write[s].step \notin {"none", "put"}}
  /\ UNCHANGED <<write, shown, time>>

(* The tab is reloaded, or dies: nobody goes on with its saves.                      *)
Reload(t) ==
  /\ Upset
  /\ held' = [held EXCEPT ![t] = KnowsNothing]
  /\ write' = [s \in Saves |->
       IF TabOf[s] = t /\ write[s].step # "none" THEN [write[s] EXCEPT !.step = "over"] ELSE write[s]]
  /\ UNCHANGED <<records, pointer, shown, swept, time>>

SaveGoesOn(s) ==
  PutRecord(s) \/ ReadRecord(s) \/ FlipPointer(s) \/ PruneOld(s) \/ SaveFails(s)

LocalNext ==
  \/ \E t \in Tabs : Recover(t) \/ Clear(t) \/ Reload(t)
  \/ \E s \in Saves : PlanWrite(s) \/ SaveGoesOn(s)

LocalSpec == LocalInit /\ [][LocalNext]_localVars

-----------------------------------------------------------------------------
(* What the user was told to be saved on this device is there when the page is opened    *)
(* again, or something newer is, and a usable copy that was there before is not lost to    *)
(* saves that fail: other tabs save, remove what they know of and reload, transactions      *)
(* fail between any two steps and storage damages what is written (pSave, planWrite,       *)
(* pRecover).  Only clearing the store takes it away.                                  *)
WorkIsKept ==
  /\ \A s \in Saves : (shown[s] = "saved" /\ s \notin swept) =>
       \E r \in records : Usable(r) /\ r.at >= write[s].at
  /\ (0 \notin swept /\ \E r \in FirstRecords : Usable(r)) => \E r \in records : Usable(r)

=============================================================================

------------------------------ MODULE AsyncJobs ------------------------------
(***************************************************************************)
(* Generation jobs in the memory of one server process.  A submission names  *)
(* its own job id; the server reserves a record and room for the largest     *)
(* result, answers at once and runs the request in a task of its own.        *)
(* Results are dropped after a time to live, the rest of the record, which    *)
(* keeps a repeated submission from running again, after a longer one.       *)
(* A restart loses everything.                                               *)
(* Times are countdowns: what a deadline has left, down to -1, which is past  *)
(* it.  Times that only properties need count up to the value that matters.   *)
(***************************************************************************)
EXTENDS Integers, FiniteSets

CONSTANTS
  Nil,
  JobIds,        (* ids the clients draw                                   *)
  Owners,        (* admission identities                                   *)
  Ttl,           (* life of a result                                       *)
  ShortTtl,      (* life of a rejection                                    *)
  TombstoneTtl,  (* life of a record since its reservation                 *)
  Capacity,      (* active jobs                                            *)
  MaxRecords,
  MaxOwned,      (* records of one owner that have not expired, 64          *)
  MaxBody,
  MaxBytes

ASSUME AsyncAssumption ==
  /\ Nil \notin JobIds
  /\ Ttl \in Nat \ {0}
  /\ ShortTtl \in 1 .. Ttl
  /\ TombstoneTtl \in Nat /\ TombstoneTtl >= Ttl
  /\ Capacity \in Nat \ {0}
  /\ MaxRecords \in Nat \ {0}
  /\ MaxOwned \in Nat \ {0}
  /\ MaxBody \in Nat \ {0}
  /\ MaxBytes \in Nat

VARIABLES
  records,    (* JobStore.records                                          *)
  janitor,    (* does the task run that prunes in the background?          *)
  since,      (* time since a job was last reserved in this process        *)
  kept        (* time since a job last succeeded in this process           *)

storeVars == <<records, janitor, since, kept>>

Active == {"QUEUED", "RUNNING"}
Ended  == {"SUCCEEDED", "FAILED"}

(* A body of size 0 is an error envelope or nothing.                         *)
Records == [state : Active \cup Ended \cup {"EXPIRED"}, owner : Owners,
            size : 0 .. MaxBody, expires : -1 .. Ttl, forget : -1 .. TombstoneTtl]

ASSUME NullAssumption == Nil \notin Nat \cup Records

Bigger(a, b) == IF a > b THEN a ELSE b
Elapse(left) == IF left < 0 THEN left ELSE left - 1
Grow(age, top) == IF age = Nil \/ age = top THEN age ELSE age + 1

-----------------------------------------------------------------------------
(* JobStore.                                                               *)

IsActive(rs, j) == rs[j] # Nil /\ rs[j].state \in Active

(* Slip: a record is dropped with its result.                                *)
PruneAtExpiry(rs) ==
  [j \in JobIds |->
     IF rs[j] = Nil \/ IsActive(rs, j) THEN rs[j]
     ELSE IF rs[j].expires <= 0 THEN Nil ELSE rs[j]]

(* Running work is never evicted.  Every operation prunes first.             *)
Prune(rs) ==
  [j \in JobIds |->
     IF rs[j] = Nil \/ IsActive(rs, j) THEN rs[j]
     ELSE IF rs[j].forget <= 0 THEN Nil
     ELSE IF rs[j].expires <= 0
          THEN [rs[j] EXCEPT !.state = "EXPIRED", !.size = 0]
     ELSE rs[j]]

(* Slip: a job that runs takes no room yet.                                  *)
HeldWithoutReserve(rs, j) == IF rs[j] = Nil THEN 0 ELSE rs[j].size

(* A job that runs holds room for the largest result.                        *)
Held(rs, j) ==
  IF rs[j] = Nil THEN 0 ELSE IF IsActive(rs, j) THEN MaxBody ELSE rs[j].size

(* One cell is held for each unit of memory.                                 *)
Cells(rs) == {cell \in JobIds \X (1 .. MaxBody) : cell[2] <= Held(rs, cell[1])}

Retained(rs) == Cardinality(Cells(rs))

RunningJobs(rs) == {j \in JobIds : IsActive(rs, j)}
Known(rs)      == {j \in JobIds : rs[j] # Nil}

Owned(rs, owner) ==
  {j \in Known(rs) : rs[j].owner = owner /\ rs[j].state # "EXPIRED"}

HasRoom(rs, owner) ==
  /\ Cardinality(Owned(rs, owner)) < MaxOwned
  /\ Cardinality(RunningJobs(rs)) < Capacity
  /\ Cardinality(Known(rs)) < MaxRecords
  /\ Retained(rs) + MaxBody <= MaxBytes

(* A known id is never admitted again, be its request the same or another.   *)
ReserveOutcome(rs, j, owner) ==
  IF rs[j] # Nil THEN "known" ELSE IF HasRoom(rs, owner) THEN "fresh" ELSE "refused"

(* Reserving, creating the task and waking the janitor happen without an      *)
(* await in between.                                                        *)
Reserve(j, owner, outcome) ==
  LET rs == Prune(records) IN
  /\ outcome = ReserveOutcome(rs, j, owner)
  /\ IF outcome = "fresh"
     THEN /\ records' = [rs EXCEPT ![j] =
               [state |-> "QUEUED", owner |-> owner, size |-> 0,
                expires |-> Ttl, forget |-> TombstoneTtl]]
          /\ janitor' = TRUE
          /\ since' = [since EXCEPT ![j] = 0]
          /\ kept' = [kept EXCEPT ![j] = Nil]
     ELSE records' = rs /\ UNCHANGED <<janitor, since, kept>>

-----------------------------------------------------------------------------
(* The task of a job.                                                      *)

Execute(j) ==
  /\ records[j] # Nil /\ records[j].state = "QUEUED"
  /\ records' = [records EXCEPT ![j].state = "RUNNING"]
  /\ UNCHANGED <<janitor, since, kept>>

(* Slip: a result keeps the expiry that was set when the job was reserved.    *)
FinishInPlace(j, state, size, life) ==
  /\ records' = [records EXCEPT ![j].state = state, ![j].size = size,
                   ![j].forget = Bigger(@, records[j].expires)]
  /\ kept' = [kept EXCEPT ![j] = IF state = "SUCCEEDED" THEN 0 ELSE Nil]
  /\ UNCHANGED <<janitor, since>>

(* A result lives from now; its tombstone lives at least as long.            *)
FinishRun(j, state, size, life) ==
  /\ records' = [records EXCEPT ![j] =
                   [@ EXCEPT !.state = state, !.size = size, !.expires = life,
                             !.forget = Bigger(records[j].forget, life)]]
  /\ kept' = [kept EXCEPT ![j] = IF state = "SUCCEEDED" THEN 0 ELSE Nil]
  /\ UNCHANGED <<janitor, since>>

(* A result that is too large, is no result at all, is late or is cancelled    *)
(* ends the job with an error.                                              *)
Complete(j) ==
  /\ records[j] # Nil /\ records[j].state = "RUNNING"
  /\ \/ \E size \in 1 .. MaxBody : FinishRun(j, "SUCCEEDED", size, Ttl)
     \/ FinishRun(j, "FAILED", 0, Ttl)
     \/ FinishRun(j, "FAILED", 0, ShortTtl)

(* Slip: the janitor goes when no job is running.                            *)
JanitorOfActive ==
  /\ janitor
  /\ records' = Prune(records)
  /\ janitor' = (RunningJobs(records) # {})
  /\ UNCHANGED <<since, kept>>

(* The janitor prunes every half minute and ends when nothing is left.       *)
Janitor ==
  /\ janitor
  /\ records' = Prune(records)
  /\ janitor' = (Known(Prune(records)) # {})
  /\ UNCHANGED <<since, kept>>

Restart ==
  /\ records' = [j \in JobIds |-> Nil]
  /\ janitor' = FALSE
  /\ since' = [j \in JobIds |-> Nil]
  /\ kept' = [j \in JobIds |-> Nil]

(* The clock of the server.                                                  *)
Pass ==
  /\ records' = [j \in JobIds |->
       IF records[j] = Nil THEN Nil
       ELSE [records[j] EXCEPT !.expires = Elapse(@), !.forget = Elapse(@)]]
  /\ since' = [j \in JobIds |-> Grow(since[j], TombstoneTtl)]
  /\ kept' = [j \in JobIds |-> Grow(kept[j], Ttl)]
  /\ UNCHANGED janitor

StoreInit ==
  /\ records = [j \in JobIds |-> Nil]
  /\ janitor = FALSE
  /\ since = [j \in JobIds |-> Nil]
  /\ kept = [j \in JobIds |-> Nil]

=============================================================================

----------------------------- MODULE AsyncSafety -----------------------------
(* What the asynchronous jobs promise to who pays for them.                  *)
EXTENDS AsyncClients

(* "Idempotency tombstones live for 24 hours": while one process lives, a job  *)
(* id starts a second run only when that time has passed since its first      *)
(* reservation, however long it ran and whenever its result expired           *)
(* (JobStore.reserve, prune, finish).                                        *)
ReservedAnew(j) ==
  /\ records'[j] # Nil /\ records'[j].state = "QUEUED"
  /\ records[j] = Nil \/ records[j].state # "QUEUED"

RunsOnceWhileRemembered ==
  [][\A j \in JobIds :
       ReservedAnew(j) => since[j] = Nil \/ since[j] = TombstoneTtl]_asyncVars

(* Whatever is running can still store its largest result: neither memory nor  *)
(* the number of records nor of runs passes its limit (JobStore.reserve).     *)
RoomForResults ==
  /\ Retained(records) <= MaxBytes
  /\ Cardinality(Known(records)) <= MaxRecords
  /\ Cardinality(RunningJobs(records)) <= Capacity

(* "Results expire after 30 minutes": counted from the moment the result came, *)
(* not from its request (JobStore.finish, prune).  A restart loses them.      *)
HasResult(j) == records[j] # Nil /\ records[j].state = "SUCCEEDED"

ResultKept ==
  [][Restart \/ \A j \in JobIds : HasResult(j) /\ ~ HasResult(j)' => kept[j] = Ttl]_asyncVars

(* "A lost receipt never submits another paid generation": what runs or has a  *)
(* result is what its tab will ask for whenever it is signed in where it was   *)
(* asked for, until its user got an answer or dismissed it; so a tab has no    *)
(* second one of these there.  The code lets go of it in two cases more, which  *)
(* its user brings about: he asks for another one in that tab while signed in   *)
(* elsewhere, or reloads a page that has no session storage (acsJobSubmit,     *)
(* acsJobRead).                                                             *)
NothingPaidIsLost ==
  \A j \in JobIds :
    records[j] # Nil /\ records[j].state # "EXPIRED" /\ told[j] = "submitted" =>
      \E t \in Tabs : row[t] # Nil /\ row[t].id = j /\ ~ row[t].delivered

(* A tab does not wait for ever, whatever the network does and although every  *)
(* status it hears moves its deadline (acsJobWait).                           *)
WaitsEnd == \A t \in Tabs : pc[t] # "idle" ~> pc[t] = "idle"

(* Memory is given back although nobody asks again: the record of a job that    *)
(* ended is dropped, or stands for a new run of it by then                    *)
(* (AsyncGenerationMiddleware._maintain).                                    *)
AtRest(j) == records[j] # Nil /\ ~ IsActive(records, j)

RecordsGo == \A j \in JobIds : AtRest(j) ~> ~ AtRest(j)

=============================================================================

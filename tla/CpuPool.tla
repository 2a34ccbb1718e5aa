------------------------------- MODULE CpuPool --------------------------------
(***************************************************************************)
(* The pool of processes that validate uploads and compute plans.  A call     *)
(* takes a seat, hands its task to the executor, and gives the seat back when  *)
(* it is answered, times out or is disconnected; its task may then go on       *)
(* without it.  A worker that dies breaks its executor with every task in it;   *)
(* the call that is told so drops the executor, and the next call makes a new   *)
(* one.  Executors are numbered; a number is used again when nothing is left    *)
(* of its executor.  Steps of a call between two awaits are one action.        *)
(***************************************************************************)
EXTENDS Integers, FiniteSets

CONSTANTS
  CpuCalls,
  CpuWorkers, CpuQueue,
  CpuExecutors      (* numbers for executors, 0 stands for none             *)

ASSUME CpuAssumption ==
  /\ IsFiniteSet(CpuCalls)
  /\ CpuWorkers \in Nat \ {0} /\ CpuQueue \in Nat
  /\ CpuExecutors \subseteq Nat \ {0}

VARIABLES
  free,       (* free seats                                               *)
  pool,       (* the executor that takes new tasks                          *)
  waiting,    (* calls that await their task                               *)
  task,       (* the state of the task of a call, or "none"                 *)
  place,      (* the executor the task of a call is in                      *)
  broken, closed,   (* executors a worker of which died, that were shut down  *)
  answer      (* what a call was told last                                 *)

cpuVars == <<free, pool, waiting, task, place, broken, closed, answer>>

CpuCapacity == CpuWorkers + CpuQueue

InExecutor(e, states) == {c \in CpuCalls : place[c] = e /\ task[c] \in states}

CpuTypeOK ==
  /\ free \in 0 .. CpuCapacity
  /\ pool \in CpuExecutors \cup {0}
  /\ waiting \subseteq CpuCalls
  /\ task \in [CpuCalls -> {"none", "queued", "running", "done", "broken", "cancelled"}]
  /\ place \in [CpuCalls -> CpuExecutors \cup {0}]
  /\ broken \subseteq CpuExecutors /\ closed \subseteq CpuExecutors
  /\ answer \in [CpuCalls -> {"none", "saturated", "broken", "value", "crashed",
                              "cancelled", "timeout"}]

CpuInit ==
  /\ free = CpuCapacity
  /\ pool = 0
  /\ waiting = {}
  /\ task = [c \in CpuCalls |-> "none"]
  /\ place = [c \in CpuCalls |-> 0]
  /\ broken = {} /\ closed = {}
  /\ answer = [c \in CpuCalls |-> "none"]

-----------------------------------------------------------------------------
Tell(c, what) == answer' = [answer EXCEPT ![c] = what]

(* Without an executor one is made, of which nothing is broken yet.            *)
Executor(e) ==
  \/ e = pool /\ pool # 0 /\ UNCHANGED <<pool, broken, closed>>
  \/ /\ pool = 0 /\ e \in CpuExecutors /\ \A c \in CpuCalls : place[c] # e
     /\ pool' = e /\ broken' = broken \ {e} /\ closed' = closed \ {e}

(* A broken executor takes no task: the seat is given back at once.            *)
CpuSubmit(c) ==
  /\ c \notin waiting /\ task[c] = "none"
  /\ \/ /\ free = 0
        /\ Tell(c, "saturated")
        /\ UNCHANGED <<free, pool, waiting, task, place, broken, closed>>
     \/ /\ free > 0 /\ pool # 0 /\ pool \in broken
        /\ Tell(c, "broken")
        /\ UNCHANGED <<free, pool, waiting, task, place, broken, closed>>
     \/ /\ free > 0 /\ pool \notin broken
        /\ \E e \in CpuExecutors : Executor(e) /\ place' = [place EXCEPT ![c] = e]
        /\ free' = free - 1
        /\ waiting' = waiting \cup {c}
        /\ task' = [task EXCEPT ![c] = "queued"]
        /\ UNCHANGED answer

(* The outcome of a task nobody awaits is dropped.                           *)
Settled(c, state) ==
  /\ task' = [task EXCEPT ![c] = IF c \in waiting THEN state ELSE "none"]
  /\ place' = [place EXCEPT ![c] = IF c \in waiting THEN @ ELSE 0]

(* Tasks are handed out one ahead of the workers, and can then not be cancelled. *)
CpuTake(c) ==
  /\ task[c] = "queued" /\ place[c] \notin broken \cup closed
  /\ Cardinality(InExecutor(place[c], {"running"})) <= CpuWorkers
  /\ task' = [task EXCEPT ![c] = "running"]
  /\ UNCHANGED <<free, pool, waiting, place, broken, closed, answer>>

CpuFinish(c) ==
  /\ task[c] = "running" /\ place[c] \notin broken
  /\ Settled(c, "done")
  /\ UNCHANGED <<free, pool, waiting, broken, closed, answer>>

(* Also an idle worker may die.                                              *)
CpuCrash(e) ==
  /\ e \notin broken
  /\ e = pool \/ InExecutor(e, {"running"}) # {}
  /\ broken' = broken \cup {e}
  /\ LET lost == InExecutor(e, {"queued", "running"}) IN
     /\ task' = [c \in CpuCalls |->
          IF c \notin lost THEN task[c] ELSE IF c \in waiting THEN "broken" ELSE "none"]
     /\ place' = [c \in CpuCalls |-> IF c \in lost \ waiting THEN 0 ELSE place[c]]
  /\ UNCHANGED <<free, pool, waiting, closed, answer>>

(* An executor that is shut down cancels what it has not handed out.           *)
CpuCancel(c) ==
  /\ task[c] = "queued" /\ place[c] \in closed
  /\ Settled(c, "cancelled")
  /\ UNCHANGED <<free, pool, waiting, broken, closed, answer>>

-----------------------------------------------------------------------------
(* The call resumes.  Every way out gives the seat back.                      *)

Forget(c) ==
  /\ task' = [task EXCEPT ![c] = "none"]
  /\ place' = [place EXCEPT ![c] = 0]

GiveBack(c) ==
  /\ waiting' = waiting \ {c}
  /\ free' = free + 1

CpuResume(c) ==
  /\ c \in waiting /\ task[c] \in {"done", "cancelled"}
  /\ Tell(c, IF task[c] = "done" THEN "value" ELSE "cancelled")
  /\ Forget(c) /\ GiveBack(c)
  /\ UNCHANGED <<pool, broken, closed>>

(* Whatever executor is the current one by now is dropped.                    *)
CpuResumeBroken(c) ==
  /\ c \in waiting /\ task[c] = "broken"
  /\ pool' = 0 /\ closed' = closed \cup ({pool} \ {0})
  /\ Tell(c, "crashed")
  /\ Forget(c) /\ GiveBack(c)
  /\ UNCHANGED broken

(* Slip: the seat of a disconnected call is not given back.                   *)
CpuLeaveSeated(c) ==
  /\ c \in waiting
  /\ waiting' = waiting \ {c}
  /\ IF task[c] = "running" THEN UNCHANGED <<task, place>> ELSE Forget(c)
  /\ Tell(c, "timeout")
  /\ UNCHANGED <<free, pool, broken, closed>>

(* Timed out or disconnected: a task that was handed out goes on, the news of  *)
(* a broken executor gets lost.                                             *)
CpuLeave(c) ==
  /\ c \in waiting
  /\ IF task[c] = "running" THEN UNCHANGED <<task, place>> ELSE Forget(c)
  /\ Tell(c, "timeout")
  /\ GiveBack(c)
  /\ UNCHANGED <<pool, broken, closed>>

CpuStep(c) ==
  CpuTake(c) \/ CpuFinish(c) \/ CpuCancel(c) \/ CpuResume(c) \/ CpuResumeBroken(c)

CpuNext ==
  \/ \E c \in CpuCalls : CpuSubmit(c) \/ CpuStep(c) \/ CpuLeave(c)
  \/ \E e \in CpuExecutors : CpuCrash(e)

CpuSpec == CpuInit /\ [][CpuNext]_cpuVars

(* Calls keep coming, and everything that is under way goes on.               *)
CpuFairSpec ==
  CpuSpec /\ \A c \in CpuCalls : WF_cpuVars(CpuSubmit(c)) /\ WF_cpuVars(CpuStep(c))

-----------------------------------------------------------------------------
(* Every seat is free or belongs to a call that waits: however calls end and    *)
(* executors break, as many calls as before are admitted afterwards.  Ten lost  *)
(* seats would end validation for good (CpuPool.submit, run).                 *)
SeatsReturn == free + Cardinality(waiting) = CpuCapacity

(* "A worker crash rebuilds the pool instead of disabling validation": while    *)
(* calls keep coming, a broken executor does not stay the current one (run).   *)
Disabled == pool \in broken

CrashIsRepaired == Disabled ~> ~ Disabled

=============================================================================

------------------------------ MODULE LimitProofs ------------------------------
(* The services that let only so much happen at a time, for any number of calls: the     *)
(* seats of the CPU pool are never lost, however calls end and executors break; the       *)
(* workers of generations never outnumber the slots in use, and a job that ended stays     *)
(* as it ended; a client of the rate limiter gets no fresh quota from being evicted,          *)
(* waiting as long as it was told is enough, and the budget that all share is kept.         *)
EXTENDS CpuPool, GenerationRunner, RateLimit, RateCheck, TLAPS, FiniteSetTheorems, SequenceTheorems

-----------------------------------------------------------------------------
(* The CPU pool.                                                                *)

(* A pool has at least one seat.                                             *)
LEMMA CapacityIsPositive == CpuCapacity \in Nat /\ CpuCapacity >= 1
  BY CpuAssumption DEF CpuCapacity

(* The sets of waiting calls are finite.                                      *)
LEMMA WaitingIsFinite ==
  ASSUME CpuTypeOK
  PROVE  IsFiniteSet(waiting) /\ Cardinality(waiting) \in Nat
  BY CpuAssumption, FS_Subset, FS_CardinalityType DEF CpuTypeOK

(* A call that starts to wait takes exactly the seat it is given.               *)
LEMMA SeatTaken ==
  ASSUME CpuTypeOK, SeatsReturn,
         NEW c \in CpuCalls, c \notin waiting, free > 0,
         waiting' = waiting \cup {c}, free' = free - 1
  PROVE  SeatsReturn' /\ free' \in 0 .. CpuCapacity
  <1>1. Cardinality(waiting') = Cardinality(waiting) + 1
    BY WaitingIsFinite, FS_AddElement
  <1> QED BY <1>1, WaitingIsFinite, CapacityIsPositive DEF SeatsReturn, CpuTypeOK, CpuCapacity

(* A call that stops waiting gives back the one seat it had.                    *)
LEMMA SeatGivenBack ==
  ASSUME CpuTypeOK, SeatsReturn, NEW c \in waiting, GiveBack(c)
  PROVE  /\ SeatsReturn' /\ free' \in 0 .. CpuCapacity
         /\ waiting' \subseteq CpuCalls
  <1>1. Cardinality(waiting') = Cardinality(waiting) - 1 /\ IsFiniteSet(waiting')
    BY WaitingIsFinite, FS_RemoveElement DEF GiveBack
  <1>2. Cardinality(waiting') \in Nat
    BY <1>1, FS_CardinalityType
  <1> QED BY <1>1, <1>2, WaitingIsFinite, CapacityIsPositive
          DEF SeatsReturn, CpuTypeOK, CpuCapacity, GiveBack

(* Nothing else touches the seats.                                           *)
LEMMA SeatsUntouched ==
  ASSUME CpuTypeOK, SeatsReturn, UNCHANGED <<free, waiting>>
  PROVE  SeatsReturn' /\ free' \in 0 .. CpuCapacity /\ waiting' \subseteq CpuCalls
  BY DEF SeatsReturn, CpuTypeOK, CpuCapacity

-----------------------------------------------------------------------------
CpuInv == CpuTypeOK /\ SeatsReturn

LEMMA CpuInitInv == CpuInit => CpuInv
  BY FS_EmptySet, CapacityIsPositive DEF CpuInit, CpuInv, CpuTypeOK, SeatsReturn

(* The three ways in which a new call is met.                                  *)
LEMMA SubmitKeeps ==
  ASSUME CpuInv, NEW c \in CpuCalls, CpuSubmit(c)
  PROVE  CpuInv'
  <1> USE DEF CpuInv
  <1>1. CASE UNCHANGED <<free, pool, waiting, task, place, broken, closed>>
    <2>1. CASE Tell(c, "saturated")
      BY <1>1, <2>1, SeatsUntouched DEF CpuTypeOK, Tell
    <2>2. CASE Tell(c, "broken")
      BY <1>1, <2>2, SeatsUntouched DEF CpuTypeOK, Tell
    <2>3. CASE free' = free - 1
      BY <1>1, <2>3 DEF CpuTypeOK
    <2> QED BY <2>1, <2>2, <2>3 DEF CpuSubmit
  <1>2. CASE /\ free > 0 /\ pool \notin broken /\ c \notin waiting
             /\ \E e \in CpuExecutors : Executor(e) /\ place' = [place EXCEPT ![c] = e]
             /\ free' = free - 1
             /\ waiting' = waiting \cup {c}
             /\ task' = [task EXCEPT ![c] = "queued"]
             /\ UNCHANGED answer
    <2>1. SeatsReturn' /\ free' \in 0 .. CpuCapacity
      BY <1>2, SeatTaken
    <2>2. PICK e \in CpuExecutors : Executor(e) /\ place' = [place EXCEPT ![c] = e]
      BY <1>2
    <2>3. /\ pool' \in CpuExecutors \cup {0}
          /\ broken' \subseteq CpuExecutors /\ closed' \subseteq CpuExecutors
      BY <2>2 DEF Executor, CpuTypeOK
    <2>4. task' \in [CpuCalls -> {"none", "queued", "running", "done", "broken", "cancelled"}]
      BY <1>2 DEF CpuTypeOK
    <2>5. place' \in [CpuCalls -> CpuExecutors \cup {0}]
      BY <2>2 DEF CpuTypeOK
    <2> QED BY <1>2, <2>1, <2>3, <2>4, <2>5 DEF CpuTypeOK
  <1> QED BY <1>1, <1>2 DEF CpuSubmit

(* What workers and executors do on their own.                                 *)
LEMMA TasksKeep ==
  ASSUME CpuInv, NEW c \in CpuCalls, CpuTake(c) \/ CpuFinish(c) \/ CpuCancel(c)
  PROVE  CpuInv'
  <1> USE DEF CpuInv
  <1>1. UNCHANGED <<free, pool, waiting, broken, closed, answer>>
    BY DEF CpuTake, CpuFinish, CpuCancel
  <1>2. /\ task' \in [CpuCalls -> {"none", "queued", "running", "done", "broken", "cancelled"}]
        /\ place' \in [CpuCalls -> CpuExecutors \cup {0}]
    BY DEF CpuTake, CpuFinish, CpuCancel, Settled, CpuTypeOK
  <1> QED BY <1>1, <1>2, SeatsUntouched DEF CpuTypeOK

LEMMA CrashKeeps ==
  ASSUME CpuInv, NEW e \in CpuExecutors, CpuCrash(e)
  PROVE  CpuInv'
  <1> USE DEF CpuInv
  <1>1. UNCHANGED <<free, pool, waiting, closed, answer>>
    BY DEF CpuCrash
  <1>2. broken' \subseteq CpuExecutors
    BY DEF CpuCrash, CpuTypeOK
  <1>3. task' \in [CpuCalls -> {"none", "queued", "running", "done", "broken", "cancelled"}]
    BY DEF CpuCrash, CpuTypeOK
  <1>4. place' \in [CpuCalls -> CpuExecutors \cup {0}]
    BY DEF CpuCrash, CpuTypeOK
  <1> QED BY <1>1, <1>2, <1>3, <1>4, SeatsUntouched DEF CpuTypeOK

(* Every way out of a call.                                                  *)
LEMMA ResumeKeeps ==
  ASSUME CpuInv, NEW c \in CpuCalls,
         CpuResume(c) \/ CpuResumeBroken(c) \/ CpuLeave(c)
  PROVE  CpuInv'
  <1> USE DEF CpuInv
  <1>1. c \in waiting /\ GiveBack(c)
    BY DEF CpuResume, CpuResumeBroken, CpuLeave
  <1>2. SeatsReturn' /\ free' \in 0 .. CpuCapacity /\ waiting' \subseteq CpuCalls
    BY <1>1, SeatGivenBack
  <1>3. /\ task' \in [CpuCalls -> {"none", "queued", "running", "done", "broken", "cancelled"}]
        /\ place' \in [CpuCalls -> CpuExecutors \cup {0}]
    BY DEF CpuResume, CpuResumeBroken, CpuLeave, Forget, CpuTypeOK
  <1>4. /\ pool' \in CpuExecutors \cup {0}
        /\ broken' \subseteq CpuExecutors /\ closed' \subseteq CpuExecutors
    BY DEF CpuResume, CpuResumeBroken, CpuLeave, CpuTypeOK
  <1>5. answer' \in [CpuCalls -> {"none", "saturated", "broken", "value", "crashed",
                                  "cancelled", "timeout"}]
    BY DEF CpuResume, CpuResumeBroken, CpuLeave, Tell, CpuTypeOK
  <1> QED BY <1>2, <1>3, <1>4, <1>5 DEF CpuTypeOK

LEMMA CpuStepInv == CpuInv /\ [CpuNext]_cpuVars => CpuInv'
  <1> SUFFICES ASSUME CpuInv, [CpuNext]_cpuVars PROVE CpuInv'
    OBVIOUS
  <1>1. ASSUME NEW c \in CpuCalls, CpuSubmit(c) PROVE CpuInv'
    BY <1>1, SubmitKeeps
  <1>2. ASSUME NEW c \in CpuCalls, CpuStep(c) PROVE CpuInv'
    BY <1>2, TasksKeep, ResumeKeeps DEF CpuStep
  <1>3. ASSUME NEW c \in CpuCalls, CpuLeave(c) PROVE CpuInv'
    BY <1>3, ResumeKeeps
  <1>4. ASSUME NEW e \in CpuExecutors, CpuCrash(e) PROVE CpuInv'
    BY <1>4, CrashKeeps
  <1>5. CASE UNCHANGED cpuVars
    BY <1>5, SeatsUntouched DEF CpuInv, CpuTypeOK, cpuVars
  <1> QED BY <1>1, <1>2, <1>3, <1>4, <1>5 DEF CpuNext

(* Every state of the pool, its executors and its calls is one the code has.     *)
THEOREM CpuTypeCorrect == CpuSpec => []CpuTypeOK
  <1>1. CpuInv => CpuTypeOK
    BY DEF CpuInv
  <1> QED BY <1>1, CpuInitInv, CpuStepInv, PTL DEF CpuSpec

(* However calls end and executors break, every seat is free or held by a call    *)
(* that waits (CpuPool.submit, run).                                        *)
THEOREM SeatsAreNeverLost == CpuSpec => []SeatsReturn
  <1>1. CpuInv => SeatsReturn
    BY DEF CpuInv
  <1> QED BY <1>1, CpuInitInv, CpuStepInv, PTL DEF CpuSpec

-----------------------------------------------------------------------------
(* The runner of generations.                                                  *)

Busy == {c \in RunCalls : at[c] # "idle"}

(* Every slot is free or held by the call that took it.                          *)
SlotsAreHeld == slots + Cardinality(Busy) = RunCapacity

(* Only a call that reads or closes has a worker.                               *)
WorkersAreCalls ==
  \A c \in RunCalls : worker[c] # "none" => at[c] \in {"polling", "closing"}

(* How far a call has come tells whether its job is still open.                   *)
OpenWhileWorking ==
  \A c \in RunCalls :
    /\ at[c] = "starting" => state[c] = "PENDING"
    /\ at[c] = "polling" => state[c] = "RUNNING"
    /\ at[c] \in {"closing", "settling"} /\ ending[c] \in {"ok", "err"}
         => state[c] = "RUNNING"

RunInv == RunTypeOK /\ SlotsAreHeld /\ WorkersAreCalls /\ OpenWhileWorking

-----------------------------------------------------------------------------
LEMMA BusyIsFinite == IsFiniteSet(Busy) /\ Cardinality(Busy) \in Nat
  BY RunAssumption, FS_Subset, FS_CardinalityType DEF Busy

(* A step from one place of work to another keeps the slots as they are.           *)
LEMMA StillBusy ==
  ASSUME RunTypeOK, SlotsAreHeld, NEW c \in RunCalls,
         NEW from \in {"starting", "polling", "closing", "settling"},
         NEW to \in {"starting", "polling", "closing", "settling", "releasing"},
         Step(c, from, to), slots' = slots
  PROVE  SlotsAreHeld'
  <1>1. Busy' = Busy
    BY DEF Busy, Step, RunTypeOK
  <1> QED BY <1>1 DEF SlotsAreHeld

(* A step that moves no call keeps the slots.                                  *)
LEMMA NobodyMoves ==
  ASSUME SlotsAreHeld, UNCHANGED <<slots, at>>
  PROVE  SlotsAreHeld'
  BY DEF SlotsAreHeld, Busy

LEMMA RunInitInv == RunInit => RunInv
  <1> SUFFICES ASSUME RunInit PROVE RunInv
    OBVIOUS
  <1>1. Busy = {}
    BY DEF RunInit, Busy
  <1>2. SlotsAreHeld
    BY <1>1, FS_EmptySet, RunAssumption DEF SlotsAreHeld, RunInit
  <1>3. RunTypeOK
    BY RunAssumption DEF RunInit, RunTypeOK, JobTerminal
  <1> QED BY <1>2, <1>3 DEF RunInv, RunInit, WorkersAreCalls, OpenWhileWorking

-----------------------------------------------------------------------------
(* Taking a slot and giving it back.                                           *)
LEMMA AdmitKeeps ==
  ASSUME RunInv, NEW c \in RunCalls, RunAdmit(c)
  PROVE  RunInv'
  <1> USE DEF RunInv
  <1>1. Busy' = Busy \cup {c} /\ c \notin Busy
    BY DEF RunAdmit, Step, Busy, RunTypeOK
  <1>2. SlotsAreHeld'
    <2>1. Cardinality(Busy') = Cardinality(Busy) + 1
      BY <1>1, BusyIsFinite, FS_AddElement
    <2> QED BY <2>1, BusyIsFinite, RunAssumption DEF SlotsAreHeld, RunAdmit, RunTypeOK
  <1>3. RunTypeOK'
    BY RunAssumption DEF RunAdmit, Step, Mark, RunTypeOK
  <1>4. WorkersAreCalls'
    BY DEF RunAdmit, Step, WorkersAreCalls, RunTypeOK
  <1>5. OpenWhileWorking'
    BY DEF RunAdmit, Step, Mark, OpenWhileWorking, RunTypeOK
  <1> QED BY <1>2, <1>3, <1>4, <1>5

LEMMA ReleaseKeeps ==
  ASSUME RunInv, NEW c \in RunCalls, RunRelease(c)
  PROVE  RunInv'
  <1> USE DEF RunInv
  <1>1. Busy' = Busy \ {c} /\ c \in Busy
    BY DEF RunRelease, Step, Busy, RunTypeOK
  <1>2. Cardinality(Busy') = Cardinality(Busy) - 1 /\ Cardinality(Busy') \in Nat
    <2>1. Cardinality(Busy') = Cardinality(Busy) - 1 /\ IsFiniteSet(Busy')
      BY <1>1, BusyIsFinite, FS_RemoveElement
    <2> QED BY <2>1, FS_CardinalityType
  <1>3. SlotsAreHeld' /\ slots' \in 0 .. RunCapacity
    BY <1>2, BusyIsFinite, RunAssumption DEF SlotsAreHeld, RunRelease, RunTypeOK
  <1>4. RunTypeOK'
    BY <1>3 DEF RunRelease, Step, RunTypeOK
  <1>5. WorkersAreCalls' /\ OpenWhileWorking'
    BY DEF RunRelease, Step, WorkersAreCalls, OpenWhileWorking, RunTypeOK
  <1> QED BY <1>3, <1>4, <1>5

(* Refusing, and starting a worker or failing to.                               *)
LEMMA StartKeeps ==
  ASSUME RunInv, NEW c \in RunCalls, RunReject(c) \/ RunStart(c) \/ RunStartFails(c)
  PROVE  RunInv'
  <1> USE DEF RunInv, Mark
  <1>1. CASE RunReject(c)
    <2>1. SlotsAreHeld'
      BY <1>1, NobodyMoves DEF RunReject
    <2>2. RunTypeOK'
      BY <1>1 DEF RunReject, RunTypeOK, JobTerminal
    <2>3. WorkersAreCalls' /\ OpenWhileWorking'
      BY <1>1 DEF RunReject, WorkersAreCalls, OpenWhileWorking, RunTypeOK
    <2> QED BY <2>1, <2>2, <2>3
  <1>2. CASE RunStart(c)
    <2>1. SlotsAreHeld'
      BY <1>2, StillBusy DEF RunStart
    <2>2. RunTypeOK'
      BY <1>2 DEF RunStart, Step, RunTypeOK
    <2>3. WorkersAreCalls' /\ OpenWhileWorking'
      BY <1>2 DEF RunStart, Step, WorkersAreCalls, OpenWhileWorking, RunTypeOK
    <2> QED BY <2>1, <2>2, <2>3
  <1>3. CASE RunStartFails(c)
    <2>1. SlotsAreHeld'
      BY <1>3, StillBusy DEF RunStartFails
    <2>2. RunTypeOK'
      BY <1>3 DEF RunStartFails, Step, RunTypeOK
    <2>3. WorkersAreCalls' /\ OpenWhileWorking'
      BY <1>3 DEF RunStartFails, Step, WorkersAreCalls, OpenWhileWorking, RunTypeOK
    <2> QED BY <2>1, <2>2, <2>3
  <1> QED BY <1>1, <1>2, <1>3

(* What the worker does, and time.                                            *)
LEMMA WorkerKeeps ==
  ASSUME RunInv, NEW c \in RunCalls,
         \/ \E what \in {"progress", "ok", "err"} : WorkerSends(c, what)
         \/ WorkerExits(c) \/ RunExpire(c)
  PROVE  RunInv'
  <1> USE DEF RunInv
  <1>1. CASE \E what \in {"progress", "ok", "err"} : WorkerSends(c, what)
    <2>1. PICK what \in {"progress", "ok", "err"} : WorkerSends(c, what)
      BY <1>1
    <2>2. SlotsAreHeld'
      BY <2>1, NobodyMoves DEF WorkerSends
    <2>3. pipe' \in [RunCalls -> Seq({"progress", "ok", "err"})]
      BY <2>1 DEF WorkerSends, RunTypeOK
    <2>4. worker' \in [RunCalls -> {"none", "alive", "answered"}]
      BY <2>1 DEF WorkerSends, RunTypeOK
    <2>5. WorkersAreCalls'
      BY <2>1 DEF WorkerSends, WorkersAreCalls, RunTypeOK
    <2>6. OpenWhileWorking'
      BY <2>1 DEF WorkerSends, OpenWhileWorking
    <2> QED BY <2>1, <2>2, <2>3, <2>4, <2>5, <2>6 DEF WorkerSends, RunTypeOK
  <1>2. CASE WorkerExits(c)
    <2>1. SlotsAreHeld'
      BY <1>2, NobodyMoves DEF WorkerExits
    <2>2. RunTypeOK'
      BY <1>2 DEF WorkerExits, RunTypeOK
    <2>3. WorkersAreCalls' /\ OpenWhileWorking'
      BY <1>2 DEF WorkerExits, WorkersAreCalls, OpenWhileWorking, RunTypeOK
    <2> QED BY <2>1, <2>2, <2>3
  <1>3. CASE RunExpire(c)
    <2>1. SlotsAreHeld'
      BY <1>3, NobodyMoves DEF RunExpire
    <2>2. RunTypeOK'
      BY <1>3 DEF RunExpire, RunTypeOK
    <2>3. WorkersAreCalls' /\ OpenWhileWorking'
      BY <1>3 DEF RunExpire, WorkersAreCalls, OpenWhileWorking
    <2> QED BY <2>1, <2>2, <2>3
  <1> QED BY <1>1, <1>2, <1>3

-----------------------------------------------------------------------------
(* One turn of the loop: it goes on, or it ends in one of the five ways.            *)
LEMMA PollKeeps ==
  ASSUME RunInv, NEW c \in RunCalls, RunPoll(c)
  PROVE  RunInv'
  <1> USE DEF RunInv, Mark
  <1>1. at[c] = "polling" /\ state[c] = "RUNNING"
    BY DEF RunPoll, RunTimesOut, RunFindsDead, RunReadsProgress, RunReadsAnswer,
           RunEnds, Step, OpenWhileWorking
  <1>2. CASE RunTimesOut(c)
    <2>1. SlotsAreHeld'
      BY <1>2, StillBusy DEF RunTimesOut, RunEnds
    <2>2. RunTypeOK'
      BY <1>2 DEF RunTimesOut, RunEnds, Step, RunTypeOK, JobTerminal
    <2>3. WorkersAreCalls'
      BY <1>2 DEF RunTimesOut, RunEnds, Step, WorkersAreCalls, RunTypeOK
    <2>4. OpenWhileWorking'
      BY <1>2 DEF RunTimesOut, RunEnds, Step, OpenWhileWorking, RunTypeOK
    <2> QED BY <2>1, <2>2, <2>3, <2>4
  <1>3. CASE RunFindsDead(c)
    <2>1. SlotsAreHeld'
      BY <1>3, StillBusy DEF RunFindsDead, RunEnds
    <2>2. RunTypeOK'
      BY <1>3 DEF RunFindsDead, RunEnds, Step, RunTypeOK, JobTerminal
    <2>3. WorkersAreCalls'
      BY <1>3 DEF RunFindsDead, RunEnds, Step, WorkersAreCalls, RunTypeOK
    <2>4. OpenWhileWorking'
      BY <1>3 DEF RunFindsDead, RunEnds, Step, OpenWhileWorking, RunTypeOK
    <2> QED BY <2>1, <2>2, <2>3, <2>4
  <1>4. CASE RunReadsProgress(c)
    <2>1. pipe' \in [RunCalls -> Seq({"progress", "ok", "err"})]
      BY <1>4 DEF RunReadsProgress, Received, RunTypeOK
    <2>2. CASE UNCHANGED <<at, state, ending>>
      <3>1. SlotsAreHeld'
        BY <1>4, <2>2, NobodyMoves DEF RunReadsProgress
      <3> QED BY <1>4, <2>1, <2>2, <3>1
              DEF RunReadsProgress, RunTypeOK, WorkersAreCalls, OpenWhileWorking
    <2>3. CASE RunEnds(c, "died") /\ Mark(c, "FAILED")
      <3>1. SlotsAreHeld'
        BY <1>4, <2>3, StillBusy DEF RunReadsProgress, RunEnds
      <3>2. RunTypeOK'
        BY <1>4, <2>1, <2>3 DEF RunReadsProgress, RunEnds, Step, RunTypeOK, JobTerminal
      <3>3. WorkersAreCalls' /\ OpenWhileWorking'
        BY <1>4, <2>3 DEF RunReadsProgress, RunEnds, Step, WorkersAreCalls,
                          OpenWhileWorking, RunTypeOK
      <3> QED BY <3>1, <3>2, <3>3
    <2>4. CASE RunEnds(c, "raised") /\ UNCHANGED state
      <3>1. SlotsAreHeld'
        BY <1>4, <2>4, StillBusy DEF RunReadsProgress, RunEnds
      <3>2. RunTypeOK'
        BY <1>4, <2>1, <2>4 DEF RunReadsProgress, RunEnds, Step, RunTypeOK
      <3>3. WorkersAreCalls' /\ OpenWhileWorking'
        BY <1>4, <2>4 DEF RunReadsProgress, RunEnds, Step, WorkersAreCalls,
                          OpenWhileWorking, RunTypeOK
      <3> QED BY <3>1, <3>2, <3>3
    <2> QED BY <1>4, <2>2, <2>3, <2>4 DEF RunReadsProgress
  <1>5. CASE RunReadsAnswer(c)
    <2>1. Head(pipe[c]) \in {"ok", "err"}
      BY <1>5 DEF RunReadsAnswer, Received
    <2>2. pipe' \in [RunCalls -> Seq({"progress", "ok", "err"})]
      BY <1>5 DEF RunReadsAnswer, Received, RunTypeOK
    <2>3. SlotsAreHeld'
      BY <1>5, StillBusy DEF RunReadsAnswer, RunEnds
    <2>4. RunTypeOK'
      BY <1>5, <2>1, <2>2 DEF RunReadsAnswer, RunEnds, Step, RunTypeOK
    <2>5. WorkersAreCalls' /\ OpenWhileWorking'
      BY <1>1, <1>5 DEF RunReadsAnswer, RunEnds, Step, WorkersAreCalls,
                        OpenWhileWorking, RunTypeOK
    <2> QED BY <2>3, <2>4, <2>5
  <1> QED BY <1>2, <1>3, <1>4, <1>5 DEF RunPoll

(* The way out: end the worker, then record the job.                              *)
LEMMA EndKeeps ==
  ASSUME RunInv, NEW c \in RunCalls, RunClose(c) \/ RunSettle(c)
  PROVE  RunInv'
  <1> USE DEF RunInv, Mark
  <1>1. CASE RunClose(c)
    <2>1. SlotsAreHeld'
      BY <1>1, StillBusy DEF RunClose
    <2>2. RunTypeOK'
      BY <1>1 DEF RunClose, Step, RunTypeOK
    <2>3. WorkersAreCalls' /\ OpenWhileWorking'
      BY <1>1 DEF RunClose, Step, WorkersAreCalls, OpenWhileWorking, RunTypeOK
    <2> QED BY <2>1, <2>2, <2>3
  <1>2. CASE RunSettle(c)
    <2>1. SlotsAreHeld'
      BY <1>2, StillBusy DEF RunSettle
    <2>2. RunTypeOK'
      BY <1>2 DEF RunSettle, Step, RunTypeOK, JobTerminal
    <2>3. WorkersAreCalls'
      BY <1>2 DEF RunSettle, Step, WorkersAreCalls, RunTypeOK
    <2>4. OpenWhileWorking'
      BY <1>2 DEF RunSettle, Step, OpenWhileWorking, RunTypeOK
    <2> QED BY <2>1, <2>2, <2>3, <2>4
  <1> QED BY <1>1, <1>2

LEMMA RunStepInv == RunInv /\ [RunNext]_runVars => RunInv'
  <1> SUFFICES ASSUME RunInv, [RunNext]_runVars PROVE RunInv'
    OBVIOUS
  <1>1. CASE RunNext
    BY <1>1, AdmitKeeps, ReleaseKeeps, StartKeeps, WorkerKeeps, PollKeeps, EndKeeps
       DEF RunNext, RunGoesOn
  <1>2. CASE UNCHANGED runVars
    BY <1>2, NobodyMoves DEF RunInv, runVars, RunTypeOK, WorkersAreCalls, OpenWhileWorking
  <1> QED BY <1>1, <1>2

-----------------------------------------------------------------------------
(* Workers are among the busy calls, and these are as many as the slots taken.      *)
LEMMA SlotsBoundWorkers == RunInv => WorkersHoldSlots
  <1> SUFFICES ASSUME RunInv PROVE WorkersHoldSlots
    OBVIOUS
  <1> DEFINE W == {c \in RunCalls : worker[c] # "none"}
  <1>1. W \subseteq Busy
    BY DEF RunInv, WorkersAreCalls, Busy
  <1>2. Cardinality(W) <= Cardinality(Busy) /\ Cardinality(W) \in Nat
    BY <1>1, BusyIsFinite, FS_Subset, FS_CardinalityType
  <1> QED BY <1>2, BusyIsFinite, RunAssumption
          DEF RunInv, SlotsAreHeld, WorkersHoldSlots, RunTypeOK

(* No step of a call that is under way reopens or changes a job that has ended.      *)
LEMMA EndedStays ==
  RunInv /\ [RunNext]_runVars =>
    \A c \in RunCalls : state[c] \in JobTerminal /\ at[c] # "idle" => state'[c] = state[c]
  <1> SUFFICES ASSUME RunInv, [RunNext]_runVars, NEW c \in RunCalls,
                      state[c] \in JobTerminal, at[c] # "idle"
               PROVE  state'[c] = state[c]
    OBVIOUS
  <1> USE DEF RunInv, RunTypeOK, Mark, Step
  <1>1. at[c] \notin {"starting", "polling"}
    BY DEF OpenWhileWorking, JobTerminal
  <1>2. at[c] = "settling" => ending[c] \notin {"ok", "err"}
    BY DEF OpenWhileWorking, JobTerminal
  <1>3. CASE UNCHANGED runVars
    BY <1>3 DEF runVars
  <1>4. ASSUME NEW d \in RunCalls,
               RunAdmit(d) \/ RunReject(d) \/ RunStart(d) \/ RunStartFails(d)
        PROVE  state'[c] = state[c]
    BY <1>1, <1>4 DEF RunAdmit, RunReject, RunStart, RunStartFails
  <1>5. ASSUME NEW d \in RunCalls, RunPoll(d)
        PROVE  state'[c] = state[c]
    BY <1>1, <1>5 DEF RunPoll, RunTimesOut, RunFindsDead, RunReadsProgress,
                      RunReadsAnswer, RunEnds
  <1>6. ASSUME NEW d \in RunCalls, RunClose(d) \/ RunSettle(d) \/ RunRelease(d)
        PROVE  state'[c] = state[c]
    BY <1>2, <1>6 DEF RunClose, RunSettle, RunRelease
  <1>7. ASSUME NEW d \in RunCalls,
               \/ \E what \in {"progress", "ok", "err"} : WorkerSends(d, what)
               \/ WorkerExits(d) \/ RunExpire(d)
        PROVE  state'[c] = state[c]
    BY <1>7 DEF WorkerSends, WorkerExits, RunExpire
  <1> QED BY <1>3, <1>4, <1>5, <1>6, <1>7 DEF RunNext, RunGoesOn

(* Whichever way calls end, callbacks fail and workers hang, there are never more    *)
(* workers than slots in use (JobRunner.run, _execute).                           *)
THEOREM WorkersNeverOutliveSlots == RunSpec => []WorkersHoldSlots
  <1> QED BY RunInitInv, RunStepInv, SlotsBoundWorkers, PTL DEF RunSpec

(* A job that succeeded, failed or timed out is never recorded as anything else by    *)
(* the rest of its call (_execute, _finish).                                      *)
THEOREM EndingsAreFinal == RunSpec => TerminalIsFinal
  <1> QED BY RunInitInv, RunStepInv, EndedStays, PTL DEF RunSpec, TerminalIsFinal

-----------------------------------------------------------------------------
(* The rate limiter.                                                           *)

(* Each place of what is kept has a place it came from, in the same order and with no   *)
(* more rows behind it; every place that is kept is one of them.                      *)
CameFromPlaces(rows, kept, f) ==
  LET r == KeptAt(rows, kept) IN
  /\ f \in [DOMAIN r -> kept]
  /\ \A n \in DOMAIN r : r[n] = rows[f[n]] /\ Len(r) - n <= Len(rows) - f[n]
  /\ \A n, m \in DOMAIN r : f[n] = f[m] => n = m
  /\ \A i \in kept : \E n \in DOMAIN r : f[n] = i

(* There are n places in a sequence of length n.                              *)
LEMMA PlacesCount ==
  ASSUME NEW n \in Nat
  PROVE  IsFiniteSet(1 .. n) /\ Cardinality(1 .. n) = n
  <1>1. 1 \in Int /\ n \in Int
    OBVIOUS
  <1>2. IsFiniteSet(1 .. n) /\ Cardinality(1 .. n) = IF 1 > n THEN 0 ELSE n - 1 + 1
    BY <1>1, FS_Interval
  <1> QED BY <1>2

LEMMA PlacesAreCounted ==
  ASSUME NEW N \in Nat, NEW kept, kept \subseteq 1 .. N
  PROVE  LET upTo(i) == {j \in kept : j <= i}
             nth(n) == CHOOSE i \in kept : Cardinality(upTo(i)) = n
         IN /\ IsFiniteSet(kept) /\ Cardinality(kept) \in Nat /\ Cardinality(kept) <= N
            /\ \A n \in 1 .. Cardinality(kept) : nth(n) \in kept /\ Cardinality(upTo(nth(n))) = n
            /\ \A i \in kept : Cardinality(upTo(i)) \in 1 .. Cardinality(kept)
            /\ \A i, j \in kept : Cardinality(upTo(i)) = Cardinality(upTo(j)) => i = j
            /\ \A i \in kept : Cardinality(kept) - Cardinality(upTo(i)) <= N - i
  <1>. DEFINE upTo(i) == {j \in kept : j <= i}
              after1(i) == {j \in kept : i < j}
              turns == [i \in kept |-> Cardinality(upTo(i))]
              C == Cardinality(kept)
  <1>0. \A k \in kept : k \in Nat /\ k >= 1 /\ k <= N
    OBVIOUS
  <1>1. IsFiniteSet(1 .. N) /\ Cardinality(1 .. N) = N
    BY PlacesCount
  <1>2. IsFiniteSet(kept) /\ C \in Nat /\ C <= N
    BY <1>1, FS_Subset, FS_CardinalityType
  <1>3. ASSUME NEW i \in kept
        PROVE  IsFiniteSet(upTo(i)) /\ Cardinality(upTo(i)) \in 1 .. C
    <2>1. upTo(i) \in SUBSET kept /\ i \in upTo(i)
      OBVIOUS
    <2>2. IsFiniteSet(upTo(i)) /\ Cardinality(upTo(i)) <= C
      BY <2>1, <1>2, FS_Subset
    <2>3. Cardinality(upTo(i)) \in Nat /\ Cardinality(upTo(i)) # 0
      BY <2>1, <2>2, FS_CardinalityType, FS_EmptySet
    <2> QED BY <2>2, <2>3, <1>2
  <1>4. ASSUME NEW i \in kept, NEW j \in kept, i < j, Cardinality(upTo(i)) = Cardinality(upTo(j))
        PROVE  FALSE
    <2>a. j <= j /\ ~ (j <= i)
      BY <1>0, <1>4
    <2>0. \A k \in upTo(i) : k \in kept /\ k <= j
      BY <1>0, <1>4
    <2>1. upTo(i) \in SUBSET upTo(j) /\ j \in upTo(j) /\ j \notin upTo(i)
      BY <2>0, <2>a
    <2>2. upTo(i) = upTo(j)
      BY <2>1, <1>3, <1>4, FS_Subset
    <2> QED BY <2>1, <2>2
  <1>5. \A i, j \in kept : Cardinality(upTo(i)) = Cardinality(upTo(j)) => i = j
    BY <1>4
  <1>6. turns \in Injection(kept, 1 .. C)
    BY <1>3, <1>5 DEF Injection, IsInjective
  <1>7. IsFiniteSet(1 .. C) /\ Cardinality(1 .. C) = C
    BY <1>2, PlacesCount
  <1>8. turns \in Surjection(kept, 1 .. C)
    BY <1>6, <1>7, FS_Injection
  <1>9. \A n \in 1 .. C : \E i \in kept : Cardinality(upTo(i)) = n
    BY <1>8 DEF Surjection
  <1>10. ASSUME NEW i \in kept
         PROVE  C - Cardinality(upTo(i)) <= N - i
    <2>0. i \in Nat /\ i <= N
      BY <1>0
    <2>a. \A k \in after1(i) : k \in i + 1 .. N
      BY <1>0, <2>0
    <2>1. after1(i) \in SUBSET (i + 1 .. N) /\ i \in Nat /\ i <= N
      BY <2>0, <2>a
    <2>2. IsFiniteSet(i + 1 .. N) /\ Cardinality(i + 1 .. N) = N - i
      <3>1. i + 1 \in Int /\ N \in Int
        BY <2>1
      <3>2. IsFiniteSet(i + 1 .. N) /\ Cardinality(i + 1 .. N) = IF i + 1 > N THEN 0 ELSE N - (i + 1) + 1
        BY <3>1, FS_Interval
      <3> QED BY <3>2, <2>1
    <2>3. IsFiniteSet(after1(i)) /\ Cardinality(after1(i)) <= N - i /\ Cardinality(after1(i)) \in Nat
      BY <2>1, <2>2, FS_Subset, FS_CardinalityType
    <2>4. kept = upTo(i) \cup after1(i) /\ upTo(i) \cap after1(i) = {}
      <3>1. \A k \in kept : k <= i \/ i < k
        BY <1>0, <2>0
      <3>2. \A k \in kept : ~ (k <= i /\ i < k)
        BY <1>0, <2>0
      <3> QED BY <3>1, <3>2
    <2>5. C = Cardinality(upTo(i)) + Cardinality(after1(i))
      <3>1. Cardinality(upTo(i) \cup after1(i)) =
              Cardinality(upTo(i)) + Cardinality(after1(i)) - Cardinality(upTo(i) \cap after1(i))
        BY <1>3, <2>3, FS_Union
      <3>2. Cardinality(upTo(i) \cap after1(i)) = 0
        BY <2>4, FS_EmptySet
      <3>3. Cardinality(kept) = Cardinality(upTo(i) \cup after1(i))
        BY <2>4
      <3>. HIDE DEF upTo, after1
      <3> QED BY <3>1, <3>2, <3>3, <2>3, <1>3
    <2> QED BY <2>3, <2>5, <2>1, <1>2, <1>3
  <1> QED BY <1>2, <1>3, <1>5, <1>9, <1>10

LEMMA KeptKeepsOrder ==
  ASSUME NEW S, NEW rows \in Seq(S), NEW kept, kept \subseteq DOMAIN rows
  PROVE  /\ KeptAt(rows, kept) \in Seq(S)
         /\ Len(KeptAt(rows, kept)) <= Len(rows) /\ Len(KeptAt(rows, kept)) = Cardinality(kept)
         /\ \E f : CameFromPlaces(rows, kept, f)
  <1>. DEFINE N == Len(rows)
              C == Cardinality(kept)
              upTo(i) == {j \in kept : j <= i}
              nth(n) == CHOOSE i \in kept : Cardinality(upTo(i)) = n
              r == KeptAt(rows, kept)
              f == [n \in 1 .. C |-> nth(n)]
  <1>1. N \in Nat /\ DOMAIN rows = 1 .. N
    BY LenProperties
  <1>2. /\ C \in Nat /\ C <= N
        /\ \A n \in 1 .. C : nth(n) \in kept /\ Cardinality(upTo(nth(n))) = n
        /\ \A i \in kept : Cardinality(upTo(i)) \in 1 .. C
        /\ \A i, j \in kept : Cardinality(upTo(i)) = Cardinality(upTo(j)) => i = j
        /\ \A i \in kept : C - Cardinality(upTo(i)) <= N - i
    BY <1>1, PlacesAreCounted
  <1>3. r = [n \in 1 .. C |-> rows[nth(n)]]
    BY DEF KeptAt
  <1>. HIDE DEF nth, upTo, C, r
  <1>4. \A n \in 1 .. C : rows[nth(n)] \in S
    BY <1>1, <1>2, ElementOfSeq
  <1>5. r \in Seq(S) /\ Len(r) = C /\ DOMAIN r = 1 .. C
    <2>1. r \in Seq(S)
      BY <1>2, <1>3, <1>4, IsASeq
    <2>2. DOMAIN r = 1 .. C
      BY <1>3
    <2> QED BY <2>1, <2>2, <1>2, LenProperties
  <1>6. f \in [DOMAIN r -> kept]
    BY <1>2, <1>5
  <1>7. ASSUME NEW n \in 1 .. C
        PROVE  r[n] = rows[f[n]] /\ Len(r) - n <= N - f[n]
    <2>1. nth(n) \in kept /\ Cardinality(upTo(nth(n))) = n /\ f[n] = nth(n)
      BY <1>2
    <2>2. C - n <= N - nth(n)
      BY <2>1, <1>2
    <2> QED BY <2>1, <2>2, <1>3, <1>5
  <1>8. \A n, m \in 1 .. C : f[n] = f[m] => n = m
    <2>1. ASSUME NEW n \in 1 .. C, NEW m \in 1 .. C, f[n] = f[m] PROVE n = m
      <3>1. nth(n) = nth(m)
        BY <2>1
      <3> QED BY <3>1, <1>2
    <2> QED BY <2>1
  <1>9. \A i \in kept : \E n \in 1 .. C : f[n] = i
    <2>1. ASSUME NEW i \in kept PROVE f[Cardinality(upTo(i))] = i
      <3>. DEFINE n == Cardinality(upTo(i))
      <3>1. n \in 1 .. C
        BY <1>2
      <3>2. nth(n) \in kept /\ Cardinality(upTo(nth(n))) = n
        BY <3>1, <1>2
      <3>3. nth(n) = i
        BY <3>2, <1>2
      <3> QED BY <3>1, <3>3
    <2> QED BY <2>1, <1>2
  <1>. HIDE DEF f
  <1>10. CameFromPlaces(rows, kept, f)
    BY <1>5, <1>6, <1>7, <1>8, <1>9 DEF CameFromPlaces, r
  <1> QED BY <1>2, <1>5, <1>10 DEF r, C

(* What the counters amount to, as a relation between tables t and the window u of       *)
(* requests, e of time and a of evictions of each key: a live row holds the whole window,   *)
(* a live tombstone its end, no key has both, and of the keys K one whose window runs is    *)
(* in one of them, unless so many were evicted behind it that its tombstone was dropped.    *)
RateRow == [key : RateKeys, count : Nat, left : Nat]

StoneRow == [key : RateKeys, left : Nat]

KeysOnce(rows) == \A i, j \in DOMAIN rows : rows[i].key = rows[j].key => i = j

LiveIn(rows, k) == \E i \in DOMAIN rows : rows[i].key = k /\ rows[i].left > 0

Lacks(rows, k) == \A i \in DOMAIN rows : rows[i].key # k

RowsFit(rows, u, e, a) ==
  /\ KeysOnce(rows)
  /\ \A i \in DOMAIN rows : /\ rows[i].count \in 1 .. Limit[rows[i].key]
                            /\ rows[i].left <= Window[rows[i].key]
                            /\ rows[i].left > 0 =>
                                 /\ rows[i].left = e[rows[i].key]
                                 /\ rows[i].count = u[rows[i].key] \/ a[rows[i].key] >= MaxKeys

StonesFit(stones, e, a) ==
  /\ KeysOnce(stones)
  /\ \A i \in DOMAIN stones : stones[i].left > 0 =>
       /\ stones[i].left = e[stones[i].key] /\ a[stones[i].key] >= 0
       /\ Len(stones) - i <= a[stones[i].key] \/ a[stones[i].key] >= MaxKeys

Traced(rows, stones, e, a, K) ==
  \A k \in K :
    /\ ~ (LiveIn(rows, k) /\ LiveIn(stones, k))
    /\ e[k] > 0 => LiveIn(rows, k) \/ LiveIn(stones, k) \/ a[k] >= MaxKeys

Evictions == [RateKeys -> -1 .. MaxKeys]

Fit(rows, stones, u, e, a, K) ==
  /\ rows \in Seq(RateRow) /\ stones \in Seq(StoneRow) /\ a \in Evictions
  /\ Len(rows) <= MaxKeys /\ Len(stones) <= MaxKeys
  /\ RowsFit(rows, u, e, a) /\ StonesFit(stones, e, a) /\ Traced(rows, stones, e, a, K)

LEMMA KeptRowsAreRows ==
  ASSUME NEW S, NEW rows \in Seq(S), NEW kept, kept \subseteq DOMAIN rows
  PROVE  LET r == KeptAt(rows, kept) IN
         /\ \A n \in DOMAIN r : \E i \in kept : r[n] = rows[i]
         /\ \A i \in kept : \E n \in DOMAIN r : r[n] = rows[i]
         /\ KeysOnce(rows) => KeysOnce(r)
  <1>. DEFINE r == KeptAt(rows, kept)
  <1>1. PICK f : CameFromPlaces(rows, kept, f)
    BY KeptKeepsOrder
  <1>2. /\ \A n \in DOMAIN r : f[n] \in kept /\ f[n] \in DOMAIN rows /\ r[n] = rows[f[n]]
        /\ \A n, m \in DOMAIN r : f[n] = f[m] => n = m
        /\ \A i \in kept : \E n \in DOMAIN r : f[n] = i
    BY <1>1 DEF CameFromPlaces
  <1>. HIDE DEF r
  <1>3. KeysOnce(rows) => KeysOnce(r)
    BY <1>2 DEF KeysOnce
  <1> QED BY <1>2, <1>3 DEF r

LEMMA KeptRowsFit ==
  ASSUME NEW rows \in Seq(RateRow), NEW kept, kept \subseteq DOMAIN rows,
         NEW u, NEW e, NEW a, RowsFit(rows, u, e, a)
  PROVE  RowsFit(KeptAt(rows, kept), u, e, a)
  <1>. DEFINE r == KeptAt(rows, kept)
  <1>1. KeysOnce(r) /\ \A n \in DOMAIN r : \E i \in DOMAIN rows : r[n] = rows[i]
    BY KeptRowsAreRows DEF RowsFit
  <1>. HIDE DEF r
  <1>2. RowsFit(r, u, e, a)
    BY <1>1 DEF RowsFit
  <1> QED BY <1>2 DEF r

LEMMA KeptStonesFit ==
  ASSUME NEW stones \in Seq(StoneRow), NEW kept, kept \subseteq DOMAIN stones,
         NEW e, NEW a \in Evictions, StonesFit(stones, e, a)
  PROVE  StonesFit(KeptAt(stones, kept), e, a)
  <1>. DEFINE r == KeptAt(stones, kept)
  <1>1. KeysOnce(r)
    BY KeptRowsAreRows DEF StonesFit
  <1>2. PICK f : CameFromPlaces(stones, kept, f)
    BY KeptKeepsOrder
  <1>3. r \in Seq(StoneRow) /\ Len(stones) \in Nat /\ DOMAIN stones = 1 .. Len(stones)
    BY KeptKeepsOrder, LenProperties
  <1>4. Len(r) \in Nat /\ DOMAIN r = 1 .. Len(r)
    BY <1>3, LenProperties
  <1>5. \A n \in DOMAIN r : f[n] \in DOMAIN stones /\ r[n] = stones[f[n]] /\ Len(r) - n <= Len(stones) - f[n]
    BY <1>2 DEF CameFromPlaces
  <1>. HIDE DEF r
  <1>6. ASSUME NEW n \in DOMAIN r, r[n].left > 0
        PROVE  /\ r[n].left = e[r[n].key] /\ a[r[n].key] >= 0
               /\ Len(r) - n <= a[r[n].key] \/ a[r[n].key] >= MaxKeys
    <2>. DEFINE i == f[n]
                s == stones[i]
                g == a[s.key]
    <2>1. i \in 1 .. Len(stones) /\ r[n] = s /\ Len(r) - n <= Len(stones) - i
      BY <1>3, <1>5
    <2>2. s.left = e[s.key] /\ g >= 0 /\ (Len(stones) - i <= g \/ g >= MaxKeys)
      BY <2>1, <1>3, <1>6 DEF StonesFit
    <2>3. s.key \in RateKeys /\ g \in -1 .. MaxKeys
      <3>1. s \in StoneRow
        BY <2>1, <1>3, ElementOfSeq
      <3>2. s.key \in RateKeys
        BY <3>1 DEF StoneRow
      <3> QED BY <3>2 DEF Evictions
    <2>4. n \in Nat /\ i \in Nat /\ g \in Int
      BY <1>4, <2>1, <2>3, RateAssumption
    <2>. HIDE DEF i, g, s
    <2>5. Len(r) - n <= g \/ g >= MaxKeys
      BY <2>1, <2>2, <2>4, <1>3, <1>4
    <2> QED BY <2>1, <2>2, <2>5 DEF g
  <1>7. StonesFit(r, e, a)
    BY <1>1, <1>6 DEF StonesFit
  <1> QED BY <1>7 DEF r

(* A purge leaves the live keys as they were.                                  *)
LEMMA PurgeKeepsTheLive ==
  ASSUME NEW S, NEW rows \in Seq(S), NEW budget \in Nat
  PROVE  LET r == PurgeExpired(rows, budget) IN
         /\ r \in Seq(S) /\ Len(r) <= Len(rows)
         /\ \A k : LiveIn(r, k) <=> LiveIn(rows, k)
         /\ \A k : Lacks(rows, k) => Lacks(r, k)
         /\ budget >= Len(rows) => \A n \in DOMAIN r : r[n].left > 0
  <1>. DEFINE kept == {i \in DOMAIN rows : i > budget \/ rows[i].left > 0}
              r == KeptAt(rows, kept)
  <1>1. kept \subseteq DOMAIN rows
    OBVIOUS
  <1>4. /\ \A i \in kept : i \in DOMAIN rows /\ (i > budget \/ rows[i].left > 0)
        /\ \A i \in DOMAIN rows : rows[i].left > 0 => i \in kept
    OBVIOUS
  <1>. HIDE DEF kept
  <1>2. r \in Seq(S) /\ Len(r) <= Len(rows)
    BY <1>1, KeptKeepsOrder
  <1>3. /\ \A n \in DOMAIN r : \E i \in kept : r[n] = rows[i]
        /\ \A i \in kept : \E n \in DOMAIN r : r[n] = rows[i]
    BY SMTT(30), <1>1, KeptRowsAreRows
  <1>5. Len(rows) \in Nat /\ DOMAIN rows = 1 .. Len(rows)
    BY LenProperties
  <1>6. budget >= Len(rows) => \A i \in kept : rows[i].left > 0
    BY <1>4, <1>5
  <1>. HIDE DEF r
  <1>7. \A k : LiveIn(r, k) <=> LiveIn(rows, k)
    BY <1>3, <1>4 DEF LiveIn
  <1>8. \A k : Lacks(rows, k) => Lacks(r, k)
    BY <1>3, <1>4 DEF Lacks
  <1>9. budget >= Len(rows) => \A n \in DOMAIN r : r[n].left > 0
    BY <1>3, <1>6
  <1> QED BY <1>2, <1>7, <1>8, <1>9 DEF r, kept, PurgeExpired

(* Taking a key out leaves the other keys as they were.                        *)
LEMMA WithoutLacksTheKey ==
  ASSUME NEW S, NEW rows \in Seq(S), NEW k
  PROVE  LET r == Without(rows, k) IN
         /\ r \in Seq(S) /\ Len(r) <= Len(rows)
         /\ Lacks(r, k) /\ ~ LiveIn(r, k)
         /\ \A j : j # k => (LiveIn(r, j) <=> LiveIn(rows, j))
         /\ \A j : Lacks(rows, j) => Lacks(r, j)
  <1>. DEFINE kept == {i \in DOMAIN rows : rows[i].key # k}
              r == KeptAt(rows, kept)
  <1>1. kept \subseteq DOMAIN rows
    OBVIOUS
  <1>4. \A i \in DOMAIN rows : i \in kept <=> rows[i].key # k
    OBVIOUS
  <1>. HIDE DEF kept
  <1>2. r \in Seq(S) /\ Len(r) <= Len(rows)
    BY <1>1, KeptKeepsOrder
  <1>3. /\ \A n \in DOMAIN r : \E i \in kept : r[n] = rows[i]
        /\ \A i \in kept : \E n \in DOMAIN r : r[n] = rows[i]
    <2>1. \A n \in DOMAIN r : \E i \in kept : r[n] = rows[i]
      BY <1>1, KeptRowsAreRows
    <2>2. \A i \in kept : \E n \in DOMAIN r : r[n] = rows[i]
      BY <1>1, KeptRowsAreRows
    <2> QED BY <2>1, <2>2
  <1>. HIDE DEF r
  <1>5. Lacks(r, k) /\ ~ LiveIn(r, k)
    BY <1>1, <1>3, <1>4 DEF Lacks, LiveIn
  <1>6. \A j : j # k => (LiveIn(r, j) <=> LiveIn(rows, j))
    BY <1>1, <1>3, <1>4 DEF LiveIn
  <1>7. \A j : Lacks(rows, j) => Lacks(r, j)
    BY <1>1, <1>3 DEF Lacks
  <1> QED BY <1>2, <1>5, <1>6, <1>7 DEF r, kept, Without

LEMMA SweptFits ==
  ASSUME NEW rows, NEW stones, NEW u, NEW e, NEW a, NEW K, NEW budget \in Nat,
         Fit(rows, stones, u, e, a, K)
  PROVE  Fit(PurgeExpired(rows, budget), PurgeExpired(stones, budget), u, e, a, K)
  <1>. DEFINE r == PurgeExpired(rows, budget)
              s == PurgeExpired(stones, budget)
  <1>0. /\ rows \in Seq(RateRow) /\ stones \in Seq(StoneRow) /\ a \in Evictions
        /\ Len(rows) <= MaxKeys /\ Len(stones) <= MaxKeys
        /\ RowsFit(rows, u, e, a) /\ StonesFit(stones, e, a) /\ Traced(rows, stones, e, a, K)
    BY DEF Fit
  <1>1. /\ r \in Seq(RateRow) /\ Len(r) <= Len(rows)
        /\ \A k : LiveIn(r, k) <=> LiveIn(rows, k)
    BY <1>0, PurgeKeepsTheLive
  <1>2. /\ s \in Seq(StoneRow) /\ Len(s) <= Len(stones)
        /\ \A k : LiveIn(s, k) <=> LiveIn(stones, k)
    BY <1>0, PurgeKeepsTheLive
  <1>3. RowsFit(r, u, e, a)
    BY <1>0, KeptRowsFit DEF PurgeExpired
  <1>4. StonesFit(s, e, a)
    BY <1>0, KeptStonesFit DEF PurgeExpired
  <1>5. Len(r) <= MaxKeys /\ Len(s) <= MaxKeys
    <2>1. Len(r) \in Nat /\ Len(s) \in Nat /\ Len(rows) \in Nat /\ Len(stones) \in Nat /\ MaxKeys \in Nat
      BY <1>0, <1>1, <1>2, LenProperties, RateAssumption
    <2> QED BY <2>1, <1>0, <1>1, <1>2
  <1>. HIDE DEF r, s
  <1>6. Traced(r, s, e, a, K)
    BY <1>0, <1>1, <1>2 DEF Traced
  <1>7. Fit(r, s, u, e, a, K)
    BY <1>0, <1>1, <1>2, <1>3, <1>4, <1>5, <1>6 DEF Fit
  <1> QED BY <1>7 DEF r, s

LEMMA CleanedFits ==
  ASSUME NEW rows, NEW stones, NEW u, NEW e, NEW a, NEW K, NEW k,
         Fit(rows, stones, u, e, a, K)
  PROVE  Fit(Without(rows, k), Without(stones, k), u, e, a, K \ {k})
  <1>. DEFINE r == Without(rows, k)
              s == Without(stones, k)
  <1>0. /\ rows \in Seq(RateRow) /\ stones \in Seq(StoneRow) /\ a \in Evictions
        /\ Len(rows) <= MaxKeys /\ Len(stones) <= MaxKeys
        /\ RowsFit(rows, u, e, a) /\ StonesFit(stones, e, a) /\ Traced(rows, stones, e, a, K)
    BY DEF Fit
  <1>1. /\ r \in Seq(RateRow) /\ Len(r) <= Len(rows)
        /\ \A j : j # k => (LiveIn(r, j) <=> LiveIn(rows, j))
    BY <1>0, WithoutLacksTheKey
  <1>2. /\ s \in Seq(StoneRow) /\ Len(s) <= Len(stones)
        /\ \A j : j # k => (LiveIn(s, j) <=> LiveIn(stones, j))
    BY <1>0, WithoutLacksTheKey
  <1>3. RowsFit(r, u, e, a)
    BY <1>0, KeptRowsFit DEF Without
  <1>4. StonesFit(s, e, a)
    BY <1>0, KeptStonesFit DEF Without
  <1>5. Len(r) <= MaxKeys /\ Len(s) <= MaxKeys
    <2>1. Len(r) \in Nat /\ Len(s) \in Nat /\ Len(rows) \in Nat /\ Len(stones) \in Nat /\ MaxKeys \in Nat
      BY <1>0, <1>1, <1>2, LenProperties, RateAssumption
    <2> QED BY <2>1, <1>0, <1>1, <1>2
  <1>. HIDE DEF r, s
  <1>6. Traced(r, s, e, a, K \ {k})
    BY <1>0, <1>1, <1>2 DEF Traced
  <1>7. Fit(r, s, u, e, a, K \ {k})
    BY <1>0, <1>1, <1>2, <1>3, <1>4, <1>5, <1>6 DEF Fit
  <1> QED BY <1>7 DEF r, s

(* The evictions behind each key after one more of the keys gone.                *)
Later(a, gone) ==
  [j \in RateKeys |->
     IF j \in gone THEN IF a[j] = -1 THEN 0 ELSE a[j]
     ELSE IF a[j] = -1 \/ gone = {} THEN a[j]
     ELSE Least(a[j] + 1, MaxKeys)]

LEMMA LaterIsNotLess ==
  ASSUME NEW a \in Evictions, NEW gone
  PROVE  /\ Later(a, gone) \in Evictions
         /\ \A j \in RateKeys : Later(a, gone)[j] >= a[j]
         /\ \A j \in RateKeys \cap gone : Later(a, gone)[j] >= 0
         /\ gone # {} => \A j \in RateKeys \ gone :
              a[j] >= 0 => Later(a, gone)[j] = a[j] + 1 \/ Later(a, gone)[j] >= MaxKeys
         /\ gone = {} => Later(a, gone) = a
  <1>0. MaxKeys \in Nat /\ MaxKeys >= 1
    BY RateAssumption
  <1>1. \A j \in RateKeys : a[j] \in Int /\ -1 <= a[j] /\ a[j] <= MaxKeys
    BY <1>0 DEF Evictions
  <1>2. \A j \in RateKeys :
          /\ Later(a, gone)[j] \in -1 .. MaxKeys /\ Later(a, gone)[j] >= a[j]
          /\ j \in gone => Later(a, gone)[j] >= 0
          /\ gone # {} /\ j \notin gone /\ a[j] >= 0 => Later(a, gone)[j] = a[j] + 1 \/ Later(a, gone)[j] >= MaxKeys
    BY <1>0, <1>1 DEF Later, Least
  <1>3. Later(a, gone) \in Evictions
    BY <1>2 DEF Evictions, Later
  <1>4. gone = {} => Later(a, gone) = a
    BY DEF Later, Evictions
  <1> QED BY <1>2, <1>3, <1>4

LEMMA KeysAreKeys ==
  /\ \A rows \in Seq(RateRow) : \A i \in DOMAIN rows :
       /\ rows[i] \in RateRow /\ rows[i].key \in RateKeys
       /\ rows[i].left \in Nat /\ rows[i].count \in Nat
  /\ \A stones \in Seq(StoneRow) : \A i \in DOMAIN stones :
       stones[i] \in StoneRow /\ stones[i].key \in RateKeys /\ stones[i].left \in Nat
  <1>1. ASSUME NEW rows \in Seq(RateRow), NEW i \in DOMAIN rows
        PROVE  /\ rows[i] \in RateRow /\ rows[i].key \in RateKeys
               /\ rows[i].left \in Nat /\ rows[i].count \in Nat
    <2>1. rows[i] \in RateRow
      BY ElementOfSeq, LenProperties
    <2> QED BY <2>1 DEF RateRow
  <1>2. ASSUME NEW stones \in Seq(StoneRow), NEW i \in DOMAIN stones
        PROVE  stones[i] \in StoneRow /\ stones[i].key \in RateKeys /\ stones[i].left \in Nat
    <2>1. stones[i] \in StoneRow
      BY ElementOfSeq, LenProperties
    <2> QED BY <2>1 DEF StoneRow
  <1> QED BY <1>1, <1>2

(* The least recent row goes.                                                *)
LEMMA TailFits ==
  ASSUME NEW rows \in Seq(RateRow), rows # <<>>, NEW u, NEW e, NEW a, RowsFit(rows, u, e, a)
  PROVE  /\ Tail(rows) \in Seq(RateRow) /\ Len(Tail(rows)) = Len(rows) - 1
         /\ RowsFit(Tail(rows), u, e, a) /\ Lacks(Tail(rows), Head(rows).key)
         /\ \A k : LiveIn(Tail(rows), k) => LiveIn(rows, k)
         /\ \A k : k # Head(rows).key => (LiveIn(rows, k) => LiveIn(Tail(rows), k))
         /\ \A k : Lacks(rows, k) => Lacks(Tail(rows), k)
  <1>. DEFINE t == Tail(rows)
  <1>1. /\ t \in Seq(RateRow) /\ Len(t) = Len(rows) - 1 /\ Len(rows) \in Nat /\ Len(rows) >= 1
        /\ \A i \in 1 .. Len(t) : t[i] = rows[i + 1]
        /\ Head(rows) = rows[1] /\ DOMAIN t = 1 .. Len(t) /\ DOMAIN rows = 1 .. Len(rows)
    BY HeadTailProperties, LenProperties, EmptySeq
  <1>. HIDE DEF t
  <1>2. /\ \A i \in DOMAIN t : i + 1 \in DOMAIN rows /\ t[i] = rows[i + 1] /\ i + 1 # 1 /\ i \in Int
        /\ \A i \in DOMAIN rows : i # 1 => i - 1 \in DOMAIN t /\ t[i - 1] = rows[i]
        /\ 1 \in DOMAIN rows
    BY <1>1
  <1>3. KeysOnce(t) /\ Lacks(t, rows[1].key)
    <2>1. \A i, j \in DOMAIN t : i + 1 = j + 1 => i = j
      BY <1>2
    <2> QED BY <1>2, <2>1 DEF RowsFit, KeysOnce, Lacks
  <1>4. RowsFit(t, u, e, a)
    <2>1. \A i \in DOMAIN t : \E j \in DOMAIN rows : t[i] = rows[j]
      BY <1>2
    <2> QED BY <1>3, <2>1 DEF RowsFit
  <1>5. \A k : LiveIn(t, k) => LiveIn(rows, k)
    BY <1>2 DEF LiveIn
  <1>6. \A k : k # rows[1].key => (LiveIn(rows, k) => LiveIn(t, k))
    BY <1>2 DEF LiveIn
  <1>7. \A k : Lacks(rows, k) => Lacks(t, k)
    BY <1>2 DEF Lacks
  <1> QED BY <1>1, <1>3, <1>4, <1>5, <1>6, <1>7 DEF t

(* More evictions behind the keys change nothing for the rows.                 *)
LEMMA RowsFitLater ==
  ASSUME NEW rows \in Seq(RateRow), NEW u, NEW e, NEW a \in Evictions, NEW b \in Evictions,
         \A j \in RateKeys : b[j] >= a[j], RowsFit(rows, u, e, a)
  PROVE  RowsFit(rows, u, e, b)
  <1>1. \A j \in RateKeys : a[j] >= MaxKeys => b[j] >= MaxKeys
    BY RateAssumption DEF Evictions
  <1>2. \A i \in DOMAIN rows : rows[i].key \in RateKeys
    BY KeysAreKeys
  <1> QED BY <1>1, <1>2 DEF RowsFit

(* The tombstone of a key that was evicted is the last one; the one that makes room    *)
(* had as many behind it as are kept.                                              *)
LEMMA TombstoneFits ==
  ASSUME NEW stones \in Seq(StoneRow), Len(stones) <= MaxKeys, NEW e, NEW a \in Evictions,
         StonesFit(stones, e, a),
         NEW v \in RateRow, v.left > 0, v.left = e[v.key]
  PROVE  LET s == Tombstone(stones, v)
             b == Later(a, {v.key})
         IN /\ s \in Seq(StoneRow) /\ Len(s) <= MaxKeys /\ StonesFit(s, e, b)
            /\ \A k \in RateKeys : LiveIn(s, k) => k = v.key \/ LiveIn(stones, k)
            /\ \A k \in RateKeys : k = v.key \/ LiveIn(stones, k) => LiveIn(s, k) \/ b[k] >= MaxKeys
            /\ \A k : k # v.key /\ Lacks(stones, k) => Lacks(s, k)
  <1>. DEFINE w == Without(stones, v.key)
              x == [key |-> v.key, left |-> v.left]
              all == Append(w, x)
              b == Later(a, {v.key})
              N == Len(w)
  <1>0. v.key \in RateKeys /\ v.left \in Nat /\ x \in StoneRow /\ x.key = v.key /\ x.left = v.left
    BY DEF RateRow, StoneRow
  <1>1. /\ w \in Seq(StoneRow) /\ Lacks(w, v.key)
        /\ \A j : j # v.key => (LiveIn(w, j) <=> LiveIn(stones, j))
        /\ N \in Nat /\ N <= MaxKeys /\ DOMAIN w = 1 .. N /\ MaxKeys \in Nat /\ MaxKeys >= 1
    <2>1. /\ w \in Seq(StoneRow) /\ Lacks(w, v.key) /\ Len(w) <= Len(stones)
          /\ \A j : j # v.key => (LiveIn(w, j) <=> LiveIn(stones, j))
      BY WithoutLacksTheKey
    <2>2. N \in Nat /\ Len(stones) \in Nat /\ DOMAIN w = 1 .. N /\ MaxKeys \in Nat /\ MaxKeys >= 1
      BY <2>1, LenProperties, RateAssumption
    <2> QED BY <2>1, <2>2
  <1>2. StonesFit(w, e, a)
    BY KeptStonesFit DEF Without
  <1>3. /\ b \in Evictions /\ b[v.key] >= 0
        /\ \A j \in RateKeys : j # v.key /\ a[j] >= 0 => b[j] = a[j] + 1 \/ b[j] >= MaxKeys
    BY <1>0, LaterIsNotLess
  <1>4. \A k : k # v.key /\ Lacks(stones, k) => Lacks(w, k)
    BY WithoutLacksTheKey
  <1>. HIDE DEF w, x, b
  <1>5. /\ all \in Seq(StoneRow) /\ Len(all) = N + 1 /\ all[N + 1] = x
        /\ \A i \in 1 .. N : all[i] = w[i]
        /\ DOMAIN all = 1 .. N + 1
    <2>1. /\ all \in Seq(StoneRow) /\ Len(all) = N + 1 /\ all[N + 1] = x
          /\ \A i \in 1 .. N : all[i] = w[i]
      BY <1>0, <1>1, AppendProperties
    <2> QED BY <2>1, LenProperties
  <1>. HIDE DEF all
  <1>6. KeysOnce(all)
    <2>1. \A i \in DOMAIN all : i = N + 1 \/ (i \in DOMAIN w /\ all[i] = w[i] /\ all[i].key # v.key)
      BY <1>1, <1>5 DEF Lacks
    <2> QED BY <2>1, <1>0, <1>2, <1>5 DEF StonesFit, KeysOnce
  <1>7. ASSUME NEW i \in DOMAIN all, all[i].left > 0
        PROVE  /\ all[i].left = e[all[i].key] /\ b[all[i].key] >= 0
               /\ N + 1 - i <= b[all[i].key] \/ b[all[i].key] >= MaxKeys
    <2>1. CASE i = N + 1
      <3>1. all[i].key = v.key /\ all[i].left = v.left
        BY <2>1, <1>0, <1>5
      <3>2. N + 1 - i = 0 /\ b[v.key] \in Int
        BY <2>1, <1>1, <1>3, <1>0 DEF Evictions
      <3> QED BY <3>1, <3>2, <1>3
    <2>2. CASE i \in 1 .. N
      <3>. DEFINE j == w[i].key
                  g == a[j]
                  h == b[j]
      <3>1. all[i] = w[i] /\ i \in DOMAIN w
        BY <2>2, <1>1, <1>5
      <3>2. j \in RateKeys /\ j # v.key
        BY <3>1, <1>1, KeysAreKeys DEF Lacks
      <3>3. w[i].left = e[j] /\ g >= 0 /\ (N - i <= g \/ g >= MaxKeys)
        BY <3>1, <1>2, <1>7 DEF StonesFit
      <3>4. h = g + 1 \/ h >= MaxKeys
        BY <3>2, <3>3, <1>3
      <3>5. g \in Int /\ h \in Int /\ h <= MaxKeys
        BY <3>2, <1>3, <1>1 DEF Evictions
      <3>. HIDE DEF g, h, j
      <3>6. h >= 0 /\ (N + 1 - i <= h \/ h >= MaxKeys)
        BY <3>3, <3>4, <3>5, <1>1, <2>2
      <3> QED BY <3>1, <3>3, <3>6 DEF h, j
    <2> QED BY <2>1, <2>2, <1>1, <1>5
  <1>8. StonesFit(all, e, b)
    BY <1>5, <1>6, <1>7 DEF StonesFit
  <1>9. \A k \in RateKeys : LiveIn(all, k) <=> k = v.key \/ LiveIn(stones, k)
    <2>1. LiveIn(all, v.key)
      <3>1. N + 1 \in DOMAIN all
        BY <1>1, <1>5
      <3> QED BY <3>1, <1>0, <1>5 DEF LiveIn
    <2>2. ASSUME NEW k \in RateKeys, k # v.key PROVE LiveIn(all, k) <=> LiveIn(w, k)
      <3>1. \A i \in DOMAIN all : i = N + 1 \/ (i \in DOMAIN w /\ all[i] = w[i])
        BY <1>1, <1>5
      <3>2. \A i \in DOMAIN w : i \in DOMAIN all /\ all[i] = w[i]
        BY <1>1, <1>5
      <3> QED BY <2>2, <3>1, <3>2, <1>0, <1>5 DEF LiveIn
    <2> QED BY <2>1, <2>2, <1>1
  <1>10. \A k : k # v.key /\ Lacks(stones, k) => Lacks(all, k)
    <2>1. \A i \in DOMAIN all : i = N + 1 \/ (i \in DOMAIN w /\ all[i] = w[i])
      BY <1>1, <1>5
    <2>2. all[N + 1].key = v.key
      BY <1>0, <1>5
    <2> QED BY ZenonT(40), <2>1, <2>2, <1>4 DEF Lacks
  <1>11. CASE N + 1 <= MaxKeys
    <2>1. Tombstone(stones, v) = all
      <3>1. ~ (Len(all) > MaxKeys)
        BY <1>11, <1>1, <1>5
      <3> QED BY <3>1 DEF Tombstone, all, w, x
    <2> QED BY <2>1, <1>11, <1>5, <1>8, <1>9, <1>10 DEF b
  <1>12. CASE N + 1 > MaxKeys
    <2>. DEFINE s == Tail(all)
    <2>0. Tombstone(stones, v) = s
      <3>1. Len(all) > MaxKeys
        BY <1>12, <1>1, <1>5
      <3> QED BY <3>1 DEF Tombstone, all, w, x
    <2>1. /\ s \in Seq(StoneRow) /\ Len(s) = N /\ N = MaxKeys /\ DOMAIN s = 1 .. N
          /\ \A i \in 1 .. N : s[i] = all[i + 1]
      <3>1. all # <<>>
        BY <1>1, <1>5, EmptySeq
      <3>2. s \in Seq(StoneRow) /\ Len(s) = Len(all) - 1 /\ \A i \in 1 .. Len(s) : s[i] = all[i + 1]
        BY <3>1, <1>5, HeadTailProperties
      <3>3. Len(s) = N /\ N = MaxKeys
        BY <3>2, <1>1, <1>5, <1>12
      <3> QED BY <3>2, <3>3, LenProperties
    <2>. HIDE DEF s
    <2>2. \A i \in DOMAIN s : i \in Int /\ i + 1 \in DOMAIN all /\ s[i] = all[i + 1]
      BY <2>1, <1>1, <1>5
    <2>3. KeysOnce(s)
      <3>1. \A i, j \in DOMAIN s : i + 1 = j + 1 => i = j
        BY <2>2
      <3> QED BY <2>2, <3>1, <1>6 DEF KeysOnce
    <2>4. ASSUME NEW i \in DOMAIN s, s[i].left > 0
          PROVE  /\ s[i].left = e[s[i].key] /\ b[s[i].key] >= 0
                 /\ N - i <= b[s[i].key] \/ b[s[i].key] >= MaxKeys
      <3>1. N + 1 - (i + 1) = N - i
        BY <2>2, <1>1
      <3> QED BY <3>1, <2>2, <2>4, <1>7
    <2>5. StonesFit(s, e, b)
      BY <2>1, <2>3, <2>4 DEF StonesFit
    <2>6. \A k : LiveIn(s, k) => LiveIn(all, k)
      BY <2>2 DEF LiveIn
    <2>7. ASSUME NEW k \in RateKeys, LiveIn(all, k) PROVE LiveIn(s, k) \/ b[k] >= MaxKeys
      <3>1. PICK i \in DOMAIN all : all[i].key = k /\ all[i].left > 0
        BY <2>7 DEF LiveIn
      <3>2. CASE i = 1
        <4>1. (N + 1 - 1 <= b[k] \/ b[k] >= MaxKeys) /\ b[k] \in Int
          BY <3>1, <3>2, <1>7, <1>3 DEF Evictions
        <4> QED BY <4>1, <2>1, <1>1
      <3>3. CASE i # 1
        <4>1. i - 1 \in DOMAIN s /\ s[i - 1] = all[i]
          BY <3>3, <2>1, <1>1, <1>5
        <4> QED BY <4>1, <3>1 DEF LiveIn
      <3> QED BY <3>2, <3>3
    <2>8. \A k : k # v.key /\ Lacks(stones, k) => Lacks(s, k)
      BY <2>2, <1>10 DEF Lacks
    <2>9. Len(s) <= MaxKeys
      BY <2>1, <1>1
    <2> QED BY <2>0, <2>1, <2>5, <2>6, <2>7, <2>8, <2>9, <1>9 DEF b
  <1>13. N + 1 <= MaxKeys \/ N + 1 > MaxKeys
    BY <1>1
  <1> QED BY <1>11, <1>12, <1>13

LEMMA WithoutIsShorter ==
  ASSUME NEW S, NEW rows \in Seq(S), NEW k, LiveIn(rows, k)
  PROVE  Len(Without(rows, k)) < Len(rows)
  <1>. DEFINE kept == {i \in DOMAIN rows : rows[i].key # k}
              D == DOMAIN rows
              N == Len(rows)
  <1>1. PICK i \in D : rows[i].key = k
    BY DEF LiveIn
  <1>2. N \in Nat /\ D = 1 .. N
    BY LenProperties
  <1>3. IsFiniteSet(D) /\ Cardinality(D) = N
    <2>. HIDE DEF D, N
    <2> QED BY <1>2, PlacesCount
  <1>4. kept \in SUBSET (D \ {i})
    BY <1>1
  <1>5. IsFiniteSet(D \ {i}) /\ Cardinality(D \ {i}) = N - 1
    BY <1>3, FS_RemoveElement
  <1>6. IsFiniteSet(kept) /\ Cardinality(kept) <= N - 1 /\ Cardinality(kept) \in Nat
    BY <1>4, <1>5, FS_Subset, FS_CardinalityType
  <1>7. Len(Without(rows, k)) = Cardinality(kept)
    <2>1. kept \subseteq DOMAIN rows
      OBVIOUS
    <2>. HIDE DEF kept
    <2>2. Len(KeptAt(rows, kept)) = Cardinality(kept)
      BY <2>1, KeptKeepsOrder
    <2> QED BY <2>2 DEF Without, kept
  <1>. HIDE DEF kept, D
  <1> QED BY <1>2, <1>6, <1>7

(* Room is made: the purge was enough, or the least recent row left a tombstone.    *)
LEMMA EvictedFits ==
  ASSUME NEW rows, NEW stones, NEW u, NEW e, NEW a, NEW K \in SUBSET RateKeys,
         Fit(rows, stones, u, e, a, K), Len(rows) >= MaxKeys,
         \A i \in DOMAIN rows : rows[i].left > 0,
         NEW k \in RateKeys, Lacks(rows, k), Lacks(stones, k)
  PROVE  LET v == Head(rows)
             b == Later(a, {v.key})
         IN /\ Fit(Tail(rows), Tombstone(stones, v), u, e, b, K) /\ Len(Tail(rows)) < MaxKeys
            /\ Lacks(Tail(rows), k) /\ Lacks(Tombstone(stones, v), k)
            /\ v.key # k /\ v.key \in RateKeys /\ e[v.key] > 0
  <1>. DEFINE v == Head(rows)
              b == Later(a, {v.key})
              t == Tail(rows)
              s == Tombstone(stones, v)
  <1>0. /\ rows \in Seq(RateRow) /\ stones \in Seq(StoneRow) /\ a \in Evictions
        /\ Len(rows) <= MaxKeys /\ Len(stones) <= MaxKeys
        /\ RowsFit(rows, u, e, a) /\ StonesFit(stones, e, a) /\ Traced(rows, stones, e, a, K)
    BY DEF Fit
  <1>1. Len(rows) \in Nat /\ MaxKeys \in Nat /\ MaxKeys >= 1 /\ DOMAIN rows = 1 .. Len(rows)
    BY <1>0, LenProperties, RateAssumption
  <1>2. rows # <<>> /\ v = rows[1] /\ 1 \in DOMAIN rows
    <2>1. rows # <<>>
      BY <1>0, <1>1, EmptySeq
    <2> QED BY <2>1, <1>0, <1>1, HeadTailProperties
  <1>3. /\ v \in RateRow /\ v.key \in RateKeys /\ v.left > 0 /\ v.left = e[v.key] /\ v.key # k
        /\ LiveIn(rows, v.key)
    <2>1. v \in RateRow /\ v.key \in RateKeys
      BY <1>0, <1>2, KeysAreKeys
    <2>2. v.left > 0 /\ v.left = e[v.key] /\ v.key # k
      BY <1>0, <1>2 DEF RowsFit, Lacks
    <2> QED BY <2>1, <2>2, <1>2 DEF LiveIn
  <1>4. /\ t \in Seq(RateRow) /\ Len(t) = Len(rows) - 1
        /\ RowsFit(t, u, e, a) /\ Lacks(t, v.key)
        /\ \A j : LiveIn(t, j) => LiveIn(rows, j)
        /\ \A j : j # v.key => (LiveIn(rows, j) => LiveIn(t, j))
        /\ Lacks(t, k)
    BY <1>0, <1>2, TailFits
  <1>5. b \in Evictions /\ \A j \in RateKeys : b[j] >= a[j]
    BY <1>0, LaterIsNotLess
  <1>6. /\ s \in Seq(StoneRow) /\ Len(s) <= MaxKeys /\ StonesFit(s, e, b)
        /\ \A j \in RateKeys : LiveIn(s, j) => j = v.key \/ LiveIn(stones, j)
        /\ \A j \in RateKeys : j = v.key \/ LiveIn(stones, j) => LiveIn(s, j) \/ b[j] >= MaxKeys
        /\ Lacks(s, k)
    BY <1>0, <1>3, TombstoneFits
  <1>. HIDE DEF t, s, b, v
  <1>7. RowsFit(t, u, e, b)
    BY <1>0, <1>4, <1>5, RowsFitLater
  <1>8. Traced(t, s, e, b, K)
    <2>1. \A j \in RateKeys : a[j] >= MaxKeys => b[j] >= MaxKeys
      BY <1>0, <1>1, <1>5 DEF Evictions
    <2>2. ~ LiveIn(t, v.key)
      BY <1>4 DEF Lacks, LiveIn
    <2> QED BY <2>1, <2>2, <1>0, <1>3, <1>4, <1>6 DEF Traced
  <1>9. Len(t) <= MaxKeys /\ Len(t) < MaxKeys
    BY <1>0, <1>1, <1>4
  <1>10. Fit(t, s, u, e, b, K)
    BY <1>4, <1>5, <1>6, <1>7, <1>8, <1>9 DEF Fit
  <1> QED BY <1>3, <1>4, <1>6, <1>9, <1>10 DEF t, s, b, v

LEMMA RoomFits ==
  ASSUME NEW rows, NEW stones, NEW u, NEW e, NEW a, NEW K \in SUBSET RateKeys,
         Fit(rows, stones, u, e, a, K),
         NEW k \in RateKeys, Lacks(rows, k), Lacks(stones, k)
  PROVE  LET m == MakeRoom([rows |-> rows, stones |-> stones, evicted |-> {}]) IN
         /\ Fit(m.rows, m.stones, u, e, Later(a, m.evicted), K) /\ Len(m.rows) < MaxKeys
         /\ Lacks(m.rows, k) /\ Lacks(m.stones, k)
         /\ k \notin m.evicted /\ \A j \in m.evicted : j \in RateKeys /\ e[j] > 0
  <1>. DEFINE t == [rows |-> rows, stones |-> stones, evicted |-> {}]
              r == PurgeExpired(rows, MaxKeys)
              s == PurgeExpired(stones, MaxKeys)
              m == MakeRoom(t)
  <1>0. /\ rows \in Seq(RateRow) /\ stones \in Seq(StoneRow) /\ a \in Evictions
        /\ Len(rows) <= MaxKeys /\ MaxKeys \in Nat /\ Len(rows) \in Nat
    BY LenProperties, RateAssumption DEF Fit
  <1>1. Later(a, {}) = a
    BY <1>0, LaterIsNotLess
  <1>2. Fit(r, s, u, e, a, K)
    BY <1>0, SweptFits
  <1>3. Lacks(r, k) /\ Lacks(s, k) /\ \A i \in DOMAIN r : r[i].left > 0
    BY <1>0, PurgeKeepsTheLive
  <1>4. r \in Seq(RateRow) /\ Len(r) \in Nat
    BY <1>2, LenProperties DEF Fit
  <1>. HIDE DEF r, s
  <1>5. CASE Len(rows) < MaxKeys
    <2>1. m.rows = rows /\ m.stones = stones /\ m.evicted = {}
      BY <1>5 DEF MakeRoom
    <2> QED BY <2>1, <1>1, <1>5
  <1>6. CASE ~ (Len(rows) < MaxKeys) /\ Len(r) < MaxKeys
    <2>1. m.rows = r /\ m.stones = s /\ m.evicted = {}
      BY <1>6 DEF MakeRoom, r, s
    <2> QED BY <2>1, <1>1, <1>2, <1>3, <1>6
  <1>7. CASE ~ (Len(rows) < MaxKeys) /\ ~ (Len(r) < MaxKeys)
    <2>1. m.rows = Tail(r) /\ m.stones = Tombstone(s, Head(r)) /\ m.evicted = {Head(r).key}
      BY <1>7 DEF MakeRoom, r, s
    <2>2. Len(r) >= MaxKeys
      BY <1>7, <1>0, <1>4
    <2>3. /\ Fit(Tail(r), Tombstone(s, Head(r)), u, e, Later(a, {Head(r).key}), K)
          /\ Len(Tail(r)) < MaxKeys
          /\ Lacks(Tail(r), k) /\ Lacks(Tombstone(s, Head(r)), k)
          /\ Head(r).key # k /\ Head(r).key \in RateKeys /\ e[Head(r).key] > 0
      BY <2>2, <1>2, <1>3, EvictedFits
    <2> QED BY <2>1, <2>3
  <1> QED BY <1>5, <1>6, <1>7

(* The row that was touched last goes behind the others.                       *)
LEMMA AppendedFits ==
  ASSUME NEW rows, NEW stones, NEW u, NEW e, NEW a, NEW k \in RateKeys,
         Fit(rows, stones, u, e, a, RateKeys \ {k}), Len(rows) < MaxKeys,
         Lacks(rows, k), Lacks(stones, k),
         NEW u2, NEW e2, \A j \in RateKeys \ {k} : u2[j] = u[j] /\ e2[j] = e[j],
         NEW r \in RateRow, r.key = k, r.count \in 1 .. Limit[k],
         r.left > 0, r.left <= Window[k], r.left = e2[k],
         r.count = u2[k] \/ a[k] >= MaxKeys
  PROVE  Fit(Append(rows, r), stones, u2, e2, a, RateKeys)
  <1>. DEFINE t == Append(rows, r)
              N == Len(rows)
  <1>0. /\ rows \in Seq(RateRow) /\ stones \in Seq(StoneRow) /\ a \in Evictions
        /\ N <= MaxKeys /\ Len(stones) <= MaxKeys
        /\ RowsFit(rows, u, e, a) /\ StonesFit(stones, e, a)
        /\ Traced(rows, stones, e, a, RateKeys \ {k})
    BY DEF Fit
  <1>1. N \in Nat /\ DOMAIN rows = 1 .. N /\ MaxKeys \in Nat
    BY <1>0, LenProperties, RateAssumption
  <1>2. t \in Seq(RateRow) /\ Len(t) = N + 1 /\ t[N + 1] = r /\ \A i \in 1 .. N : t[i] = rows[i]
    BY <1>0, AppendProperties
  <1>3. DOMAIN t = 1 .. N + 1 /\ Len(t) <= MaxKeys
    BY <1>1, <1>2, LenProperties
  <1>. HIDE DEF t
  <1>4. \A i \in DOMAIN rows : i \in DOMAIN t /\ t[i] = rows[i] /\ rows[i].key \in RateKeys \ {k}
    BY <1>0, <1>1, <1>2, <1>3, KeysAreKeys DEF Lacks
  <1>5. N + 1 \in DOMAIN t /\ \A i \in DOMAIN t : i = N + 1 \/ i \in DOMAIN rows
    BY <1>1, <1>3
  <1>6. KeysOnce(t)
    BY <1>0, <1>2, <1>4, <1>5 DEF KeysOnce, RowsFit
  <1>7. ASSUME NEW i \in DOMAIN t
        PROVE  /\ t[i].count \in 1 .. Limit[t[i].key]
               /\ t[i].left <= Window[t[i].key]
               /\ t[i].left > 0 =>
                    /\ t[i].left = e2[t[i].key]
                    /\ t[i].count = u2[t[i].key] \/ a[t[i].key] >= MaxKeys
    <2>1. CASE i = N + 1
      BY <2>1, <1>2
    <2>2. CASE i \in DOMAIN rows
      BY <2>2, <1>0, <1>4 DEF RowsFit
    <2> QED BY <2>1, <2>2, <1>5
  <1>8. RowsFit(t, u2, e2, a)
    BY <1>6, <1>7 DEF RowsFit
  <1>9. StonesFit(stones, e2, a)
    <2>1. \A i \in DOMAIN stones : stones[i].key \in RateKeys \ {k}
      BY <1>0, KeysAreKeys DEF Lacks
    <2> QED BY <2>1, <1>0 DEF StonesFit
  <1>10. LiveIn(t, k) /\ ~ LiveIn(stones, k)
    BY <1>2, <1>5 DEF LiveIn, Lacks
  <1>11. \A j : j # k => (LiveIn(t, j) <=> LiveIn(rows, j))
    BY <1>2, <1>4, <1>5 DEF LiveIn
  <1>12. Traced(t, stones, e2, a, RateKeys)
    BY <1>0, <1>10, <1>11 DEF Traced
  <1>13. Fit(t, stones, u2, e2, a, RateKeys)
    BY <1>0, <1>2, <1>3, <1>8, <1>9, <1>12 DEF Fit
  <1> QED BY <1>13 DEF t

(* The windows: what was granted and which evictions there were is forgotten when one    *)
(* ends, and who was told to wait was told when it ends.                            *)
WindowsFit ==
  /\ used \in [RateKeys -> Nat] /\ told \in [RateKeys -> Int]
  /\ \A k \in RateKeys : until[k] = 0 => used[k] = 0 /\ after[k] = -1
  /\ \A k \in RateKeys : told[k] >= 0 => told[k] = until[k]

RateInv ==
  /\ RateTypeOK /\ QuotaSurvives /\ WindowsFit
  /\ Fit(table, tombs, used, until, after, RateKeys)

LEMMA LiveOfIsLive ==
  ASSUME NEW rows, NEW k
  PROVE  /\ LiveOf(rows, k) = {} <=> ~ LiveIn(rows, k)
         /\ \A r \in LiveOf(rows, k) : \E i \in DOMAIN rows : r = rows[i] /\ r.key = k /\ r.left > 0
  BY DEF LiveOf, LiveIn

(* What a hit finds after its purge.                                         *)
LEMMA HitFinds ==
  ASSUME RateInv, NEW k \in RateKeys
  PROVE  LET P == PurgeExpired(table, PurgeBudget)
             Q == PurgeExpired(tombs, PurgeBudget)
         IN /\ Fit(P, Q, used, until, after, RateKeys)
            /\ LiveOf(P, k) = {} <=> ~ LiveIn(P, k)
            /\ LiveOf(table, k) = {} <=> ~ LiveIn(P, k)
            /\ LiveOf(Q, k) = {} <=> ~ LiveIn(Q, k)
            /\ \A r \in LiveOf(P, k) :
                 /\ r \in RateRow /\ r.key = k /\ r.left > 0 /\ r.left <= Window[k]
                 /\ r.left = until[k] /\ r.count \in 1 .. Limit[k]
                 /\ r.count = used[k] \/ after[k] >= MaxKeys
            /\ \A r \in LiveOf(Q, k) : r.left > 0 /\ r.left = until[k]
            /\ Fit(Without(P, k), Without(Q, k), used, until, after, RateKeys \ {k})
            /\ Lacks(Without(P, k), k) /\ Lacks(Without(Q, k), k)
            /\ LiveIn(P, k) => Len(Without(P, k)) < MaxKeys
            /\ Later(after, {}) = after
  <1>. DEFINE P == PurgeExpired(table, PurgeBudget)
              Q == PurgeExpired(tombs, PurgeBudget)
  <1>1. /\ Fit(table, tombs, used, until, after, RateKeys) /\ PurgeBudget \in Nat /\ MaxKeys \in Nat
        /\ table \in Seq(RateRow) /\ tombs \in Seq(StoneRow) /\ after \in Evictions
    BY RateAssumption DEF RateInv, Fit
  <1>2. Fit(P, Q, used, until, after, RateKeys)
    BY <1>1, SweptFits
  <1>3. \A j : LiveIn(P, j) <=> LiveIn(table, j)
    BY <1>1, PurgeKeepsTheLive
  <1>. HIDE DEF P, Q
  <1>4. /\ P \in Seq(RateRow) /\ Q \in Seq(StoneRow) /\ Len(P) <= MaxKeys /\ Len(P) \in Nat
        /\ RowsFit(P, used, until, after) /\ StonesFit(Q, until, after)
    BY <1>2, LenProperties DEF Fit
  <1>5. ASSUME NEW r \in LiveOf(P, k)
        PROVE  /\ r \in RateRow /\ r.key = k /\ r.left > 0 /\ r.left <= Window[k]
               /\ r.left = until[k] /\ r.count \in 1 .. Limit[k]
               /\ r.count = used[k] \/ after[k] >= MaxKeys
    <2>1. PICK i \in DOMAIN P : r = P[i] /\ r.key = k /\ r.left > 0
      BY LiveOfIsLive
    <2>2. r \in RateRow
      BY <2>1, <1>4, KeysAreKeys
    <2> QED BY <2>1, <2>2, <1>4 DEF RowsFit
  <1>6. ASSUME NEW r \in LiveOf(Q, k) PROVE r.left > 0 /\ r.left = until[k]
    <2>1. PICK i \in DOMAIN Q : r = Q[i] /\ r.key = k /\ r.left > 0
      BY LiveOfIsLive
    <2> QED BY <2>1, <1>4 DEF StonesFit
  <1>7. Fit(Without(P, k), Without(Q, k), used, until, after, RateKeys \ {k})
    BY <1>2, CleanedFits
  <1>8. Lacks(Without(P, k), k) /\ Lacks(Without(Q, k), k)
    BY <1>4, WithoutLacksTheKey
  <1>9. LiveIn(P, k) => Len(Without(P, k)) < MaxKeys
    <2>1. LiveIn(P, k) => Len(Without(P, k)) < Len(P)
      BY <1>4, WithoutIsShorter
    <2>2. Len(Without(P, k)) \in Nat
      BY <1>7, LenProperties DEF Fit
    <2> QED BY <2>1, <2>2, <1>1, <1>4
  <1>10. Later(after, {}) = after
    BY <1>1, LaterIsNotLess
  <1>11. /\ LiveOf(P, k) = {} <=> ~ LiveIn(P, k)
         /\ LiveOf(table, k) = {} <=> ~ LiveIn(P, k)
         /\ LiveOf(Q, k) = {} <=> ~ LiveIn(Q, k)
    BY <1>3, LiveOfIsLive
  <1> QED BY <1>2, <1>5, <1>6, <1>7, <1>8, <1>9, <1>10, <1>11 DEF P, Q

(* What is counted for the answer r to a hit.                                  *)
UsedBy(k, r, consume) ==
  [used EXCEPT ![k] = IF consume /\ r.ok THEN Least(@, Limit[k]) + 1 ELSE @]

UntilBy(k, r, consume) ==
  [until EXCEPT ![k] = IF consume /\ r.ok /\ LiveOf(table, k) = {} THEN Window[k] ELSE @]

HitFits(k, r, consume) ==
  LET b == Later(after, r.evicted)
      u == UsedBy(k, r, consume)
  IN /\ Fit(r.rows, r.stones, u, UntilBy(k, r, consume), b, RateKeys)
     /\ k \notin r.evicted /\ \A j \in r.evicted : j \in RateKeys /\ until[j] > 0
     /\ r.ok \in BOOLEAN
     /\ ~ r.ok => r.wait = until[k] /\ until[k] > 0
     /\ u[k] <= Limit[k] \/ b[k] >= MaxKeys
     /\ u[k] \in 0 .. Limit[k] + 1
     /\ consume /\ r.ok => until[k] > 0 \/ LiveOf(table, k) = {}

LEMMA RefusedFits ==
  ASSUME RateInv, NEW k \in RateKeys, NEW consume \in BOOLEAN,
         LiveOf(PurgeExpired(tombs, PurgeBudget), k) # {}
  PROVE  HitFits(k, RateHit(k, consume), consume)
  <1>. DEFINE P == PurgeExpired(table, PurgeBudget)
              Q == PurgeExpired(tombs, PurgeBudget)
              w == CHOOSE r \in LiveOf(Q, k) : TRUE
              r == RateHit(k, consume)
  <1>1. /\ Fit(P, Q, used, until, after, RateKeys) /\ Later(after, {}) = after
        /\ \A x \in LiveOf(Q, k) : x.left > 0 /\ x.left = until[k]
    BY HitFinds
  <1>2. r.rows = P /\ r.stones = Q /\ r.evicted = {} /\ r.ok = FALSE /\ r.wait = w.left
    BY DEF RateHit
  <1>3. w.left > 0 /\ w.left = until[k]
    BY <1>1
  <1>. HIDE DEF P, Q, w, r
  <1>4. used \in [RateKeys -> Nat] /\ until \in [RateKeys -> Nat]
        /\ used[k] \in 0 .. Limit[k] + 1 /\ (used[k] <= Limit[k] \/ after[k] >= MaxKeys)
    BY DEF RateInv, RateTypeOK, WindowsFit, QuotaSurvives
  <1>5. UsedBy(k, r, consume) = used /\ UntilBy(k, r, consume) = until
    BY <1>2, <1>4 DEF UsedBy, UntilBy
  <1>6. HitFits(k, r, consume)
    BY <1>1, <1>2, <1>3, <1>4, <1>5 DEF HitFits
  <1> QED BY <1>6 DEF r

LEMMA PeekedFits ==
  ASSUME RateInv, NEW k \in RateKeys,
         LiveOf(PurgeExpired(tombs, PurgeBudget), k) = {},
         LiveOf(PurgeExpired(table, PurgeBudget), k) = {}
  PROVE  HitFits(k, RateHit(k, FALSE), FALSE)
  <1>. DEFINE P == PurgeExpired(table, PurgeBudget)
              Q == PurgeExpired(tombs, PurgeBudget)
              r == RateHit(k, FALSE)
  <1>1. /\ Fit(P, Q, used, until, after, RateKeys) /\ Later(after, {}) = after
        /\ ~ LiveIn(P, k) /\ ~ LiveIn(Q, k)
        /\ Fit(Without(P, k), Without(Q, k), used, until, after, RateKeys \ {k})
        /\ Lacks(Without(P, k), k) /\ Lacks(Without(Q, k), k)
    BY HitFinds
  <1>2. r.rows = Without(P, k) /\ r.stones = Without(Q, k) /\ r.evicted = {} /\ r.ok = TRUE
    BY DEF RateHit
  <1>. HIDE DEF P, Q, r
  <1>3. used \in [RateKeys -> Nat] /\ until \in [RateKeys -> Nat]
        /\ used[k] \in 0 .. Limit[k] + 1 /\ (used[k] <= Limit[k] \/ after[k] >= MaxKeys)
    BY DEF RateInv, RateTypeOK, WindowsFit, QuotaSurvives
  <1>4. UsedBy(k, r, FALSE) = used /\ UntilBy(k, r, FALSE) = until
    BY <1>3 DEF UsedBy, UntilBy
  <1>5. Fit(Without(P, k), Without(Q, k), used, until, after, RateKeys)
    <2>1. until[k] > 0 => after[k] >= MaxKeys
      BY <1>1 DEF Fit, Traced
    <2>2. ~ LiveIn(Without(P, k), k)
      BY <1>1 DEF Lacks, LiveIn
    <2> QED BY <2>1, <2>2, <1>1 DEF Fit, Traced
  <1>6. HitFits(k, r, FALSE)
    BY <1>1, <1>2, <1>3, <1>4, <1>5 DEF HitFits
  <1> QED BY <1>6 DEF r

(* A key without a live row begins a window.                                   *)
LEMMA BegunFits ==
  ASSUME RateInv, NEW k \in RateKeys,
         LiveOf(PurgeExpired(tombs, PurgeBudget), k) = {},
         LiveOf(PurgeExpired(table, PurgeBudget), k) = {}
  PROVE  HitFits(k, RateHit(k, TRUE), TRUE)
  <1>. DEFINE P == PurgeExpired(table, PurgeBudget)
              Q == PurgeExpired(tombs, PurgeBudget)
              m == MakeRoom([rows |-> Without(P, k), stones |-> Without(Q, k), evicted |-> {}])
              x == [key |-> k, count |-> 1, left |-> Window[k]]
              r == RateHit(k, TRUE)
              b == Later(after, m.evicted)
  <1>0. Limit[k] \in Nat /\ Limit[k] >= 1 /\ Window[k] \in Nat /\ Window[k] >= 1 /\ MaxKeys \in Nat
    BY RateAssumption
  <1>1. /\ Fit(P, Q, used, until, after, RateKeys)
        /\ ~ LiveIn(P, k) /\ ~ LiveIn(Q, k) /\ LiveOf(table, k) = {}
        /\ Fit(Without(P, k), Without(Q, k), used, until, after, RateKeys \ {k})
        /\ Lacks(Without(P, k), k) /\ Lacks(Without(Q, k), k)
    BY HitFinds
  <1>2. /\ Fit(m.rows, m.stones, used, until, b, RateKeys \ {k}) /\ Len(m.rows) < MaxKeys
        /\ Lacks(m.rows, k) /\ Lacks(m.stones, k)
        /\ k \notin m.evicted /\ \A j \in m.evicted : j \in RateKeys /\ until[j] > 0
    BY <1>1, RoomFits
  <1>3. r.rows = Append(m.rows, x) /\ r.stones = m.stones /\ r.evicted = m.evicted /\ r.ok = TRUE
    <2>. DEFINE z == [key |-> k, count |-> 0, left |-> Window[k]]
                full == z.count >= Limit[k]
                y == [z EXCEPT !.count = IF TRUE /\ ~ full THEN @ + 1 ELSE @]
    <2>1. r = [rows |-> Append(m.rows, y), stones |-> m.stones, evicted |-> m.evicted,
               ok |-> ~ full, wait |-> IF full THEN z.left ELSE 0]
      BY DEF RateHit
    <2>2. ~ full
      BY <1>0
    <2>3. y = x
      BY <2>2
    <2>. HIDE DEF m, y, x, r, full
    <2> QED BY <2>1, <2>2, <2>3
  <1>4. used \in [RateKeys -> Nat] /\ until \in [RateKeys -> Nat] /\ after \in Evictions
        /\ used[k] \in 0 .. Limit[k] + 1
        /\ (until[k] = 0 => used[k] = 0) /\ until[k] \in Nat
    BY <1>1 DEF RateInv, RateTypeOK, WindowsFit, Fit
  <1>5. until[k] > 0 => b[k] >= MaxKeys
    <2>1. until[k] > 0 => after[k] >= MaxKeys
      BY <1>1 DEF Fit, Traced
    <2>2. b[k] >= after[k] /\ b \in Evictions
      BY <1>4, LaterIsNotLess
    <2>3. b[k] \in Int /\ after[k] \in Int
      BY <2>2, <1>4 DEF Evictions
    <2>. HIDE DEF b
    <2> QED BY <2>1, <2>2, <2>3, <1>0
  <1>. HIDE DEF P, Q, m, r, b
  <1>. DEFINE u == UsedBy(k, r, TRUE)
              e == UntilBy(k, r, TRUE)
  <1>6. /\ u[k] = Least(used[k], Limit[k]) + 1 /\ e[k] = Window[k]
        /\ \A j \in RateKeys \ {k} : u[j] = used[j] /\ e[j] = until[j]
    BY <1>1, <1>3, <1>4 DEF UsedBy, UntilBy
  <1>. HIDE DEF u, e
  <1>7. u[k] \in 0 .. Limit[k] + 1 /\ (u[k] = 1 \/ b[k] >= MaxKeys)
    <2>1. until[k] = 0 => u[k] = 1
      BY <1>6, <1>4, <1>0 DEF Least
    <2>2. u[k] \in 0 .. Limit[k] + 1
      BY <1>6, <1>4, <1>0 DEF Least
    <2> QED BY <2>1, <2>2, <1>4, <1>5
  <1>8. /\ x \in RateRow /\ x.key = k /\ x.count \in 1 .. Limit[k] /\ x.left > 0 /\ x.left <= Window[k]
        /\ x.left = e[k] /\ x.count = 1
    BY <1>0, <1>6 DEF RateRow
  <1>. HIDE DEF x
  <1>9. Fit(Append(m.rows, x), m.stones, u, e, b, RateKeys)
    BY <1>2, <1>6, <1>7, <1>8, AppendedFits
  <1>10. u[k] <= Limit[k] \/ b[k] >= MaxKeys
    BY <1>7, <1>0
  <1>11. HitFits(k, r, TRUE)
    BY <1>1, <1>2, <1>3, <1>7, <1>9, <1>10 DEF HitFits, u, e, b
  <1> QED BY <1>11 DEF r

(* A key with a live row is counted in it until it is full.                      *)
LEMMA CountedFits ==
  ASSUME RateInv, NEW k \in RateKeys, NEW consume \in BOOLEAN,
         LiveOf(PurgeExpired(tombs, PurgeBudget), k) = {},
         LiveOf(PurgeExpired(table, PurgeBudget), k) # {}
  PROVE  HitFits(k, RateHit(k, consume), consume)
  <1>. DEFINE P == PurgeExpired(table, PurgeBudget)
              Q == PurgeExpired(tombs, PurgeBudget)
              y == CHOOSE r \in LiveOf(P, k) : TRUE
              full == y.count >= Limit[k]
              x == [y EXCEPT !.count = IF consume /\ ~ full THEN @ + 1 ELSE @]
              r == RateHit(k, consume)
  <1>0. Limit[k] \in Nat /\ Limit[k] >= 1 /\ MaxKeys \in Nat
    BY RateAssumption
  <1>1. /\ LiveIn(P, k) /\ LiveOf(table, k) # {} /\ Later(after, {}) = after
        /\ Fit(Without(P, k), Without(Q, k), used, until, after, RateKeys \ {k})
        /\ Lacks(Without(P, k), k) /\ Lacks(Without(Q, k), k)
        /\ Len(Without(P, k)) < MaxKeys
    BY HitFinds
  <1>2. /\ y \in RateRow /\ y.key = k /\ y.left > 0 /\ y.left <= Window[k]
        /\ y.left = until[k] /\ y.count \in 1 .. Limit[k]
        /\ y.count = used[k] \/ after[k] >= MaxKeys
    BY HitFinds
  <1>3. /\ r.rows = Append(Without(P, k), x) /\ r.stones = Without(Q, k) /\ r.evicted = {}
        /\ r.ok = ~ full /\ r.wait = (IF full THEN y.left ELSE 0)
    BY DEF RateHit
  <1>4. used \in [RateKeys -> Nat] /\ until \in [RateKeys -> Nat]
        /\ used[k] \in 0 .. Limit[k] + 1 /\ (used[k] <= Limit[k] \/ after[k] >= MaxKeys)
    BY DEF RateInv, RateTypeOK, WindowsFit, QuotaSurvives
  <1>. HIDE DEF P, Q, y, r
  <1>5. y.count \in Nat /\ x \in RateRow /\ x.key = k /\ x.left = y.left
        /\ x.count = (IF consume /\ ~ full THEN y.count + 1 ELSE y.count)
    BY <1>2 DEF RateRow
  <1>. HIDE DEF x
  <1>. DEFINE u == UsedBy(k, r, consume)
  <1>6. /\ u[k] = (IF consume /\ ~ full THEN Least(used[k], Limit[k]) + 1 ELSE used[k])
        /\ \A j \in RateKeys \ {k} : u[j] = used[j]
        /\ UntilBy(k, r, consume) = until
    BY <1>1, <1>3, <1>4 DEF UsedBy, UntilBy
  <1>. HIDE DEF u
  <1>7. /\ x.count \in 1 .. Limit[k] /\ (x.count = u[k] \/ after[k] >= MaxKeys)
        /\ u[k] \in 0 .. Limit[k] + 1 /\ (u[k] <= Limit[k] \/ after[k] >= MaxKeys)
    <2>1. CASE consume /\ ~ full
      <3>1. y.count \in Nat /\ y.count >= 1 /\ y.count < Limit[k]
        BY <2>1, <1>0, <1>2
      <3>2. x.count = y.count + 1 /\ u[k] = Least(used[k], Limit[k]) + 1
        BY <2>1, <1>5, <1>6
      <3> QED BY <3>1, <3>2, <1>0, <1>2, <1>4 DEF Least
    <2>2. CASE ~ (consume /\ ~ full)
      BY <2>2, <1>2, <1>4, <1>5, <1>6
    <2> QED BY <2>1, <2>2
  <1>8. Fit(Append(Without(P, k), x), Without(Q, k), u, until, after, RateKeys)
    BY <1>1, <1>2, <1>5, <1>6, <1>7, AppendedFits
  <1>9. HitFits(k, r, consume)
    <2>1. r.ok \in BOOLEAN /\ (~ r.ok => r.wait = until[k] /\ until[k] > 0) /\ until[k] > 0
      BY <1>2, <1>3
    <2> QED BY <2>1, <1>1, <1>3, <1>6, <1>7, <1>8 DEF HitFits, u
  <1> QED BY <1>9 DEF r

LEMMA HitKeeps ==
  ASSUME RateInv, NEW k \in RateKeys, NEW consume \in BOOLEAN
  PROVE  HitFits(k, RateHit(k, consume), consume)
  <1>. DEFINE P == PurgeExpired(table, PurgeBudget)
              Q == PurgeExpired(tombs, PurgeBudget)
  <1>1. CASE LiveOf(Q, k) # {}
    BY <1>1, RefusedFits
  <1>2. CASE LiveOf(Q, k) = {} /\ LiveOf(P, k) # {}
    BY <1>2, CountedFits
  <1>3. CASE LiveOf(Q, k) = {} /\ LiveOf(P, k) = {}
    <2>1. CASE consume = TRUE
      BY <1>3, <2>1, BegunFits
    <2>2. CASE consume = FALSE
      BY <1>3, <2>2, PeekedFits
    <2> QED BY <2>1, <2>2
  <1> QED BY <1>1, <1>2, <1>3

LEMMA AnswerIsApplied ==
  ASSUME RateInv, NEW k \in RateKeys, NEW consume \in BOOLEAN, Answered(k, consume)
  PROVE  LET r == RateHit(k, consume) IN
         /\ table' = r.rows /\ tombs' = r.stones
         /\ used' = UsedBy(k, r, consume) /\ until' = UntilBy(k, r, consume)
         /\ after' = Later(after, r.evicted)
         /\ told' = [told EXCEPT ![k] = IF r.ok THEN -1 ELSE r.wait]
  <1>. DEFINE r == RateHit(k, consume)
  <1>1. /\ table' = r.rows /\ tombs' = r.stones
        /\ after' = Later(after, r.evicted)
        /\ told' = [told EXCEPT ![k] = IF r.ok THEN -1 ELSE r.wait]
        /\ IF consume THEN Counted(k, r) ELSE UNCHANGED <<used, until>>
    BY DEF Answered, Later
  <1>2. used \in [RateKeys -> Nat] /\ until \in [RateKeys -> Nat]
    BY DEF RateInv, WindowsFit, RateTypeOK
  <1>. HIDE DEF r
  <1>3. used' = UsedBy(k, r, consume) /\ until' = UntilBy(k, r, consume)
    <2>1. CASE consume = TRUE
      BY <1>1, <2>1 DEF Counted, UsedBy, UntilBy
    <2>2. CASE consume = FALSE
      BY <1>1, <1>2, <2>2 DEF UsedBy, UntilBy
    <2> QED BY <2>1, <2>2
  <1> QED BY <1>1, <1>3 DEF r

(* A client that is told to wait is told the end of its window, and nobody's window     *)
(* is extended while it waits.                                                     *)
LEMMA ToldTheEnd ==
  ASSUME RateInv, NEW k \in RateKeys, NEW consume \in BOOLEAN, Answered(k, consume)
  PROVE  \A j \in RateKeys : told[j] >= 0 => told'[j] <= told[j]
  <1>. DEFINE r == RateHit(k, consume)
  <1>1. ~ r.ok => r.wait = until[k] /\ until[k] > 0
    BY HitKeeps DEF HitFits
  <1>2. told' = [told EXCEPT ![k] = IF r.ok THEN -1 ELSE r.wait]
    BY AnswerIsApplied
  <1>3. /\ told \in [RateKeys -> Int]
        /\ \A j \in RateKeys : told[j] >= 0 => told[j] = until[j]
    BY DEF RateInv, WindowsFit
  <1>. HIDE DEF r
  <1>4. ASSUME NEW j \in RateKeys, told[j] >= 0 PROVE told'[j] <= told[j]
    <2>1. CASE j # k
      BY <2>1, <1>2, <1>3
    <2>2. CASE j = k /\ r.ok
      BY <2>2, <1>2, <1>3, <1>4
    <2>3. CASE j = k /\ ~ r.ok
      BY <2>3, <1>1, <1>2, <1>3, <1>4
    <2> QED BY <2>1, <2>2, <2>3
  <1> QED BY <1>4

LEMMA AnsweredKeeps ==
  ASSUME RateInv, NEW k \in RateKeys, NEW consume \in BOOLEAN, Answered(k, consume)
  PROVE  RateInv'
  <1>. DEFINE r == RateHit(k, consume)
              u == UsedBy(k, r, consume)
              e == UntilBy(k, r, consume)
              b == Later(after, r.evicted)
  <1>0. /\ Limit \in [RateKeys -> Nat \ {0}] /\ Window \in [RateKeys -> Nat \ {0}]
        /\ MaxKeys \in Nat /\ MaxKeys >= 1
    BY RateAssumption
  <1>1. /\ Fit(r.rows, r.stones, u, e, b, RateKeys)
        /\ k \notin r.evicted /\ \A j \in r.evicted : j \in RateKeys /\ until[j] > 0
        /\ r.ok \in BOOLEAN
        /\ ~ r.ok => r.wait = until[k] /\ until[k] > 0
        /\ u[k] <= Limit[k] \/ b[k] >= MaxKeys
        /\ u[k] \in 0 .. Limit[k] + 1
        /\ consume /\ r.ok => until[k] > 0 \/ LiveOf(table, k) = {}
    BY HitKeeps DEF HitFits
  <1>2. /\ table' = r.rows /\ tombs' = r.stones /\ used' = u /\ until' = e /\ after' = b
        /\ told' = [told EXCEPT ![k] = IF r.ok THEN -1 ELSE r.wait]
    BY AnswerIsApplied
  <1>3. /\ used \in [RateKeys -> Nat] /\ until \in [RateKeys -> Nat] /\ after \in Evictions
        /\ told \in [RateKeys -> Int]
        /\ \A j \in RateKeys : until[j] = 0 => used[j] = 0 /\ after[j] = -1
        /\ \A j \in RateKeys : told[j] >= 0 => told[j] = until[j]
        /\ \A j \in RateKeys : used[j] \in 0 .. Limit[j] + 1
        /\ \A j \in RateKeys : used[j] <= Limit[j] \/ after[j] >= MaxKeys
    BY DEF RateInv, RateTypeOK, WindowsFit, QuotaSurvives, Fit
  <1>4. /\ b \in Evictions
        /\ \A j \in RateKeys : b[j] >= after[j]
        /\ \A j \in RateKeys : j \notin r.evicted /\ after[j] = -1 => b[j] = -1
    <2>1. b \in Evictions /\ \A j \in RateKeys : b[j] >= after[j]
      BY <1>3, LaterIsNotLess
    <2>2. \A j \in RateKeys : j \notin r.evicted /\ after[j] = -1 => b[j] = -1
      BY DEF Later
    <2> QED BY <2>1, <2>2
  <1>5. /\ u \in [RateKeys -> Nat]
        /\ \A j \in RateKeys \ {k} : u[j] = used[j] /\ e[j] = until[j]
        /\ e \in [RateKeys -> Nat]
        /\ e[k] = until[k] \/ (consume /\ r.ok /\ e[k] = Window[k])
        /\ u[k] = used[k] \/ (consume /\ r.ok)
        /\ consume /\ r.ok => e[k] > 0
    <2>. HIDE DEF r
    <2>1. /\ \A j \in RateKeys \ {k} : u[j] = used[j] /\ e[j] = until[j]
          /\ DOMAIN u = RateKeys /\ DOMAIN e = RateKeys
      BY <1>3 DEF UsedBy, UntilBy
    <2>2. e[k] = IF consume /\ r.ok /\ LiveOf(table, k) = {} THEN Window[k] ELSE until[k]
      BY <1>3 DEF UntilBy
    <2>3. u[k] = IF consume /\ r.ok THEN Least(used[k], Limit[k]) + 1 ELSE used[k]
      BY <1>3 DEF UsedBy
    <2>4. Window[k] \in Nat /\ Window[k] > 0 /\ Limit[k] \in Nat /\ until[k] \in Nat /\ used[k] \in Nat
      BY <1>0, <1>3
    <2>5. u[k] \in Nat /\ e[k] \in Nat
      BY <2>2, <2>3, <2>4 DEF Least
    <2>6. /\ u = [j \in RateKeys |-> u[j]] /\ \A j \in RateKeys : u[j] \in Nat
          /\ e = [j \in RateKeys |-> e[j]] /\ \A j \in RateKeys : e[j] \in Nat
      <3>1. u = [j \in RateKeys |-> u[j]] /\ e = [j \in RateKeys |-> e[j]]
        BY <1>3 DEF UsedBy, UntilBy
      <3>2. \A j \in RateKeys : u[j] \in Nat /\ e[j] \in Nat
        BY <2>1, <2>5, <1>3
      <3> QED BY <3>1, <3>2
    <2>. HIDE DEF u, e
    <2>7. u \in [RateKeys -> Nat] /\ e \in [RateKeys -> Nat]
      BY <2>6
    <2> QED BY <2>1, <2>2, <2>3, <2>4, <2>7, <1>1
  <1>. HIDE DEF r, u, e, b
  <1>6. told' \in [RateKeys -> Int] /\ \A j \in RateKeys : told'[j] >= 0 => told'[j] = e[j]
    <2>1. ~ r.ok => r.wait \in Int /\ r.wait = until[k]
      BY <1>1, <1>3
    <2>2. told' \in [RateKeys -> Int]
      BY <2>1, <1>2, <1>3
    <2>3. \A j \in RateKeys \ {k} : told'[j] = told[j] /\ e[j] = until[j]
      BY <1>2, <1>3, <1>5
    <2>4. told'[k] >= 0 => told'[k] = e[k]
      BY <2>1, <1>2, <1>3, <1>5
    <2> QED BY <2>2, <2>3, <2>4, <1>3
  <1>7. \A j \in RateKeys : e[j] = 0 => u[j] = 0 /\ b[j] = -1
    <2>1. ASSUME NEW j \in RateKeys, e[j] = 0 PROVE until[j] = 0 /\ u[j] = used[j]
      <3>1. CASE j # k
        BY <3>1, <2>1, <1>5
      <3>2. CASE j = k
        BY <3>2, <2>1, <1>5
      <3> QED BY <3>1, <3>2
    <2>2. ASSUME NEW j \in RateKeys, until[j] = 0 PROVE b[j] = -1 /\ used[j] = 0
      <3>1. j \notin r.evicted
        BY <1>1, <2>2
      <3> QED BY <3>1, <2>2, <1>3, <1>4
    <2> QED BY <2>1, <2>2
  <1>8. \A j \in RateKeys : u[j] \in 0 .. Limit[j] + 1
    BY <1>1, <1>3, <1>5
  <1>9. \A j \in RateKeys : u[j] <= Limit[j] \/ b[j] >= MaxKeys
    <2>1. \A j \in RateKeys : after[j] >= MaxKeys => b[j] >= MaxKeys
      BY <1>0, <1>3, <1>4 DEF Evictions
    <2> QED BY <2>1, <1>1, <1>3, <1>5
  <1>10. /\ \A i \in DOMAIN r.rows :
              /\ r.rows[i].count \in 1 .. Limit[r.rows[i].key]
              /\ r.rows[i].left \in 0 .. Window[r.rows[i].key]
         /\ Len(r.rows) <= MaxKeys /\ Len(r.stones) <= MaxKeys
    <2>1. \A i \in DOMAIN r.rows :
            r.rows[i].left \in Nat /\ r.rows[i].key \in RateKeys /\ Window[r.rows[i].key] \in Nat
      BY <1>0, <1>1, KeysAreKeys DEF Fit
    <2> QED BY <2>1, <1>1 DEF Fit, RowsFit
  <1>11. RateTypeOK'
    BY <1>2, <1>4, <1>5, <1>6, <1>8, <1>10 DEF RateTypeOK, Evictions
  <1>12. WindowsFit'
    BY <1>2, <1>5, <1>6, <1>7 DEF WindowsFit
  <1>13. QuotaSurvives'
    BY <1>2, <1>9 DEF QuotaSurvives
  <1>14. Fit(table, tombs, used, until, after, RateKeys)'
    BY <1>1, <1>2
  <1> QED BY <1>11, <1>12, <1>13, <1>14 DEF RateInv

(* Time passes for every row alike.                                           *)
LEMMA ElapsedRows ==
  ASSUME NEW S \in {RateRow, StoneRow}, NEW rows \in Seq(S)
  PROVE  LET r == Elapse(rows) IN
         /\ r \in Seq(S) /\ Len(r) = Len(rows) /\ DOMAIN r = DOMAIN rows
         /\ \A i \in DOMAIN rows : /\ r[i].key = rows[i].key
                                   /\ S = RateRow => r[i].count = rows[i].count
                                   /\ r[i].left = (IF rows[i].left = 0 THEN 0 ELSE rows[i].left - 1)
                                   /\ rows[i].left \in Nat
  <1>. DEFINE r == Elapse(rows)
              N == Len(rows)
  <1>1. N \in Nat /\ DOMAIN rows = 1 .. N
    BY LenProperties
  <1>2. DOMAIN r = 1 .. N
    BY <1>1 DEF Elapse
  <1>3. ASSUME NEW i \in 1 .. N
        PROVE  /\ r[i] \in S /\ r[i].key = rows[i].key
               /\ S = RateRow => r[i].count = rows[i].count
               /\ r[i].left = (IF rows[i].left = 0 THEN 0 ELSE rows[i].left - 1)
               /\ rows[i].left \in Nat
    <2>. DEFINE x == rows[i]
                n == IF x.left = 0 THEN 0 ELSE x.left - 1
    <2>1. r[i] = [x EXCEPT !.left = n]
      BY <1>1 DEF Elapse
    <2>2. x \in S
      BY <1>1, ElementOfSeq
    <2>. HIDE DEF x, r
    <2>3. CASE S = RateRow
      BY <2>1, <2>2, <2>3 DEF RateRow, x
    <2>4. CASE S = StoneRow /\ S # RateRow
      BY <2>1, <2>2, <2>4 DEF StoneRow, x
    <2> QED BY <2>3, <2>4
  <1>4. r = [i \in 1 .. N |-> r[i]]
    BY <1>1 DEF Elapse
  <1>. HIDE DEF r
  <1>5. r \in Seq(S)
    BY <1>1, <1>3, <1>4, IsASeq
  <1>6. Len(r) = N
    BY <1>1, <1>2, <1>5, LenProperties
  <1> QED BY <1>1, <1>2, <1>3, <1>5, <1>6 DEF r

LEMMA TickKeeps ==
  ASSUME RateInv, Tick
  PROVE  RateInv' /\ \A k \in RateKeys : told[k] >= 0 => told'[k] <= told[k]
  <1>. DEFINE t == Elapse(table)
              s == Elapse(tombs)
  <1>0. /\ Limit \in [RateKeys -> Nat \ {0}] /\ Window \in [RateKeys -> Nat \ {0}]
        /\ MaxKeys \in Nat /\ MaxKeys >= 1
    BY RateAssumption
  <1>1. /\ table' = t /\ tombs' = s
        /\ until' = [k \in RateKeys |-> IF until[k] = 0 THEN 0 ELSE until[k] - 1]
        /\ used' = [k \in RateKeys |-> IF until[k] <= 1 THEN 0 ELSE used[k]]
        /\ after' = [k \in RateKeys |-> IF until[k] <= 1 THEN -1 ELSE after[k]]
        /\ told' = [k \in RateKeys |-> IF told[k] <= 0 THEN told[k] ELSE told[k] - 1]
    BY DEF Tick
  <1>2. /\ table \in Seq(RateRow) /\ tombs \in Seq(StoneRow) /\ after \in Evictions
        /\ Len(table) <= MaxKeys /\ Len(tombs) <= MaxKeys
        /\ RowsFit(table, used, until, after) /\ StonesFit(tombs, until, after)
        /\ Traced(table, tombs, until, after, RateKeys)
        /\ used \in [RateKeys -> Nat] /\ until \in [RateKeys -> Nat] /\ told \in [RateKeys -> Int]
        /\ \A j \in RateKeys : until[j] = 0 => used[j] = 0 /\ after[j] = -1
        /\ \A j \in RateKeys : told[j] >= 0 => told[j] = until[j]
        /\ \A j \in RateKeys : used[j] \in 0 .. Limit[j] + 1
        /\ \A j \in RateKeys : used[j] <= Limit[j] \/ after[j] >= MaxKeys
    BY DEF RateInv, RateTypeOK, WindowsFit, QuotaSurvives, Fit
  <1>3. /\ t \in Seq(RateRow) /\ Len(t) = Len(table) /\ DOMAIN t = DOMAIN table
        /\ \A i \in DOMAIN table :
             /\ t[i].key = table[i].key /\ t[i].count = table[i].count
             /\ t[i].left = (IF table[i].left = 0 THEN 0 ELSE table[i].left - 1)
             /\ table[i].left \in Nat /\ table[i].key \in RateKeys
    BY <1>2, ElapsedRows, KeysAreKeys
  <1>4. /\ s \in Seq(StoneRow) /\ Len(s) = Len(tombs) /\ DOMAIN s = DOMAIN tombs
        /\ \A i \in DOMAIN tombs :
             /\ s[i].key = tombs[i].key
             /\ s[i].left = (IF tombs[i].left = 0 THEN 0 ELSE tombs[i].left - 1)
             /\ tombs[i].left \in Nat /\ tombs[i].key \in RateKeys
    BY <1>2, ElapsedRows, KeysAreKeys
  <1>. HIDE DEF t, s
  <1>5. /\ used' \in [RateKeys -> Nat] /\ until' \in [RateKeys -> Nat] /\ told' \in [RateKeys -> Int]
        /\ after' \in Evictions
    <2>1. used' \in [RateKeys -> Nat] /\ until' \in [RateKeys -> Nat] /\ told' \in [RateKeys -> Int]
      BY <1>1, <1>2
    <2>2. after' \in Evictions
      BY <1>0, <1>1, <1>2 DEF Evictions
    <2> QED BY <2>1, <2>2
  <1>6. \A k \in RateKeys :
          /\ until'[k] = 0 => used'[k] = 0 /\ after'[k] = -1
          /\ until'[k] > 0 => /\ used'[k] = used[k] /\ after'[k] = after[k]
                              /\ until[k] = until'[k] + 1
          /\ used'[k] \in 0 .. Limit[k] + 1
          /\ used'[k] <= Limit[k] \/ after'[k] >= MaxKeys
    BY <1>0, <1>1, <1>2
  <1>7. \A k \in RateKeys : /\ told'[k] >= 0 => told'[k] = until'[k]
                            /\ told[k] >= 0 => told'[k] <= told[k]
    BY <1>1, <1>2
  <1>8. ASSUME NEW i \in DOMAIN t
        PROVE  /\ t[i].count \in 1 .. Limit[t[i].key]
               /\ t[i].left \in 0 .. Window[t[i].key]
               /\ t[i].left > 0 =>
                    /\ t[i].left = until'[t[i].key]
                    /\ t[i].count = used'[t[i].key] \/ after'[t[i].key] >= MaxKeys
    <2>. DEFINE x == table[i]
                k == x.key
                n == x.left
    <2>1. /\ t[i].key = k /\ t[i].count = x.count /\ k \in RateKeys /\ n \in Nat
          /\ t[i].left = (IF n = 0 THEN 0 ELSE n - 1)
      BY <1>3
    <2>2. /\ x.count \in 1 .. Limit[k] /\ n <= Window[k] /\ Window[k] \in Nat
          /\ n > 0 => n = until[k] /\ (x.count = used[k] \/ after[k] >= MaxKeys)
      BY <1>0, <1>2, <1>3, <2>1 DEF RowsFit
    <2>3. until[k] \in Nat /\ until'[k] \in Nat
      BY <2>1, <1>2, <1>5
    <2>4. /\ until'[k] > 0 => used'[k] = used[k] /\ after'[k] = after[k]
          /\ until'[k] = IF until[k] = 0 THEN 0 ELSE until[k] - 1
      BY <2>1, <1>1, <1>6
    <2>. HIDE DEF x, k, n
    <2>5. t[i].left \in 0 .. Window[k]
      BY <2>1, <2>2
    <2>6. t[i].left > 0 => t[i].left = until'[k] /\ until'[k] > 0 /\ n > 0
      BY <2>1, <2>2, <2>3, <2>4
    <2> QED BY <2>1, <2>2, <2>4, <2>5, <2>6
  <1>9. ASSUME NEW i \in DOMAIN s, s[i].left > 0
        PROVE  /\ s[i].left = until'[s[i].key] /\ after'[s[i].key] >= 0
               /\ Len(s) - i <= after'[s[i].key] \/ after'[s[i].key] >= MaxKeys
    <2>. DEFINE x == tombs[i]
                k == x.key
                n == x.left
    <2>1. s[i].key = k /\ k \in RateKeys /\ n \in Nat /\ n > 0 /\ s[i].left = n - 1 /\ n - 1 > 0
      BY <1>4, <1>9
    <2>2. /\ n = until[k] /\ after[k] >= 0
          /\ Len(tombs) - i <= after[k] \/ after[k] >= MaxKeys
      BY <1>2, <1>4, <2>1 DEF StonesFit
    <2>3. until'[k] = n - 1
      BY <2>1, <2>2, <1>1
    <2>4. after'[k] = after[k]
      BY <2>1, <2>3, <1>6
    <2>. HIDE DEF x, k, n
    <2> QED BY <2>1, <2>2, <2>3, <2>4, <1>4
  <1>10. KeysOnce(t) /\ KeysOnce(s)
    BY <1>2, <1>3, <1>4 DEF KeysOnce, RowsFit, StonesFit
  <1>11. RowsFit(t, used', until', after')
    <2>1. \A i \in DOMAIN t : t[i].key \in RateKeys /\ Window[t[i].key] \in Nat
      BY <1>0, <1>3
    <2>2. \A i \in DOMAIN t : t[i].left <= Window[t[i].key]
      BY <2>1, <1>8
    <2> QED BY <2>2, <1>8, <1>10 DEF RowsFit
  <1>12. StonesFit(s, until', after')
    BY <1>9, <1>10 DEF StonesFit
  <1>13. Traced(t, s, until', after', RateKeys)
    <2>1. /\ \A k : LiveIn(t, k) => LiveIn(table, k)
          /\ \A k : LiveIn(s, k) => LiveIn(tombs, k)
      <3>1. \A i \in DOMAIN t : i \in DOMAIN table /\ t[i].key = table[i].key
                                /\ (t[i].left > 0 => table[i].left > 0)
        BY <1>3
      <3>2. \A i \in DOMAIN s : i \in DOMAIN tombs /\ s[i].key = tombs[i].key
                                /\ (s[i].left > 0 => tombs[i].left > 0)
        BY <1>4
      <3> QED BY <3>1, <3>2 DEF LiveIn
    <2>2. ASSUME NEW k \in RateKeys, until'[k] > 0, LiveIn(table, k) PROVE LiveIn(t, k)
      <3>1. PICK i \in DOMAIN table : table[i].key = k /\ table[i].left > 0
        BY <2>2 DEF LiveIn
      <3>2. table[i].left = until[k] /\ until[k] = until'[k] + 1 /\ until'[k] \in Nat
        BY <3>1, <2>2, <1>2, <1>5, <1>6 DEF RowsFit
      <3>3. t[i].key = k /\ t[i].left = table[i].left - 1 /\ i \in DOMAIN t
        BY <3>1, <1>3
      <3>4. t[i].left > 0
        BY <3>2, <3>3, <2>2
      <3> QED BY <3>3, <3>4 DEF LiveIn
    <2>3. ASSUME NEW k \in RateKeys, until'[k] > 0, LiveIn(tombs, k) PROVE LiveIn(s, k)
      <3>1. PICK i \in DOMAIN tombs : tombs[i].key = k /\ tombs[i].left > 0
        BY <2>3 DEF LiveIn
      <3>2. tombs[i].left = until[k] /\ until[k] = until'[k] + 1 /\ until'[k] \in Nat
        BY <3>1, <2>3, <1>2, <1>5, <1>6 DEF StonesFit
      <3>3. s[i].key = k /\ s[i].left = tombs[i].left - 1 /\ i \in DOMAIN s
        BY <3>1, <1>4
      <3>4. s[i].left > 0
        BY <3>2, <3>3, <2>3
      <3> QED BY <3>3, <3>4 DEF LiveIn
    <2>4. \A k \in RateKeys : until'[k] > 0 => until[k] > 0 /\ after'[k] = after[k]
      BY <1>2, <1>5, <1>6
    <2> QED BY <2>1, <2>2, <2>3, <2>4, <1>2 DEF Traced
  <1>14. Fit(t, s, used', until', after', RateKeys)
    BY <1>2, <1>3, <1>4, <1>5, <1>11, <1>12, <1>13 DEF Fit
  <1>15. RateTypeOK'
    BY <1>1, <1>2, <1>3, <1>4, <1>5, <1>6, <1>8 DEF RateTypeOK, Evictions
  <1>16. WindowsFit' /\ QuotaSurvives'
    BY <1>5, <1>6, <1>7 DEF WindowsFit, QuotaSurvives
  <1>17. Fit(table, tombs, used, until, after, RateKeys)'
    BY <1>1, <1>14
  <1> QED BY <1>7, <1>15, <1>16, <1>17 DEF RateInv

LEMMA RateInvInit == RateInit => RateInv
  <1>1. SUFFICES ASSUME RateInit PROVE RateInv
    OBVIOUS
  <1>. DEFINE none == << >>
  <1>2. /\ MaxKeys \in Nat /\ Limit \in [RateKeys -> Nat \ {0}]
    BY RateAssumption
  <1>3. /\ table = none /\ tombs = none
        /\ used = [k \in RateKeys |-> 0] /\ until = [k \in RateKeys |-> 0]
        /\ after = [k \in RateKeys |-> -1] /\ told = [k \in RateKeys |-> -1]
    BY <1>1 DEF RateInit
  <1>4. none \in Seq(RateRow) /\ none \in Seq(StoneRow) /\ Len(none) = 0 /\ DOMAIN none = {}
    BY EmptySeq
  <1>. HIDE DEF none
  <1>5. /\ after \in Evictions /\ used \in [RateKeys -> Nat] /\ until \in [RateKeys -> Nat]
        /\ told \in [RateKeys -> Int]
    BY <1>2, <1>3 DEF Evictions
  <1>6. RateTypeOK /\ QuotaSurvives /\ WindowsFit
    BY <1>2, <1>3, <1>4, <1>5 DEF RateTypeOK, QuotaSurvives, WindowsFit, Evictions
  <1>7. RowsFit(table, used, until, after) /\ StonesFit(tombs, until, after)
    BY <1>3, <1>4 DEF RowsFit, StonesFit, KeysOnce
  <1>8. Traced(table, tombs, until, after, RateKeys)
    BY <1>3, <1>4 DEF Traced, LiveIn
  <1>9. Fit(table, tombs, used, until, after, RateKeys)
    BY <1>2, <1>3, <1>4, <1>5, <1>7, <1>8 DEF Fit
  <1> QED BY <1>6, <1>9 DEF RateInv

LEMMA RateStepKeeps ==
  ASSUME RateInv, [RateNext]_rateVars
  PROVE  RateInv' /\ [\A k \in RateKeys : told[k] >= 0 => told'[k] <= told[k]]_rateVars
  <1>1. CASE Tick
    BY <1>1, TickKeeps
  <1>2. CASE \E k \in RateKeys : Hit(k)
    BY <1>2, AnsweredKeeps, ToldTheEnd DEF Hit
  <1>3. CASE \E k \in RateKeys : Peek(k)
    BY <1>3, AnsweredKeeps, ToldTheEnd DEF Peek
  <1>4. CASE UNCHANGED rateVars
    BY <1>4 DEF RateInv, RateTypeOK, QuotaSurvives, WindowsFit, rateVars
  <1> QED BY <1>1, <1>2, <1>3, <1>4 DEF RateNext

(* The inductive invariant of the limiter: a live row or tombstone of a client holds its    *)
(* window, of a client whose window runs there is one unless as many live clients were      *)
(* evicted behind it as tombstones are kept (MemoryBackend._tombstone).                 *)
THEOREM RateInvariant == RateSpec => []RateInv
  <1>1. RateInv /\ [RateNext]_rateVars => RateInv'
    BY RateStepKeeps
  <1> QED BY <1>1, RateInvInit, PTL DEF RateSpec

(* Being evicted gives no fresh quota, for any number of clients and any limits (QuotaSurvives). *)
THEOREM EvictionKeepsQuota == RateSpec => []QuotaSurvives
  <1>1. RateInv => QuotaSurvives
    BY DEF RateInv
  <1> QED BY <1>1, RateInvariant, PTL

(* Waiting as long as one was told is enough (WaitIsEnough): neither refusals nor an eviction   *)
(* or a purge extend the window of a client that waits.                                 *)
THEOREM ToldWaitHolds == RateSpec => WaitIsEnough
  <1>1. RateInv /\ [RateNext]_rateVars => [\A k \in RateKeys : told[k] >= 0 => told'[k] <= told[k]]_rateVars
    BY RateStepKeeps
  <1> QED BY <1>1, RateInvariant, PTL DEF RateSpec, WaitIsEnough

-----------------------------------------------------------------------------
(* The shared counters.                                                         *)

(* The requests that are in a call of their last hit, on the budget.              *)
Begins == {c \in Requests : pos[c] # 0 /\ IsLast(c) /\ phase[c] = "incr"}

Bounds == {c \in Requests : pos[c] # 0 /\ IsLast(c) /\ phase[c] = "pexpire"}

CheckTyped ==
  /\ atomic \in BOOLEAN
  /\ counter \in [CheckKeys -> Nat] /\ expires \in [CheckKeys -> BOOLEAN]
  /\ pos \in [Requests -> Nat] /\ phase \in [Requests -> {"get", "incr", "pexpire"}]
  /\ served \in Nat /\ lost \in Nat
  /\ \A c \in Requests : /\ pos[c] <= Len(Visits[c]) + 2
                         /\ phase[c] # "get" => pos[c] > 1 /\ ~ atomic

(* Whatever was spent from the budget was admitted, lost its answer or is about to get    *)
(* its expiry, which happens once in a window; and whoever will still spend had seen       *)
(* that there was something left.                                                   *)
CheckInv ==
  /\ CheckTyped
  /\ counter[Budget] = served + lost + Cardinality(Bounds)
  /\ expires[Budget] => Bounds = {} /\ counter[Budget] > 0
  /\ \A c, d \in Bounds : c = d
  /\ IF atomic THEN counter[Budget] <= Cap[Budget]
     ELSE counter[Budget] + Cardinality(Begins) <= Cap[Budget] + Cardinality(Requests) - 1

LEMMA CheckFacts ==
  /\ IsFiniteSet(Requests) /\ Cardinality(Requests) \in Nat
  /\ Budget \in CheckKeys /\ Cap[Budget] \in Nat /\ Cap[Budget] >= 1
  /\ \A S \in SUBSET Requests : /\ IsFiniteSet(S) /\ Cardinality(S) \in Nat
                                /\ Cardinality(S) <= Cardinality(Requests)
  /\ \A c \in Requests : Len(Visits[c]) \in Nat
  <1>1. IsFiniteSet(Requests) /\ Cardinality(Requests) \in Nat
    BY CheckAssumption, FS_CardinalityType
  <1>2. Budget \in CheckKeys
    BY DEF CheckKeys
  <1>3. Cap[Budget] \in Nat /\ Cap[Budget] >= 1
    BY <1>2, CheckAssumption
  <1>4. \A S \in SUBSET Requests : /\ IsFiniteSet(S) /\ Cardinality(S) \in Nat
                                   /\ Cardinality(S) <= Cardinality(Requests)
    BY <1>1, FS_Subset, FS_CardinalityType
  <1>5. \A c \in Requests : Len(Visits[c]) \in Nat
    BY CheckAssumption, LenProperties
  <1> QED BY <1>1, <1>2, <1>3, <1>4, <1>5

(* The budget is asked first and spent last, between them are the visitor's own quotas.    *)
LEMMA OrderOfHits ==
  ASSUME NEW c \in Requests, pos[c] \in 1 .. Len(Visits[c]) + 2
  PROVE  /\ Key(c) \in CheckKeys
         /\ Key(c) = Budget <=> pos[c] = 1 \/ IsLast(c)
         /\ IsLast(c) <=> pos[c] = Len(Visits[c]) + 2
         /\ Len(Hits(c)) = Len(Visits[c]) + 2
  <1>. DEFINE v == Visits[c]
              n == Len(v)
              h == Hits(c)
              i == pos[c]
              one == <<Budget>>
              mid == one \o v
  <1>1. v \in Seq(CheckKeys) /\ n \in Nat /\ DOMAIN v = 1 .. n /\ \A j \in DOMAIN v : v[j] # Budget
    BY CheckAssumption, LenProperties
  <1>2. one \in Seq(CheckKeys) /\ Len(one) = 1 /\ one[1] = Budget
    BY CheckFacts
  <1>3. /\ mid \in Seq(CheckKeys) /\ Len(mid) = n + 1
        /\ \A j \in 1 .. n + 1 : mid[j] = IF j <= 1 THEN one[j] ELSE v[j - 1]
    BY <1>1, <1>2, ConcatProperties
  <1>4. /\ h \in Seq(CheckKeys) /\ Len(h) = n + 2
        /\ \A j \in 1 .. n + 2 : h[j] = IF j <= n + 1 THEN mid[j] ELSE one[j - (n + 1)]
    <2>1. h = mid \o one
      BY DEF Hits
    <2>. HIDE DEF mid, one, h
    <2>2. /\ h \in Seq(CheckKeys) /\ Len(h) = Len(mid) + Len(one)
          /\ \A j \in 1 .. Len(mid) + Len(one) : h[j] = IF j <= Len(mid) THEN mid[j] ELSE one[j - Len(mid)]
      BY <2>1, <1>2, <1>3, ConcatProperties
    <2> QED BY <2>2, <1>1, <1>2, <1>3
  <1>. HIDE DEF mid, one, h, n
  <1>5. h[i] \in CheckKeys
    BY <1>1, <1>4, ElementOfSeq DEF n
  <1>6. i \in 1 .. n + 2 /\ n \in Nat
    BY <1>1 DEF n
  <1>7. CASE i = 1
    <2>1. h[i] = one[1]
      BY <1>7, <1>3, <1>4, <1>6
    <2> QED BY <2>1, <1>2, <1>4, <1>5, <1>6, <1>7 DEF Key, IsLast, h, n
  <1>8. CASE i = n + 2
    <2>1. h[i] = one[1]
      BY <1>8, <1>4, <1>6
    <2> QED BY <2>1, <1>2, <1>4, <1>5, <1>6, <1>8 DEF Key, IsLast, h, n
  <1>9. CASE i # 1 /\ i # n + 2
    <2>1. i - 1 \in 1 .. n /\ h[i] = v[i - 1]
      BY <1>9, <1>3, <1>4, <1>6
    <2>2. h[i] # Budget
      BY <2>1, <1>1 DEF n
    <2> QED BY <2>2, <1>4, <1>5, <1>6, <1>9 DEF Key, IsLast, h, n
  <1> QED BY <1>7, <1>8, <1>9

(* A request that leaves a call, or enters one.                                   *)
LEMMA OneLess ==
  ASSUME NEW S \in SUBSET Requests, NEW c \in S
  PROVE  Cardinality(S \ {c}) = Cardinality(S) - 1
  BY CheckFacts, FS_RemoveElement

LEMMA OneMore ==
  ASSUME NEW S \in SUBSET Requests, NEW c \in Requests, c \notin S
  PROVE  Cardinality(S \cup {c}) = Cardinality(S) + 1
  BY CheckFacts, FS_AddElement

LEMMA MoveOf ==
  ASSUME CheckTyped, NEW c \in Requests, NEW p \in Nat, NEW q,
         pos' = [pos EXCEPT ![c] = p], phase' = [phase EXCEPT ![c] = q]
  PROVE  /\ q = "get" \/ q = "pexpire" \/ p # Len(Hits(c)) => Begins' = Begins \ {c}
         /\ q = "get" \/ q = "incr" \/ p # Len(Hits(c)) => Bounds' = Bounds \ {c}
         /\ p # 0 /\ p = Len(Hits(c)) /\ q = "incr" => Begins' = Begins \cup {c}
         /\ p # 0 /\ p = Len(Hits(c)) /\ q = "pexpire" => Bounds' = Bounds \cup {c}
  <1>1. pos'[c] = p /\ phase'[c] = q /\ \A d \in Requests \ {c} : pos'[d] = pos[d] /\ phase'[d] = phase[d]
    BY DEF CheckTyped
  <1>2. \A d \in Requests : /\ d \in Begins' <=> pos'[d] # 0 /\ pos'[d] = Len(Hits(d)) /\ phase'[d] = "incr"
                            /\ d \in Bounds' <=> pos'[d] # 0 /\ pos'[d] = Len(Hits(d)) /\ phase'[d] = "pexpire"
    BY DEF Begins, Bounds, IsLast
  <1>3. \A d \in Requests : /\ d \in Begins <=> pos[d] # 0 /\ pos[d] = Len(Hits(d)) /\ phase[d] = "incr"
                            /\ d \in Bounds <=> pos[d] # 0 /\ pos[d] = Len(Hits(d)) /\ phase[d] = "pexpire"
    BY DEF Begins, Bounds, IsLast
  <1>4. Begins \subseteq Requests /\ Bounds \subseteq Requests /\ Begins' \subseteq Requests /\ Bounds' \subseteq Requests
    BY DEF Begins, Bounds
  <1>5. "get" # "incr" /\ "get" # "pexpire" /\ "incr" # "pexpire"
    OBVIOUS
  <1> QED BY <1>1, <1>2, <1>3, <1>4, <1>5

LEMMA CallLeft ==
  ASSUME CheckTyped, NEW c \in Requests, NEW p \in Nat,
         pos' = [pos EXCEPT ![c] = p], phase' = [phase EXCEPT ![c] = "get"]
  PROVE  Begins' = Begins \ {c} /\ Bounds' = Bounds \ {c}
  <1>. DEFINE q == "get"
  <1>1. phase' = [phase EXCEPT ![c] = q]
    OBVIOUS
  <1>2. q = "get"
    OBVIOUS
  <1>. HIDE DEF q
  <1> QED BY <1>1, <1>2, MoveOf

(* A call that ends ends its hit: the request goes on to the next one or is done.        *)
LEMMA CallEnds ==
  ASSUME CheckTyped, NEW c \in Requests, pos[c] # 0,
         \/ Granted(c)
         \/ \E spent \in BOOLEAN : Dropped(c, spent)
  PROVE  /\ Begins' = Begins \ {c} /\ Bounds' = Bounds \ {c}
         /\ pos' \in [Requests -> Nat] /\ phase' \in [Requests -> {"get", "incr", "pexpire"}]
         /\ \A d \in Requests : /\ pos'[d] <= Len(Visits[d]) + 2
                                /\ phase'[d] # "get" => pos'[d] > 1 /\ ~ atomic
  <1>1. pos[c] \in 1 .. Len(Visits[c]) + 2 /\ Len(Visits[c]) \in Nat
    BY CheckFacts DEF CheckTyped
  <1>2. IsLast(c) <=> pos[c] = Len(Visits[c]) + 2
    BY <1>1, OrderOfHits
  <1>3. \E p \in Nat : p <= Len(Visits[c]) + 2 /\ pos' = [pos EXCEPT ![c] = p]
    <2>0. 0 \in Nat /\ 0 <= Len(Visits[c]) + 2
      BY <1>1
    <2>1. CASE Granted(c) /\ IsLast(c)
      BY <2>0, <2>1 DEF Granted
    <2>2. CASE Granted(c) /\ ~ IsLast(c)
      <3>1. pos[c] + 1 \in Nat /\ pos[c] + 1 <= Len(Visits[c]) + 2
        BY <2>2, <1>1, <1>2
      <3>2. pos' = [pos EXCEPT ![c] = pos[c] + 1]
        BY <2>2 DEF Granted
      <3> QED BY <3>1, <3>2
    <2>3. CASE \E spent \in BOOLEAN : Dropped(c, spent)
      <3>1. pos' = [pos EXCEPT ![c] = 0]
        BY <2>3 DEF Dropped
      <3> QED BY <2>0, <3>1
    <2> QED BY <2>1, <2>2, <2>3
  <1>4. phase' = [phase EXCEPT ![c] = "get"]
    BY DEF Granted, Dropped
  <1>5. PICK p \in Nat : p <= Len(Visits[c]) + 2 /\ pos' = [pos EXCEPT ![c] = p]
    BY <1>3
  <1>6. Begins' = Begins \ {c} /\ Bounds' = Bounds \ {c}
    BY <1>4, <1>5, CallLeft
  <1>7. pos' \in [Requests -> Nat] /\ phase' \in [Requests -> {"get", "incr", "pexpire"}]
    BY <1>4, <1>5 DEF CheckTyped
  <1>8. \A d \in Requests : /\ pos'[d] <= Len(Visits[d]) + 2
                            /\ phase'[d] # "get" => pos'[d] > 1 /\ ~ atomic
    <2>1. ASSUME NEW d \in Requests
          PROVE  /\ pos'[d] <= Len(Visits[d]) + 2
                 /\ phase'[d] # "get" => pos'[d] > 1 /\ ~ atomic
      <3>1. CASE d = c
        BY <3>1, <1>4, <1>5 DEF CheckTyped
      <3>2. CASE d # c
        BY <3>2, <1>4, <1>5 DEF CheckTyped
      <3> QED BY <3>1, <3>2
    <2> QED BY <2>1
  <1> QED BY <1>6, <1>7, <1>8

LEMMA HitIsSpent ==
  ASSUME CheckTyped, NEW c \in Requests, Granted(c) \/ Dropped(c, TRUE)
  PROVE  /\ served' \in Nat /\ lost' \in Nat
         /\ IsLast(c) => served' + lost' = served + lost + 1
         /\ ~ IsLast(c) => served' + lost' = served + lost
  <1>0. served \in Nat /\ lost \in Nat
    BY DEF CheckTyped
  <1>1. CASE Granted(c) /\ IsLast(c)
    <2>1. served' = served + 1 /\ lost' = lost
      BY <1>1 DEF Granted
    <2> QED BY <2>1, <1>0, <1>1
  <1>2. CASE Dropped(c, TRUE) /\ IsLast(c)
    <2>1. served' = served /\ lost' = lost + 1
      BY <1>2 DEF Dropped
    <2> QED BY <2>1, <1>0, <1>2
  <1>3. CASE ~ IsLast(c)
    <2>1. served' = served /\ lost' = lost
      BY <1>3 DEF Granted, Dropped
    <2> QED BY <2>1, <1>0, <1>3
  <1> QED BY <1>1, <1>2, <1>3

(* Which calls a request is in.                                               *)
LEMMA CallsOf ==
  ASSUME CheckTyped, NEW c \in Requests, pos[c] # 0
  PROVE  /\ pos[c] \in 1 .. Len(Visits[c]) + 2
         /\ c \in Begins <=> IsLast(c) /\ phase[c] = "incr"
         /\ c \in Bounds <=> IsLast(c) /\ phase[c] = "pexpire"
         /\ Begins \in SUBSET Requests /\ Bounds \in SUBSET Requests
         /\ Cardinality(Begins) \in Nat /\ Cardinality(Bounds) \in Nat
         /\ Key(c) \in CheckKeys /\ (Spends(c) => (Key(c) = Budget <=> IsLast(c)))
         /\ IsLast(c) => Spends(c)
         /\ phase[c] # "get" => Spends(c) /\ ~ atomic
  <1>1. pos[c] \in 1 .. Len(Visits[c]) + 2 /\ Len(Visits[c]) \in Nat
    BY CheckFacts DEF CheckTyped
  <1>2. Begins \in SUBSET Requests /\ Bounds \in SUBSET Requests
    BY DEF Begins, Bounds
  <1>3. Cardinality(Begins) \in Nat /\ Cardinality(Bounds) \in Nat
    BY <1>2, CheckFacts
  <1>4. /\ Key(c) \in CheckKeys /\ Key(c) = Budget <=> pos[c] = 1 \/ IsLast(c)
        /\ IsLast(c) <=> pos[c] = Len(Visits[c]) + 2
    BY <1>1, OrderOfHits
  <1>5. Spends(c) <=> pos[c] > 1
    BY DEF Spends
  <1>6. phase[c] # "get" => pos[c] > 1 /\ ~ atomic
    BY DEF CheckTyped
  <1>7. Key(c) \in CheckKeys
    BY <1>1, OrderOfHits
  <1> QED BY <1>1, <1>2, <1>3, <1>4, <1>5, <1>6, <1>7 DEF Begins, Bounds

LEMMA BeginKeeps ==
  ASSUME CheckInv, NEW c \in Requests, Begin(c)
  PROVE  CheckInv'
  <1>0. CheckTyped /\ Len(Visits[c]) \in Nat
    BY CheckFacts DEF CheckInv
  <1>1. /\ pos' = [pos EXCEPT ![c] = 1] /\ phase' = [phase EXCEPT ![c] = "get"]
        /\ UNCHANGED <<atomic, counter, expires, served, lost>> /\ c \notin Begins /\ c \notin Bounds
    <2>1. phase[c] = "get"
      BY <1>0 DEF Begin, CheckTyped
    <2> QED BY <2>1, <1>0 DEF Begin, CheckTyped, Begins, Bounds
  <1>2. Begins' = Begins /\ Bounds' = Bounds
    <2>1. 0 \in Nat /\ 1 \in Nat
      OBVIOUS
    <2>2. Begins' = Begins \ {c} /\ Bounds' = Bounds \ {c}
      BY <2>1, <1>0, <1>1, CallLeft
    <2> QED BY <2>2, <1>1
  <1>3. CheckTyped'
    BY <1>0, <1>1 DEF CheckTyped
  <1> QED BY <1>1, <1>2, <1>3 DEF CheckInv

LEMMA RefuseKeeps ==
  ASSUME CheckInv, NEW c \in Requests, Refuse(c)
  PROVE  CheckInv'
  <1>0. CheckTyped /\ Len(Visits[c]) \in Nat
    BY CheckFacts DEF CheckInv
  <1>1. /\ pos' = [pos EXCEPT ![c] = 0] /\ phase' = [phase EXCEPT ![c] = "get"]
        /\ UNCHANGED <<atomic, counter, expires, served, lost>> /\ c \notin Begins /\ c \notin Bounds
    BY <1>0 DEF Refuse, CheckTyped, Begins, Bounds
  <1>2. Begins' = Begins /\ Bounds' = Bounds
    <2>1. 0 \in Nat /\ 1 \in Nat
      OBVIOUS
    <2>2. Begins' = Begins \ {c} /\ Bounds' = Bounds \ {c}
      BY <2>1, <1>0, <1>1, CallLeft
    <2> QED BY <2>2, <1>1
  <1>3. CheckTyped'
    BY <1>0, <1>1 DEF CheckTyped
  <1> QED BY <1>1, <1>2, <1>3 DEF CheckInv

LEMMA ScriptKeeps ==
  ASSUME CheckInv, NEW c \in Requests, Script(c)
  PROVE  CheckInv'
  <1>. DEFINE n == counter[Budget]
  <1>0. CheckTyped /\ pos[c] # 0 /\ atomic /\ n \in Nat /\ n <= Cap[Budget]
        /\ n = served + lost + Cardinality(Bounds)
    BY CheckFacts DEF CheckInv, Script, CheckTyped
  <1>1. Begins = {} /\ Bounds = {}
    BY <1>0 DEF CheckTyped, Begins, Bounds
  <1>2. /\ Begins' = {} /\ Bounds' = {} /\ atomic' = atomic
        /\ pos' \in [Requests -> Nat] /\ phase' \in [Requests -> {"get", "incr", "pexpire"}]
        /\ \A d \in Requests : /\ pos'[d] <= Len(Visits[d]) + 2
                               /\ phase'[d] # "get" => pos'[d] > 1 /\ ~ atomic
    <2>1. Spends(c) \in BOOLEAN
      BY DEF Spends
    <2> QED BY <2>1, <1>0, <1>1, CallEnds DEF Script
  <1>3. /\ Key(c) \in CheckKeys /\ (Spends(c) => (Key(c) = Budget <=> IsLast(c)))
        /\ IsLast(c) => Spends(c)
    BY <1>0, CallsOf
  <1>4. IF Spends(c)
        THEN /\ counter' = [counter EXCEPT ![Key(c)] = @ + 1]
             /\ expires' = [expires EXCEPT ![Key(c)] = @ \/ counter[Key(c)] = 0]
        ELSE UNCHANGED <<counter, expires>>
    BY DEF Script
  <1>5. counter' \in [CheckKeys -> Nat] /\ expires' \in [CheckKeys -> BOOLEAN]
    <2>1. CASE Spends(c)
      <3>1. counter' = [counter EXCEPT ![Key(c)] = @ + 1] /\ counter' \in [CheckKeys -> Nat]
        BY <2>1, <1>0, <1>3, <1>4 DEF CheckTyped
      <3>2. expires' \in [CheckKeys -> BOOLEAN]
        <4>. DEFINE b == expires[Key(c)] \/ counter[Key(c)] = 0
        <4>1. expires' = [expires EXCEPT ![Key(c)] = b] /\ b \in BOOLEAN
          BY <2>1, <1>4
        <4>. HIDE DEF b
        <4> QED BY <4>1, <1>0, <1>3 DEF CheckTyped
      <3> QED BY <3>1, <3>2
    <2>2. CASE ~ Spends(c)
      BY <2>2, <1>0, <1>4 DEF CheckTyped
    <2> QED BY <2>1, <2>2
  <1>6. /\ counter'[Budget] = IF IsLast(c) THEN n + 1 ELSE n
        /\ expires'[Budget] => counter'[Budget] > 0
    <2>1. Budget \in CheckKeys /\ counter \in [CheckKeys -> Nat] /\ expires \in [CheckKeys -> BOOLEAN]
      BY <1>0, CheckFacts DEF CheckTyped
    <2>2. expires[Budget] => n > 0
      BY DEF CheckInv
    <2>3. CASE IsLast(c)
      BY <2>1, <2>2, <2>3, <1>3, <1>4
    <2>4. CASE ~ IsLast(c)
      BY <2>1, <2>2, <2>4, <1>3, <1>4
    <2> QED BY <2>3, <2>4
  <1>7. served' \in Nat /\ lost' \in Nat /\ served' + lost' = IF IsLast(c) THEN served + lost + 1 ELSE served + lost
    BY <1>0, <1>3 DEF Script, Granted, Dropped, CheckTyped
  <1>8. IsLast(c) => n < Cap[Budget]
    <2>1. ~ Over(c)
      BY DEF Script
    <2> QED BY <2>1, <1>0, <1>3, CheckFacts DEF Over
  <1>9. CheckTyped'
    BY <1>0, <1>2, <1>5, <1>7 DEF CheckTyped
  <1>10. Cardinality({}) = 0
    BY FS_EmptySet
  <1>11. counter'[Budget] = served' + lost' + Cardinality(Bounds')
    <2>1. served \in Nat /\ lost \in Nat /\ n = served + lost
      BY <1>0, <1>1, <1>10 DEF CheckTyped
    <2>2. Cardinality(Bounds') = 0
      BY <1>2, <1>10
    <2>. DEFINE m == Cardinality(Bounds')
    <2>. HIDE DEF n, m
    <2>3. served' \in Nat /\ lost' \in Nat /\ counter'[Budget] = served' + lost'
      <3>1. CASE IsLast(c)
        <4>1. counter'[Budget] = n + 1 /\ served' + lost' = served + lost + 1
          BY <3>1, <1>6, <1>7
        <4> QED BY <4>1, <2>1, <1>7
      <3>2. CASE ~ IsLast(c)
        <4>1. counter'[Budget] = n /\ served' + lost' = served + lost
          BY <3>2, <1>6, <1>7
        <4> QED BY <4>1, <2>1, <1>7
      <3> QED BY <3>1, <3>2
    <2>4. m = 0
      BY <2>2 DEF m
    <2>5. counter'[Budget] = served' + lost' + m
      BY <2>3, <2>4
    <2> QED BY <2>5 DEF m
  <1>12. counter'[Budget] <= Cap[Budget]
    BY <1>0, <1>6, <1>8, CheckFacts
  <1> QED BY <1>0, <1>2, <1>6, <1>9, <1>11, <1>12 DEF CheckInv

(* What of the invariant is left to show for a step without scripts.                  *)
LEMMA StillShared ==
  ASSUME CheckInv, ~ atomic, atomic' = atomic, CheckTyped',
         counter'[Budget] = served' + lost' + Cardinality(Bounds'),
         expires'[Budget] => Bounds' = {} /\ counter'[Budget] > 0,
         \A c, d \in Bounds' : c = d,
         counter'[Budget] + Cardinality(Begins') <= Cap[Budget] + Cardinality(Requests) - 1
  PROVE  CheckInv'
  BY DEF CheckInv

(* A step of a request that is not at its last hit leaves the budget alone.           *)
LEMMA BudgetUntouched ==
  ASSUME CheckInv, ~ atomic, atomic' = atomic, CheckTyped',
         counter'[Budget] = counter[Budget], expires'[Budget] = expires[Budget],
         served' = served, lost' = lost, Bounds' = Bounds, Begins' \in SUBSET Begins
  PROVE  CheckInv'
  <1>1. Begins \in SUBSET Requests /\ Begins' \in SUBSET Requests
    BY DEF Begins
  <1>2. /\ Cardinality(Begins) \in Nat /\ Cardinality(Begins') \in Nat /\ Cardinality(Requests) \in Nat
        /\ Cardinality(Begins') <= Cardinality(Begins) /\ Cap[Budget] \in Nat /\ counter[Budget] \in Nat
    BY <1>1, CheckFacts, FS_Subset DEF CheckInv, CheckTyped
  <1>. DEFINE b == Cardinality(Begins)
              b2 == Cardinality(Begins')
              r == Cardinality(Requests)
              n == counter[Budget]
              k == Cap[Budget]
  <1>3. n + b <= k + r - 1
    BY DEF CheckInv
  <1>. HIDE DEF b, b2, r, n, k
  <1>4. n + b2 <= k + r - 1
    BY <1>2, <1>3 DEF b, b2, r, n, k
  <1>5. counter'[Budget] + Cardinality(Begins') <= Cap[Budget] + Cardinality(Requests) - 1
    BY <1>4 DEF b2, r, n, k
  <1> QED BY <1>5, StillShared DEF CheckInv

LEMMA SpentIsCounted ==
  /\ CheckTyped => served + lost \in Nat
  /\ CheckTyped' => served' + lost' \in Nat
  BY DEF CheckTyped

(* A request that was at its last hit and is done with it.                            *)
LEMMA LastHitEnds ==
  ASSUME CheckInv, ~ atomic, atomic' = atomic, CheckTyped', NEW c \in Requests,
         Begins' = Begins \ {c}, Bounds' = Bounds \ {c},
         IF c \in Bounds
         THEN /\ counter'[Budget] = counter[Budget]
              /\ served' + lost' = served + lost + 1
         ELSE IF c \in Begins
         THEN \/ /\ counter'[Budget] = counter[Budget] + 1
                 /\ served' + lost' = served + lost + 1 /\ expires'[Budget] = expires[Budget]
              \/ /\ counter'[Budget] = counter[Budget]
                 /\ served' + lost' = served + lost /\ expires'[Budget] = expires[Budget]
         ELSE /\ counter'[Budget] = counter[Budget]
              /\ served' + lost' = served + lost /\ expires'[Budget] = expires[Budget]
  PROVE  CheckInv'
  <1>1. Begins \in SUBSET Requests /\ Bounds \in SUBSET Requests
    BY DEF Begins, Bounds
  <1>. DEFINE b == Cardinality(Begins)
              b2 == Cardinality(Begins')
              m == Cardinality(Bounds)
              m2 == Cardinality(Bounds')
              r == Cardinality(Requests)
              n == counter[Budget]
              n2 == counter'[Budget]
              k == Cap[Budget]
              spent == served + lost
              spent2 == served' + lost'
  <1>2. /\ b \in Nat /\ b2 \in Nat /\ m \in Nat /\ m2 \in Nat /\ r \in Nat /\ k \in Nat
        /\ n \in Nat /\ n2 \in Nat
        /\ c \in Begins => b2 = b - 1
        /\ c \notin Begins => b2 = b
        /\ c \in Bounds => m2 = m - 1
        /\ c \notin Bounds => m2 = m
    <2>1. Begins' \in SUBSET Requests /\ Bounds' \in SUBSET Requests
      BY <1>1
    <2>2. b \in Nat /\ b2 \in Nat /\ m \in Nat /\ m2 \in Nat
      BY <1>1, <2>1, CheckFacts
    <2>3. r \in Nat /\ k \in Nat /\ n \in Nat /\ n2 \in Nat
      BY CheckFacts DEF CheckInv, CheckTyped
    <2>4. (c \in Begins => b2 = b - 1) /\ (c \in Bounds => m2 = m - 1)
      BY <1>1, OneLess
    <2>5. (c \notin Begins => Begins' = Begins) /\ (c \notin Bounds => Bounds' = Bounds)
      OBVIOUS
    <2> QED BY <2>2, <2>3, <2>4, <2>5
  <1>3. spent \in Nat /\ spent2 \in Nat
    BY SpentIsCounted DEF CheckInv
  <1>4. /\ n = spent + m /\ n + b <= k + r - 1
        /\ expires[Budget] => Bounds = {} /\ n > 0
        /\ \A d, e \in Bounds : d = e
    BY DEF CheckInv
  <1>5. \A d, e \in Bounds' : d = e
    BY <1>4
  <1>6. c \in Bounds => c \notin Begins /\ Bounds' = {}
    <2>1. c \in Bounds => c \notin Begins
      <3>1. "incr" # "pexpire"
        OBVIOUS
      <3> QED BY <3>1 DEF Begins, Bounds
    <2> QED BY <2>1, <1>4
  <1>7. /\ c \in Bounds => n2 = n /\ spent2 = spent + 1
        /\ c \notin Bounds =>
             /\ expires'[Budget] = expires[Budget]
             /\ \/ c \in Begins /\ n2 = n + 1 /\ spent2 = spent + 1
                \/ n2 = n /\ spent2 = spent
    OBVIOUS
  <1>8. Bounds = {} => Bounds' = {}
    OBVIOUS
  <1>. HIDE DEF b, b2, m, m2, r, n, n2, k, spent, spent2
  <1>9. n2 = spent2 + m2 /\ n2 + b2 <= k + r - 1
    <2>1. CASE c \in Bounds
      BY <2>1, <1>2, <1>3, <1>4, <1>6, <1>7
    <2>2. CASE c \notin Bounds /\ c \in Begins
      BY <2>2, <1>2, <1>3, <1>4, <1>7
    <2>3. CASE c \notin Bounds /\ c \notin Begins
      BY <2>3, <1>2, <1>3, <1>4, <1>7
    <2> QED BY <2>1, <2>2, <2>3
  <1>10. expires'[Budget] => Bounds' = {} /\ n2 > 0
    <2>1. CASE c \in Bounds
      BY <2>1, <1>2, <1>3, <1>4, <1>6, <1>7
    <2>2. CASE c \notin Bounds
      <3>1. n > 0 => n2 > 0
        BY <2>2, <1>2, <1>7
      <3>2. expires'[Budget] = expires[Budget]
        BY <2>2, <1>7
      <3> QED BY <3>1, <3>2, <1>4, <1>8
    <2> QED BY <2>1, <2>2
  <1> QED BY <1>5, <1>9, <1>10, StillShared DEF n2, spent2, m2, b2, k, r

LEMMA GetKeeps ==
  ASSUME CheckInv, NEW c \in Requests, Get(c)
  PROVE  CheckInv'
  <1>0. /\ CheckTyped /\ ~ atomic /\ atomic' = atomic /\ pos[c] # 0 /\ phase[c] = "get"
        /\ counter' = counter /\ expires' = expires
    BY DEF CheckInv, Get
  <1>1. /\ pos[c] \in 1 .. Len(Visits[c]) + 2 /\ c \notin Begins /\ c \notin Bounds
        /\ IsLast(c) => Spends(c)
        /\ (Spends(c) => (Key(c) = Budget <=> IsLast(c)))
    <2>1. "get" # "incr" /\ "get" # "pexpire"
      OBVIOUS
    <2> QED BY <2>1, <1>0, CallsOf
  <1>2. CASE Spends(c)
    <2>1. /\ pos' = [pos EXCEPT ![c] = pos[c]] /\ phase' = [phase EXCEPT ![c] = "incr"]
          /\ served' = served /\ lost' = lost
      BY <1>0, <1>2 DEF Get, CheckTyped
    <2>2. CheckTyped'
      <3>1. phase' \in [Requests -> {"get", "incr", "pexpire"}] /\ pos' = pos
        BY <1>0, <2>1 DEF CheckTyped
      <3>2. pos[c] > 1
        BY <1>2 DEF Spends
      <3>3. \A d \in Requests : phase'[d] # "get" => pos[d] > 1 /\ ~ atomic
        BY <1>0, <2>1, <3>2 DEF CheckTyped
      <3> QED BY <1>0, <2>1, <3>1, <3>3 DEF CheckTyped
    <2>3. Bounds' = Bounds /\ Begins' = IF IsLast(c) THEN Begins \cup {c} ELSE Begins
      <3>. DEFINE q == "incr"
                  p == pos[c]
      <3>1. phase' = [phase EXCEPT ![c] = q] /\ q = "incr" /\ pos' = [pos EXCEPT ![c] = p] /\ p \in Nat /\ p # 0
        BY <2>1, <1>1
      <3>2. IsLast(c) <=> p = Len(Hits(c))
        BY DEF IsLast
      <3>. HIDE DEF q, p
      <3>3. /\ Bounds' = Bounds \ {c}
            /\ p # Len(Hits(c)) => Begins' = Begins \ {c}
            /\ p = Len(Hits(c)) => Begins' = Begins \cup {c}
        BY <3>1, <1>0, MoveOf
      <3> QED BY <3>2, <3>3, <1>1
    <2>4. CASE ~ IsLast(c)
      BY <2>1, <2>2, <2>3, <2>4, <1>0, BudgetUntouched
    <2>5. CASE IsLast(c)
      <3>. DEFINE n == counter[Budget]
                  k == Cap[Budget]
                  b2 == Cardinality(Begins')
                  r == Cardinality(Requests)
      <3>1. n < k /\ n \in Nat /\ k \in Nat
        BY <2>5, <1>0, <1>1, CheckFacts DEF Get, Over, CheckTyped
      <3>2. b2 \in Nat /\ r \in Nat /\ b2 <= r
        <4>1. Begins' \in SUBSET Requests
          BY DEF Begins
        <4> QED BY <4>1, CheckFacts
      <3>. HIDE DEF n, k, b2, r
      <3>3. n + b2 <= k + r - 1
        BY <3>1, <3>2
      <3>4. counter'[Budget] + Cardinality(Begins') <= Cap[Budget] + Cardinality(Requests) - 1
        BY <3>3, <1>0 DEF n, k, b2, r
      <3> QED BY <3>4, <2>1, <2>2, <2>3, <1>0, StillShared DEF CheckInv
    <2> QED BY <2>4, <2>5
  <1>3. CASE ~ Spends(c)
    <2>1. Granted(c) /\ ~ IsLast(c)
      BY <1>1, <1>3 DEF Get
    <2>2. /\ Begins' = Begins \ {c} /\ Bounds' = Bounds \ {c}
          /\ pos' \in [Requests -> Nat] /\ phase' \in [Requests -> {"get", "incr", "pexpire"}]
          /\ \A d \in Requests : /\ pos'[d] <= Len(Visits[d]) + 2
                                 /\ phase'[d] # "get" => pos'[d] > 1 /\ ~ atomic
      BY <2>1, <1>0, CallEnds
    <2>3. served' = served /\ lost' = lost
      BY <2>1 DEF Granted
    <2>4. CheckTyped'
      BY <2>2, <2>3, <1>0 DEF CheckTyped
    <2> QED BY <2>2, <2>3, <2>4, <1>0, <1>1, BudgetUntouched
  <1> QED BY <1>2, <1>3

LEMMA IncrKeeps ==
  ASSUME CheckInv, NEW c \in Requests, Incr(c)
  PROVE  CheckInv'
  <1>0. /\ CheckTyped /\ atomic' = atomic /\ pos[c] # 0 /\ phase[c] = "incr" /\ expires' = expires
        /\ counter' = [counter EXCEPT ![Key(c)] = @ + 1]
    BY DEF CheckInv, Incr
  <1>1. /\ pos[c] \in 1 .. Len(Visits[c]) + 2 /\ (c \in Begins <=> IsLast(c)) /\ c \notin Bounds
        /\ Spends(c) /\ ~ atomic /\ Key(c) \in CheckKeys /\ (Key(c) = Budget <=> IsLast(c))
    <2>1. "get" # "incr" /\ "incr" # "pexpire"
      OBVIOUS
    <2> QED BY <2>1, <1>0, CallsOf
  <1>2. /\ counter' \in [CheckKeys -> Nat] /\ expires' \in [CheckKeys -> BOOLEAN]
        /\ counter'[Budget] = IF IsLast(c) THEN counter[Budget] + 1 ELSE counter[Budget]
    BY <1>0, <1>1, CheckFacts DEF CheckTyped
  <1>3. CASE counter[Key(c)] = 0 /\ phase' = [phase EXCEPT ![c] = "pexpire"]
             /\ UNCHANGED <<pos, served, lost>>
    <2>1. pos' = [pos EXCEPT ![c] = pos[c]]
      BY <1>3, <1>0 DEF CheckTyped
    <2>2. CheckTyped'
      <3>1. phase' \in [Requests -> {"get", "incr", "pexpire"}]
        BY <1>3, <1>0 DEF CheckTyped
      <3>2. pos[c] > 1
        BY <1>1 DEF Spends
      <3>3. \A d \in Requests : phase'[d] # "get" => pos[d] > 1 /\ ~ atomic
        BY <1>0, <1>1, <1>3, <3>2 DEF CheckTyped
      <3> QED BY <1>0, <1>2, <1>3, <3>1, <3>3 DEF CheckTyped
    <2>3. Begins' = Begins \ {c} /\ Bounds' = IF IsLast(c) THEN Bounds \cup {c} ELSE Bounds
      <3>. DEFINE q == "pexpire"
                  p == pos[c]
      <3>1. phase' = [phase EXCEPT ![c] = q] /\ q = "pexpire" /\ pos' = [pos EXCEPT ![c] = p] /\ p \in Nat /\ p # 0
        BY <2>1, <1>1, <1>3
      <3>2. IsLast(c) <=> p = Len(Hits(c))
        BY DEF IsLast
      <3>. HIDE DEF q, p
      <3>3. /\ Begins' = Begins \ {c}
            /\ p # Len(Hits(c)) => Bounds' = Bounds \ {c}
            /\ p = Len(Hits(c)) => Bounds' = Bounds \cup {c}
        BY <3>1, <1>0, MoveOf
      <3> QED BY <3>2, <3>3, <1>1
    <2>4. CASE ~ IsLast(c)
      BY <2>2, <2>3, <2>4, <1>0, <1>1, <1>2, <1>3, BudgetUntouched
    <2>5. CASE IsLast(c)
      <3>1. counter[Budget] = 0 /\ counter'[Budget] = 1 /\ ~ expires[Budget]
        BY <2>5, <1>1, <1>2, <1>3 DEF CheckInv
      <3>2. Cardinality(Bounds) = 0 /\ served = 0 /\ lost = 0
        <4>. DEFINE m == Cardinality(Bounds)
        <4>1. m \in Nat
          BY <1>0, CallsOf
        <4>2. 0 = served + lost + m /\ served \in Nat /\ lost \in Nat
          BY <3>1, <1>0 DEF CheckInv, CheckTyped
        <4>. HIDE DEF m
        <4>3. m = 0 /\ served = 0 /\ lost = 0
          BY <4>1, <4>2
        <4> QED BY <4>3 DEF m
      <3>3. Bounds = {}
        <4>1. IsFiniteSet(Bounds)
          BY CheckFacts DEF Bounds
        <4> QED BY <4>1, <3>2, FS_EmptySet
      <3>4. Bounds' = {c} /\ Cardinality(Bounds') = 1
        <4>1. Bounds' = {c}
          BY <2>3, <2>5, <3>3
        <4> QED BY <4>1, FS_Singleton
      <3>5. counter'[Budget] = served' + lost' + Cardinality(Bounds')
        BY <3>1, <3>2, <3>4, <1>3
      <3>6. counter'[Budget] + Cardinality(Begins') <= Cap[Budget] + Cardinality(Requests) - 1
        <4>. DEFINE b == Cardinality(Begins)
                    b2 == Cardinality(Begins')
                    k == Cap[Budget]
                    r == Cardinality(Requests)
        <4>1. b2 = b - 1 /\ b \in Nat
          BY <2>3, <2>5, <1>0, <1>1, CallsOf, OneLess
        <4>2. 0 + b <= k + r - 1 /\ k \in Nat /\ r \in Nat
          BY <3>1, <1>1, CheckFacts DEF CheckInv
        <4>. HIDE DEF b, b2, k, r
        <4>3. 1 + b2 <= k + r - 1
          BY <4>1, <4>2
        <4> QED BY <4>3, <3>1 DEF b2, k, r
      <3>7. ~ expires'[Budget] /\ \A d, e \in Bounds' : d = e
        BY <3>1, <3>4, <1>0
      <3> QED BY <3>5, <3>6, <3>7, <2>2, <1>0, <1>1, StillShared
    <2> QED BY <2>4, <2>5
  <1>4. CASE Granted(c) \/ Dropped(c, TRUE)
    <2>1. /\ Begins' = Begins \ {c} /\ Bounds' = Bounds \ {c}
          /\ pos' \in [Requests -> Nat] /\ phase' \in [Requests -> {"get", "incr", "pexpire"}]
          /\ \A d \in Requests : /\ pos'[d] <= Len(Visits[d]) + 2
                                 /\ phase'[d] # "get" => pos'[d] > 1 /\ ~ atomic
      BY <1>0, <1>4, CallEnds
    <2>2. /\ served' \in Nat /\ lost' \in Nat
          /\ served' + lost' = IF IsLast(c) THEN served + lost + 1 ELSE served + lost
      BY <1>0, <1>4, HitIsSpent
    <2>3. CheckTyped'
      BY <2>1, <2>2, <1>0, <1>2 DEF CheckTyped
    <2>4. IF c \in Begins
          THEN counter'[Budget] = counter[Budget] + 1 /\ served' + lost' = served + lost + 1
          ELSE counter'[Budget] = counter[Budget] /\ served' + lost' = served + lost
      BY <2>2, <1>1, <1>2
    <2> QED BY <2>1, <2>3, <2>4, <1>0, <1>1, LastHitEnds
  <1> QED BY <1>3, <1>4 DEF Incr

LEMMA PExpireKeeps ==
  ASSUME CheckInv, NEW c \in Requests, PExpire(c)
  PROVE  CheckInv'
  <1>0. /\ CheckTyped /\ atomic' = atomic /\ pos[c] # 0 /\ phase[c] = "pexpire" /\ counter' = counter
        /\ expires' = [expires EXCEPT ![Key(c)] = TRUE]
        /\ (Granted(c) \/ Dropped(c, TRUE))
    BY DEF CheckInv, PExpire
  <1>1. /\ pos[c] \in 1 .. Len(Visits[c]) + 2 /\ c \notin Begins /\ (c \in Bounds <=> IsLast(c))
        /\ ~ atomic /\ Key(c) \in CheckKeys /\ (Key(c) = Budget <=> IsLast(c))
    <2>1. "get" # "pexpire" /\ "incr" # "pexpire"
      OBVIOUS
    <2> QED BY <2>1, <1>0, CallsOf
  <1>2. expires' \in [CheckKeys -> BOOLEAN] /\ (~ IsLast(c) => expires'[Budget] = expires[Budget])
    BY <1>0, <1>1, CheckFacts DEF CheckTyped
  <1>3. /\ Begins' = Begins \ {c} /\ Bounds' = Bounds \ {c}
        /\ pos' \in [Requests -> Nat] /\ phase' \in [Requests -> {"get", "incr", "pexpire"}]
        /\ \A d \in Requests : /\ pos'[d] <= Len(Visits[d]) + 2
                               /\ phase'[d] # "get" => pos'[d] > 1 /\ ~ atomic
    BY <1>0, CallEnds
  <1>4. /\ served' \in Nat /\ lost' \in Nat
        /\ served' + lost' = IF IsLast(c) THEN served + lost + 1 ELSE served + lost
    BY <1>0, HitIsSpent
  <1>5. CheckTyped'
    BY <1>0, <1>2, <1>3, <1>4 DEF CheckTyped
  <1>6. IF c \in Bounds THEN served' + lost' = served + lost + 1
        ELSE served' + lost' = served + lost /\ expires'[Budget] = expires[Budget]
    BY <1>1, <1>2, <1>4
  <1> QED BY <1>0, <1>1, <1>3, <1>5, <1>6, LastHitEnds

LEMMA CheckFailsKeeps ==
  ASSUME CheckInv, NEW c \in Requests, CheckFails(c)
  PROVE  CheckInv'
  <1>. DEFINE spent == phase[c] = "pexpire"
  <1>0. /\ CheckTyped /\ UNCHANGED <<atomic, counter, expires>> /\ pos[c] # 0
        /\ Dropped(c, spent) /\ spent \in BOOLEAN
    BY DEF CheckInv, CheckFails
  <1>1. /\ c \in Bounds <=> IsLast(c) /\ spent
        /\ c \in Begins => ~ (c \in Bounds)
    <2>1. "incr" # "pexpire"
      OBVIOUS
    <2> QED BY <2>1, <1>0, CallsOf
  <1>2. /\ Begins' = Begins \ {c} /\ Bounds' = Bounds \ {c}
        /\ pos' \in [Requests -> Nat] /\ phase' \in [Requests -> {"get", "incr", "pexpire"}]
        /\ \A d \in Requests : /\ pos'[d] <= Len(Visits[d]) + 2
                               /\ phase'[d] # "get" => pos'[d] > 1 /\ ~ atomic
    <2>1. \E x \in BOOLEAN : Dropped(c, x)
      BY <1>0
    <2>. HIDE DEF spent
    <2> QED BY <2>1, <1>0, CallEnds
  <1>3. /\ served' \in Nat /\ lost' \in Nat
        /\ served' + lost' = IF c \in Bounds THEN served + lost + 1 ELSE served + lost
    <2>1. served' = served /\ lost' = IF c \in Bounds THEN lost + 1 ELSE lost
      BY <1>0, <1>1 DEF Dropped
    <2>2. served \in Nat /\ lost \in Nat
      BY <1>0 DEF CheckTyped
    <2> QED BY <2>1, <2>2
  <1>. HIDE DEF spent
  <1>4. CheckTyped'
    BY <1>0, <1>2, <1>3 DEF CheckTyped
  <1>5. CASE ~ atomic
    BY <1>0, <1>1, <1>2, <1>3, <1>4, <1>5, LastHitEnds
  <1>6. CASE atomic
    <2>1. Bounds = {} /\ Begins = {}
      BY <1>0, <1>6 DEF CheckTyped, Bounds, Begins
    <2>2. Bounds' = {} /\ Begins' = {} /\ served' + lost' = served + lost
      BY <2>1, <1>2, <1>3
    <2> QED BY <2>1, <2>2, <1>0, <1>4, <1>6 DEF CheckInv
  <1> QED BY <1>5, <1>6

LEMMA ExpireKeeps ==
  ASSUME CheckInv, NEW k \in CheckKeys, Expire(k)
  PROVE  CheckInv'
  <1>0. /\ CheckTyped /\ UNCHANGED <<atomic, pos, phase>> /\ expires[k]
        /\ counter' = [counter EXCEPT ![k] = 0] /\ expires' = [expires EXCEPT ![k] = FALSE]
        /\ IF k = Budget THEN served' = 0 /\ lost' = 0 ELSE UNCHANGED <<served, lost>>
    BY DEF CheckInv, Expire
  <1>1. Begins' = Begins /\ Bounds' = Bounds
    BY <1>0 DEF Begins, Bounds, IsLast
  <1>2. CheckTyped'
    BY <1>0 DEF CheckTyped
  <1>3. CASE k # Budget
    <2>1. counter'[Budget] = counter[Budget] /\ expires'[Budget] = expires[Budget]
      BY <1>0, <1>3, CheckFacts DEF CheckTyped
    <2> QED BY <2>1, <1>0, <1>1, <1>2, <1>3 DEF CheckInv
  <1>4. CASE k = Budget
    <2>1. counter'[Budget] = 0 /\ ~ expires'[Budget] /\ served' = 0 /\ lost' = 0
      BY <1>0, <1>4, CheckFacts DEF CheckTyped
    <2>2. Bounds' = {}
      BY <1>0, <1>1, <1>4 DEF CheckInv
    <2>3. Cardinality(Bounds') = 0
      BY <2>2, FS_EmptySet
    <2>4. 0 + Cardinality(Begins') <= Cap[Budget] + Cardinality(Requests) - 1 /\ 0 <= Cap[Budget]
      <3>. DEFINE b2 == Cardinality(Begins')
                  m == Cap[Budget]
                  r == Cardinality(Requests)
      <3>1. b2 \in Nat /\ r \in Nat /\ b2 <= r /\ m \in Nat /\ m >= 1
        <4>1. Begins' \in SUBSET Requests
          BY DEF Begins
        <4> QED BY <4>1, CheckFacts
      <3>. HIDE DEF b2, m, r
      <3>2. 0 + b2 <= m + r - 1 /\ 0 <= m
        BY <3>1
      <3> QED BY <3>2 DEF b2, m, r
    <2> QED BY <2>1, <2>2, <2>3, <2>4, <1>0, <1>2 DEF CheckInv
  <1> QED BY <1>3, <1>4

LEMMA CheckInvInit == CheckInit => CheckInv
  <1>1. SUFFICES ASSUME CheckInit PROVE CheckInv
    OBVIOUS
  <1>2. Begins = {} /\ Bounds = {}
    BY <1>1 DEF CheckInit, Begins, Bounds
  <1>3. Cardinality({}) = 0
    BY FS_EmptySet
  <1>4. CheckTyped
    BY <1>1, CheckFacts DEF CheckInit, CheckTyped
  <1>5. counter[Budget] = 0 /\ ~ expires[Budget] /\ served = 0 /\ lost = 0
    BY <1>1, CheckFacts DEF CheckInit
  <1>6. /\ 0 <= Cap[Budget] /\ 0 + Cardinality({}) <= Cap[Budget] + Cardinality(Requests) - 1
    BY <1>3, CheckFacts
  <1> QED BY <1>2, <1>3, <1>4, <1>5, <1>6 DEF CheckInv

LEMMA CheckStepKeeps == CheckInv /\ [CheckNext]_checkVars => CheckInv'
  <1>1. ASSUME CheckInv, CheckNext PROVE CheckInv'
    BY <1>1, BeginKeeps, RefuseKeeps, ScriptKeeps, GetKeeps, IncrKeeps, PExpireKeeps, CheckFailsKeeps,
       ExpireKeeps DEF CheckNext
  <1>2. ASSUME CheckInv, UNCHANGED checkVars PROVE CheckInv'
    <2>1. Begins' = Begins /\ Bounds' = Bounds
      BY <1>2 DEF checkVars, Begins, Bounds, IsLast
    <2> QED BY <2>1, <1>2 DEF checkVars, CheckInv, CheckTyped
  <1> QED BY <1>1, <1>2

LEMMA SharedAccount == CheckInv => BudgetIsShared
  <1>1. SUFFICES ASSUME CheckInv PROVE BudgetIsShared
    OBVIOUS
  <1>. DEFINE b == Cardinality(Begins)
              m == Cardinality(Bounds)
              n == counter[Budget]
              k == Cap[Budget]
              r == Cardinality(Requests)
              over == IF atomic THEN 0 ELSE r - 1
  <1>2. b \in Nat /\ m \in Nat /\ k \in Nat /\ r \in Nat
    BY CheckFacts DEF Begins, Bounds
  <1>3. n \in Nat /\ served \in Nat /\ lost \in Nat /\ n = served + lost + m
    BY <1>1, CheckFacts DEF CheckInv, CheckTyped
  <1>4. IF atomic THEN n <= k ELSE n + b <= k + r - 1
    BY <1>1 DEF CheckInv
  <1>. HIDE DEF b, m, n, k, r
  <1>5. served <= k + over
    BY <1>2, <1>3, <1>4
  <1>6. CapHolds
    BY <1>5 DEF CapHolds, k, r
  <1>7. n <= served + lost + m
    BY <1>2, <1>3
  <1>8. RefusedSpendNothing
    BY <1>7 DEF RefusedSpendNothing, n, m, Bounds
  <1> QED BY <1>6, <1>8 DEF BudgetIsShared

(* The budget of a day is kept by all processes together, for any number of them and of     *)
(* requests and any quotas (BudgetIsShared).  Whatever was spent of it was admitted, lost     *)
(* its answer or is about to get its expiry; and who will still spend saw something left.     *)
THEOREM BudgetStaysShared == CheckSpec => []BudgetIsShared
  <1>1. CheckSpec => []CheckInv
    BY CheckInvInit, CheckStepKeeps, PTL DEF CheckSpec
  <1> QED BY <1>1, SharedAccount, PTL

=============================================================================

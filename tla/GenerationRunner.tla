--------------------------- MODULE GenerationRunner ----------------------------
(***************************************************************************)
(* The runner of generations.  A call takes one of a few slots, starts a worker *)
(* process, reads what the worker sends through a pipe until the answer comes,   *)
(* the worker ends or the deadline passes, ends the worker, records how the job  *)
(* went and gives the slot back.  A call is a thread, so every step that others  *)
(* can observe is an action.  Only the process executor is modelled.            *)
(***************************************************************************)
EXTENDS Integers, FiniteSets, Sequences

CONSTANTS
  RunCalls, RunCapacity,
  PipeSize          (* bound: messages a worker can send ahead               *)

ASSUME RunAssumption ==
  /\ IsFiniteSet(RunCalls)
  /\ RunCapacity \in Nat \ {0} /\ PipeSize \in Nat \ {0}

VARIABLES
  slots,            (* free slots                                            *)
  at,               (* where the thread of a call is                          *)
  state,            (* the state of its job                                   *)
  worker,           (* its worker process                                     *)
  pipe,             (* what the worker sent and the call has not read          *)
  late,             (* calls whose deadline has passed                         *)
  ending            (* how the loop ended, or "none"                          *)

runVars == <<slots, at, state, worker, pipe, late, ending>>

JobTerminal == {"SUCCEEDED", "FAILED", "TIMED_OUT", "REJECTED"}

RunTypeOK ==
  /\ slots \in 0 .. RunCapacity
  /\ at \in [RunCalls -> {"idle", "starting", "polling", "closing", "settling", "releasing"}]
  /\ state \in [RunCalls -> JobTerminal \cup {"PENDING", "RUNNING"}]
  /\ worker \in [RunCalls -> {"none", "alive", "answered"}]
  /\ pipe \in [RunCalls -> Seq({"progress", "ok", "err"})]
  /\ late \subseteq RunCalls
  /\ ending \in [RunCalls -> {"none", "ok", "err", "died", "late", "raised"}]

RunInit ==
  /\ slots = RunCapacity
  /\ at = [c \in RunCalls |-> "idle"]
  /\ state = [c \in RunCalls |-> "PENDING"]
  /\ worker = [c \in RunCalls |-> "none"]
  /\ pipe = [c \in RunCalls |-> <<>>]
  /\ late = {}
  /\ ending = [c \in RunCalls |-> "none"]

-----------------------------------------------------------------------------
Step(c, from, to) == at[c] = from /\ at' = [at EXCEPT ![c] = to]

Mark(c, s) == state' = [state EXCEPT ![c] = s]

(* Every call is a new job.                                                  *)
RunAdmit(c) ==
  /\ slots > 0
  /\ Step(c, "idle", "starting")
  /\ slots' = slots - 1
  /\ Mark(c, "PENDING")
  /\ late' = late \ {c}
  /\ ending' = [ending EXCEPT ![c] = "none"]
  /\ UNCHANGED <<worker, pipe>>

RunReject(c) ==
  /\ slots = 0 /\ at[c] = "idle"
  /\ Mark(c, "REJECTED")
  /\ UNCHANGED <<slots, at, worker, pipe, late, ending>>

RunStart(c) ==
  /\ Step(c, "starting", "polling")
  /\ Mark(c, "RUNNING")
  /\ worker' = [worker EXCEPT ![c] = "alive"]
  /\ UNCHANGED <<slots, pipe, late, ending>>

(* Without a process the call raises outside its handlers.                    *)
RunStartFails(c) ==
  /\ Step(c, "starting", "releasing")
  /\ Mark(c, "RUNNING")
  /\ ending' = [ending EXCEPT ![c] = "raised"]
  /\ UNCHANGED <<slots, worker, pipe, late>>

-----------------------------------------------------------------------------
(* The worker sends progress and one answer.                                  *)
WorkerSends(c, what) ==
  /\ worker[c] = "alive" /\ Len(pipe[c]) < PipeSize
  /\ pipe' = [pipe EXCEPT ![c] = Append(@, what)]
  /\ worker' = [worker EXCEPT ![c] = IF what = "progress" THEN @ ELSE "answered"]
  /\ UNCHANGED <<slots, at, state, late, ending>>

(* It exits after its answer, or dies before.                                 *)
WorkerExits(c) ==
  /\ worker[c] # "none"
  /\ worker' = [worker EXCEPT ![c] = "none"]
  /\ UNCHANGED <<slots, at, state, pipe, late, ending>>

RunExpire(c) ==
  /\ at[c] = "polling" /\ c \notin late
  /\ late' = late \cup {c}
  /\ UNCHANGED <<slots, at, state, worker, pipe, ending>>

-----------------------------------------------------------------------------
(* One turn of the loop.                                                     *)

RunEnds(c, how) ==
  /\ Step(c, "polling", "closing")
  /\ ending' = [ending EXCEPT ![c] = how]

(* Past the deadline nothing is read any more, not even an answer; the worker    *)
(* is ended at once.                                                         *)
RunTimesOut(c) ==
  /\ c \in late /\ RunEnds(c, "late")
  /\ Mark(c, "TIMED_OUT")
  /\ worker' = [worker EXCEPT ![c] = "none"]
  /\ UNCHANGED <<slots, pipe, late>>

(* A worker that is gone and left nothing to read has died.                    *)
RunFindsDead(c) ==
  /\ worker[c] = "none" /\ pipe[c] = <<>> /\ RunEnds(c, "died")
  /\ Mark(c, "FAILED")
  /\ UNCHANGED <<slots, worker, pipe, late>>

Received(c, kinds) ==
  /\ pipe[c] # <<>> /\ Head(pipe[c]) \in kinds
  /\ pipe' = [pipe EXCEPT ![c] = Tail(@)]

(* The callback for progress may raise: an OSError counts as the worker's death.  *)
RunReadsProgress(c) ==
  /\ at[c] = "polling" /\ Received(c, {"progress"})
  /\ \/ UNCHANGED <<at, state, ending>>
     \/ RunEnds(c, "died") /\ Mark(c, "FAILED")
     \/ RunEnds(c, "raised") /\ UNCHANGED state
  /\ UNCHANGED <<slots, worker, late>>

RunReadsAnswer(c) ==
  /\ Received(c, {"ok", "err"}) /\ RunEnds(c, Head(pipe[c]))
  /\ UNCHANGED <<slots, state, worker, late>>

(* Slip: the deadline counts only while there is nothing to read.               *)
RunPollSilence(c) ==
  \/ pipe[c] = <<>> /\ RunTimesOut(c)
  \/ c \notin late /\ RunFindsDead(c)
  \/ RunReadsProgress(c) \/ RunReadsAnswer(c)

(* A read is reached only before the deadline.                                *)
RunPoll(c) ==
  \/ RunTimesOut(c)
  \/ c \notin late /\ (RunFindsDead(c) \/ RunReadsProgress(c) \/ RunReadsAnswer(c))

-----------------------------------------------------------------------------
(* Slip: only the answered and the late end their worker.                      *)
RunCloseAnswered(c) ==
  /\ Step(c, "closing", "settling")
  /\ pipe' = [pipe EXCEPT ![c] = <<>>]
  /\ worker' = [worker EXCEPT ![c] = IF ending[c] \in {"ok", "err"} THEN "none" ELSE @]
  /\ UNCHANGED <<slots, state, late, ending>>

(* However the loop ended, the worker is ended and waited for.                  *)
RunClose(c) ==
  /\ Step(c, "closing", "settling")
  /\ pipe' = [pipe EXCEPT ![c] = <<>>]
  /\ worker' = [worker EXCEPT ![c] = "none"]
  /\ UNCHANGED <<slots, state, late, ending>>

(* Slip: what is not an answer is recorded as a failure, also a time-out.        *)
RunSettleLate(c) ==
  /\ Step(c, "settling", "releasing")
  /\ IF ending[c] = "ok" THEN Mark(c, "SUCCEEDED") ELSE Mark(c, "FAILED")
  /\ UNCHANGED <<slots, worker, pipe, late, ending>>

RunSettle(c) ==
  /\ Step(c, "settling", "releasing")
  /\ IF ending[c] = "ok" THEN Mark(c, "SUCCEEDED")
     ELSE IF ending[c] = "err" THEN Mark(c, "FAILED")
     ELSE UNCHANGED state
  /\ UNCHANGED <<slots, worker, pipe, late, ending>>

RunRelease(c) ==
  /\ Step(c, "releasing", "idle")
  /\ slots' = slots + 1
  /\ UNCHANGED <<state, worker, pipe, late, ending>>

RunGoesOn(c) ==
  RunStart(c) \/ RunPoll(c) \/ RunClose(c) \/ RunSettle(c) \/ RunRelease(c)

RunNext ==
  \E c \in RunCalls :
    \/ RunAdmit(c) \/ RunReject(c) \/ RunStartFails(c) \/ RunGoesOn(c)
    \/ \E what \in {"progress", "ok", "err"} : WorkerSends(c, what)
    \/ WorkerExits(c) \/ RunExpire(c)

RunSpec == RunInit /\ [][RunNext]_runVars

(* The threads of the server go on and time passes; workers promise nothing.    *)
RunFairSpec ==
  RunSpec /\ \A c \in RunCalls : WF_runVars(RunGoesOn(c)) /\ WF_runVars(RunExpire(c))

-----------------------------------------------------------------------------
(* A worker never outlives the slot it was started under, whichever way its call  *)
(* ended: dead callbacks, deadlines and failures never leave more workers than   *)
(* slots, which is the bound on provider work and memory (JobRunner.run).        *)
WorkersHoldSlots ==
  Cardinality({c \in RunCalls : worker[c] # "none"}) <= RunCapacity - slots

(* A job ends once: bookkeeping that follows an ending never turns a job that     *)
(* timed out or failed into another one; only a new job starts over (_execute).  *)
TerminalIsFinal ==
  [][\A c \in RunCalls :
       state[c] \in JobTerminal /\ at[c] # "idle" => state'[c] = state[c]]_runVars

(* Every admitted call gives its slot back, even when its worker hangs for ever   *)
(* or never stops sending progress (_execute: the deadline of the whole job).    *)
RunsEnd == \A c \in RunCalls : at[c] # "idle" ~> at[c] = "idle"

=============================================================================

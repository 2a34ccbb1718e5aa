----------------------------- MODULE JobSafety -----------------------------
(* What the job protocol promises to the sender and to the readers of a job. *)
EXTENDS WorkspaceJobs

Ran(r) == req[r].pc \in Running \cup {"ended"}

(* A job id, however often it is submitted and whichever process gets it, is   *)
(* run once (WorkspaceMiddleware._start).                                     *)
OneRunnerPerJob ==
  \A r, s \in Requests :
    Ran(r) /\ Ran(s) /\ r # s => req[r].job # req[s].job

(* A job's revision follows the very revision its sender had seen: a slow      *)
(* worker overwrites no edit made meanwhile (generate_and_save).              *)
BuiltOnReference ==
  \A i \in DOMAIN history :
    history[i] \in Requests =>
      req[history[i]].command.expected = IF i = 1 THEN NULL ELSE history[i - 1]

(* A job and the one that resumes it never both store a revision, even when     *)
(* an interrupted one turns out to be still running (generate_and_save).       *)
NeverBothStored ==
  \A r, s \in Requests \cap ToSet(history) :
    rows[req[s].job].command.resume = req[r].job => r = s

(* A job is only called SUCCEEDED, in its row or in an answer, when a revision  *)
(* of exactly this job is stored (_finish, the job action).                   *)
SucceededIsStored ==
  /\ \A j \in Jobs :
       rows[j] # NULL =>
         (rows[j].state = "SUCCEEDED" =>
            rows[j].revision \in Noted(j))
  /\ \A c \in Pollers :
       answer[c].state = "SUCCEEDED" => Noted(answer[c].job) # {}

(* "A later job read recovers": a reader that begins after the revision of a   *)
(* job was stored is never told that the job is running or was interrupted.   *)
LateReadRecovers ==
  \A c \in Pollers :
    answer[c].stored => answer[c].state \notin {"RUNNING", "INTERRUPTED"}

(* Calls once recorded for a job are never forgotten, and a resumed job counts  *)
(* on from them (generate_plan_candidate, provider_calls of the row).         *)
CallsGrow ==
  \A j \in Jobs :
    rows[j] # NULL => rows'[j] # NULL /\ rows'[j].calls >= rows[j].calls

CallsOnlyGrow == [][CallsGrow]_vars

ShownRunning(j) ==
  /\ rows[j] # NULL
  /\ \E p \in up : JobState(p, j, rows[j]) = "RUNNING"

(* Every accepted job stops being shown as RUNNING, in whatever process it is   *)
(* read, whatever gets lost (_job_view).                                      *)
JobsSettle == \A j \in Jobs : rows[j] # NULL ~> [] ~ ShownRunning(j)

-----------------------------------------------------------------------------
(* Statements of the service and of its web client that the code does not keep. *)

(* The job that a chain of resumed jobs began with, whose checkpoint the later  *)
(* ones were given.                                                          *)
Origin(j) ==
  LET origin[k \in Jobs] ==
        IF rows[k] = NULL THEN k
        ELSE IF rows[k].command.resume = NULL THEN k
        ELSE origin[rows[k].command.resume]
  IN origin[j]

(* "The description of the job or its reference has changed; start a new        *)
(* request": a worker that goes on from a checkpoint works for the proposal     *)
(* that the checkpoint was made for.                                          *)
ResumedKeepsProposal ==
  \A r \in Requests :
    At(r, "provider") =>
      SameProposal(rows[Origin(req[r].job)].command, req[r].command)

(* "No new version was saved", said of a FAILED job.                          *)
FailedStoredNothing ==
  \A c \in Pollers :
    answer[c].state = "FAILED" => Noted(answer[c].job) = {}

=============================================================================

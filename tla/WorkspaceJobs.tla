--------------------------- MODULE WorkspaceJobs ---------------------------
(***************************************************************************)
(* Durable generation and chat jobs of one project.  A request inserts a row *)
(* for its job and then runs it: it checks the head, lets an isolated worker  *)
(* draft a plan with a bounded number of provider calls, reads the head       *)
(* again, saves one revision with compare-and-swap and closes the row.        *)
(* A row outlives the server process; the task that runs it does not.  A      *)
(* reader therefore shows a RUNNING row as INTERRUPTED when it is not running  *)
(* in its own process, and recovers a lost closing update from the job id     *)
(* noted in the stored revision.  A job that failed or was interrupted may be *)
(* resumed as a new job, which continues with the calls already spent.        *)
(***************************************************************************)
EXTENDS Integers, Sequences, FiniteSets, SequencesExt

CONSTANTS
  NULL,
  Processes,    (* server processes, one after another or overlapping      *)
  Requests,     (* requests to start a job; a request that runs its job     *)
                (* also names the revision it may store                     *)
  Jobs,         (* job ids the clients draw                                *)
  Edits,        (* bound: revisions that others store                      *)
  Pollers,      (* readers of a job                                        *)
  Ceilings,     (* bound: ceilings on provider calls that are chosen        *)
  Actions,      (* bound: what is requested                                *)
  Sourced,      (* bound: whether a generation reads an uploaded drawing    *)
  MaxTasks      (* tasks a process admits, 8 in the code                   *)

ASSUME JobAssumption ==
  /\ NULL \notin Requests \cup Jobs \cup Edits \cup Processes
  /\ Requests \cap Edits = {}
  /\ Ceilings \subseteq 1 .. 12
  /\ Actions \subseteq {"generate", "chat_edit", "resume"}
  /\ Sourced \subseteq BOOLEAN
  /\ MaxTasks \in Nat \ {0}

VARIABLES
  history,   (* revisions of the project, oldest first; the last is the head *)
  rows,      (* job table                                                   *)
  up,        (* server processes that run                                   *)
  stopped,   (* server processes that ran once                              *)
  req,       (* each request, and the task it became                        *)
  poll,      (* what a reader has read so far                               *)
  answer     (* the last answer of a reader                                 *)

serverVars == <<up, stopped>>
readVars   == <<poll, answer>>
vars       == <<history, rows, serverVars, req, readVars>>

Revisions == Requests \cup Edits

Commands == [action : {"generate", "chat_edit"}, expected : Revisions \cup {NULL},
             resume : Jobs \cup {NULL}, sourced : BOOLEAN, max : 1 .. 12]

States == {"RUNNING", "SUCCEEDED", "FAILED"}

JobRows == [worker : Processes, command : Commands, state : States,
            revision : Requests \cup {NULL}, calls : 0 .. 12,
            checkpoint : BOOLEAN]

ASSUME RowAssumption == NULL \notin JobRows \cup Commands

Admitting == {"source", "prior", "head", "admit", "check", "insert", "inserted"}
Running   == {"before", "resumed", "provider", "after", "save", "confirm",
              "finish"}

(* inherited: calls recorded for the job it resumes; used: calls its worker    *)
(* counts from there; reported: the last count taken off the worker's pipe;    *)
(* outcome: the state its row will be closed with.                            *)
RequestStates ==
  [pc : {"idle", "answered", "ended"} \cup Admitting \cup Running,
   job : Jobs \cup {NULL}, proc : Processes \cup {NULL},
   command : Commands \cup {NULL}, inherited : 0 .. 12, used : 0 .. 12,
   reported : 0 .. 12, outcome : {"SUCCEEDED", "FAILED"}]

TypeOK ==
  /\ history \in Seq(Revisions)
  /\ rows \in [Jobs -> JobRows \cup {NULL}]
  /\ up \in SUBSET Processes /\ stopped \in SUBSET Processes
  /\ req \in [Requests -> RequestStates]
  /\ poll \in [Pollers ->
       [step : {"idle", "history", "view"}, proc : Processes \cup {NULL},
        job : Jobs \cup {NULL}, row : JobRows \cup {NULL}, stored : BOOLEAN]]
  /\ answer \in [Pollers ->
       [job : Jobs \cup {NULL}, state : States \cup {"INTERRUPTED", "none"},
        stored : BOOLEAN]]

Blank ==
  [pc |-> "idle", job |-> NULL, proc |-> NULL, command |-> NULL,
   inherited |-> 0, used |-> 0, reported |-> 0, outcome |-> "FAILED"]

NoPoll ==
  [step |-> "idle", proc |-> NULL, job |-> NULL, row |-> NULL, stored |-> FALSE]

Init ==
  /\ history = <<>>
  /\ rows = [j \in Jobs |-> NULL]
  /\ up = {} /\ stopped = {}
  /\ req = [r \in Requests |-> Blank]
  /\ poll = [c \in Pollers |-> NoPoll]
  /\ answer = [c \in Pollers |->
                 [job |-> NULL, state |-> "none", stored |-> FALSE]]

-----------------------------------------------------------------------------
(* Shared pieces.                                                          *)

head == IF history = <<>> THEN NULL ELSE Last(history)

(* The stored revisions whose note ends with a job id.                       *)
Noted(j) == {x \in Requests \cap ToSet(history) : req[x].job = j}

(* Tasks of a process, and the jobs they run.                                *)
Tasks(p)      == {r \in Requests : req[r].proc = p /\ req[r].pc \in Running}
ActiveJobs(p) == {req[r].job : r \in Tasks(p)}

(* Slip: every RUNNING row of this process is taken to be running.           *)
JobStateByWorker(p, j, row) ==
  IF row.state = "RUNNING" /\ row.worker # p THEN "INTERRUPTED" ELSE row.state

JobState(p, j, row) ==
  IF row.state = "RUNNING" /\ (row.worker # p \/ j \notin ActiveJobs(p))
  THEN "INTERRUPTED" ELSE row.state

CanResume(p, j, row) ==
  /\ row.checkpoint \/ (row.command.action = "generate" /\ ~ row.command.sourced)
  /\ JobState(p, j, row) \in {"FAILED", "INTERRUPTED"}

At(r, step)   == req[r].pc = step
Goto(r, step) == req' = [req EXCEPT ![r].pc = step]
Answer(r)     == req' = [req EXCEPT ![r] = [Blank EXCEPT !.pc = "answered"]]
Fail(r)       == req' = [req EXCEPT ![r].pc = "finish", ![r].outcome = "FAILED"]

(* The update of a row touches nothing once the row is closed.               *)
Patch(j, row) ==
  rows' = IF rows[j].state = "RUNNING" THEN [rows EXCEPT ![j] = row] ELSE rows

-----------------------------------------------------------------------------
(* Admission of a request.  The head a command expects is any its sender may  *)
(* have seen.                                                               *)

Submit(r, p, j, action, expected, resume, sourced, max) ==
  /\ At(r, "idle") /\ p \in up
  /\ expected \in ToSet(history) \cup {NULL}
  /\ action # "generate" => ~ sourced
  /\ action = "chat_edit" => resume = NULL /\ expected # NULL
  /\ action = "resume" => resume # NULL /\ expected = NULL
  /\ req' = [req EXCEPT ![r] =
       [Blank EXCEPT
          !.pc = IF action = "resume" THEN "source" ELSE "prior",
          !.job = j, !.proc = p,
          !.command =
            [action |-> IF action = "resume" THEN "generate" ELSE action,
             expected |-> expected, resume |-> resume, sourced |-> sourced,
             max |-> max]]]
  /\ UNCHANGED <<history, rows, serverVars, readVars>>

(* A resume repeats the recorded command of a generation.                    *)
ReadSource(r) ==
  /\ At(r, "source")
  /\ LET own == req[r].command
         old == rows[own.resume]
     IN IF old = NULL THEN Answer(r)
        ELSE IF old.command.action # "generate" THEN Answer(r)
        ELSE req' = [req EXCEPT ![r].pc = "prior",
                       ![r].command = [old.command EXCEPT
                          !.resume = own.resume, !.max = own.max]]
  /\ UNCHANGED <<history, rows, serverVars, readVars>>

(* A known id is answered from its row, or refused if its command differs.   *)
ReadPrior(r) ==
  /\ At(r, "prior")
  /\ IF rows[req[r].job] = NULL THEN Goto(r, "head") ELSE Answer(r)
  /\ UNCHANGED <<history, rows, serverVars, readVars>>

ReadHead(r) ==
  /\ At(r, "head")
  /\ IF head = req[r].command.expected THEN Goto(r, "admit") ELSE Answer(r)
  /\ UNCHANGED <<history, rows, serverVars, readVars>>

(* Refused when the process is busy or the sender is over its rate.           *)
Admit(r, allowed) ==
  /\ At(r, "admit")
  /\ IF allowed /\ Cardinality(Tasks(req[r].proc)) < MaxTasks
     THEN Goto(r, IF req[r].command.resume = NULL THEN "insert" ELSE "check")
     ELSE Answer(r)
  /\ UNCHANGED <<history, rows, serverVars, readVars>>

(* The calls a job inherits from the one it resumes are read here, and again   *)
(* by the runner; the row is prepared with this reading.                      *)
CheckResume(r) ==
  /\ At(r, "check")
  /\ LET source == req[r].command.resume
         old    == rows[source]
     IN IF old = NULL THEN Answer(r)
        ELSE IF ~ CanResume(req[r].proc, source, old) THEN Answer(r)
        ELSE req' = [req EXCEPT ![r].pc = "insert", ![r].inherited = old.calls]
  /\ UNCHANGED <<history, rows, serverVars, readVars>>

NewRow(r) ==
  [worker |-> req[r].proc, command |-> req[r].command, state |-> "RUNNING",
   revision |-> NULL, calls |-> req[r].inherited,
   checkpoint |-> req[r].command.resume # NULL]

(* Slip: the insert merges a duplicate and reports it as inserted.           *)
InsertMerging(r, replied) ==
  /\ At(r, "insert")
  /\ rows' = [rows EXCEPT ![req[r].job] = NewRow(r)]
  /\ IF replied THEN Goto(r, "inserted") ELSE Answer(r)
  /\ UNCHANGED <<history, serverVars, readVars>>

(* The insert ignores a duplicate id and says so, and the request is answered  *)
(* from the other row.  The reply of the insert may be lost.                  *)
Insert(r, replied) ==
  /\ At(r, "insert")
  /\ LET fresh == rows[req[r].job] = NULL IN
       /\ rows' = IF fresh THEN [rows EXCEPT ![req[r].job] = NewRow(r)] ELSE rows
       /\ IF fresh /\ replied THEN Goto(r, "inserted") ELSE Answer(r)
  /\ UNCHANGED <<history, serverVars, readVars>>

(* The task is created and registered in one go; the request is answered.     *)
StartTask(r) ==
  /\ At(r, "inserted")
  /\ Goto(r, "before")
  /\ UNCHANGED <<history, rows, serverVars, readVars>>

StoreUnavailable(r) ==
  /\ req[r].pc \in {"source", "prior", "head", "check", "insert"}
  /\ Answer(r)
  /\ UNCHANGED <<history, rows, serverVars, readVars>>

-----------------------------------------------------------------------------
(* The runner.                                                             *)

LoadBefore(r) ==
  /\ At(r, "before")
  /\ IF head # req[r].command.expected THEN Fail(r)
     ELSE Goto(r, IF req[r].command.resume = NULL THEN "provider" ELSE "resumed")
  /\ UNCHANGED <<history, rows, serverVars, readVars>>

(* Slip: the resumed job may have had another reference.                     *)
SameProposalAnywhere(a, b) == <<a.action, a.sourced>> = <<b.action, b.sourced>>

(* The command of the resumed job must be the same apart from its ids and its  *)
(* ceiling; the worker goes on from the calls recorded by now.                *)
SameProposal(a, b) ==
  <<a.action, a.expected, a.sourced>> = <<b.action, b.expected, b.sourced>>

(* Slip: the worker of a resumed job starts counting afresh.                 *)
LoadResumedAfresh(r) ==
  /\ At(r, "resumed")
  /\ IF SameProposal(rows[req[r].command.resume].command, req[r].command)
     THEN Goto(r, "provider") ELSE Fail(r)
  /\ UNCHANGED <<history, rows, serverVars, readVars>>

LoadResumed(r) ==
  /\ At(r, "resumed")
  /\ LET own == req[r].command
         old == rows[own.resume]
     IN IF ~ SameProposal(old.command, own) \/ old.calls >= own.max
        THEN Fail(r)
        ELSE req' = [req EXCEPT ![r].pc = "provider", ![r].inherited = old.calls,
                       ![r].used = old.calls, ![r].reported = old.calls]
  /\ UNCHANGED <<history, rows, serverVars, readVars>>

(* The worker counts a call, writes the count to its pipe and makes the call.  *)
ProviderCall(r) ==
  /\ At(r, "provider")
  /\ req[r].used < req[r].command.max
  /\ req' = [req EXCEPT ![r].used = @ + 1]
  /\ UNCHANGED <<history, rows, serverVars, readVars>>

(* The runner takes the next count off the pipe and updates the row; a chat    *)
(* edit reports nothing.  When the update does not get through, or its reply  *)
(* does not come back, the worker is killed.                                  *)
Report(r, checkpoint, applied, replied) ==
  /\ At(r, "provider")
  /\ req[r].command.action = "generate"
  /\ req[r].reported < req[r].used
  /\ LET row   == rows[req[r].job]
         count == req[r].reported + 1
     IN /\ IF applied
           THEN Patch(req[r].job,
                  [row EXCEPT !.calls = count,
                              !.checkpoint = row.checkpoint \/ checkpoint])
           ELSE UNCHANGED rows
        /\ IF applied /\ replied
           THEN req' = [req EXCEPT ![r].reported = count]
           ELSE Fail(r)
  /\ UNCHANGED <<history, serverVars, readVars>>

(* The answer is behind every count in the pipe.                             *)
ProviderAnswers(r) ==
  /\ At(r, "provider")
  /\ req[r].command.action = "generate" => req[r].reported = req[r].used
  /\ Goto(r, "after")
  /\ UNCHANGED <<history, rows, serverVars, readVars>>

(* No slot, a deadline, a dead worker, a spent budget, a refused plan, or a    *)
(* store that is out of reach.                                              *)
RunFails(r) ==
  /\ req[r].pc \in Running \ {"finish"}
  /\ Fail(r)
  /\ UNCHANGED <<history, rows, serverVars, readVars>>

LoadAfter(r) ==
  /\ At(r, "after")
  /\ IF head # req[r].command.expected THEN Fail(r) ELSE Goto(r, "save")
  /\ UNCHANGED <<history, rows, serverVars, readVars>>

Saved(r, replied) ==
  req' = [req EXCEPT
    ![r].pc = IF replied /\ req[r].command.action = "chat_edit"
              THEN "confirm" ELSE "finish",
    ![r].outcome = IF replied THEN "SUCCEEDED" ELSE "FAILED"]

(* Slip: the head read after the worker is trusted.                          *)
SaveUnchecked(r, replied) ==
  /\ At(r, "save")
  /\ history' = Append(history, r)
  /\ Saved(r, replied)
  /\ UNCHANGED <<rows, serverVars, readVars>>

(* Slip: a lost race is not noticed.                                         *)
SaveIgnoringConflict(r, replied) ==
  /\ At(r, "save")
  /\ history' =
       IF head = req[r].command.expected THEN Append(history, r) ELSE history
  /\ Saved(r, replied)
  /\ UNCHANGED <<rows, serverVars, readVars>>

(* Compare and swap of the head.  The reply of a committed save may be lost.  *)
Save(r, replied) ==
  /\ At(r, "save")
  /\ IF head # req[r].command.expected
     THEN Fail(r) /\ UNCHANGED history
     ELSE Saved(r, replied) /\ history' = Append(history, r)
  /\ UNCHANGED <<rows, serverVars, readVars>>

(* A chat edit reads the head once more.                                     *)
Confirm(r) ==
  /\ At(r, "confirm")
  /\ IF head # r THEN Fail(r) ELSE Goto(r, "finish")
  /\ UNCHANGED <<history, rows, serverVars, readVars>>

(* The closing update; if it gets lost nobody repeats it.                    *)
Finish(r, applied) ==
  /\ At(r, "finish")
  /\ LET old == rows[req[r].job]
         row == [old EXCEPT
                   !.state = req[r].outcome,
                   !.revision = IF req[r].outcome = "SUCCEEDED" THEN r
                                ELSE old.revision]
     IN IF applied THEN Patch(req[r].job, row) ELSE UNCHANGED rows
  /\ Goto(r, "ended")
  /\ UNCHANGED <<history, serverVars, readVars>>

-----------------------------------------------------------------------------
(* Readers.  A RUNNING row is read first and the revisions after it; what is   *)
(* shown is computed when both are there.  "stored" only serves a property: it *)
(* tells whether the revision was there when the reader began.               *)

PollRow(c, p, j) ==
  /\ poll[c].step = "idle"
  /\ p \in up /\ rows[j] # NULL
  /\ poll' = [poll EXCEPT ![c] =
       [step |-> IF rows[j].state = "RUNNING" THEN "history" ELSE "view",
        proc |-> p, job |-> j, row |-> rows[j], stored |-> Noted(j) # {}]]
  /\ UNCHANGED <<history, rows, serverVars, req, answer>>

RecoverFrom(c, noted) ==
  LET row   == poll[c].row
      found == [row EXCEPT !.state = "SUCCEEDED",
                           !.revision = CHOOSE x \in noted : TRUE]
  IN poll' = [poll EXCEPT ![c].step = "view",
                          ![c].row = IF noted = {} THEN row ELSE found]

(* Slip: only jobs that are still running here are looked up.                *)
PollHistoryOfActive(c) ==
  /\ poll[c].step = "history"
  /\ RecoverFrom(c, Noted(poll[c].job) \cap Tasks(poll[c].proc))
  /\ UNCHANGED <<history, rows, serverVars, req, answer>>

PollHistory(c) ==
  /\ poll[c].step = "history"
  /\ RecoverFrom(c, Noted(poll[c].job))
  /\ UNCHANGED <<history, rows, serverVars, req, answer>>

PollView(c) ==
  /\ poll[c].step = "view"
  /\ answer' = [answer EXCEPT ![c] =
       [job |-> poll[c].job, stored |-> poll[c].stored,
        state |-> JobState(poll[c].proc, poll[c].job, poll[c].row)]]
  /\ poll' = [poll EXCEPT ![c] = NoPoll]
  /\ UNCHANGED <<history, rows, serverVars, req>>

PollFails(c) ==
  /\ poll[c].step = "history"
  /\ poll' = [poll EXCEPT ![c] = NoPoll]
  /\ UNCHANGED <<history, rows, serverVars, req, answer>>

-----------------------------------------------------------------------------
(* Another command, or a job of another sender, moves the head.              *)
Edit(x) ==
  /\ x \in Edits \ ToSet(history)
  /\ history' = Append(history, x)
  /\ UNCHANGED <<rows, serverVars, req, readVars>>

Boot(p) ==
  /\ p \notin up \cup stopped
  /\ up' = up \cup {p}
  /\ UNCHANGED <<history, rows, stopped, req, readVars>>

(* Requests, tasks and reads of a process end with it.                       *)
Stop(p) ==
  /\ p \in up
  /\ up' = up \ {p}
  /\ stopped' = stopped \cup {p}
  /\ req' = [r \in Requests |->
       IF r \in Tasks(p) THEN [req[r] EXCEPT !.pc = "ended"]
       ELSE IF req[r].proc = p /\ req[r].pc \in Admitting
       THEN [Blank EXCEPT !.pc = "answered"] ELSE req[r]]
  /\ poll' = [c \in Pollers |-> IF poll[c].proc = p THEN NoPoll ELSE poll[c]]
  /\ UNCHANGED <<history, rows, answer>>

-----------------------------------------------------------------------------
Admission(r) ==
  \/ ReadSource(r)
  \/ ReadPrior(r)
  \/ ReadHead(r)
  \/ \E allowed \in BOOLEAN : Admit(r, allowed)
  \/ CheckResume(r)
  \/ \E replied \in BOOLEAN : Insert(r, replied)
  \/ StartTask(r)
  \/ StoreUnavailable(r)

Runner(r) ==
  \/ LoadBefore(r)
  \/ LoadResumed(r)
  \/ ProviderCall(r)
  \/ \E checkpoint, applied, replied \in BOOLEAN :
       Report(r, checkpoint, applied, replied)
  \/ ProviderAnswers(r)
  \/ RunFails(r)
  \/ LoadAfter(r)
  \/ \E replied \in BOOLEAN : Save(r, replied)
  \/ Confirm(r)
  \/ \E applied \in BOOLEAN : Finish(r, applied)

Reader(c) ==
  \/ \E p \in Processes, j \in Jobs : PollRow(c, p, j)
  \/ PollHistory(c)
  \/ PollView(c)
  \/ PollFails(c)

Next ==
  \/ \E r \in Requests, p \in Processes, j \in Jobs, action \in Actions,
        expected \in Revisions \cup {NULL}, resume \in Jobs \cup {NULL},
        sourced \in Sourced, max \in Ceilings :
       Submit(r, p, j, action, expected, resume, sourced, max)
  \/ \E r \in Requests : Admission(r) \/ Runner(r)
  \/ \E c \in Pollers : Reader(c)
  \/ \E x \in Edits : Edit(x)
  \/ \E p \in Processes : Boot(p) \/ Stop(p)

(* The worker has a deadline and every store call a time-out, so the thread of *)
(* a runner always goes on.  Nothing is assumed of clients and processes.      *)
Fairness == \A r \in Requests : WF_vars(Runner(r))

Spec     == Init /\ [][Next]_vars
FairSpec == Spec /\ Fairness

=============================================================================

------------------------------ MODULE JobProofs ------------------------------
(* The workspace jobs, for any numbers of requests, jobs, readers and processes. *)
EXTENDS JobSafety, TLAPS

(* A request that inserted the row of its job, whether or not it still runs.     *)
Owner(r) == req[r].pc \in {"inserted", "ended"} \cup Running

(* What a request knows of the table and of the history at each of its steps.    *)
KnowsItsCommand(r) ==
  req[r].pc \notin {"idle", "answered"} =>
    req[r].command # NULL /\ req[r].job # NULL /\ req[r].proc # NULL

KnowsItsRow(r) == Owner(r) => rows[req[r].job] # NULL

(* The row of a resumed job was seen, and counts at least the calls seen then.   *)
KnowsItsSource(r) ==
  /\ req[r].pc \in {"source", "check"} => req[r].command.resume # NULL
  /\ req[r].pc \in {"insert", "inserted", "before", "resumed"} =>
    \/ req[r].command.resume = NULL /\ req[r].pc # "resumed" /\ req[r].inherited = 0
    \/ /\ req[r].command.resume # NULL
       /\ rows[req[r].command.resume] # NULL
       /\ req[r].inherited <= rows[req[r].command.resume].calls

(* No request counts fewer calls than its row.                                   *)
CountsOn(r) ==
  /\ req[r].pc \in Admitting \cup {"before"} => req[r].used = 0 /\ req[r].reported = 0
  /\ req[r].pc \in {"source", "prior", "head", "admit", "check"} => req[r].inherited = 0
  /\ req[r].pc \in {"inserted", "before", "resumed"} =>
       rows[req[r].job].calls <= req[r].inherited
  /\ req[r].pc = "provider" => rows[req[r].job].calls <= req[r].reported

(* Only a request that saved has a revision, or takes its job for succeeded.     *)
KnowsItsRevision(r) ==
  /\ r \in ToSet(history) => req[r].pc \in {"confirm", "finish", "ended"}
  /\ req[r].outcome = "SUCCEEDED" => r \in ToSet(history)

Knows(r) ==
  /\ KnowsItsCommand(r) /\ KnowsItsRow(r) /\ KnowsItsSource(r)
  /\ CountsOn(r) /\ KnowsItsRevision(r)

OneOwner ==
  \A r, s \in Requests : Owner(r) /\ Owner(s) /\ r # s => req[r].job # req[s].job

RowsTellTheTruth ==
  \A j \in Jobs :
    rows[j] # NULL =>
      (rows[j].state = "SUCCEEDED" => rows[j].revision \in Noted(j))

(* A reader holds a row, and a succeeded one only of a job that stored.           *)
ReadersHoldRows ==
  \A c \in Pollers :
    poll[c].step # "idle" =>
      /\ poll[c].row # NULL
      /\ poll[c].row.state = "SUCCEEDED" => Noted(poll[c].job) # {}

AnswersTellTheTruth ==
  \A c \in Pollers :
    answer[c].state = "SUCCEEDED" => Noted(answer[c].job) # {}

ReadersOK == ReadersHoldRows /\ AnswersTellTheTruth

JobInv ==
  /\ TypeOK /\ (\A r \in Requests : Knows(r)) /\ OneOwner
  /\ BuiltOnReference /\ RowsTellTheTruth /\ ReadersOK

(* What every step keeps: the invariant, and the calls recorded.                 *)
Kept == JobInv' /\ CallsGrow

-----------------------------------------------------------------------------
LEMMA InitKeeps == Init => JobInv
  <1> SUFFICES ASSUME Init PROVE JobInv
    OBVIOUS
  <1> USE DEF Init
  <1>1. TypeOK
    BY DEF TypeOK, Blank, NoPoll, RequestStates
  <1>2. \A r \in Requests : Knows(r)
    BY DEF Knows, KnowsItsCommand, KnowsItsRow, KnowsItsSource, CountsOn,
           KnowsItsRevision, Owner, Running, Admitting, Blank, ToSet
  <1>3. OneOwner /\ BuiltOnReference /\ RowsTellTheTruth
    BY DEF OneOwner, Owner, Running, Blank, BuiltOnReference, RowsTellTheTruth
  <1>4. ReadersOK
    BY DEF ReadersOK, ReadersHoldRows, AnswersTellTheTruth, NoPoll
  <1> QED BY <1>1, <1>2, <1>3, <1>4 DEF JobInv

-----------------------------------------------------------------------------
(* A step that changes what one request knows, and nothing else.                *)
Alone(r) ==
  /\ req' \in [Requests -> RequestStates]
  /\ \A q \in Requests \ {r} : req'[q] = req[q]
  /\ r \in ToSet(history) => req'[r].job = req[r].job /\ req'[r].command = req[r].command
  /\ UNCHANGED <<history, rows, serverVars, readVars>>

LEMMA AloneKeeps ==
  ASSUME JobInv, NEW r \in Requests, Alone(r), Knows(r)',
         Owner(r)' => Owner(r) /\ req'[r].job = req[r].job
  PROVE  Kept
  <1> USE DEF Alone, serverVars, readVars
  <1>1. TypeOK'
    BY DEF JobInv, TypeOK
  <1>2. \A q \in Requests : Knows(q)'
    <2> SUFFICES ASSUME NEW q \in Requests, q # r PROVE Knows(q)'
      OBVIOUS
    <2>1. Knows(q) /\ req'[q] = req[q]
      BY DEF JobInv
    <2> QED BY <2>1 DEF Knows, KnowsItsCommand, KnowsItsRow, KnowsItsSource, CountsOn,
                     KnowsItsRevision, Owner
  <1>3. OneOwner'
    BY DEF JobInv, OneOwner, Owner
  <1>4. \A q \in Requests : q \in ToSet(history) =>
          req'[q].job = req[q].job /\ req'[q].command = req[q].command
    OBVIOUS
  <1>5. BuiltOnReference'
    BY <1>4 DEF JobInv, BuiltOnReference, ToSet
  <1>6. \A j : Noted(j)' = Noted(j)
    BY <1>4 DEF Noted
  <1>7. RowsTellTheTruth' /\ ReadersOK'
    BY <1>6 DEF JobInv, RowsTellTheTruth, ReadersOK, ReadersHoldRows, AnswersTellTheTruth
  <1>8. CallsGrow
    BY DEF CallsGrow, JobInv, TypeOK, JobRows
  <1> QED BY <1>1, <1>2, <1>3, <1>5, <1>7, <1>8 DEF JobInv, Kept

-----------------------------------------------------------------------------
(* The four ways in which a step changes what a request knows.                   *)
Steps == {"idle", "answered", "ended"} \cup Admitting \cup Running

Others(r) == \A q \in Requests \ {r} : req'[q] = req[q]

Same(r) ==
  /\ req'[r].job = req[r].job /\ req'[r].proc = req[r].proc
  /\ req'[r].command = req[r].command

SameCalls(r) ==
  /\ req'[r].inherited = req[r].inherited /\ req'[r].used = req[r].used
  /\ req'[r].reported = req[r].reported

LEMMA GotoIs ==
  ASSUME TypeOK, NEW r \in Requests, NEW step \in Steps, Goto(r, step)
  PROVE  /\ req' \in [Requests -> RequestStates] /\ Others(r)
         /\ req'[r].pc = step /\ req'[r].outcome = req[r].outcome
         /\ Same(r) /\ SameCalls(r)
  BY ZenonT(40) DEF TypeOK, Goto, RequestStates, Steps, Others, Same, SameCalls

LEMMA FailIs ==
  ASSUME TypeOK, NEW r \in Requests, Fail(r)
  PROVE  /\ req' \in [Requests -> RequestStates] /\ Others(r)
         /\ req'[r].pc = "finish" /\ req'[r].outcome = "FAILED"
         /\ Same(r) /\ SameCalls(r)
  <1> DEFINE mid == [req EXCEPT ![r].pc = "finish"]
  <1>1. req' = [mid EXCEPT ![r].outcome = "FAILED"]
    BY DEF Fail
  <1>2. /\ mid \in [Requests -> RequestStates]
        /\ \A q \in Requests \ {r} : mid[q] = req[q]
        /\ mid[r].pc = "finish"
        /\ mid[r].job = req[r].job /\ mid[r].proc = req[r].proc
        /\ mid[r].command = req[r].command /\ mid[r].inherited = req[r].inherited
        /\ mid[r].used = req[r].used /\ mid[r].reported = req[r].reported
    BY ZenonT(40) DEF TypeOK, RequestStates, Running
  <1> HIDE DEF mid
  <1> QED BY <1>1, <1>2 DEF RequestStates, Others, Same, SameCalls

LEMMA AnswerIs ==
  ASSUME TypeOK, NEW r \in Requests, Answer(r)
  PROVE  /\ req' \in [Requests -> RequestStates] /\ Others(r)
         /\ req'[r].pc = "answered" /\ req'[r].outcome = "FAILED"
  BY DEF TypeOK, Answer, RequestStates, Blank, Others

-----------------------------------------------------------------------------
(* Answering, and giving up, are safe whenever a request has no revision.        *)
LEMMA AnswerKeeps ==
  ASSUME JobInv, NEW r \in Requests, Answer(r), req[r].pc \in Admitting,
         UNCHANGED <<history, rows, serverVars, readVars>>
  PROVE  Kept
  <1>1. /\ req' \in [Requests -> RequestStates] /\ Others(r)
        /\ req'[r].pc = "answered" /\ req'[r].outcome = "FAILED"
    BY AnswerIs DEF JobInv
  <1>2. r \notin ToSet(history)
    BY DEF JobInv, Knows, KnowsItsRevision, Admitting
  <1>3. Alone(r)
    BY <1>1, <1>2 DEF Alone, Others
  <1>4. Knows(r)'
    BY <1>1, <1>2 DEF Knows, KnowsItsCommand, KnowsItsRow, KnowsItsSource, CountsOn,
         KnowsItsRevision, Owner, Admitting, Running
  <1>5. ~ Owner(r)'
    BY <1>1 DEF Owner, Running
  <1> QED BY <1>3, <1>4, <1>5, AloneKeeps

LEMMA FailKeeps ==
  ASSUME JobInv, NEW r \in Requests, Fail(r), req[r].pc \in Running,
         UNCHANGED <<history, rows, serverVars, readVars>>
  PROVE  Kept
  <1>1. /\ req' \in [Requests -> RequestStates] /\ Others(r)
        /\ req'[r].pc = "finish" /\ req'[r].outcome = "FAILED"
        /\ Same(r) /\ SameCalls(r)
    BY FailIs DEF JobInv
  <1>2. Alone(r)
    BY <1>1 DEF Alone, Others, Same
  <1>3. Owner(r) /\ Owner(r)'
    BY <1>1 DEF Owner, Running
  <1>4. Knows(r)'
    BY <1>1, <1>3 DEF JobInv, Knows, KnowsItsCommand, KnowsItsRow, KnowsItsSource,
         CountsOn, KnowsItsRevision, Owner, Admitting, Running, Same
  <1> QED BY <1>1, <1>2, <1>3, <1>4, AloneKeeps DEF Same

(* Going on, with what is known staying as it is.                               *)
LEMMA GotoKeeps ==
  ASSUME JobInv, NEW r \in Requests, NEW step \in Steps, Goto(r, step),
         KnowsItsCommand(r)', KnowsItsRow(r)', KnowsItsSource(r)', CountsOn(r)',
         r \in ToSet(history) => step \in {"confirm", "finish", "ended"},
         Owner(r)' => Owner(r),
         UNCHANGED <<history, rows, serverVars, readVars>>
  PROVE  Kept
  <1>1. /\ req' \in [Requests -> RequestStates] /\ Others(r)
        /\ req'[r].pc = step /\ req'[r].outcome = req[r].outcome
        /\ Same(r) /\ SameCalls(r)
    BY GotoIs DEF JobInv
  <1>2. Alone(r)
    BY <1>1 DEF Alone, Others, Same
  <1>3. Knows(r)'
    BY <1>1 DEF JobInv, Knows, KnowsItsRevision
  <1> QED BY <1>1, <1>2, <1>3, AloneKeeps DEF Same

-----------------------------------------------------------------------------
(* Admission.                                                                  *)
LEMMA SubmitKeeps ==
  ASSUME JobInv, NEW r \in Requests, NEW p \in Processes, NEW j \in Jobs,
         NEW action \in Actions, NEW expected \in Revisions \cup {NULL},
         NEW resume \in Jobs \cup {NULL}, NEW sourced \in Sourced, NEW max \in Ceilings,
         Submit(r, p, j, action, expected, resume, sourced, max)
  PROVE  Kept
  <1> DEFINE command ==
        [action |-> IF action = "resume" THEN "generate" ELSE action,
         expected |-> expected, resume |-> resume, sourced |-> sourced, max |-> max]
  <1> DEFINE step == IF action = "resume" THEN "source" ELSE "prior"
  <1>1. command \in Commands
    BY JobAssumption DEF Commands
  <1>2. command # NULL /\ j # NULL /\ p # NULL
    BY <1>1, JobAssumption, RowAssumption
  <1> HIDE DEF command
  <1> DEFINE x == [Blank EXCEPT !.pc = step, !.job = j, !.proc = p, !.command = command]
  <1>3. req' = [req EXCEPT ![r] = x]
    BY DEF Submit, command
  <1>4. x = [pc |-> step, job |-> j, proc |-> p, command |-> command, inherited |-> 0,
             used |-> 0, reported |-> 0, outcome |-> "FAILED"]
    <2> DEFINE x1 == [Blank EXCEPT !.pc = step]
               x2 == [x1 EXCEPT !.job = j]
               x3 == [x2 EXCEPT !.proc = p]
    <2>1. x = [x3 EXCEPT !.command = command]
      OBVIOUS
    <2>2. x1 = [pc |-> step, job |-> NULL, proc |-> NULL, command |-> NULL,
                inherited |-> 0, used |-> 0, reported |-> 0, outcome |-> "FAILED"]
      BY DEF Blank
    <2> HIDE DEF x1
    <2>3. x2 = [pc |-> step, job |-> j, proc |-> NULL, command |-> NULL,
                inherited |-> 0, used |-> 0, reported |-> 0, outcome |-> "FAILED"]
      BY <2>2
    <2> HIDE DEF x2
    <2>4. x3 = [pc |-> step, job |-> j, proc |-> p, command |-> NULL,
                inherited |-> 0, used |-> 0, reported |-> 0, outcome |-> "FAILED"]
      BY <2>3
    <2> HIDE DEF x3
    <2> QED BY <2>1, <2>4
  <1>5. step \in {"source", "prior"} /\ (step = "source" => command.resume # NULL)
    BY DEF Submit, command
  <1> HIDE DEF x, step
  <1>6. x \in RequestStates
    BY <1>1, <1>4, <1>5 DEF RequestStates, Admitting
  <1>7. req' \in [Requests -> RequestStates] /\ Others(r) /\ req'[r] = x
    BY <1>3, <1>6 DEF JobInv, TypeOK, Others
  <1>8. r \notin ToSet(history)
    BY DEF JobInv, Knows, KnowsItsRevision, Submit, At
  <1>9. Alone(r)
    BY <1>7, <1>8 DEF Alone, Others, Submit
  <1>10. Knows(r)'
    BY <1>2, <1>4, <1>5, <1>7, <1>8, <1>9 DEF Knows, KnowsItsCommand, KnowsItsRow,
         KnowsItsSource, CountsOn, KnowsItsRevision, Owner, Admitting, Running, Alone
  <1>11. ~ Owner(r)'
    BY <1>4, <1>5, <1>7 DEF Owner, Running
  <1> QED BY <1>9, <1>10, <1>11, AloneKeeps

(* What a resumed command becomes.                                               *)
LEMMA Repeated ==
  ASSUME NEW old \in Commands, NEW resume \in Jobs, NEW max \in 1 .. 12
  PROVE  [old EXCEPT !.resume = resume, !.max = max] \in Commands
  <1> DEFINE mid == [old EXCEPT !.resume = resume]
  <1>1. mid \in Commands
    BY DEF Commands
  <1> HIDE DEF mid
  <1>2. [mid EXCEPT !.max = max] \in Commands
    BY <1>1 DEF Commands
  <1> QED BY <1>2 DEF mid

LEMMA ReadSourceKeeps ==
  ASSUME JobInv, NEW r \in Requests, ReadSource(r)
  PROVE  Kept
  <1> DEFINE own == req[r].command
             old == rows[own.resume]
             next == [old.command EXCEPT !.resume = own.resume, !.max = own.max]
  <1>1. CASE Answer(r)
    BY <1>1, AnswerKeeps DEF ReadSource, At, Admitting
  <1>2. CASE old # NULL /\ ~ Answer(r)
    <2>1. own \in Commands /\ req[r].pc = "source" /\ own.resume # NULL
      BY DEF JobInv, TypeOK, RequestStates, Knows, KnowsItsCommand, KnowsItsSource,
             ReadSource, At
    <2>2. old \in JobRows /\ own.resume \in Jobs /\ own.max \in 1 .. 12
      BY <1>2, <2>1 DEF JobInv, TypeOK, Commands
    <2>3. next \in Commands /\ next # NULL
      <3>1. old.command \in Commands
        BY <2>2 DEF JobRows
      <3>2. next \in Commands
        BY <3>1, <2>2, Repeated
      <3> QED BY <3>2, RowAssumption
    <2> HIDE DEF next
    <2>4. req' = [req EXCEPT ![r].pc = "prior", ![r].command = next]
      BY <1>2 DEF ReadSource, next
    <2> DEFINE mid == [req EXCEPT ![r].pc = "prior"]
    <2>5. req' = [mid EXCEPT ![r].command = next]
      BY <2>4
    <2>6. /\ mid \in [Requests -> RequestStates]
          /\ \A q \in Requests \ {r} : mid[q] = req[q]
          /\ mid[r].pc = "prior" /\ mid[r].outcome = req[r].outcome
          /\ mid[r].job = req[r].job /\ mid[r].proc = req[r].proc
          /\ mid[r].inherited = req[r].inherited
          /\ mid[r].used = req[r].used /\ mid[r].reported = req[r].reported
      BY ZenonT(40) DEF JobInv, TypeOK, RequestStates, Admitting
    <2> HIDE DEF mid
    <2>7. /\ req' \in [Requests -> RequestStates]
          /\ \A q \in Requests \ {r} : req'[q] = req[q]
          /\ req'[r].pc = "prior" /\ req'[r].command = next
          /\ req'[r].outcome = req[r].outcome
          /\ req'[r].job = req[r].job /\ req'[r].proc = req[r].proc
          /\ SameCalls(r)
      BY <2>3, <2>5, <2>6 DEF RequestStates, SameCalls
    <2>8. Knows(r) /\ r \notin ToSet(history)
      BY <2>1 DEF JobInv, Knows, KnowsItsRevision
    <2>9. Alone(r)
      BY <2>7, <2>8 DEF Alone, ReadSource
    <2>10. Knows(r)' /\ ~ Owner(r)'
      BY <2>1, <2>3, <2>7, <2>8, <2>9 DEF Knows, KnowsItsCommand, KnowsItsRow,
         KnowsItsSource, CountsOn, KnowsItsRevision, Owner, Admitting, Running, Alone,
         SameCalls
    <2> QED BY <2>9, <2>10, AloneKeeps
  <1> QED BY <1>1, <1>2 DEF ReadSource

LEMMA ReadPriorKeeps ==
  ASSUME JobInv, NEW r \in Requests, ReadPrior(r)
  PROVE  Kept
  <1>1. CASE Answer(r)
    BY <1>1, AnswerKeeps DEF ReadPrior, At, Admitting
  <1>2. CASE Goto(r, "head")
    <2>1. /\ req'[r].pc = "head" /\ Same(r) /\ SameCalls(r)
          /\ req[r].pc = "prior" /\ r \notin ToSet(history)
      BY <1>2, GotoIs DEF JobInv, Steps, Admitting, ReadPrior, At, Knows, KnowsItsRevision
    <2>2. /\ KnowsItsCommand(r)' /\ KnowsItsRow(r)' /\ KnowsItsSource(r)'
          /\ CountsOn(r)' /\ ~ Owner(r)'
      BY <2>1 DEF JobInv, Knows, KnowsItsCommand, KnowsItsRow, KnowsItsSource, CountsOn,
           Owner, Admitting, Running, Same, SameCalls
    <2> QED BY <1>2, <2>1, <2>2, GotoKeeps DEF Steps, Admitting, ReadPrior
  <1> QED BY <1>1, <1>2 DEF ReadPrior

LEMMA ReadHeadKeeps ==
  ASSUME JobInv, NEW r \in Requests, ReadHead(r)
  PROVE  Kept
  <1>1. CASE Answer(r)
    BY <1>1, AnswerKeeps DEF ReadHead, At, Admitting
  <1>2. CASE Goto(r, "admit")
    <2>1. /\ req'[r].pc = "admit" /\ Same(r) /\ SameCalls(r)
          /\ req[r].pc = "head" /\ r \notin ToSet(history)
      BY <1>2, GotoIs DEF JobInv, Steps, Admitting, ReadHead, At, Knows, KnowsItsRevision
    <2>2. /\ KnowsItsCommand(r)' /\ KnowsItsRow(r)' /\ KnowsItsSource(r)'
          /\ CountsOn(r)' /\ ~ Owner(r)'
      BY <2>1 DEF JobInv, Knows, KnowsItsCommand, KnowsItsRow, KnowsItsSource, CountsOn,
           Owner, Admitting, Running, Same, SameCalls
    <2> QED BY <1>2, <2>1, <2>2, GotoKeeps DEF Steps, Admitting, ReadHead
  <1> QED BY <1>1, <1>2 DEF ReadHead

LEMMA AdmitKeeps ==
  ASSUME JobInv, NEW r \in Requests, NEW allowed \in BOOLEAN, Admit(r, allowed)
  PROVE  Kept
  <1> DEFINE step == IF req[r].command.resume = NULL THEN "insert" ELSE "check"
  <1>1. CASE Answer(r)
    BY <1>1, AnswerKeeps DEF Admit, At, Admitting
  <1>2. CASE Goto(r, step)
    <2>1. step \in Steps
      BY DEF Steps, Admitting
    <2>2. \/ step = "check" /\ req[r].command.resume # NULL
          \/ step = "insert" /\ req[r].command.resume = NULL
      OBVIOUS
    <2> HIDE DEF step
    <2>3. /\ req'[r].pc = step /\ Same(r) /\ SameCalls(r)
          /\ req[r].pc = "admit" /\ r \notin ToSet(history)
      BY <1>2, <2>1, GotoIs DEF JobInv, Admit, At, Knows, KnowsItsRevision
    <2>4. /\ KnowsItsCommand(r)' /\ KnowsItsRow(r)' /\ KnowsItsSource(r)'
          /\ CountsOn(r)' /\ ~ Owner(r)'
      BY <2>2, <2>3 DEF JobInv, Knows, KnowsItsCommand, KnowsItsRow, KnowsItsSource,
           CountsOn, Owner, Admitting, Running, Same, SameCalls
    <2> QED BY <1>2, <2>1, <2>3, <2>4, GotoKeeps DEF Admit
  <1> QED BY <1>1, <1>2 DEF Admit

LEMMA CheckResumeKeeps ==
  ASSUME JobInv, NEW r \in Requests, CheckResume(r)
  PROVE  Kept
  <1> DEFINE source == req[r].command.resume
             calls == rows[source].calls
  <1>1. CASE Answer(r)
    BY <1>1, AnswerKeeps DEF CheckResume, At, Admitting
  <1>2. CASE ~ Answer(r)
    <2>1. /\ rows[source] # NULL /\ req[r].pc = "check"
          /\ req' = [req EXCEPT ![r].pc = "insert", ![r].inherited = calls]
      BY <1>2 DEF CheckResume, At
    <2>2. calls \in 0 .. 12 /\ source # NULL
      <3>1. req[r].command \in Commands /\ source # NULL
        BY <2>1 DEF JobInv, TypeOK, RequestStates, Knows, KnowsItsCommand, KnowsItsSource
      <3>2. rows[source] \in JobRows
        BY <2>1, <3>1 DEF JobInv, TypeOK, Commands
      <3> QED BY <3>1, <3>2 DEF JobRows
    <2> HIDE DEF calls
    <2> DEFINE mid == [req EXCEPT ![r].pc = "insert"]
    <2>3. req' = [mid EXCEPT ![r].inherited = calls]
      BY <2>1
    <2>4. /\ mid \in [Requests -> RequestStates]
          /\ \A q \in Requests \ {r} : mid[q] = req[q]
          /\ mid[r].pc = "insert" /\ mid[r].outcome = req[r].outcome
          /\ mid[r].job = req[r].job /\ mid[r].proc = req[r].proc
          /\ mid[r].command = req[r].command
          /\ mid[r].used = req[r].used /\ mid[r].reported = req[r].reported
      BY ZenonT(40) DEF JobInv, TypeOK, RequestStates, Admitting
    <2> HIDE DEF mid
    <2>5. /\ req' \in [Requests -> RequestStates]
          /\ \A q \in Requests \ {r} : req'[q] = req[q]
          /\ req'[r].pc = "insert" /\ req'[r].inherited = calls
          /\ req'[r].outcome = req[r].outcome /\ Same(r)
          /\ req'[r].used = req[r].used /\ req'[r].reported = req[r].reported
      BY <2>2, <2>3, <2>4 DEF RequestStates, Same
    <2>6. Knows(r) /\ r \notin ToSet(history)
      BY <2>1 DEF JobInv, Knows, KnowsItsRevision
    <2>7. Alone(r)
      BY <2>5, <2>6 DEF Alone, CheckResume
    <2>8. ~ Owner(r)'
      BY <2>5 DEF Owner, Running
    <2>9. KnowsItsSource(r)'
      BY <2>1, <2>2, <2>5, <2>7 DEF KnowsItsSource, Alone, Same, calls
    <2>10. Knows(r)'
      BY <2>1, <2>5, <2>6, <2>7, <2>8, <2>9 DEF Knows, KnowsItsCommand, KnowsItsRow,
         CountsOn, KnowsItsRevision, Admitting, Running, Alone, Same
    <2> QED BY <2>7, <2>8, <2>10, AloneKeeps
  <1> QED BY <1>1, <1>2

LEMMA StartTaskKeeps ==
  ASSUME JobInv, NEW r \in Requests, StartTask(r)
  PROVE  Kept
  <1>1. /\ req'[r].pc = "before" /\ Same(r) /\ SameCalls(r)
        /\ req[r].pc = "inserted" /\ r \notin ToSet(history)
    BY GotoIs DEF JobInv, Steps, Running, StartTask, At, Knows, KnowsItsRevision
  <1>2. Owner(r)
    BY <1>1 DEF Owner
  <1>3. /\ KnowsItsCommand(r)' /\ KnowsItsRow(r)' /\ KnowsItsSource(r)' /\ CountsOn(r)'
    BY <1>1, <1>2 DEF JobInv, Knows, KnowsItsCommand, KnowsItsRow, KnowsItsSource,
         CountsOn, Admitting, Same, SameCalls, StartTask
  <1> QED BY <1>1, <1>2, <1>3, GotoKeeps DEF Steps, Running, StartTask

-----------------------------------------------------------------------------
(* A step that changes rows: the one with the job of r, or none.                 *)
LEMMA JobsOfStored ==
  ASSUME \A q \in Requests : q \in ToSet(history) => req'[q].job = req[q].job,
         UNCHANGED history, NEW j
  PROVE  Noted(j)' = Noted(j)
  BY DEF Noted

(* The invariant of a table in which the row of one job changed, or was added,   *)
(* by the request that owns it, or that comes to own it.                        *)
Writes(r, job, new) ==
  /\ req' \in [Requests -> RequestStates]
  /\ \A q \in Requests \ {r} : req'[q] = req[q]
  /\ r \in ToSet(history) => req'[r].job = req[r].job /\ req'[r].command = req[r].command
  /\ rows' = [rows EXCEPT ![job] = new]
  /\ UNCHANGED <<history, serverVars, readVars>>

LEMMA WritesKeeps ==
  ASSUME JobInv, NEW r \in Requests, NEW job \in Jobs, NEW new \in JobRows,
         Writes(r, job, new), Knows(r)', Owner(r)' => req'[r].job = job,
         (Owner(r) /\ req[r].job = job) \/ rows[job] = NULL,
         rows[job] # NULL => rows[job].calls <= new.calls,
         new.state = "SUCCEEDED" => new.revision \in Noted(job)
  PROVE  Kept
  <1> USE DEF serverVars, readVars
  <1>0. new # NULL
    BY RowAssumption
  <1>1. TypeOK'
    BY <1>0 DEF JobInv, TypeOK, Writes
  <1>2. /\ rows'[job] = new
        /\ \A j \in Jobs : j # job => rows'[j] = rows[j]
    BY <1>0 DEF JobInv, TypeOK, Writes
  <1>3. \A j \in Jobs : rows[j] # NULL =>
          /\ rows'[j] # NULL
          /\ rows[j].calls \in Int /\ rows'[j].calls \in Int
          /\ rows[j].calls <= rows'[j].calls
    BY <1>0, <1>2 DEF JobInv, TypeOK, JobRows
  <1>4. \A q \in Requests : Knows(q)'
    <2> SUFFICES ASSUME NEW q \in Requests, q # r PROVE Knows(q)'
      OBVIOUS
    <2>1. Knows(q) /\ req'[q] = req[q] /\ UNCHANGED history
      BY DEF JobInv, Writes
    <2>2. Owner(q) => req[q].job # job /\ req[q].job \in Jobs
      <3> SUFFICES ASSUME Owner(q) PROVE req[q].job # job /\ req[q].job \in Jobs
        OBVIOUS
      <3>1. rows[req[q].job] # NULL
        BY <2>1 DEF Knows, KnowsItsRow
      <3>2. req[q].job # job
        BY <3>1 DEF JobInv, OneOwner
      <3>3. req[q].job \in Jobs
        BY <2>1 DEF Knows, KnowsItsCommand, Owner, Running, JobInv, TypeOK, RequestStates
      <3> QED BY <3>2, <3>3
    <2>3. KnowsItsSource(q)'
      <3> DEFINE source == req[q].command.resume
      <3>1. CASE req[q].pc \in {"insert", "inserted", "before", "resumed"} /\ source # NULL
        <4>1. source \in Jobs /\ req[q].inherited \in Int
          BY SMTT(30), <2>1, <3>1 DEF Knows, KnowsItsCommand, JobInv, TypeOK, RequestStates, Commands
        <4>2. rows[source] # NULL /\ req[q].inherited <= rows[source].calls
          BY <2>1, <3>1 DEF Knows, KnowsItsSource
        <4>3. rows'[source] # NULL /\ req[q].inherited <= rows'[source].calls
          BY <4>1, <4>2, <1>3
        <4> QED BY <2>1, <3>1, <4>3 DEF KnowsItsSource
      <3>2. CASE ~ (req[q].pc \in {"insert", "inserted", "before", "resumed"} /\ source # NULL)
        BY <2>1, <3>2 DEF Knows, KnowsItsSource
      <3> QED BY <3>1, <3>2
    <2>4. KnowsItsCommand(q)' /\ KnowsItsRevision(q)'
      BY <2>1 DEF Knows, KnowsItsCommand, KnowsItsRevision
    <2>5. KnowsItsRow(q)'
      BY <2>1, <2>2, <1>2 DEF Knows, KnowsItsRow, Owner
    <2>6. CountsOn(q)'
      <3>1. rows'[req[q].job] = rows[req[q].job] \/ ~ Owner(q)
        BY <2>2, <1>2
      <3> QED BY <2>1, <3>1 DEF Knows, CountsOn, Owner, Running
    <2> QED BY <2>3, <2>4, <2>5, <2>6 DEF Knows
  <1>5. OneOwner'
    BY DEF JobInv, OneOwner, Owner, Knows, KnowsItsRow, Writes
  <1>6. BuiltOnReference'
    <2>1. \A q \in Requests : q \in ToSet(history) => req'[q].command = req[q].command
      BY DEF Writes
    <2> QED BY <2>1 DEF JobInv, BuiltOnReference, ToSet, Writes
  <1>7. \A j : Noted(j)' = Noted(j)
    BY JobsOfStored DEF Writes
  <1>8. RowsTellTheTruth' /\ ReadersOK'
    BY <1>2, <1>7 DEF JobInv, RowsTellTheTruth, ReadersOK, ReadersHoldRows,
       AnswersTellTheTruth, Writes
  <1>9. CallsGrow
    BY <1>3 DEF CallsGrow
  <1> QED BY <1>1, <1>4, <1>5, <1>6, <1>8, <1>9 DEF JobInv, Kept

LEMMA InsertKeeps ==
  ASSUME JobInv, NEW r \in Requests, NEW replied \in BOOLEAN, Insert(r, replied)
  PROVE  Kept
  <1> DEFINE job == req[r].job
             new == NewRow(r)
  <1>1. /\ req[r].pc = "insert" /\ Knows(r) /\ req[r] \in RequestStates
        /\ r \notin ToSet(history)
    BY DEF Insert, At, JobInv, TypeOK, Knows, KnowsItsRevision
  <1>2. CASE rows[job] # NULL
    BY <1>1, <1>2, AnswerKeeps DEF Insert, Admitting
  <1>3. CASE rows[job] = NULL
    <2>1. job \in Jobs /\ req[r].proc \in Processes /\ req[r].command \in Commands
      BY <1>1 DEF Knows, KnowsItsCommand, RequestStates
    <2>2. new \in JobRows /\ new.state = "RUNNING" /\ new.calls = req[r].inherited
      BY <1>1, <2>1 DEF NewRow, JobRows, States, RequestStates
    <2>3. /\ rows' = [rows EXCEPT ![job] = new]
          /\ Goto(r, "inserted") \/ Answer(r)
          /\ UNCHANGED <<history, serverVars, readVars>>
      BY <1>3 DEF Insert
    <2> HIDE DEF new
    <2>4. rows'[job] = new /\ new # NULL
      BY <2>1, <2>2, <2>3, RowAssumption DEF JobInv, TypeOK
    <2>5. \A j \in Jobs : rows[j] # NULL => rows'[j] = rows[j]
      BY <1>3, <2>3 DEF JobInv, TypeOK
    <2>6. CASE Answer(r)
      <3>1. /\ req' \in [Requests -> RequestStates] /\ Others(r)
            /\ req'[r].pc = "answered" /\ req'[r].outcome = "FAILED"
        BY <2>6, AnswerIs DEF JobInv
      <3>2. Writes(r, job, new)
        BY <1>1, <2>3, <3>1 DEF Writes, Others
      <3>3. Knows(r)' /\ ~ Owner(r)'
        BY <1>1, <2>3, <3>1 DEF Knows, KnowsItsCommand, KnowsItsRow, KnowsItsSource,
           CountsOn, KnowsItsRevision, Owner, Admitting, Running
      <3> QED BY <1>3, <2>1, <2>2, <3>2, <3>3, WritesKeeps
    <2>7. CASE Goto(r, "inserted")
      <3>1. /\ req' \in [Requests -> RequestStates] /\ Others(r)
            /\ req'[r].pc = "inserted" /\ req'[r].outcome = req[r].outcome
            /\ Same(r) /\ SameCalls(r)
        BY <2>7, GotoIs DEF JobInv, Steps, Admitting
      <3>2. Writes(r, job, new)
        BY <1>1, <2>3, <3>1 DEF Writes, Others
      <3>3. KnowsItsSource(r)'
        <4> DEFINE source == req[r].command.resume
        <4>1. CASE source = NULL
          BY <1>1, <3>1, <4>1 DEF Knows, KnowsItsSource, Same, SameCalls
        <4>2. CASE source # NULL
          <5>1. source \in Jobs /\ rows[source] # NULL
            BY <1>1, <2>1, <4>2 DEF Knows, KnowsItsSource, Commands
          <5> QED BY <1>1, <2>5, <3>1, <4>2, <5>1 DEF Knows, KnowsItsSource, Same, SameCalls
        <4> QED BY <4>1, <4>2
      <3>4. CountsOn(r)'
        BY <1>1, <2>2, <2>4, <3>1 DEF Knows, CountsOn, Admitting, Running, RequestStates,
           Same, SameCalls
      <3>5. KnowsItsCommand(r)' /\ KnowsItsRow(r)' /\ KnowsItsRevision(r)'
        BY <1>1, <2>3, <2>4, <3>1 DEF Knows, KnowsItsCommand, KnowsItsRow,
           KnowsItsRevision, Same
      <3>6. Knows(r)' /\ req'[r].job = job
        BY <3>1, <3>3, <3>4, <3>5 DEF Knows, Same
      <3> QED BY <1>3, <2>1, <2>2, <3>2, <3>6, WritesKeeps
    <2> QED BY <2>3, <2>6, <2>7
  <1> QED BY <1>2, <1>3

LEMMA AdmissionKeeps ==
  ASSUME JobInv, NEW r \in Requests, Admission(r)
  PROVE  Kept
  <1>1. CASE StoreUnavailable(r)
    BY <1>1, AnswerKeeps DEF StoreUnavailable, Admitting
  <1> QED BY <1>1, ReadSourceKeeps, ReadPriorKeeps, ReadHeadKeeps, AdmitKeeps,
             CheckResumeKeeps, InsertKeeps, StartTaskKeeps DEF Admission

-----------------------------------------------------------------------------
(* The runner.  From one of its steps to another nothing else changes.           *)
LEMMA GoOn ==
  ASSUME JobInv, NEW r \in Requests, NEW step \in Running, Goto(r, step),
         req[r].pc \in Running, step \notin {"before", "resumed", "provider"},
         req[r].pc # "confirm", req[r].pc # "finish",
         UNCHANGED <<history, rows, serverVars, readVars>>
  PROVE  Kept
  <1>1. /\ req'[r].pc = step /\ Same(r) /\ SameCalls(r) /\ r \notin ToSet(history)
    BY GotoIs DEF JobInv, Steps, Running, Knows, KnowsItsRevision
  <1>2. Owner(r)
    BY DEF Owner, Running
  <1>3. /\ KnowsItsCommand(r)' /\ KnowsItsRow(r)' /\ KnowsItsSource(r)' /\ CountsOn(r)'
    BY <1>1, <1>2 DEF JobInv, Knows, KnowsItsCommand, KnowsItsRow, KnowsItsSource,
         CountsOn, Admitting, Running, Same, SameCalls
  <1> QED BY <1>1, <1>2, <1>3, GotoKeeps DEF Steps, Running

LEMMA LoadBeforeKeeps ==
  ASSUME JobInv, NEW r \in Requests, LoadBefore(r)
  PROVE  Kept
  <1> DEFINE step == IF req[r].command.resume = NULL THEN "provider" ELSE "resumed"
  <1>1. CASE Fail(r)
    BY <1>1, FailKeeps DEF LoadBefore, At, Running
  <1>2. CASE Goto(r, step)
    <2>1. step \in Steps
      BY DEF Steps, Running
    <2>2. \/ step = "resumed" /\ req[r].command.resume # NULL
          \/ step = "provider" /\ req[r].command.resume = NULL
      OBVIOUS
    <2> HIDE DEF step
    <2>3. /\ req'[r].pc = step /\ Same(r) /\ SameCalls(r)
          /\ req[r].pc = "before" /\ r \notin ToSet(history)
      BY <1>2, <2>1, GotoIs DEF JobInv, LoadBefore, At, Knows, KnowsItsRevision
    <2>4. Owner(r)
      BY <2>3 DEF Owner, Running
    <2>5. KnowsItsCommand(r)' /\ KnowsItsRow(r)'
      BY <2>3, <2>4 DEF JobInv, Knows, KnowsItsCommand, KnowsItsRow, Same, LoadBefore
    <2>6. KnowsItsSource(r)' /\ CountsOn(r)'
      BY <2>2, <2>3 DEF JobInv, Knows, KnowsItsSource, CountsOn, Admitting, Running, Same,
         SameCalls, LoadBefore
    <2> QED BY <1>2, <2>1, <2>3, <2>4, <2>5, <2>6, GotoKeeps DEF LoadBefore
  <1> QED BY <1>1, <1>2 DEF LoadBefore

LEMMA LoadResumedKeeps ==
  ASSUME JobInv, NEW r \in Requests, LoadResumed(r)
  PROVE  Kept
  <1> DEFINE source == req[r].command.resume
             calls == rows[source].calls
  <1>1. CASE Fail(r)
    BY <1>1, FailKeeps DEF LoadResumed, At, Running
  <1>2. CASE ~ Fail(r)
    <2>1. /\ req[r].pc = "resumed" /\ Knows(r) /\ req[r] \in RequestStates
          /\ r \notin ToSet(history)
      BY DEF LoadResumed, At, JobInv, TypeOK, Knows, KnowsItsRevision
    <2>2. req' = [req EXCEPT ![r].pc = "provider", ![r].inherited = calls,
                    ![r].used = calls, ![r].reported = calls]
      BY <1>2 DEF LoadResumed
    <2>3. /\ source \in Jobs /\ rows[source] # NULL
          /\ req[r].inherited <= calls
      BY <2>1 DEF Knows, KnowsItsSource, KnowsItsCommand, RequestStates, Commands
    <2>4. calls \in 0 .. 12
      BY <2>3 DEF JobInv, TypeOK, JobRows
    <2> HIDE DEF calls
    <2> DEFINE r1 == [req EXCEPT ![r].pc = "provider"]
               r2 == [r1 EXCEPT ![r].inherited = calls]
               r3 == [r2 EXCEPT ![r].used = calls]
    <2>5. req' = [r3 EXCEPT ![r].reported = calls]
      BY <2>2
    <2> HIDE DEF r2, r3
    <2>6. /\ r1 \in [Requests -> RequestStates]
          /\ \A q \in Requests \ {r} : r1[q] = req[q]
          /\ r1[r].pc = "provider" /\ r1[r].outcome = req[r].outcome
          /\ r1[r].job = req[r].job /\ r1[r].proc = req[r].proc
          /\ r1[r].command = req[r].command
      <3>1. req \in [Requests -> RequestStates]
        BY DEF JobInv, TypeOK
      <3> QED BY <3>1 DEF RequestStates, Running
    <2> HIDE DEF r1
    <2> USE DEF r2
    <2>7. /\ r2 \in [Requests -> RequestStates]
          /\ \A q \in Requests \ {r} : r2[q] = req[q]
          /\ r2[r].pc = "provider" /\ r2[r].outcome = req[r].outcome
          /\ r2[r].job = req[r].job /\ r2[r].proc = req[r].proc
          /\ r2[r].command = req[r].command
      BY <2>4, <2>6 DEF RequestStates
    <2> HIDE DEF r2
    <2> USE DEF r3
    <2>8. /\ r3 \in [Requests -> RequestStates]
          /\ \A q \in Requests \ {r} : r3[q] = req[q]
          /\ r3[r].pc = "provider" /\ r3[r].outcome = req[r].outcome
          /\ r3[r].job = req[r].job /\ r3[r].proc = req[r].proc
          /\ r3[r].command = req[r].command
      BY <2>4, <2>7 DEF RequestStates
    <2> HIDE DEF r3
    <2>9. /\ req' \in [Requests -> RequestStates] /\ Others(r)
          /\ req'[r].pc = "provider" /\ req'[r].reported = calls
          /\ req'[r].outcome = req[r].outcome /\ Same(r)
      BY <2>4, <2>5, <2>8 DEF RequestStates, Others, Same
    <2>10. Alone(r)
      BY <2>1, <2>9 DEF Alone, Others, LoadResumed
    <2>11. Owner(r)
      BY <2>1 DEF Owner, Running
    <2>12. rows[req[r].job].calls \in Int
      BY <2>1, <2>11 DEF Knows, KnowsItsCommand, KnowsItsRow, JobInv, TypeOK, JobRows,
         RequestStates
    <2>13. CountsOn(r)'
      BY <2>1, <2>3, <2>4, <2>9, <2>12 DEF Knows, CountsOn, Admitting, Same, LoadResumed,
         RequestStates
    <2>14. Knows(r)'
      BY <2>1, <2>9, <2>11, <2>13 DEF Knows, KnowsItsCommand, KnowsItsRow, KnowsItsSource,
         KnowsItsRevision, Same, LoadResumed
    <2> QED BY <2>9, <2>10, <2>11, <2>14, AloneKeeps DEF Same
  <1> QED BY <1>1, <1>2

LEMMA ProviderCallKeeps ==
  ASSUME JobInv, NEW r \in Requests, ProviderCall(r)
  PROVE  Kept
  <1>1. /\ req[r].pc = "provider" /\ Knows(r) /\ req[r] \in RequestStates
        /\ r \notin ToSet(history) /\ Owner(r)
    BY DEF ProviderCall, At, JobInv, TypeOK, Knows, KnowsItsRevision, Owner, Running
  <1>2. req[r].command \in Commands
    BY <1>1 DEF Knows, KnowsItsCommand, RequestStates
  <1>3. req[r].used + 1 \in 0 .. 12
    BY <1>1, <1>2 DEF ProviderCall, RequestStates, Commands
  <1>4. /\ req' \in [Requests -> RequestStates] /\ Others(r)
        /\ req'[r].pc = "provider" /\ req'[r].reported = req[r].reported
        /\ req'[r].outcome = req[r].outcome /\ Same(r)
    BY <1>1, <1>3 DEF ProviderCall, JobInv, TypeOK, RequestStates, Others, Same
  <1>5. Alone(r)
    BY <1>1, <1>4 DEF Alone, Others, ProviderCall
  <1>6. Knows(r)'
    BY <1>1, <1>4 DEF Knows, KnowsItsCommand, KnowsItsRow, KnowsItsSource, CountsOn,
       KnowsItsRevision, Admitting, Same, ProviderCall
  <1> QED BY <1>1, <1>4, <1>5, <1>6, AloneKeeps DEF Same

(* A row with another count, and a row that is closed, is a row.                 *)
LEMMA RowCounted ==
  ASSUME NEW row \in JobRows, NEW count \in 0 .. 12, NEW flag \in BOOLEAN
  PROVE  LET new == [row EXCEPT !.calls = count, !.checkpoint = flag]
         IN new \in JobRows /\ new.calls = count /\ new.state = row.state
  <1> DEFINE mid == [row EXCEPT !.calls = count]
             new == [row EXCEPT !.calls = count, !.checkpoint = flag]
  <1>1. new = [mid EXCEPT !.checkpoint = flag]
    OBVIOUS
  <1>2. mid \in JobRows /\ mid.calls = count /\ mid.state = row.state
    BY DEF JobRows
  <1> HIDE DEF mid, new
  <1>3. new \in JobRows /\ new.calls = count /\ new.state = row.state
    BY <1>1, <1>2 DEF JobRows
  <1> QED BY <1>3 DEF new

Closed(row, state, revision) == [row EXCEPT !.state = state, !.revision = revision]

LEMMA RowClosed ==
  ASSUME NEW row \in JobRows, NEW state \in {"SUCCEEDED", "FAILED"},
         NEW revision \in Requests \cup {NULL}
  PROVE  /\ Closed(row, state, revision) \in JobRows
         /\ Closed(row, state, revision).calls = row.calls
         /\ Closed(row, state, revision).state = state
         /\ Closed(row, state, revision).revision = revision
  <1> DEFINE mid == [row EXCEPT !.state = state]
  <1>1. Closed(row, state, revision) = [mid EXCEPT !.revision = revision]
    BY DEF Closed
  <1>2. mid \in JobRows /\ mid.calls = row.calls /\ mid.state = state
    BY DEF JobRows, States
  <1> HIDE DEF mid
  <1> QED BY <1>1, <1>2 DEF JobRows

LEMMA ReportKeeps ==
  ASSUME JobInv, NEW r \in Requests, NEW checkpoint \in BOOLEAN, NEW applied \in BOOLEAN,
         NEW replied \in BOOLEAN, Report(r, checkpoint, applied, replied)
  PROVE  Kept
  <1> DEFINE job == req[r].job
             row == rows[job]
             count == req[r].reported + 1
             flag == row.checkpoint \/ checkpoint
             new == [row EXCEPT !.calls = count, !.checkpoint = flag]
  <1>1. /\ req[r].pc = "provider" /\ Knows(r) /\ req[r] \in RequestStates
        /\ r \notin ToSet(history) /\ Owner(r)
    BY DEF Report, At, JobInv, TypeOK, Knows, KnowsItsRevision, Owner, Running
  <1>2. job \in Jobs /\ row # NULL /\ row.calls <= req[r].reported
    BY <1>1 DEF Knows, KnowsItsCommand, KnowsItsRow, CountsOn, RequestStates
  <1>3. row \in JobRows
    BY <1>2 DEF JobInv, TypeOK
  <1>4. row.calls \in Int /\ flag \in BOOLEAN
    BY <1>3 DEF JobRows
  <1>5. count \in 0 .. 12 /\ row.calls <= count
    BY <1>1, <1>2, <1>4 DEF Report, RequestStates
  <1>6. /\ rows' = rows \/ (rows' = [rows EXCEPT ![job] = new] /\ row.state = "RUNNING")
        /\ \/ Fail(r)
           \/ /\ rows' = IF row.state = "RUNNING" THEN [rows EXCEPT ![job] = new] ELSE rows
              /\ req' = [req EXCEPT ![r].reported = count]
        /\ UNCHANGED <<history, serverVars, readVars>>
    BY DEF Report, Patch
  <1>7. new \in JobRows /\ new.calls = count /\ new.state = row.state
    <2> HIDE DEF row, count, flag
    <2> QED BY <1>3, <1>4, <1>5, RowCounted
  <1> HIDE DEF new, count, flag
  <1>8. new # NULL
    BY <1>7, RowAssumption
  <1>9. rows'[job] # NULL /\ (rows' = rows \/ rows'[job] = new)
    BY <1>2, <1>6, <1>8 DEF JobInv, TypeOK
  <1>10. CASE Fail(r)
    <2>1. /\ req' \in [Requests -> RequestStates] /\ Others(r)
          /\ req'[r].pc = "finish" /\ req'[r].outcome = "FAILED"
          /\ Same(r) /\ SameCalls(r)
      BY <1>10, FailIs DEF JobInv
    <2>2. CASE rows' = rows
      BY <1>1, <1>6, <1>10, <2>2, FailKeeps DEF Running
    <2>3. CASE rows' = [rows EXCEPT ![job] = new] /\ row.state = "RUNNING"
      <3>1. Writes(r, job, new)
        BY <1>1, <1>6, <2>1, <2>3 DEF Writes, Others
      <3>2. Knows(r)'
        BY <1>1, <1>6, <1>9, <2>1 DEF Knows, KnowsItsCommand, KnowsItsRow, KnowsItsSource,
           CountsOn, KnowsItsRevision, Admitting, Running, Same
      <3> QED BY <1>1, <1>2, <1>5, <1>7, <2>1, <2>3, <3>1, <3>2, WritesKeeps DEF Same
    <2> QED BY <1>6, <2>2, <2>3
  <1>11. CASE /\ rows' = IF row.state = "RUNNING" THEN [rows EXCEPT ![job] = new] ELSE rows
              /\ req' = [req EXCEPT ![r].reported = count]
    <2>1. /\ req' \in [Requests -> RequestStates] /\ Others(r)
          /\ req'[r].pc = "provider" /\ req'[r].reported = count
          /\ req'[r].outcome = req[r].outcome /\ Same(r)
      BY <1>1, <1>5, <1>11 DEF JobInv, TypeOK, RequestStates, Others, Same
    <2>2. rows'[job].calls <= count
      BY <1>2, <1>5, <1>7, <1>9 DEF JobInv, TypeOK
    <2>3. Knows(r)'
      BY <1>1, <1>6, <1>9, <2>1, <2>2 DEF Knows, KnowsItsCommand, KnowsItsRow,
         KnowsItsSource, CountsOn, KnowsItsRevision, Admitting, Running, Same
    <2>4. CASE rows' = rows
      <3>1. Alone(r)
        BY <1>1, <1>6, <2>1, <2>4 DEF Alone, Others
      <3> QED BY <1>1, <2>1, <2>3, <3>1, AloneKeeps DEF Same
    <2>5. CASE rows' = [rows EXCEPT ![job] = new] /\ row.state = "RUNNING"
      <3>1. Writes(r, job, new)
        BY <1>1, <1>6, <2>1, <2>5 DEF Writes, Others
      <3> QED BY <1>1, <1>2, <1>5, <1>7, <2>1, <2>3, <2>5, <3>1, WritesKeeps DEF Same
    <2> QED BY <1>6, <2>4, <2>5
  <1> QED BY <1>6, <1>10, <1>11

LEMMA FinishKeeps ==
  ASSUME JobInv, NEW r \in Requests, NEW applied \in BOOLEAN, Finish(r, applied)
  PROVE  Kept
  <1> DEFINE job == req[r].job
             old == rows[job]
             revision == IF req[r].outcome = "SUCCEEDED" THEN r ELSE old.revision
             new == Closed(old, req[r].outcome, revision)
  <1>1. /\ req[r].pc = "finish" /\ Knows(r) /\ req[r] \in RequestStates /\ Owner(r)
    BY DEF Finish, At, JobInv, TypeOK, Owner, Running
  <1>2. job \in Jobs /\ old # NULL
    BY <1>1 DEF Knows, KnowsItsCommand, KnowsItsRow, RequestStates
  <1>3. old \in JobRows
    BY <1>2 DEF JobInv, TypeOK
  <1>4. old.calls \in Int /\ revision \in Requests \cup {NULL}
    BY <1>3 DEF JobRows
  <1>5. /\ rows' = rows \/ rows' = [rows EXCEPT ![job] = new]
        /\ Goto(r, "ended")
        /\ UNCHANGED <<history, serverVars, readVars>>
    BY DEF Finish, Patch, Closed
  <1>6. /\ new \in JobRows /\ new.calls = old.calls
        /\ new.state = req[r].outcome /\ new.revision = revision
    <2>1. req[r].outcome \in {"SUCCEEDED", "FAILED"}
      BY <1>1 DEF RequestStates
    <2> QED BY <1>3, <1>4, <2>1, RowClosed
  <1>7. req[r].outcome = "SUCCEEDED" => revision \in Noted(job)
    BY <1>1 DEF Knows, KnowsItsRevision, Noted
  <1> HIDE DEF new, revision
  <1>8. rows'[job] # NULL
    BY <1>2, <1>5, <1>6, RowAssumption DEF JobInv, TypeOK
  <1>9. /\ req' \in [Requests -> RequestStates] /\ Others(r)
        /\ req'[r].pc = "ended" /\ req'[r].outcome = req[r].outcome
        /\ Same(r) /\ SameCalls(r)
    BY <1>5, GotoIs DEF JobInv, Steps
  <1>10. Knows(r)'
    BY <1>1, <1>5, <1>8, <1>9 DEF Knows, KnowsItsCommand, KnowsItsRow, KnowsItsSource,
       CountsOn, KnowsItsRevision, Admitting, Running, Same
  <1>11. CASE rows' = rows
    <2>1. Alone(r)
      BY <1>5, <1>9, <1>11 DEF Alone, Others, Same
    <2> QED BY <1>1, <1>9, <1>10, <2>1, AloneKeeps DEF Same
  <1>12. CASE rows' = [rows EXCEPT ![job] = new]
    <2>1. Writes(r, job, new)
      BY <1>5, <1>9, <1>12 DEF Writes, Others, Same
    <2> QED BY <1>1, <1>2, <1>4, <1>6, <1>7, <1>9, <1>10, <2>1, WritesKeeps DEF Same
  <1> QED BY <1>5, <1>11, <1>12

LEMMA ConfirmKeeps ==
  ASSUME JobInv, NEW r \in Requests, Confirm(r)
  PROVE  Kept
  <1>1. CASE Fail(r)
    BY <1>1, FailKeeps DEF Confirm, At, Running
  <1>2. CASE Goto(r, "finish")
    <2>1. /\ req'[r].pc = "finish" /\ Same(r) /\ SameCalls(r) /\ req[r].pc = "confirm"
      BY <1>2, GotoIs DEF JobInv, Steps, Running, Confirm, At
    <2>2. Owner(r)
      BY <2>1 DEF Owner, Running
    <2>3. /\ KnowsItsCommand(r)' /\ KnowsItsRow(r)' /\ KnowsItsSource(r)' /\ CountsOn(r)'
      BY <2>1, <2>2 DEF JobInv, Knows, KnowsItsCommand, KnowsItsRow, KnowsItsSource,
         CountsOn, Admitting, Same, Confirm
    <2> QED BY <1>2, <2>1, <2>2, <2>3, GotoKeeps DEF Steps, Running, Confirm
  <1> QED BY <1>1, <1>2 DEF Confirm

-----------------------------------------------------------------------------
(* The history grows by a revision: of a request, or of somebody else.           *)
LEMMA Appended ==
  ASSUME TypeOK, NEW x \in Revisions, history' = Append(history, x)
  PROVE  /\ history' \in Seq(Revisions) /\ ToSet(history') = ToSet(history) \cup {x}
         /\ DOMAIN history = 1 .. Len(history) /\ Len(history) \in Nat
         /\ DOMAIN history' = 1 .. Len(history) + 1
         /\ \A i \in DOMAIN history : history'[i] = history[i]
         /\ history'[Len(history) + 1] = x
  <1>1. /\ history \in Seq(Revisions) /\ history' \in Seq(Revisions)
        /\ DOMAIN history = 1 .. Len(history) /\ Len(history) \in Nat
        /\ Len(history') = Len(history) + 1
        /\ \A i \in DOMAIN history : history'[i] = history[i]
        /\ history'[Len(history) + 1] = x
    BY DEF TypeOK
  <1>2. DOMAIN history' = 1 .. Len(history) + 1
    BY <1>1
  <1>3. ToSet(history') = ToSet(history) \cup {x}
    BY <1>1, <1>2 DEF ToSet
  <1> QED BY <1>1, <1>2, <1>3

LEMMA HeadIs ==
  ASSUME TypeOK
  PROVE  head = IF Len(history) = 0 THEN NULL ELSE history[Len(history)]
  BY DEF TypeOK, head, Last

(* Nobody else's knowledge is disturbed by a revision that is not his.           *)
LEMMA GrowKeeps ==
  ASSUME JobInv, NEW x \in Revisions, history' = Append(history, x),
         req' \in [Requests -> RequestStates],
         \A q \in Requests \ {x} : req'[q] = req[q],
         x \in Requests =>
           /\ x \notin ToSet(history) /\ Knows(x)' /\ Owner(x)
           /\ req'[x].job = req[x].job /\ req'[x].command = req[x].command
           /\ req[x].command.expected = head,
         UNCHANGED <<rows, serverVars, readVars>>
  PROVE  Kept
  <1> USE DEF serverVars, readVars
  <1>0. TypeOK
    BY DEF JobInv
  <1>1. TypeOK'
    BY <1>0, Appended DEF TypeOK
  <1>2. \A q \in Requests : Knows(q)'
    <2> SUFFICES ASSUME NEW q \in Requests, q # x PROVE Knows(q)'
      OBVIOUS
    <2>1. Knows(q) /\ req'[q] = req[q]
      BY DEF JobInv
    <2>2. q \in ToSet(history') <=> q \in ToSet(history)
      BY <1>0, Appended
    <2>3. KnowsItsRevision(q)'
      BY <2>1, <2>2 DEF Knows, KnowsItsRevision
    <2> QED BY <2>1, <2>3 DEF Knows, KnowsItsCommand, KnowsItsRow, KnowsItsSource,
                     CountsOn, Owner
  <1>3. OneOwner'
    <2>1. \A q \in Requests : Owner(q)' => Owner(q) /\ req'[q].job = req[q].job
      BY DEF Owner
    <2> QED BY <2>1 DEF JobInv, OneOwner
  <1>4. BuiltOnReference'
    <2> SUFFICES ASSUME NEW i \in DOMAIN history', history'[i] \in Requests
                 PROVE  req'[history'[i]].command.expected =
                          IF i = 1 THEN NULL ELSE history'[i - 1]
      BY DEF BuiltOnReference
    <2>1. CASE i \in DOMAIN history
      <3>1. history'[i] = history[i] /\ history[i] \in ToSet(history)
        BY <1>0, <2>1, Appended DEF ToSet
      <3>2. req'[history[i]].command = req[history[i]].command
        BY <3>1
      <3>3. i # 1 => history'[i - 1] = history[i - 1]
        BY <1>0, <2>1, Appended
      <3> QED BY <2>1, <3>1, <3>2, <3>3 DEF JobInv, BuiltOnReference
    <2>2. CASE i \notin DOMAIN history
      <3>1. i = Len(history) + 1 /\ history'[i] = x /\ Len(history) \in Nat
        BY <1>0, <2>2, Appended
      <3>2. req'[x].command.expected = head
        BY <3>1
      <3>3. Len(history) # 0 => history'[i - 1] = history[Len(history)]
        BY <1>0, <3>1, Appended
      <3> QED BY <1>0, <3>1, <3>2, <3>3, HeadIs
    <2> QED BY <2>1, <2>2
  <1>5. \A j : Noted(j) \subseteq Noted(j)'
    <2>1. \A q \in Requests : req'[q].job = req[q].job
      OBVIOUS
    <2> QED BY <1>0, <2>1, Appended DEF Noted
  <1>6. RowsTellTheTruth' /\ ReadersOK'
    BY <1>5 DEF JobInv, RowsTellTheTruth, ReadersOK, ReadersHoldRows, AnswersTellTheTruth
  <1>7. CallsGrow
    BY DEF CallsGrow, JobInv, TypeOK, JobRows
  <1> QED BY <1>1, <1>2, <1>3, <1>4, <1>6, <1>7 DEF JobInv, Kept

LEMMA SaveKeeps ==
  ASSUME JobInv, NEW r \in Requests, NEW replied \in BOOLEAN, Save(r, replied)
  PROVE  Kept
  <1>1. /\ req[r].pc = "save" /\ Knows(r) /\ r \notin ToSet(history) /\ Owner(r)
    BY DEF Save, At, JobInv, Knows, KnowsItsRevision, Owner, Running
  <1>2. CASE head # req[r].command.expected
    BY <1>1, <1>2, FailKeeps DEF Save, Running
  <1>3. CASE head = req[r].command.expected
    <2> DEFINE step == IF replied /\ req[r].command.action = "chat_edit"
                       THEN "confirm" ELSE "finish"
               outcome == IF replied THEN "SUCCEEDED" ELSE "FAILED"
               mid == [req EXCEPT ![r].pc = step]
    <2>1. /\ req' = [mid EXCEPT ![r].outcome = outcome]
          /\ history' = Append(history, r)
          /\ UNCHANGED <<rows, serverVars, readVars>>
      BY <1>3 DEF Save, Saved
    <2>2. step \in {"confirm", "finish"} /\ outcome \in {"SUCCEEDED", "FAILED"}
      OBVIOUS
    <2> HIDE DEF step, outcome
    <2>3. /\ mid \in [Requests -> RequestStates]
          /\ \A q \in Requests \ {r} : mid[q] = req[q]
          /\ mid[r].pc = step /\ mid[r].job = req[r].job
          /\ mid[r].command = req[r].command /\ mid[r].proc = req[r].proc
      <3>1. req \in [Requests -> RequestStates]
        BY DEF JobInv, TypeOK
      <3> QED BY <2>2, <3>1 DEF RequestStates, Running
    <2> HIDE DEF mid
    <2>4. /\ req' \in [Requests -> RequestStates]
          /\ \A q \in Requests \ {r} : req'[q] = req[q]
          /\ req'[r].pc = step /\ Same(r)
      BY ZenonT(40), <2>1, <2>2, <2>3 DEF RequestStates, Same
    <2>5. r \in ToSet(history')
      BY <2>1, Appended DEF JobInv, Revisions
    <2>6. Knows(r)'
      BY <1>1, <2>1, <2>2, <2>4, <2>5 DEF Knows, KnowsItsCommand, KnowsItsRow,
         KnowsItsSource, CountsOn, KnowsItsRevision, Admitting, Same
    <2> QED BY <1>1, <1>3, <2>1, <2>4, <2>6, GrowKeeps DEF Revisions, Same
  <1> QED BY <1>2, <1>3

LEMMA RunnerKeeps ==
  ASSUME JobInv, NEW r \in Requests, Runner(r)
  PROVE  Kept
  <1>1. CASE ProviderAnswers(r)
    BY <1>1, GoOn DEF ProviderAnswers, At, Running
  <1>2. CASE RunFails(r)
    BY <1>2, FailKeeps DEF RunFails
  <1>3. CASE LoadAfter(r)
    <2>1. CASE Fail(r)
      BY <1>3, <2>1, FailKeeps DEF LoadAfter, At, Running
    <2>2. CASE Goto(r, "save")
      BY <1>3, <2>2, GoOn DEF LoadAfter, At, Running
    <2> QED BY <1>3, <2>1, <2>2 DEF LoadAfter
  <1> QED BY <1>1, <1>2, <1>3, LoadBeforeKeeps, LoadResumedKeeps, ProviderCallKeeps,
             ReportKeeps, SaveKeeps, ConfirmKeeps, FinishKeeps DEF Runner

-----------------------------------------------------------------------------
(* Readers, and processes that come and go.                                     *)
LEMMA ReaderKeeps ==
  ASSUME JobInv, TypeOK', ReadersOK', UNCHANGED <<history, rows, req>>
  PROVE  Kept
  <1>1. \A q \in Requests : Knows(q)'
    BY DEF JobInv, Knows, KnowsItsCommand, KnowsItsRow, KnowsItsSource, CountsOn,
       KnowsItsRevision, Owner
  <1>2. OneOwner' /\ BuiltOnReference'
    BY DEF JobInv, OneOwner, Owner, BuiltOnReference
  <1>3. RowsTellTheTruth' /\ CallsGrow
    BY DEF JobInv, RowsTellTheTruth, Noted, CallsGrow, TypeOK, JobRows
  <1> QED BY <1>1, <1>2, <1>3 DEF JobInv, Kept

(* What a reader holds.                                                        *)
Held ==
  [step : {"idle", "history", "view"}, proc : Processes \cup {NULL},
   job : Jobs \cup {NULL}, row : JobRows \cup {NULL}, stored : BOOLEAN]

LEMMA NothingHeld == NoPoll \in Held /\ NoPoll.step = "idle"
  BY DEF NoPoll, Held

(* A reader that takes up a row, or lets go of it.                               *)
LEMMA HoldsAnother ==
  ASSUME JobInv, NEW c \in Pollers, NEW held \in Held, poll' = [poll EXCEPT ![c] = held],
         held.step # "idle" =>
           /\ held.row # NULL
           /\ held.row.state = "SUCCEEDED" => Noted(held.job) # {},
         UNCHANGED <<history, rows, serverVars, req, answer>>
  PROVE  Kept
  <1>1. TypeOK'
    BY DEF JobInv, TypeOK, Held, serverVars
  <1>2. \A j : Noted(j)' = Noted(j)
    BY DEF Noted
  <1>3. ReadersOK'
    BY <1>2 DEF JobInv, ReadersOK, ReadersHoldRows, AnswersTellTheTruth, TypeOK, Held
  <1> QED BY <1>1, <1>3, ReaderKeeps

LEMMA PollRowKeeps ==
  ASSUME JobInv, NEW c \in Pollers, NEW p \in Processes, NEW j \in Jobs, PollRow(c, p, j)
  PROVE  Kept
  <1> DEFINE step == IF rows[j].state = "RUNNING" THEN "history" ELSE "view"
             stored == Noted(j) # {}
             held == [step |-> step, proc |-> p, job |-> j, row |-> rows[j],
                      stored |-> stored]
  <1>1. poll' = [poll EXCEPT ![c] = held] /\ rows[j] # NULL
    BY DEF PollRow
  <1>2. rows[j] \in JobRows
    BY <1>1 DEF JobInv, TypeOK
  <1>3. step \in {"history", "view"} /\ stored \in BOOLEAN
    OBVIOUS
  <1> HIDE DEF step, stored
  <1>4. held \in Held /\ held.row = rows[j] /\ held.job = j
    BY <1>2, <1>3 DEF Held
  <1>5. rows[j].state = "SUCCEEDED" => Noted(j) # {}
    BY <1>1 DEF JobInv, RowsTellTheTruth
  <1> HIDE DEF held
  <1> QED BY <1>1, <1>4, <1>5, HoldsAnother DEF PollRow

LEMMA PollHistoryKeeps ==
  ASSUME JobInv, NEW c \in Pollers, PollHistory(c)
  PROVE  Kept
  <1> DEFINE noted == Noted(poll[c].job)
             row == poll[c].row
             found == [row EXCEPT !.state = "SUCCEEDED",
                                  !.revision = CHOOSE x \in noted : TRUE]
             new == IF noted = {} THEN row ELSE found
  <1>1. poll' = [poll EXCEPT ![c].step = "view", ![c].row = new]
    BY DEF PollHistory, RecoverFrom
  <1>2. poll[c] \in Held /\ row # NULL /\ row \in JobRows
    BY DEF JobInv, TypeOK, Held, ReadersOK, ReadersHoldRows, PollHistory
  <1>3. new \in JobRows /\ (new.state = "SUCCEEDED" => noted # {})
    <2>1. CASE noted = {}
      BY <1>2, <2>1 DEF JobInv, ReadersOK, ReadersHoldRows, PollHistory
    <2>2. CASE noted # {}
      <3> DEFINE x == CHOOSE x \in noted : TRUE
      <3>1. x \in Requests
        BY <2>2 DEF Noted
      <3> HIDE DEF x
      <3>2. Closed(row, "SUCCEEDED", x) \in JobRows
        BY <1>2, <3>1, RowClosed
      <3>3. found = Closed(row, "SUCCEEDED", x)
        BY DEF Closed, x
      <3> QED BY <2>2, <3>2, <3>3
    <2> QED BY <2>1, <2>2
  <1> HIDE DEF new, noted
  <1> DEFINE viewed == [poll[c] EXCEPT !.step = "view"]
             held == [viewed EXCEPT !.row = new]
  <1>4. poll' = [poll EXCEPT ![c] = held]
    BY <1>1 DEF JobInv, TypeOK
  <1>5. viewed \in Held /\ viewed.job = poll[c].job
    BY <1>2 DEF Held
  <1> HIDE DEF viewed
  <1>6. held \in Held /\ held.job = poll[c].job /\ held.row = new
    BY <1>3, <1>5 DEF Held
  <1> HIDE DEF held
  <1>7. new # NULL
    BY <1>3, RowAssumption
  <1> QED BY <1>3, <1>4, <1>6, <1>7, HoldsAnother DEF PollHistory, noted

LEMMA PollViewKeeps ==
  ASSUME JobInv, NEW c \in Pollers, PollView(c)
  PROVE  Kept
  <1> DEFINE row == poll[c].row
             job == poll[c].job
             shown == JobState(poll[c].proc, job, row)
             new == [job |-> job, stored |-> poll[c].stored, state |-> shown]
  <1>1. /\ answer' = [answer EXCEPT ![c] = new] /\ poll' = [poll EXCEPT ![c] = NoPoll]
        /\ UNCHANGED <<history, rows, serverVars, req>>
    BY DEF PollView
  <1>2. poll[c] \in Held /\ row \in JobRows /\ (row.state = "SUCCEEDED" => Noted(job) # {})
    BY DEF JobInv, TypeOK, Held, ReadersOK, ReadersHoldRows, PollView
  <1>3. shown = "INTERRUPTED" \/ shown = row.state
    BY DEF JobState
  <1>4. row.state \in States
    BY <1>2 DEF JobRows
  <1> HIDE DEF shown
  <1>5. /\ new \in [job : Jobs \cup {NULL}, state : States \cup {"INTERRUPTED", "none"},
                   stored : BOOLEAN]
        /\ new.job = job /\ new.state = shown
    BY <1>2, <1>3, <1>4 DEF Held
  <1> HIDE DEF new
  <1>6. TypeOK'
    BY <1>1, <1>5, NothingHeld DEF JobInv, TypeOK, Held, serverVars
  <1>7. \A j : Noted(j)' = Noted(j)
    BY <1>1 DEF Noted
  <1>8. ReadersHoldRows'
    BY <1>1, <1>7, NothingHeld DEF JobInv, TypeOK, ReadersOK, ReadersHoldRows
  <1>9. AnswersTellTheTruth'
    BY <1>1, <1>2, <1>3, <1>5, <1>7 DEF JobInv, TypeOK, ReadersOK, AnswersTellTheTruth
  <1> QED BY <1>1, <1>6, <1>8, <1>9, ReaderKeeps DEF ReadersOK

LEMMA ReadersKeep ==
  ASSUME JobInv, NEW c \in Pollers, Reader(c)
  PROVE  Kept
  <1>1. CASE PollFails(c)
    BY <1>1, NothingHeld, HoldsAnother DEF PollFails
  <1> QED BY <1>1, PollRowKeeps, PollHistoryKeeps, PollViewKeeps DEF Reader

LEMMA EditKeeps ==
  ASSUME JobInv, NEW x \in Edits, Edit(x)
  PROVE  Kept
  <1>1. x \in Revisions /\ x \notin Requests
    BY JobAssumption DEF Revisions
  <1>2. req' \in [Requests -> RequestStates]
    BY DEF Edit, JobInv, TypeOK
  <1> QED BY <1>1, <1>2, GrowKeeps DEF Edit

LEMMA BootKeeps ==
  ASSUME JobInv, NEW p \in Processes, Boot(p)
  PROVE  Kept
  <1>1. TypeOK'
    BY DEF JobInv, TypeOK, Boot, readVars
  <1>2. ReadersOK'
    BY DEF JobInv, ReadersOK, ReadersHoldRows, AnswersTellTheTruth, Noted, Boot, readVars
  <1> QED BY <1>1, <1>2, ReaderKeeps DEF Boot

(* When a process ends its tasks end where they are, and its other requests go.    *)
LEMMA StopKeeps ==
  ASSUME JobInv, NEW p \in Processes, Stop(p)
  PROVE  Kept
  <1>1. \A r \in Requests :
          \/ req'[r] = req[r]
          \/ req[r].pc \in Running /\ req'[r] = [req[r] EXCEPT !.pc = "ended"]
          \/ req[r].pc \in Admitting /\ req'[r] = [Blank EXCEPT !.pc = "answered"]
    BY DEF Stop, Tasks
  <1>2. req \in [Requests -> RequestStates] /\ \A r \in Requests : Knows(r)
    BY DEF JobInv, TypeOK
  <1>3. \A r \in Requests :
          \/ req'[r] = req[r]
          \/ /\ req[r].pc \in Running /\ req'[r].pc = "ended" /\ Same(r)
             /\ req'[r].outcome = req[r].outcome /\ req'[r] \in RequestStates
          \/ /\ req[r].pc \in Admitting /\ req'[r].pc = "answered"
             /\ req'[r].outcome = "FAILED" /\ req'[r] \in RequestStates
    <2> SUFFICES ASSUME NEW r \in Requests
                 PROVE  \/ req'[r] = req[r]
                        \/ /\ req[r].pc \in Running /\ req'[r].pc = "ended" /\ Same(r)
                           /\ req'[r].outcome = req[r].outcome /\ req'[r] \in RequestStates
                        \/ /\ req[r].pc \in Admitting /\ req'[r].pc = "answered"
                           /\ req'[r].outcome = "FAILED" /\ req'[r] \in RequestStates
      OBVIOUS
    <2>1. req[r] \in RequestStates
      BY <1>2
    <2>2. CASE req[r].pc \in Running /\ req'[r] = [req[r] EXCEPT !.pc = "ended"]
      BY <2>1, <2>2 DEF RequestStates, Same
    <2>3. CASE req[r].pc \in Admitting /\ req'[r] = [Blank EXCEPT !.pc = "answered"]
      BY <2>3 DEF RequestStates, Blank
    <2> QED BY <1>1, <2>2, <2>3
  <1>4. /\ req' \in [Requests -> RequestStates]
        /\ UNCHANGED <<history, rows, answer>>
    BY <1>2, <1>3 DEF Stop
  <1>5. \A r \in ToSet(history) \cap Requests : Same(r)
    BY <1>2, <1>3 DEF Same, Knows, KnowsItsRevision, Admitting
  <1>6. \A r \in Requests : Knows(r)'
    <2> SUFFICES ASSUME NEW r \in Requests PROVE Knows(r)'
      OBVIOUS
    <2>1. CASE req'[r] = req[r]
      BY <1>2, <1>4, <2>1 DEF Knows, KnowsItsCommand, KnowsItsRow, KnowsItsSource, CountsOn,
         KnowsItsRevision, Owner
    <2>2. CASE /\ req[r].pc \in Running /\ req'[r].pc = "ended" /\ Same(r)
               /\ req'[r].outcome = req[r].outcome
      BY <1>2, <1>4, <2>2 DEF Knows, KnowsItsCommand, KnowsItsRow, KnowsItsSource, CountsOn,
         KnowsItsRevision, Owner, Admitting, Running, Same
    <2>3. CASE /\ req[r].pc \in Admitting /\ req'[r].pc = "answered"
               /\ req'[r].outcome = "FAILED"
      BY <1>2, <1>4, <2>3 DEF Knows, KnowsItsCommand, KnowsItsRow, KnowsItsSource, CountsOn,
         KnowsItsRevision, Owner, Admitting, Running
    <2> QED BY <1>3, <2>1, <2>2, <2>3
  <1>7. \A r \in Requests : Owner(r)' => Owner(r) /\ req'[r].job = req[r].job
    BY <1>3 DEF Owner, Same, Running
  <1>8. OneOwner'
    BY <1>7 DEF JobInv, OneOwner
  <1>9. BuiltOnReference'
    BY <1>4, <1>5 DEF JobInv, BuiltOnReference, Same, ToSet
  <1>10. \A j : Noted(j)' = Noted(j)
    BY <1>4, <1>5 DEF Noted, Same
  <1>11. /\ poll' \in [Pollers -> Held]
         /\ \A c \in Pollers : poll'[c] = poll[c] \/ poll'[c].step = "idle"
    BY NothingHeld DEF Stop, JobInv, TypeOK, Held
  <1>12. TypeOK'
    BY <1>4, <1>11 DEF JobInv, TypeOK, Stop, Held
  <1>13. RowsTellTheTruth' /\ ReadersOK'
    BY <1>4, <1>10, <1>11 DEF JobInv, RowsTellTheTruth, ReadersOK, ReadersHoldRows,
       AnswersTellTheTruth
  <1>14. CallsGrow
    BY <1>4 DEF CallsGrow, JobInv, TypeOK, JobRows
  <1> QED BY <1>6, <1>8, <1>9, <1>12, <1>13, <1>14 DEF JobInv, Kept

-----------------------------------------------------------------------------
LEMMA NextKeeps ==
  ASSUME JobInv, [Next]_vars
  PROVE  Kept
  <1>1. CASE UNCHANGED vars
    <2>1. TypeOK' /\ ReadersOK'
      BY <1>1 DEF vars, serverVars, readVars, JobInv, TypeOK, ReadersOK, ReadersHoldRows,
         AnswersTellTheTruth, Noted
    <2> QED BY <1>1, <2>1, ReaderKeeps DEF vars
  <1>2. CASE Next
    BY <1>2, SubmitKeeps, AdmissionKeeps, RunnerKeeps, ReadersKeep, EditKeeps, BootKeeps,
       StopKeeps DEF Next
  <1> QED BY <1>1, <1>2

THEOREM JobsInvariant == Spec => []JobInv
  <1>1. JobInv /\ [Next]_vars => JobInv'
    BY NextKeeps DEF Kept
  <1> QED BY <1>1, InitKeeps, PTL DEF Spec

(* Every row, request and answer is well formed at all times.                     *)
THEOREM JobTypeCorrect == Spec => []TypeOK
  <1>1. JobInv => TypeOK
    BY DEF JobInv
  <1> QED BY <1>1, JobsInvariant, PTL

(* However many requests name a job, and on however many processes, one of them   *)
(* at most ever runs it (WorkspaceMiddleware._start).                             *)
THEOREM JobsRunOnce == Spec => []OneRunnerPerJob
  <1>1. JobInv => OneRunnerPerJob
    BY DEF JobInv, OneOwner, OneRunnerPerJob, Owner, Ran
  <1> QED BY <1>1, JobsInvariant, PTL

(* A job overwrites nothing that was saved after its sender looked               *)
(* (generate_and_save, execute_isolated_persisted_chat_edit).                     *)
THEOREM JobsBuildOnWhatWasSeen == Spec => []BuiltOnReference
  <1>1. JobInv => BuiltOnReference
    BY DEF JobInv
  <1> QED BY <1>1, JobsInvariant, PTL

(* Nobody, the row or an answer, calls a job succeeded that stored no revision     *)
(* (_finish, the job action).                                                    *)
THEOREM SucceededHaveRevisions == Spec => []SucceededIsStored
  <1>1. JobInv => SucceededIsStored
    BY DEF JobInv, RowsTellTheTruth, ReadersOK, AnswersTellTheTruth, SucceededIsStored
  <1> QED BY <1>1, JobsInvariant, PTL

(* The provider calls recorded for a job are never taken back, by its own runner   *)
(* or by a job that resumes it (generate_plan_candidate, provider_calls).          *)
THEOREM RecordedCallsStay == Spec => CallsOnlyGrow
  <1>1. JobInv /\ [Next]_vars => [CallsGrow]_vars
    BY NextKeeps DEF Kept
  <1> QED BY <1>1, JobsInvariant, PTL DEF Spec, CallsOnlyGrow

-----------------------------------------------------------------------------
(* Resumption.  A worker continues only what was made for the same proposal, and every    *)
(* reference is followed by one revision; both are about what was checked many steps         *)
(* before.                                                                        *)

(* A request that was found to repeat the command of the job it resumes.          *)
Checked(r) == req[r].pc \in {"provider", "after", "save"} \/ r \in ToSet(history)

Fits(r) ==
  req[r].command.resume # NULL =>
    /\ rows[req[r].command.resume] # NULL
    /\ SameProposal(rows[req[r].command.resume].command, req[r].command)

CheckedFit == \A r \in Requests : Checked(r) => Fits(r)
OwnCommand == \A r \in Requests : Owner(r) => rows[req[r].job].command = req[r].command
OnceEach   == \A i, k \in DOMAIN history : history[i] = history[k] => i = k

ProposalInv == OwnCommand /\ CheckedFit /\ OnceEach

(* What a step does to all this: no row and no revision goes away or becomes that of       *)
(* another command or job, and a request comes to own a row, or to be checked, in one       *)
(* place each.                                                                    *)
RowsStay ==
  \A j \in Jobs : rows[j] # NULL => rows'[j] # NULL /\ rows'[j].command = rows[j].command

StoredStay == \A r \in Requests : r \in ToSet(history) => req'[r].job = req[r].job

GrowsBy(x) == x \in Revisions \ ToSet(history) /\ history' = Append(history, x)

ComesToOwn(r) ==
  Owner(r)' =>
    \/ Owner(r) /\ req'[r].job = req[r].job /\ req'[r].command = req[r].command
    \/ rows'[req'[r].job].command = req'[r].command

ComesToFit(r) ==
  Checked(r)' => req'[r].command = req[r].command /\ (Checked(r) \/ (Owner(r) /\ Fits(r)))

Shape ==
  /\ RowsStay /\ StoredStay
  /\ history' = history \/ \E x \in Revisions : GrowsBy(x)
  /\ \A r \in Requests : ComesToOwn(r) /\ ComesToFit(r)

LEMMA OwnersHaveJobs ==
  ASSUME JobInv, NEW r \in Requests, Owner(r)
  PROVE  /\ req[r].job \in Jobs /\ rows[req[r].job] # NULL
         /\ req[r].command \in Commands
  BY DEF JobInv, TypeOK, RequestStates, Knows, KnowsItsCommand, KnowsItsRow, Owner, Running

LEMMA CheckedOwn ==
  ASSUME JobInv, NEW r \in Requests, Checked(r)
  PROVE  Owner(r)
  BY DEF JobInv, Checked, Owner, Running, Knows, KnowsItsRevision

LEMMA ShapeKeeps ==
  ASSUME JobInv, ProposalInv, Shape
  PROVE  ProposalInv'
  <1>1. OwnCommand'
    <2> SUFFICES ASSUME NEW r \in Requests, Owner(r)'
                 PROVE  rows'[req'[r].job].command = req'[r].command
      BY DEF OwnCommand
    <2>1. CASE Owner(r) /\ req'[r].job = req[r].job /\ req'[r].command = req[r].command
      BY <2>1, OwnersHaveJobs DEF ProposalInv, OwnCommand, Shape, RowsStay
    <2> QED BY <2>1 DEF Shape, ComesToOwn
  <1>2. CheckedFit'
    <2> SUFFICES ASSUME NEW r \in Requests, Checked(r)', req'[r].command.resume # NULL
                 PROVE  /\ rows'[req'[r].command.resume] # NULL
                        /\ SameProposal(rows'[req'[r].command.resume].command, req'[r].command)
      BY DEF CheckedFit, Fits, SameProposal
    <2>1. req'[r].command = req[r].command /\ Fits(r) /\ Owner(r)
      BY CheckedOwn DEF Shape, ComesToFit, ProposalInv, CheckedFit
    <2>2. req[r].command.resume \in Jobs
      BY <2>1, OwnersHaveJobs DEF Commands
    <2> QED BY <2>1, <2>2 DEF Fits, Shape, RowsStay
  <1>3. OnceEach'
    <2>1. CASE history' = history
      BY <2>1 DEF ProposalInv, OnceEach
    <2>2. ASSUME NEW x \in Revisions, GrowsBy(x) PROVE OnceEach'
      <3>1. /\ DOMAIN history = 1 .. Len(history) /\ Len(history) \in Nat
            /\ DOMAIN history' = 1 .. Len(history) + 1
            /\ \A i \in DOMAIN history : history'[i] = history[i]
            /\ history'[Len(history) + 1] = x
        BY <2>2, Appended DEF GrowsBy, JobInv
      <3>2. \A i \in DOMAIN history : history[i] # x
        BY <2>2 DEF GrowsBy, ToSet
      <3> SUFFICES ASSUME NEW i \in DOMAIN history', NEW k \in DOMAIN history',
                          history'[i] = history'[k]
                   PROVE  i = k
        BY DEF OnceEach
      <3>3. /\ i \in DOMAIN history \/ i = Len(history) + 1
            /\ k \in DOMAIN history \/ k = Len(history) + 1
        BY <3>1
      <3> QED BY <3>1, <3>2, <3>3 DEF ProposalInv, OnceEach
    <2> QED BY <2>1, <2>2 DEF Shape
  <1> QED BY <1>1, <1>2, <1>3 DEF ProposalInv

(* The step of one request, of the others' requests nothing changes.               *)
LEMMA ShapeOfOne ==
  ASSUME JobInv, NEW r \in Requests, Others(r), RowsStay,
         r \in ToSet(history) => req'[r].job = req[r].job,
         history' = history \/ GrowsBy(r), ComesToOwn(r), ComesToFit(r)
  PROVE  Shape
  <1>1. StoredStay
    BY DEF StoredStay, Others
  <1>2. r \in Revisions
    BY DEF Revisions
  <1>3. \A q \in Requests \ {r} : q \in ToSet(history') <=> q \in ToSet(history)
    <2>1. CASE GrowsBy(r)
      BY <1>2, <2>1, Appended DEF GrowsBy, JobInv
    <2> QED BY <2>1
  <1>4. \A q \in Requests \ {r} : ComesToOwn(q) /\ ComesToFit(q)
    BY <1>3 DEF Others, ComesToOwn, ComesToFit, Owner, Checked
  <1> QED BY <1>1, <1>2, <1>4 DEF Shape

(* Before a request owns a row there is nothing to keep; then it keeps its command.    *)
LEMMA ShapeBeforeOwning ==
  ASSUME JobInv, NEW r \in Requests, Others(r), RowsStay, history' = history,
         req[r].pc \in {"idle"} \cup Admitting,
         req'[r].pc \in {"answered", "source", "prior", "head", "admit", "check", "insert"}
  PROVE  Shape
  <1>1. r \notin ToSet(history)
    BY DEF JobInv, Knows, KnowsItsRevision, Admitting
  <1>2. ~ Owner(r)' /\ ~ Checked(r)'
    BY <1>1 DEF Owner, Checked, Running
  <1> QED BY <1>1, <1>2, ShapeOfOne DEF ComesToOwn, ComesToFit

LEMMA ShapeOfOwner ==
  ASSUME JobInv, NEW r \in Requests, Others(r), Same(r), RowsStay, history' = history,
         Owner(r), req'[r].pc \in {"provider", "after", "save"} => Checked(r) \/ Fits(r)
  PROVE  Shape
  <1>1. ComesToOwn(r)
    BY DEF ComesToOwn, Same
  <1>2. ComesToFit(r)
    BY DEF ComesToFit, Same, Checked
  <1> QED BY <1>1, <1>2, ShapeOfOne DEF Same

LEMMA RowsSame ==
  ASSUME UNCHANGED rows PROVE RowsStay
  BY DEF RowsStay

LEMMA ShapeOfAnswer ==
  ASSUME JobInv, NEW r \in Requests, Answer(r), req[r].pc \in Admitting, RowsStay,
         history' = history
  PROVE  Shape
  <1>1. Others(r) /\ req'[r].pc = "answered"
    BY AnswerIs DEF JobInv
  <1> QED BY <1>1, ShapeBeforeOwning

LEMMA ShapeOfFail ==
  ASSUME JobInv, NEW r \in Requests, Fail(r), req[r].pc \in Running, RowsStay,
         history' = history
  PROVE  Shape
  <1>1. Others(r) /\ Same(r) /\ req'[r].pc = "finish"
    BY FailIs DEF JobInv
  <1> QED BY <1>1, ShapeOfOwner DEF Owner

(* Admission.                                                                  *)
LEMMA SubmitShape ==
  ASSUME JobInv, NEW r \in Requests, NEW p \in Processes, NEW j \in Jobs,
         NEW action \in Actions, NEW expected \in Revisions \cup {NULL},
         NEW resume \in Jobs \cup {NULL}, NEW sourced \in Sourced, NEW max \in Ceilings,
         Submit(r, p, j, action, expected, resume, sourced, max)
  PROVE  Shape
  <1> DEFINE x == [Blank EXCEPT
          !.pc = IF action = "resume" THEN "source" ELSE "prior",
          !.job = j, !.proc = p,
          !.command =
            [action |-> IF action = "resume" THEN "generate" ELSE action,
             expected |-> expected, resume |-> resume, sourced |-> sourced,
             max |-> max]]
  <1>1. req' = [req EXCEPT ![r] = x]
    BY DEF Submit
  <1>2. x.pc \in {"source", "prior"}
    BY DEF Blank
  <1> HIDE DEF x
  <1>3. Others(r) /\ req'[r].pc \in {"source", "prior"}
    BY <1>1, <1>2 DEF Others, JobInv, TypeOK
  <1> QED BY <1>3, RowsSame, ShapeBeforeOwning DEF Submit, At

LEMMA ReadSourceShape ==
  ASSUME JobInv, NEW r \in Requests, ReadSource(r)
  PROVE  Shape
  <1> DEFINE own == req[r].command
             old == rows[own.resume]
             next == [old.command EXCEPT !.resume = own.resume, !.max = own.max]
  <1>1. CASE Answer(r)
    BY <1>1, ShapeOfAnswer, RowsSame DEF ReadSource, At, Admitting
  <1>2. CASE ~ Answer(r)
    <2>1. req' = [req EXCEPT ![r].pc = "prior", ![r].command = next]
      BY <1>2 DEF ReadSource
    <2> HIDE DEF next
    <2>2. Others(r) /\ req'[r].pc = "prior"
      BY <2>1 DEF Others, JobInv, TypeOK, RequestStates
    <2> QED BY <2>2, RowsSame, ShapeBeforeOwning DEF ReadSource, At, Admitting
  <1> QED BY <1>1, <1>2

LEMMA CheckResumeShape ==
  ASSUME JobInv, NEW r \in Requests, CheckResume(r)
  PROVE  Shape
  <1> DEFINE calls == rows[req[r].command.resume].calls
  <1>1. CASE Answer(r)
    BY <1>1, ShapeOfAnswer, RowsSame DEF CheckResume, At, Admitting
  <1>2. CASE ~ Answer(r)
    <2>1. req' = [req EXCEPT ![r].pc = "insert", ![r].inherited = calls]
      BY <1>2 DEF CheckResume
    <2> HIDE DEF calls
    <2>2. Others(r) /\ req'[r].pc = "insert"
      BY <2>1 DEF Others, JobInv, TypeOK, RequestStates
    <2> QED BY <2>2, RowsSame, ShapeBeforeOwning DEF CheckResume, At, Admitting
  <1> QED BY <1>1, <1>2

LEMMA InsertShape ==
  ASSUME JobInv, NEW r \in Requests, NEW replied \in BOOLEAN, Insert(r, replied)
  PROVE  Shape
  <1> DEFINE job == req[r].job
  <1>1. /\ req[r].pc = "insert" /\ req[r].job \in Jobs /\ history' = history
        /\ r \notin ToSet(history)
    BY DEF Insert, At, JobInv, TypeOK, RequestStates, Knows, KnowsItsCommand, KnowsItsRevision
  <1>2. RowsStay
    BY <1>1 DEF Insert, RowsStay, JobInv, TypeOK
  <1>3. CASE Answer(r)
    BY <1>1, <1>2, <1>3, ShapeOfAnswer DEF Admitting
  <1>4. CASE ~ Answer(r)
    <2>1. Goto(r, "inserted") /\ rows' = [rows EXCEPT ![job] = NewRow(r)]
      BY <1>4 DEF Insert
    <2>2. Others(r) /\ Same(r) /\ req'[r].pc = "inserted"
      BY <2>1, GotoIs DEF JobInv, Steps, Admitting
    <2>3. rows'[job].command = req[r].command
      BY <1>1, <2>1 DEF NewRow, JobInv, TypeOK
    <2>4. ComesToOwn(r) /\ ComesToFit(r)
      BY <1>1, <2>2, <2>3 DEF ComesToOwn, ComesToFit, Checked, Same
    <2> QED BY <1>1, <1>2, <2>2, <2>4, ShapeOfOne
  <1> QED BY <1>3, <1>4

LEMMA AdmissionShape ==
  ASSUME JobInv, NEW r \in Requests, Admission(r)
  PROVE  Shape
  <1>1. CASE StoreUnavailable(r)
    BY <1>1, ShapeOfAnswer, RowsSame DEF StoreUnavailable, Admitting
  <1>2. ASSUME NEW step \in {"head", "admit", "check", "insert"}, Goto(r, step),
               req[r].pc \in Admitting, UNCHANGED <<history, rows>>
        PROVE  Shape
    <2>1. Others(r) /\ req'[r].pc = step
      BY <1>2, GotoIs DEF JobInv, Steps, Admitting
    <2> QED BY <1>2, <2>1, RowsSame, ShapeBeforeOwning
  <1>3. CASE ReadPrior(r)
    BY <1>2, <1>3, ShapeOfAnswer, RowsSame DEF ReadPrior, At, Admitting
  <1>4. CASE ReadHead(r)
    BY <1>2, <1>4, ShapeOfAnswer, RowsSame DEF ReadHead, At, Admitting
  <1>5. ASSUME NEW allowed \in BOOLEAN, Admit(r, allowed) PROVE Shape
    BY <1>2, <1>5, ShapeOfAnswer, RowsSame DEF Admit, At, Admitting
  <1>6. CASE StartTask(r)
    <2>1. Others(r) /\ Same(r) /\ req'[r].pc = "before" /\ Owner(r)
      BY <1>6, GotoIs DEF JobInv, Steps, Running, StartTask, At, Owner
    <2> QED BY <1>6, <2>1, RowsSame, ShapeOfOwner DEF StartTask
  <1> QED BY <1>1, <1>3, <1>4, <1>5, <1>6, ReadSourceShape, CheckResumeShape, InsertShape
          DEF Admission

(* The runner.                                                                 *)
LEMMA LoadResumedShape ==
  ASSUME JobInv, NEW r \in Requests, LoadResumed(r)
  PROVE  Shape
  <1> DEFINE source == req[r].command.resume
             calls == rows[source].calls
  <1>1. CASE Fail(r)
    BY <1>1, ShapeOfFail, RowsSame DEF LoadResumed, At, Running
  <1>2. CASE ~ Fail(r)
    <2>1. req' = [req EXCEPT ![r].pc = "provider", ![r].inherited = calls,
                    ![r].used = calls, ![r].reported = calls]
      BY <1>2 DEF LoadResumed
    <2>2. SameProposal(rows[source].command, req[r].command)
      BY <1>2 DEF LoadResumed
    <2>3. Fits(r) /\ Owner(r)
      BY <2>2 DEF Fits, LoadResumed, At, JobInv, Knows, KnowsItsSource, Owner, Running
    <2> HIDE DEF calls
    <2>4. Others(r) /\ Same(r)
      BY <2>1 DEF Others, Same, JobInv, TypeOK, RequestStates
    <2> QED BY <2>3, <2>4, RowsSame, ShapeOfOwner DEF LoadResumed
  <1> QED BY <1>1, <1>2

LEMMA PatchShape ==
  ASSUME JobInv, NEW j \in Jobs, NEW row, row.command = rows[j].command, row # NULL,
         Patch(j, row)
  PROVE  RowsStay
  BY DEF Patch, RowsStay, JobInv, TypeOK

LEMMA ReportShape ==
  ASSUME JobInv, NEW r \in Requests, NEW checkpoint \in BOOLEAN, NEW applied \in BOOLEAN,
         NEW replied \in BOOLEAN, Report(r, checkpoint, applied, replied)
  PROVE  Shape
  <1> DEFINE job == req[r].job
             row == rows[job]
             count == req[r].reported + 1
             flag == row.checkpoint \/ checkpoint
             new == [row EXCEPT !.calls = count, !.checkpoint = flag]
  <1>1. req[r].pc = "provider" /\ Owner(r) /\ Checked(r) /\ history' = history
    BY DEF Report, At, Owner, Running, Checked
  <1>2. job \in Jobs /\ row \in JobRows /\ req[r] \in RequestStates
    BY <1>1, OwnersHaveJobs DEF JobInv, TypeOK
  <1>3. count \in 0 .. 12 /\ flag \in BOOLEAN
    BY <1>2 DEF Report, RequestStates, JobRows
  <1>4. Patch(job, new) \/ UNCHANGED rows
    BY DEF Report
  <1> HIDE DEF count, flag
  <1>5. new \in JobRows /\ new.command = row.command
    <2> DEFINE mid == [row EXCEPT !.calls = count]
    <2>1. mid \in JobRows /\ mid.command = row.command
      BY <1>2, <1>3 DEF JobRows
    <2>2. new = [mid EXCEPT !.checkpoint = flag]
      OBVIOUS
    <2> HIDE DEF mid, new
    <2> QED BY <1>3, <2>1, <2>2 DEF JobRows
  <1>6. RowsStay
    BY <1>2, <1>4, <1>5, RowsSame, PatchShape, RowAssumption
  <1>7. CASE Fail(r)
    BY <1>1, <1>6, <1>7, ShapeOfFail DEF Running
  <1>8. CASE req' = [req EXCEPT ![r].reported = count]
    <2>1. Others(r) /\ Same(r)
      BY <1>8 DEF Others, Same, JobInv, TypeOK, RequestStates
    <2> QED BY <1>1, <1>6, <2>1, ShapeOfOwner
  <1> QED BY <1>7, <1>8 DEF Report, count

LEMMA FinishShape ==
  ASSUME JobInv, NEW r \in Requests, NEW applied \in BOOLEAN, Finish(r, applied)
  PROVE  Shape
  <1> DEFINE job == req[r].job
             old == rows[job]
             revision == IF req[r].outcome = "SUCCEEDED" THEN r ELSE old.revision
             new == Closed(old, req[r].outcome, revision)
  <1>1. req[r].pc = "finish" /\ Owner(r) /\ history' = history
    BY DEF Finish, At, Owner, Running
  <1>2. job \in Jobs /\ old \in JobRows /\ req[r] \in RequestStates
    BY <1>1, OwnersHaveJobs DEF JobInv, TypeOK
  <1>3. revision \in Requests \cup {NULL} /\ req[r].outcome \in {"SUCCEEDED", "FAILED"}
    BY <1>2 DEF RequestStates, JobRows
  <1>4. Patch(job, new) \/ UNCHANGED rows
    BY DEF Finish, Closed
  <1>5. new \in JobRows /\ new.command = old.command
    <2> HIDE DEF revision
    <2>1. new \in JobRows
      BY <1>2, <1>3, RowClosed
    <2>2. new.command = old.command
      BY <1>2 DEF Closed, JobRows
    <2> QED BY <2>1, <2>2
  <1> HIDE DEF new
  <1>6. RowsStay
    BY <1>2, <1>4, <1>5, RowsSame, PatchShape, RowAssumption
  <1>7. Others(r) /\ Same(r) /\ req'[r].pc = "ended"
    BY GotoIs DEF Finish, JobInv, Steps
  <1> QED BY <1>1, <1>6, <1>7, ShapeOfOwner

LEMMA SaveShape ==
  ASSUME JobInv, NEW r \in Requests, NEW replied \in BOOLEAN, Save(r, replied)
  PROVE  Shape
  <1>1. req[r].pc = "save" /\ Owner(r) /\ Checked(r) /\ UNCHANGED rows
    BY DEF Save, At, Owner, Running, Checked
  <1>2. CASE Fail(r) /\ UNCHANGED history
    BY <1>1, <1>2, RowsSame, ShapeOfFail DEF Running
  <1>3. CASE Saved(r, replied) /\ history' = Append(history, r)
    <2>1. GrowsBy(r)
      BY <1>1, <1>3 DEF GrowsBy, Revisions, JobInv, Knows, KnowsItsRevision
    <2> DEFINE step == IF replied /\ req[r].command.action = "chat_edit"
                       THEN "confirm" ELSE "finish"
               outcome == IF replied THEN "SUCCEEDED" ELSE "FAILED"
    <2>2. req' = [req EXCEPT ![r].pc = step, ![r].outcome = outcome]
      BY <1>3 DEF Saved
    <2> HIDE DEF step, outcome
    <2>3. Others(r) /\ Same(r)
      BY <2>2 DEF Others, Same, JobInv, TypeOK, RequestStates
    <2>4. ComesToOwn(r) /\ ComesToFit(r)
      BY <1>1, <2>3 DEF ComesToOwn, ComesToFit, Same
    <2> QED BY <1>1, <2>1, <2>3, <2>4, RowsSame, ShapeOfOne DEF Same
  <1> QED BY <1>2, <1>3 DEF Save

LEMMA RunnerShape ==
  ASSUME JobInv, NEW r \in Requests, Runner(r)
  PROVE  Shape
  <1>1. ASSUME NEW step \in Running, Goto(r, step), req[r].pc \in Running,
               step \in {"provider", "after", "save"} => Checked(r) \/ Fits(r),
               UNCHANGED <<history, rows>>
        PROVE  Shape
    <2>1. Others(r) /\ Same(r) /\ req'[r].pc = step
      BY <1>1, GotoIs DEF JobInv, Steps
    <2> QED BY <1>1, <2>1, RowsSame, ShapeOfOwner DEF Owner
  <1>2. CASE LoadBefore(r)
    BY <1>1, <1>2, ShapeOfFail, RowsSame DEF LoadBefore, At, Running, Fits
  <1>3. CASE ProviderCall(r)
    <2>1. Others(r) /\ Same(r) /\ Owner(r) /\ Checked(r)
      BY <1>3 DEF ProviderCall, At, Others, Same, JobInv, TypeOK, RequestStates, Owner,
         Running, Checked
    <2> QED BY <1>3, <2>1, RowsSame, ShapeOfOwner DEF ProviderCall
  <1>4. CASE ProviderAnswers(r)
    BY <1>1, <1>4 DEF ProviderAnswers, At, Running, Checked
  <1>5. CASE RunFails(r)
    BY <1>5, ShapeOfFail, RowsSame DEF RunFails
  <1>6. CASE LoadAfter(r)
    BY <1>1, <1>6, ShapeOfFail, RowsSame DEF LoadAfter, At, Running, Checked
  <1>7. CASE Confirm(r)
    BY <1>1, <1>7, ShapeOfFail, RowsSame DEF Confirm, At, Running
  <1> QED BY <1>2, <1>3, <1>4, <1>5, <1>6, <1>7, LoadResumedShape, ReportShape, SaveShape,
             FinishShape DEF Runner

(* Others, and the end of a process.                                             *)
LEMMA QuietShape ==
  ASSUME JobInv, UNCHANGED <<history, rows, req>>
  PROVE  Shape
  BY DEF Shape, RowsStay, StoredStay, ComesToOwn, ComesToFit, Owner, Checked

LEMMA EditShape ==
  ASSUME JobInv, NEW x \in Edits, Edit(x)
  PROVE  Shape
  <1>1. x \in Revisions /\ x \notin Requests /\ GrowsBy(x)
    BY JobAssumption DEF Edit, GrowsBy, Revisions
  <1>2. \A q \in Requests : q \in ToSet(history') <=> q \in ToSet(history)
    BY <1>1, Appended DEF GrowsBy, JobInv
  <1> QED BY <1>1, <1>2 DEF Edit, Shape, RowsStay, StoredStay, ComesToOwn, ComesToFit,
                          Owner, Checked

LEMMA StopShape ==
  ASSUME JobInv, NEW p \in Processes, Stop(p)
  PROVE  Shape
  <1>1. UNCHANGED <<history, rows>>
    BY DEF Stop
  <1>2. ASSUME NEW r \in Requests
        PROVE  /\ ComesToOwn(r) /\ ComesToFit(r)
               /\ r \in ToSet(history) => req'[r].job = req[r].job
    <2>1. req[r] \in RequestStates /\ Knows(r)
      BY DEF JobInv, TypeOK
    <2>2. CASE req'[r] = req[r]
      BY <1>1, <2>2 DEF ComesToOwn, ComesToFit, Owner, Checked
    <2>3. CASE req[r].pc \in Running /\ req'[r] = [req[r] EXCEPT !.pc = "ended"]
      <3>1. req'[r].pc = "ended" /\ Same(r)
        BY <2>1, <2>3 DEF RequestStates, Same
      <3> QED BY <1>1, <2>3, <3>1 DEF ComesToOwn, ComesToFit, Owner, Checked, Same
    <2>4. CASE req[r].pc \in Admitting /\ req'[r] = [Blank EXCEPT !.pc = "answered"]
      <3>1. req'[r].pc = "answered"
        BY <2>4 DEF Blank
      <3>2. r \notin ToSet(history)
        BY <2>1, <2>4 DEF Knows, KnowsItsRevision, Admitting
      <3> QED BY <1>1, <3>1, <3>2 DEF ComesToOwn, ComesToFit, Owner, Checked, Running
    <2> QED BY <2>2, <2>3, <2>4 DEF Stop, Tasks
  <1> QED BY <1>1, <1>2, RowsSame DEF Shape, StoredStay

LEMMA NextShape ==
  ASSUME JobInv, [Next]_vars
  PROVE  Shape
  <1>1. CASE UNCHANGED vars
    BY <1>1, QuietShape DEF vars
  <1>2. ASSUME NEW c \in Pollers, Reader(c) PROVE Shape
    BY <1>2, QuietShape DEF Reader, PollRow, PollHistory, PollView, PollFails
  <1>3. ASSUME NEW p \in Processes, Boot(p) PROVE Shape
    BY <1>3, QuietShape DEF Boot
  <1>4. CASE Next
    BY <1>2, <1>3, <1>4, SubmitShape, AdmissionShape, RunnerShape, EditShape, StopShape DEF Next
  <1> QED BY <1>1, <1>4

LEMMA ProposalInit == Init => ProposalInv
  BY DEF Init, ProposalInv, OwnCommand, CheckedFit, OnceEach, Owner, Checked, Running, Blank,
     ToSet

(* A worker goes on only from a job with the same command, a row carries the command of     *)
(* the request that owns it, and no revision is stored twice.                            *)
THEOREM ProposalsAreKept == Spec => []ProposalInv
  <1>1. JobInv /\ ProposalInv /\ [Next]_vars => ProposalInv'
    BY NextShape, ShapeKeeps
  <1> QED BY <1>1, ProposalInit, JobsInvariant, PTL DEF Spec

(* Of a job and the one that resumes it one at most stores a revision, though both may run   *)
(* to their save: they were checked to have the same reference, and only one revision       *)
(* follows it (generate_and_save).                                                    *)
LEMMA OneFollowsReference == JobInv /\ ProposalInv => NeverBothStored
  <1> SUFFICES ASSUME JobInv, ProposalInv, NEW r \in Requests \cap ToSet(history),
                      NEW s \in Requests \cap ToSet(history),
                      rows[req[s].job].command.resume = req[r].job
               PROVE  r = s
    BY DEF NeverBothStored
  <1>1. Checked(r) /\ Checked(s) /\ Owner(r) /\ Owner(s)
    BY CheckedOwn DEF Checked
  <1>2. rows[req[r].job].command = req[r].command /\ rows[req[s].job].command = req[s].command
    BY <1>1 DEF ProposalInv, OwnCommand
  <1>3. req[s].command.resume = req[r].job /\ req[r].job # NULL
    BY <1>1, <1>2 DEF JobInv, Knows, KnowsItsCommand, Owner, Running
  <1>4. req[r].command.expected = req[s].command.expected
    BY <1>1, <1>2, <1>3 DEF ProposalInv, CheckedFit, Fits, SameProposal
  <1>5. PICK i \in DOMAIN history, k \in DOMAIN history : history[i] = r /\ history[k] = s
    BY DEF ToSet
  <1>6. /\ req[r].command.expected = IF i = 1 THEN NULL ELSE history[i - 1]
        /\ req[s].command.expected = IF k = 1 THEN NULL ELSE history[k - 1]
    BY <1>5 DEF JobInv, BuiltOnReference
  <1>7. /\ DOMAIN history = 1 .. Len(history) /\ Len(history) \in Nat
        /\ \A n \in DOMAIN history : history[n] # NULL
    BY JobAssumption DEF JobInv, TypeOK, Revisions
  <1>8. /\ i \in Nat /\ k \in Nat
        /\ i # 1 => i - 1 \in DOMAIN history
        /\ k # 1 => k - 1 \in DOMAIN history
    BY <1>7
  <1>9. (IF i = 1 THEN NULL ELSE history[i - 1]) = (IF k = 1 THEN NULL ELSE history[k - 1])
    BY <1>4, <1>6
  <1>10. i = k
    <2>1. CASE i = 1
      BY <1>7, <1>8, <1>9, <2>1
    <2>2. CASE i # 1
      <3>1. k # 1 /\ history[i - 1] = history[k - 1]
        BY <1>7, <1>8, <1>9, <2>2
      <3>2. i - 1 = k - 1
        BY <1>8, <2>2, <3>1 DEF ProposalInv, OnceEach
      <3> QED BY <1>8, <3>2
    <2> QED BY <2>1, <2>2
  <1> QED BY <1>5, <1>10

(* Of a job and the one that resumes it, one at most stores a revision, on any number of    *)
(* processes and whichever of them dies (generate_and_save, _start).                      *)
THEOREM ResumedNeverBothStore == Spec => []NeverBothStored
  <1> QED BY OneFollowsReference, JobsInvariant, ProposalsAreKept, PTL

-----------------------------------------------------------------------------
(* A reader that found the revision, or a closed row, will not say that the job runs.        *)
ReadersRecover ==
  \A c \in Pollers :
    poll[c].stored =>
      /\ poll[c].step = "history" => Noted(poll[c].job) # {}
      /\ poll[c].step = "view" => poll[c].row.state # "RUNNING"

RecoverInv == ReadersRecover /\ LateReadRecovers

(* What is noted stays noted.                                                     *)
LEMMA NotedStays ==
  ASSUME JobInv, Shape, NEW j
  PROVE  Noted(j) \subseteq Noted(j)'
  <1>1. \A r \in Requests : r \in ToSet(history) => r \in ToSet(history')
    <2>1. ASSUME NEW x \in Revisions, GrowsBy(x) PROVE ToSet(history) \subseteq ToSet(history')
      BY <2>1, Appended DEF GrowsBy, JobInv
    <2> QED BY <2>1 DEF Shape
  <1> QED BY <1>1 DEF Noted, Shape, StoredStay

(* Steps that leave readers where they are, or at rest.                            *)
LEMMA OthersRecover ==
  ASSUME JobInv, RecoverInv, Shape, UNCHANGED answer,
         \A c \in Pollers : poll'[c] = poll[c] \/ poll'[c].step = "idle"
  PROVE  RecoverInv'
  <1>1. ReadersRecover'
    BY NotedStays DEF RecoverInv, ReadersRecover
  <1> QED BY <1>1 DEF RecoverInv, LateReadRecovers

LEMMA ReaderRecovers ==
  ASSUME JobInv, RecoverInv, NEW c \in Pollers, Reader(c)
  PROVE  RecoverInv'
  <1>1. \A j : Noted(j)' = Noted(j)
    BY DEF Reader, PollRow, PollHistory, PollView, PollFails, Noted
  <1>2. poll \in [Pollers -> Held]
    BY DEF JobInv, TypeOK, Held
  <1>3. ASSUME NEW p \in Processes, NEW j \in Jobs, PollRow(c, p, j) PROVE RecoverInv'
    <2> DEFINE step == IF rows[j].state = "RUNNING" THEN "history" ELSE "view"
               stored == Noted(j) # {}
               held == [step |-> step, proc |-> p, job |-> j, row |-> rows[j],
                        stored |-> stored]
    <2>1. poll' = [poll EXCEPT ![c] = held] /\ UNCHANGED answer
      BY <1>3 DEF PollRow
    <2>2. \/ step = "history" /\ rows[j].state = "RUNNING"
          \/ step = "view" /\ rows[j].state # "RUNNING"
      OBVIOUS
    <2>3. /\ held.step = step /\ held.job = j /\ held.row = rows[j]
          /\ held.stored => Noted(j) # {}
      OBVIOUS
    <2> HIDE DEF step, stored, held
    <2>4. \A k \in Pollers : poll'[k] = IF k = c THEN held ELSE poll[k]
      BY <1>2, <2>1
    <2>5. ReadersRecover'
      BY <1>1, <2>2, <2>3, <2>4 DEF RecoverInv, ReadersRecover
    <2> QED BY <2>1, <2>5 DEF RecoverInv, LateReadRecovers
  <1>4. CASE PollHistory(c)
    <2> DEFINE noted == Noted(poll[c].job)
               row == poll[c].row
               found == [row EXCEPT !.state = "SUCCEEDED",
                                    !.revision = CHOOSE x \in noted : TRUE]
               new == IF noted = {} THEN row ELSE found
    <2>1. poll' = [poll EXCEPT ![c].step = "view", ![c].row = new] /\ UNCHANGED answer
      BY <1>4 DEF PollHistory, RecoverFrom
    <2>2. poll[c].step = "history" /\ row \in JobRows
      BY <1>4 DEF PollHistory, JobInv, TypeOK, ReadersOK, ReadersHoldRows
    <2>3. noted # {} => new.state = "SUCCEEDED"
      BY <2>2 DEF JobRows
    <2> HIDE DEF new
    <2>4. /\ poll'[c].stored = poll[c].stored /\ poll'[c].step = "view" /\ poll'[c].row = new
          /\ \A k \in Pollers : k # c => poll'[k] = poll[k]
      BY <1>2, <2>1 DEF Held
    <2>5. ReadersRecover'
      BY <1>1, <2>2, <2>3, <2>4 DEF RecoverInv, ReadersRecover
    <2> QED BY <2>1, <2>5 DEF RecoverInv, LateReadRecovers
  <1>5. CASE PollView(c)
    <2> DEFINE new == [job |-> poll[c].job, stored |-> poll[c].stored,
                       state |-> JobState(poll[c].proc, poll[c].job, poll[c].row)]
    <2>1. answer' = [answer EXCEPT ![c] = new] /\ poll' = [poll EXCEPT ![c] = NoPoll]
      BY <1>5 DEF PollView
    <2>2. new.stored => new.state \notin {"RUNNING", "INTERRUPTED"}
      <3>1. /\ new.stored => poll[c].row.state # "RUNNING"
            /\ poll[c].row.state \in States
        BY <1>5 DEF PollView, RecoverInv, ReadersRecover, JobInv, TypeOK, ReadersOK,
           ReadersHoldRows, JobRows
      <3> QED BY <3>1 DEF JobState, States
    <2> HIDE DEF new
    <2>3. LateReadRecovers'
      BY <2>1, <2>2 DEF RecoverInv, LateReadRecovers, JobInv, TypeOK
    <2>4. ReadersRecover'
      BY <1>1, <1>2, <2>1, NothingHeld DEF RecoverInv, ReadersRecover
    <2> QED BY <2>3, <2>4 DEF RecoverInv
  <1>6. CASE PollFails(c)
    <2>1. ReadersRecover'
      BY <1>1, <1>2, <1>6, NothingHeld DEF PollFails, RecoverInv, ReadersRecover
    <2> QED BY <1>6, <2>1 DEF PollFails, RecoverInv, LateReadRecovers
  <1> QED BY <1>3, <1>4, <1>5, <1>6 DEF Reader

LEMMA NextRecovers ==
  ASSUME JobInv, RecoverInv, [Next]_vars
  PROVE  RecoverInv'
  <1>1. ASSUME UNCHANGED <<poll, answer>> PROVE RecoverInv'
    BY <1>1, NextShape, OthersRecover
  <1>2. CASE UNCHANGED vars
    BY <1>1, <1>2 DEF vars, readVars
  <1>3. ASSUME NEW r \in Requests, NEW p \in Processes, NEW j \in Jobs,
               NEW action \in Actions, NEW expected \in Revisions \cup {NULL},
               NEW resume \in Jobs \cup {NULL}, NEW sourced \in Sourced, NEW max \in Ceilings,
               Submit(r, p, j, action, expected, resume, sourced, max)
        PROVE  RecoverInv'
    BY <1>1, <1>3 DEF Submit, readVars
  <1>4. ASSUME NEW r \in Requests, Admission(r) PROVE RecoverInv'
    <2>1. UNCHANGED <<poll, answer>>
      BY <1>4 DEF Admission, ReadSource, ReadPrior, ReadHead, Admit, CheckResume, Insert,
         StartTask, StoreUnavailable, readVars
    <2> QED BY <1>1, <2>1
  <1>5. ASSUME NEW r \in Requests, Runner(r) PROVE RecoverInv'
    <2>1. UNCHANGED <<poll, answer>>
      BY <1>5 DEF Runner, LoadBefore, LoadResumed, ProviderCall, Report, ProviderAnswers,
         RunFails, LoadAfter, Save, Confirm, Finish, readVars
    <2> QED BY <1>1, <2>1
  <1>6. ASSUME NEW x \in Edits, Edit(x) PROVE RecoverInv'
    BY <1>1, <1>6 DEF Edit, readVars
  <1>7. ASSUME NEW p \in Processes, Boot(p) PROVE RecoverInv'
    BY <1>1, <1>7 DEF Boot, readVars
  <1>8. ASSUME NEW p \in Processes, Stop(p) PROVE RecoverInv'
    <2>1. \A c \in Pollers : poll'[c] = poll[c] \/ poll'[c].step = "idle"
      BY <1>8, NothingHeld DEF Stop
    <2> QED BY <1>8, <2>1, NextShape, OthersRecover DEF Stop
  <1>9. CASE Next
    BY <1>3, <1>4, <1>5, <1>6, <1>7, <1>8, <1>9, ReaderRecovers DEF Next
  <1> QED BY <1>2, <1>9

LEMMA RecoverInit == Init => RecoverInv
  BY DEF Init, RecoverInv, ReadersRecover, LateReadRecovers, NoPoll

(* "A later job read recovers": whoever begins to read a job after its revision was stored   *)
(* is not told that it runs or was interrupted, whatever was lost and in whichever process   *)
(* he reads (the job action, _job_view).                                               *)
THEOREM LateReadsRecover == Spec => []LateReadRecovers
  <1>1. JobInv /\ RecoverInv /\ [Next]_vars => RecoverInv'
    BY NextRecovers
  <1>2. RecoverInv => LateReadRecovers
    BY DEF RecoverInv
  <1> QED BY <1>1, <1>2, RecoverInit, JobsInvariant, PTL DEF Spec

=============================================================================

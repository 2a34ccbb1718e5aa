----------------------------- MODULE AsyncClients -----------------------------
(***************************************************************************)
(* Browser tabs that submit generation jobs and follow them.  A tab writes    *)
(* the id of its job, and the account and project it is for, into its session *)
(* storage before it submits, never submits twice, and refuses to submit      *)
(* another job until the result of the last one was delivered or its user     *)
(* dismissed it.  It has one row: a row of another account or project reads   *)
(* as none, and a new submission takes its place; where there is no session   *)
(* storage the row is lost with the page.  The submission may get lost or     *)
(* arrive after the tab stopped waiting for the receipt; every reply may get  *)
(* lost; the page may be reloaded and the server restarted.                   *)
(***************************************************************************)
EXTENDS AsyncJobs

CONSTANTS
  Tabs,
  Scopes,       (* an account and one of its projects                      *)
  MaxAbsent,    (* polls that may find no job before one was acknowledged, 4 *)
  MaxUpsets     (* bound: restarts, repeated submissions, rows lost with their *)
                (* page, changes of session                                *)

ASSUME TabAssumption == MaxAbsent \in Nat /\ MaxUpsets \in Nat

VARIABLES
  scope,      (* where a tab is signed in, if it is                        *)
  row,        (* what a tab keeps of its last job                          *)
  pc,         (* what a tab awaits                                         *)
  absent,     (* polls of the running wait that found no job               *)
  posts,      (* submissions under way                                     *)
  receipt,    (* the receipt on its way to a tab                           *)
  told,       (* was the user of a job given an answer, or did he dismiss it; *)
              (* or did he ask for another one from elsewhere, or reload a  *)
              (* page that had no session storage                          *)
  upsets      (* so many of those so far                                   *)

clientVars == <<scope, row, pc, absent, posts, receipt, told>>
asyncVars  == <<storeVars, clientVars, upsets>>

Rows == [id : JobIds, scope : Scopes, acknowledged : BOOLEAN, delivered : BOOLEAN,
         expires : -1 .. Ttl]

ASSUME TabRowAssumption == Nil \notin Rows \cup Scopes \cup {"accepted", "refused"}

AsyncTypeOK ==
  /\ records \in [JobIds -> Records \cup {Nil}]
  /\ janitor \in BOOLEAN
  /\ since \in [JobIds -> 0 .. TombstoneTtl \cup {Nil}]
  /\ kept \in [JobIds -> 0 .. Ttl \cup {Nil}]
  /\ scope \in [Tabs -> Scopes \cup {Nil}]
  /\ row \in [Tabs -> Rows \cup {Nil}]
  /\ pc \in [Tabs -> {"idle", "posting", "polling", "sleeping", "fetching"}]
  /\ absent \in [Tabs -> 0 .. MaxAbsent]
  /\ posts \subseteq JobIds
  /\ receipt \in [Tabs -> {Nil, "accepted", "refused"}]
  /\ told \in [JobIds -> {"unused", "submitted", "closed", "strayed"}]
  /\ upsets \in 0 .. MaxUpsets

AsyncInit ==
  /\ StoreInit
  /\ scope \in [Tabs -> Scopes \cup {Nil}]
  /\ row = [t \in Tabs |-> Nil]
  /\ pc = [t \in Tabs |-> "idle"]
  /\ absent = [t \in Tabs |-> 0]
  /\ posts = {}
  /\ receipt = [t \in Tabs |-> Nil]
  /\ told = [j \in JobIds |-> "unused"]
  /\ upsets = 0

Upset == upsets < MaxUpsets /\ upsets' = upsets + 1

-----------------------------------------------------------------------------
(* Submission.  The row is stored before anything is sent.                   *)

(* The row is read only where it was written.                                *)
Elsewhere(t) == row[t].scope # scope[t]
Reads(t)     == row[t] # Nil /\ ~ Elsewhere(t)

(* What else can become of a job, when its user did this.                     *)
Stray(t, did) ==
  IF row[t] # Nil /\ told[row[t].id] = "submitted" /\ did
  THEN [told EXCEPT ![row[t].id] = "strayed"] ELSE told

(* A row that is not read does not keep a tab from submitting, and is        *)
(* overwritten.  Nobody submits who is not signed in.                        *)
SubmitJob(t, j) ==
  /\ pc[t] = "idle" /\ scope[t] # Nil
  /\ Reads(t) => row[t].delivered
  /\ told[j] = "unused"
  /\ row' = [row EXCEPT ![t] = [id |-> j, scope |-> scope[t], acknowledged |-> FALSE,
                                delivered |-> FALSE, expires |-> Ttl]]
  /\ pc' = [pc EXCEPT ![t] = "posting"]
  /\ posts' = posts \cup {j}
  /\ told' = [Stray(t, Elsewhere(t)) EXCEPT ![j] = "submitted"]
  /\ UNCHANGED <<storeVars, scope, absent, receipt, upsets>>

(* Only a tab that still awaits its receipt can get it.                      *)
Reply(j, answer) ==
  receipt' = [t \in Tabs |->
    IF pc[t] = "posting" /\ row[t].id = j THEN answer ELSE receipt[t]]

(* The server handles a submission, maybe long after the tab gave up on it.   *)
Deliver(j, owner) ==
  /\ j \in posts
  /\ posts' = posts \ {j}
  /\ \E outcome \in {"known", "fresh", "refused"} :
       /\ Reserve(j, owner, outcome)
       /\ Reply(j, IF outcome = "refused" THEN "refused" ELSE "accepted")
  /\ UNCHANGED <<scope, row, pc, absent, told, upsets>>

(* Turned away before any record is looked at: no session, too large a body.  *)
TurnAway(j) ==
  /\ j \in posts
  /\ posts' = posts \ {j}
  /\ Reply(j, "refused")
  /\ UNCHANGED <<storeVars, scope, row, pc, absent, told, upsets>>

(* Somebody repeats a submission that its user is done with.                 *)
Replay(j, owner) ==
  /\ told[j] \in {"closed", "strayed"}
  /\ \E outcome \in {"known", "fresh", "refused"} : Reserve(j, owner, outcome)
  /\ Upset
  /\ UNCHANGED clientVars

Wait(t) ==
  /\ pc' = [pc EXCEPT ![t] = "polling"]
  /\ absent' = [absent EXCEPT ![t] = 0]

(* A refusal clears the row: surely nothing runs.                            *)
Receipt(t) ==
  /\ pc[t] = "posting"
  /\ \/ /\ receipt[t] = "accepted"
        /\ row' = [row EXCEPT ![t].acknowledged = TRUE]
        /\ Wait(t)
     \/ /\ receipt[t] = "refused"
        /\ row' = [row EXCEPT ![t] = Nil]
        /\ pc' = [pc EXCEPT ![t] = "idle"]
        /\ UNCHANGED absent
  /\ receipt' = [receipt EXCEPT ![t] = Nil]
  /\ UNCHANGED <<storeVars, scope, posts, told, upsets>>

(* Slip: a submission that was not answered is taken not to have happened.    *)
NoReceiptForgets(t) ==
  /\ pc[t] = "posting"
  /\ row' = [row EXCEPT ![t] = Nil]
  /\ pc' = [pc EXCEPT ![t] = "idle"]
  /\ receipt' = [receipt EXCEPT ![t] = Nil]
  /\ UNCHANGED <<storeVars, scope, absent, posts, told, upsets>>

(* Without a receipt the tab goes on with reads only, or, after an answer that *)
(* is no receipt, returns and keeps the row.                                 *)
NoReceipt(t) ==
  /\ pc[t] = "posting"
  /\ \/ Wait(t)
     \/ pc' = [pc EXCEPT ![t] = "idle"] /\ UNCHANGED absent
  /\ receipt' = [receipt EXCEPT ![t] = Nil]
  /\ UNCHANGED <<storeVars, scope, row, posts, told, upsets>>

-----------------------------------------------------------------------------
(* Following a job.                                                        *)

(* Slip: the deadline is not looked at while the server cannot be reached.    *)
AgainForEver(t, r) ==
  /\ row' = [row EXCEPT ![t] = r]
  /\ pc' = [pc EXCEPT ![t] = "sleeping"]

(* One more round, unless the deadline passed.                               *)
Again(t, r) ==
  /\ row' = [row EXCEPT ![t] = r]
  /\ pc' = [pc EXCEPT ![t] = IF r.expires < 0 THEN "idle" ELSE "sleeping"]

GiveUp(t) == pc' = [pc EXCEPT ![t] = "idle"] /\ UNCHANGED row

(* After two seconds, ten when the page is hidden.                           *)
Wake(t) ==
  /\ pc[t] = "sleeping"
  /\ pc' = [pc EXCEPT ![t] = "polling"]
  /\ UNCHANGED <<storeVars, scope, row, absent, posts, receipt, told, upsets>>

(* Every round begins with a look at who is signed in and at whether the user   *)
(* wants to wait on; both may change while the reply is awaited.              *)
StopsWaiting(t) ==
  /\ pc[t] = "polling"
  /\ GiveUp(t)
  /\ UNCHANGED <<storeVars, scope, absent, posts, receipt, told, upsets>>

PollUnheard(t) ==
  /\ pc[t] = "polling"
  /\ Again(t, row[t])
  /\ UNCHANGED <<storeVars, scope, absent, posts, receipt, told, upsets>>

(* The server answers a read after pruning.                                  *)
Poll(t) ==
  /\ pc[t] = "polling"
  /\ records' = Prune(records)
  /\ LET seen == Prune(records)[row[t].id] IN
     IF seen = Nil
     THEN IF ~ row[t].acknowledged /\ absent[t] < MaxAbsent
          THEN Again(t, row[t]) /\ absent' = [absent EXCEPT ![t] = @ + 1]
          ELSE GiveUp(t) /\ UNCHANGED absent
     ELSE /\ UNCHANGED absent
          /\ IF seen.state = "EXPIRED" THEN GiveUp(t)
             ELSE IF seen.state \in Active
             THEN Again(t, [row[t] EXCEPT !.expires = seen.expires])
             ELSE /\ row' = [row EXCEPT ![t].expires = seen.expires]
                  /\ pc' = [pc EXCEPT ![t] = "fetching"]
  /\ UNCHANGED <<janitor, since, kept, scope, posts, receipt, told, upsets>>

(* Whatever the server answers counts as delivered, a result as well as the   *)
(* news that there is none any more.                                         *)
Fetch(t) ==
  /\ pc[t] = "fetching"
  /\ records' = Prune(records)
  /\ row' = [row EXCEPT ![t].delivered = TRUE]
  /\ told' = [told EXCEPT ![row[t].id] = "closed"]
  /\ pc' = [pc EXCEPT ![t] = "idle"]
  /\ UNCHANGED <<janitor, since, kept, scope, absent, posts, receipt, upsets>>

FetchUnheard(t) ==
  /\ pc[t] = "fetching"
  /\ Again(t, row[t])
  /\ UNCHANGED <<storeVars, scope, absent, posts, receipt, told, upsets>>

(* The page is loaded anew.  Where there is no session storage its row goes.   *)
Reload(t) ==
  /\ pc' = [pc EXCEPT ![t] = "idle"]
  /\ receipt' = [receipt EXCEPT ![t] = Nil]
  /\ \/ UNCHANGED <<row, told, upsets>>
     \/ /\ row' = [row EXCEPT ![t] = Nil]
        /\ told' = Stray(t, TRUE)
        /\ Upset
  /\ UNCHANGED <<storeVars, scope, absent, posts>>

(* A session ends or begins; another project is entered.                     *)
Session(t, to) ==
  /\ to # scope[t]
  /\ scope' = [scope EXCEPT ![t] = to]
  /\ Upset
  /\ UNCHANGED <<storeVars, row, pc, absent, posts, receipt, told>>

Recover(t) ==
  /\ pc[t] = "idle" /\ Reads(t)
  /\ Wait(t)
  /\ UNCHANGED <<storeVars, scope, row, posts, receipt, told, upsets>>

(* The user is warned that a generation may be running and be paid for.       *)
Dismiss(t) ==
  /\ pc[t] = "idle" /\ Reads(t)
  /\ row' = [row EXCEPT ![t] = Nil]
  /\ told' = [told EXCEPT ![row[t].id] = "closed"]
  /\ UNCHANGED <<storeVars, scope, pc, absent, posts, receipt, upsets>>

-----------------------------------------------------------------------------
Tick ==
  /\ Pass
  /\ row' = [t \in Tabs |->
       IF row[t] = Nil THEN Nil ELSE [row[t] EXCEPT !.expires = Elapse(@)]]
  /\ UNCHANGED <<scope, pc, absent, posts, receipt, told, upsets>>

Follow(t) ==
  \/ Receipt(t) \/ NoReceipt(t)
  \/ Wake(t) \/ StopsWaiting(t) \/ Poll(t) \/ PollUnheard(t)
  \/ Fetch(t) \/ FetchUnheard(t)

Run(j) == (Execute(j) \/ Complete(j)) /\ UNCHANGED <<clientVars, upsets>>

Sweep  == Janitor /\ UNCHANGED <<clientVars, upsets>>
Reboot == Restart /\ Upset /\ UNCHANGED clientVars

AsyncNext ==
  \/ \E t \in Tabs, j \in JobIds : SubmitJob(t, j)
  \/ \E t \in Tabs : Follow(t) \/ Reload(t) \/ Recover(t) \/ Dismiss(t)
  \/ \E t \in Tabs, to \in Scopes \cup {Nil} : Session(t, to)
  \/ \E j \in JobIds, owner \in Owners : Deliver(j, owner) \/ Replay(j, owner)
  \/ \E j \in JobIds : TurnAway(j) \/ Run(j)
  \/ Sweep
  \/ Reboot
  \/ Tick

(* Time passes; every fetch of a tab has a time-out and is followed by another *)
(* step of the tab; a run has a deadline; the janitor is woken by a timer.     *)
(* Nothing is assumed of users, of the network and of restarts.               *)
AsyncFairness ==
  /\ WF_asyncVars(Tick)
  /\ \A t \in Tabs : WF_asyncVars(Follow(t))
  /\ \A j \in JobIds : WF_asyncVars(Run(j))
  /\ WF_asyncVars(Sweep)

AsyncSpec     == AsyncInit /\ [][AsyncNext]_asyncVars
FairAsyncSpec == AsyncSpec /\ AsyncFairness

=============================================================================

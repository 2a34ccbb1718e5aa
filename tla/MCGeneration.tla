----------------------------- MODULE MCGeneration ------------------------------
(* The jobs of the workspace beside the asynchronous jobs.  The two share nothing:    *)
(* in one behaviour one of them moves.                                          *)
EXTENDS MCJobs, AsyncSafety

CONSTANT s1         (* an account and one of its projects                       *)

VARIABLE side       (* the jobs that move                                      *)

bothVars == <<side, vars, asyncVars>>

Workspace(step) == side = "workspace" /\ step /\ UNCHANGED <<side, asyncVars>>
Async(step)     == side = "async" /\ step /\ UNCHANGED <<side, vars>>

BothInit == side \in {"workspace", "async"} /\ Init /\ AsyncInit

(* For what must never happen.                                                *)
BothSpec == BothInit /\ [][Workspace(Next) \/ Async(AsyncNext)]_bothVars

Either == Symmetric \cup Permutations(JobIds) \cup Permutations(Scopes)

(* For what must happen in the end.  Scopes are alike: the tabs begin in one of them.  *)
EndsInit == BothInit /\ scope = [t \in Tabs |-> s1]

EndsSpec ==
  /\ EndsInit /\ [][Workspace(Next) \/ Async(AsyncNext)]_bothVars
  /\ WF_bothVars(Async(Tick)) /\ WF_bothVars(Async(Sweep))
  /\ \A t \in Tabs : WF_bothVars(Async(Follow(t)))
  /\ \A j \in JobIds : WF_bothVars(Async(Run(j)))
  /\ \A r \in Requests : WF_bothVars(Workspace(Runner(r)))

=============================================================================

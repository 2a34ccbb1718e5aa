------------------------------ MODULE RateCheck -------------------------------
(***************************************************************************)
(* The decision of the rate limiter over counters that all processes share.  A     *)
(* request looks at the budget of the day without spending, spends the quotas of    *)
(* its visitor one after the other and spends from the budget last.  With a script   *)
(* one hit is one step of the store; without, it is a read, an increment and, for    *)
(* the first one, the expiry.  Each step may fail before or after it took effect.    *)
(***************************************************************************)
EXTENDS Integers, FiniteSets, Sequences

CONSTANTS
  Requests,
  Visits,           (* of each request: the keys of its visitor, in order     *)
  Budget,           (* the key of the budget all visitors share               *)
  Cap               (* of each key                                           *)

CheckKeys == {Budget} \cup UNION {{Visits[c][i] : i \in DOMAIN Visits[c]} : c \in Requests}

(* The key of the budget is in a scope of its own (RateLimiter.key).               *)
ASSUME CheckAssumption ==
  /\ IsFiniteSet(Requests)
  /\ \A c \in Requests : /\ Visits[c] \in Seq(CheckKeys)
                         /\ \A i \in DOMAIN Visits[c] : Visits[c][i] # Budget
  /\ \A k \in CheckKeys : Cap[k] \in Nat \ {0}

VARIABLES
  atomic,           (* the store runs scripts                               *)
  counter, expires, (* of each key                                          *)
  pos, phase,       (* of each request: which hit, and which call of it        *)
  served,           (* requests admitted in the current window of the budget    *)
  lost              (* hits on the budget in it whose answer was lost          *)

checkVars == <<atomic, counter, expires, pos, phase, served, lost>>

CheckInit ==
  /\ atomic \in BOOLEAN
  /\ counter = [k \in CheckKeys |-> 0]
  /\ expires = [k \in CheckKeys |-> FALSE]
  /\ pos = [c \in Requests |-> 0]
  /\ phase = [c \in Requests |-> "get"]
  /\ served = 0 /\ lost = 0

-----------------------------------------------------------------------------
Hits(c) == <<Budget>> \o Visits[c] \o <<Budget>>

Key(c) == Hits(c)[pos[c]]

(* Slip: the first look at the budget already spends.                          *)
SpendsAlways(c) == TRUE

Spends(c) == pos[c] > 1

IsLast(c) == pos[c] = Len(Hits(c))

Begin(c) ==
  /\ pos[c] = 0
  /\ pos' = [pos EXCEPT ![c] = 1]
  /\ UNCHANGED <<atomic, counter, expires, phase, served, lost>>

(* The hit was granted: the next one, or the request is admitted.               *)
Granted(c) ==
  /\ pos' = [pos EXCEPT ![c] = IF IsLast(c) THEN 0 ELSE @ + 1]
  /\ phase' = [phase EXCEPT ![c] = "get"]
  /\ served' = IF IsLast(c) THEN served + 1 ELSE served
  /\ UNCHANGED lost

(* The store failed or did not answer: the request ends, closed or open as the     *)
(* policy says, and what it has spent stays spent.                            *)
Dropped(c, spent) ==
  /\ pos' = [pos EXCEPT ![c] = 0]
  /\ phase' = [phase EXCEPT ![c] = "get"]
  /\ lost' = IF spent /\ IsLast(c) THEN lost + 1 ELSE lost
  /\ UNCHANGED served

Over(c) == counter[Key(c)] >= Cap[Key(c)]

Refuse(c) ==
  /\ pos[c] # 0 /\ phase[c] = "get" /\ Over(c)
  /\ pos' = [pos EXCEPT ![c] = 0]
  /\ UNCHANGED <<atomic, counter, expires, phase, served, lost>>

Script(c) ==
  /\ atomic /\ pos[c] # 0 /\ ~ Over(c)
  /\ IF Spends(c)
     THEN /\ counter' = [counter EXCEPT ![Key(c)] = @ + 1]
          /\ expires' = [expires EXCEPT ![Key(c)] = @ \/ counter[Key(c)] = 0]
     ELSE UNCHANGED <<counter, expires>>
  /\ Granted(c) \/ Dropped(c, Spends(c))
  /\ UNCHANGED atomic

(* Slip: the last hit only looks as well.                                     *)
GetOnly(c) ==
  /\ ~ atomic /\ pos[c] # 0 /\ phase[c] = "get" /\ ~ Over(c)
  /\ IF Spends(c) /\ ~ IsLast(c)
     THEN phase' = [phase EXCEPT ![c] = "incr"] /\ UNCHANGED <<pos, served, lost>>
     ELSE Granted(c)
  /\ UNCHANGED <<atomic, counter, expires>>

Get(c) ==
  /\ ~ atomic /\ pos[c] # 0 /\ phase[c] = "get" /\ ~ Over(c)
  /\ IF Spends(c)
     THEN phase' = [phase EXCEPT ![c] = "incr"] /\ UNCHANGED <<pos, served, lost>>
     ELSE Granted(c)
  /\ UNCHANGED <<atomic, counter, expires>>

Incr(c) ==
  /\ pos[c] # 0 /\ phase[c] = "incr"
  /\ counter' = [counter EXCEPT ![Key(c)] = @ + 1]
  /\ \/ counter[Key(c)] = 0
        /\ phase' = [phase EXCEPT ![c] = "pexpire"]
        /\ UNCHANGED <<pos, served, lost>>
     \/ counter[Key(c)] # 0 /\ Granted(c)
     \/ Dropped(c, TRUE)
  /\ UNCHANGED <<atomic, expires>>

PExpire(c) ==
  /\ pos[c] # 0 /\ phase[c] = "pexpire"
  /\ expires' = [expires EXCEPT ![Key(c)] = TRUE]
  /\ Granted(c) \/ Dropped(c, TRUE)
  /\ UNCHANGED <<atomic, counter>>

(* A call that fails, or a process that stops, before it took effect.            *)
CheckFails(c) ==
  /\ pos[c] # 0
  /\ Dropped(c, phase[c] = "pexpire")
  /\ UNCHANGED <<atomic, counter, expires>>

Expire(k) ==
  /\ expires[k]
  /\ counter' = [counter EXCEPT ![k] = 0]
  /\ expires' = [expires EXCEPT ![k] = FALSE]
  /\ IF k = Budget THEN served' = 0 /\ lost' = 0 ELSE UNCHANGED <<served, lost>>
  /\ UNCHANGED <<atomic, pos, phase>>

CheckNext ==
  \/ \E c \in Requests :
       Begin(c) \/ Refuse(c) \/ Script(c) \/ Get(c) \/ Incr(c) \/ PExpire(c) \/ CheckFails(c)
  \/ \E k \in CheckKeys : Expire(k)

CheckSpec == CheckInit /\ [][CheckNext]_checkVars

-----------------------------------------------------------------------------
CapHolds ==
  served <= Cap[Budget] + (IF atomic THEN 0 ELSE Cardinality(Requests) - 1)

RefusedSpendNothing ==
  counter[Budget] <= served + lost
    + Cardinality({c \in Requests : pos[c] # 0 /\ IsLast(c) /\ phase[c] = "pexpire"})

(* The budget of a window is kept by all processes together; without scripts it is  *)
(* exceeded by no more than the other requests that read the counter at the same    *)
(* time: "a small overshoot is possible".  And a visitor that is refused by its own   *)
(* quotas spends nothing of it, whatever fails on the way: what is gone from it was    *)
(* admitted, is being admitted or lost its answer (RateLimiter.check, whose last hit   *)
(* is the budget, and _run_commands).                                         *)
BudgetIsShared == CapHolds /\ RefusedSpendNothing

=============================================================================

------------------------------ MODULE RateLimit -------------------------------
(***************************************************************************)
(* The counters of the rate limiter in the memory of one process: a table of      *)
(* the clients touched last, least recent first, and the tombstones of clients    *)
(* that were evicted while their window was running, in the order they were       *)
(* recorded.  Times are counted down; one hit holds the lock from start to end.   *)
(***************************************************************************)
EXTENDS Integers, FiniteSets, Sequences

CONSTANTS
  RateKeys,
  Limit, Window,       (* of each key: an hourly or a daily one             *)
  MaxKeys,
  PurgeBudget,         (* entries looked at by one purge                     *)
  Peeked               (* keys that are also asked about without consuming    *)

ASSUME RateAssumption ==
  /\ IsFiniteSet(RateKeys) /\ Peeked \subseteq RateKeys
  /\ Limit \in [RateKeys -> Nat \ {0}] /\ Window \in [RateKeys -> Nat \ {0}]
  /\ MaxKeys \in Nat \ {0} /\ PurgeBudget \in Nat \ {0}

VARIABLES
  table,      (* rows [key, count, left]                                   *)
  tombs,      (* rows [key, left]                                          *)
  used,       (* requests granted to a key in its window, up to one too many   *)
  until,      (* what is left of that window                                 *)
  after,      (* live evictions since that of a key, -1 if it was not evicted   *)
  told        (* what is left of the wait a key was told last, or -1           *)

rateVars == <<table, tombs, used, until, after, told>>

RateInit ==
  /\ table = <<>> /\ tombs = <<>>
  /\ used = [k \in RateKeys |-> 0] /\ until = [k \in RateKeys |-> 0]
  /\ after = [k \in RateKeys |-> -1] /\ told = [k \in RateKeys |-> -1]

RateTypeOK ==
  /\ \A i \in DOMAIN table :
       /\ table[i].count \in 1 .. Limit[table[i].key]
       /\ table[i].left \in 0 .. Window[table[i].key]
  /\ Len(table) <= MaxKeys /\ Len(tombs) <= MaxKeys
  /\ \A k \in RateKeys : used[k] \in 0 .. Limit[k] + 1
  /\ until \in [RateKeys -> Nat]
  /\ after \in [RateKeys -> -1 .. MaxKeys] /\ told \in [RateKeys -> Int]

-----------------------------------------------------------------------------
Least(a, b) == IF a <= b THEN a ELSE b

(* The rows at these places, in their order.                                  *)
KeptAt(rows, kept) ==
  LET nth(n) == CHOOSE i \in kept : Cardinality({j \in kept : j <= i}) = n
  IN [n \in 1 .. Cardinality(kept) |-> rows[nth(n)]]

Without(rows, k) == KeptAt(rows, {i \in DOMAIN rows : rows[i].key # k})

LiveOf(rows, k) == {rows[i] : i \in {j \in DOMAIN rows : rows[j].key = k /\ rows[j].left > 0}}

(* The expired among the first of the rows go.                                *)
PurgeExpired(rows, budget) ==
  KeptAt(rows, {i \in DOMAIN rows : i > budget \/ rows[i].left > 0})

(* Slip: the tombstone runs for a whole window.                               *)
TombstoneAfresh(rows, r) ==
  LET all == Append(Without(rows, r.key), [key |-> r.key, left |-> Window[r.key]])
  IN IF Len(all) > MaxKeys THEN Tail(all) ELSE all

(* Slip: a full table of tombstones takes no further one.                       *)
TombstoneIfRoom(rows, r) ==
  IF Len(rows) >= MaxKeys THEN rows
  ELSE Append(Without(rows, r.key), [key |-> r.key, left |-> r.left])

(* The tombstone that was recorded first makes room.                           *)
Tombstone(rows, r) ==
  LET all == Append(Without(rows, r.key), [key |-> r.key, left |-> r.left])
  IN IF Len(all) > MaxKeys THEN Tail(all) ELSE all

(* The tables after a purge of all, and of the least recent client if that was   *)
(* not enough.                                                              *)
MakeRoom(t) ==
  IF Len(t.rows) < MaxKeys THEN t
  ELSE LET rows == PurgeExpired(t.rows, MaxKeys)
           stones == PurgeExpired(t.stones, MaxKeys)
       IN IF Len(rows) < MaxKeys THEN [t EXCEPT !.rows = rows, !.stones = stones]
          ELSE [rows |-> Tail(rows), stones |-> Tombstone(stones, Head(rows)),
                evicted |-> {Head(rows).key}]

(* What a hit leaves behind: [rows, stones, evicted, ok, wait].                  *)
RateHit(k, consume) ==
  LET rows == PurgeExpired(table, PurgeBudget)
      stones == PurgeExpired(tombs, PurgeBudget)
      stone == LiveOf(stones, k)
      mine == LiveOf(rows, k)
      clean == [rows |-> Without(rows, k), stones |-> Without(stones, k), evicted |-> {}]
      room == IF mine = {} THEN MakeRoom(clean) ELSE clean
      row == IF mine # {} THEN CHOOSE r \in mine : TRUE ELSE [key |-> k, count |-> 0, left |-> Window[k]]
      full == row.count >= Limit[k]
      touched == [row EXCEPT !.count = IF consume /\ ~ full THEN @ + 1 ELSE @]
  IN IF stone # {}
     THEN [rows |-> rows, stones |-> stones, evicted |-> {}, ok |-> FALSE,
           wait |-> (CHOOSE r \in stone : TRUE).left]
     ELSE IF mine = {} /\ ~ consume
     THEN [rows |-> clean.rows, stones |-> clean.stones, evicted |-> {}, ok |-> TRUE, wait |-> 0]
     ELSE [rows |-> Append(room.rows, touched), stones |-> room.stones,
           evicted |-> room.evicted, ok |-> ~ full, wait |-> IF full THEN row.left ELSE 0]

-----------------------------------------------------------------------------
(* A new row begins a window; what was granted before in a running one stays.    *)
Counted(k, r) ==
  /\ used' = [used EXCEPT ![k] = IF r.ok THEN Least(@, Limit[k]) + 1 ELSE @]
  /\ until' = [until EXCEPT ![k] = IF r.ok /\ LiveOf(table, k) = {} THEN Window[k] ELSE @]

Answered(k, consume) ==
  LET r == RateHit(k, consume) IN
  /\ table' = r.rows /\ tombs' = r.stones
  /\ told' = [told EXCEPT ![k] = IF r.ok THEN -1 ELSE r.wait]
  /\ after' = [j \in RateKeys |->
       IF j \in r.evicted THEN IF after[j] = -1 THEN 0 ELSE after[j]
       ELSE IF after[j] = -1 \/ r.evicted = {} THEN after[j]
       ELSE Least(after[j] + 1, MaxKeys)]
  /\ IF consume THEN Counted(k, r) ELSE UNCHANGED <<used, until>>

Hit(k) == Answered(k, TRUE)

Peek(k) == k \in Peeked /\ Answered(k, FALSE)

Elapse(rows) ==
  [i \in DOMAIN rows |-> [rows[i] EXCEPT !.left = IF @ = 0 THEN 0 ELSE @ - 1]]

Tick ==
  /\ table' = Elapse(table) /\ tombs' = Elapse(tombs)
  /\ until' = [k \in RateKeys |-> IF until[k] = 0 THEN 0 ELSE until[k] - 1]
  /\ used' = [k \in RateKeys |-> IF until[k] <= 1 THEN 0 ELSE used[k]]
  /\ after' = [k \in RateKeys |-> IF until[k] <= 1 THEN -1 ELSE after[k]]
  /\ told' = [k \in RateKeys |-> IF told[k] <= 0 THEN told[k] ELSE told[k] - 1]

RateNext == Tick \/ \E k \in RateKeys : Hit(k) \/ Peek(k)

RateSpec == RateInit /\ [][RateNext]_rateVars

-----------------------------------------------------------------------------
(* Being evicted from the table gives a client no fresh quota: more than its limit  *)
(* is granted in one window only after as many other live clients were evicted     *)
(* behind it as tombstones are kept (MemoryBackend.hit, _tombstone).              *)
QuotaSurvives == \A k \in RateKeys : used[k] <= Limit[k] \/ after[k] >= MaxKeys

(* A client that was told how long to wait is never told a later time: refusals,    *)
(* its eviction and the purges do not extend its window, so that waiting that long  *)
(* is enough (MemoryBackend.hit: retry_after).                                  *)
WaitIsEnough == [][\A k \in RateKeys : told[k] >= 0 => told'[k] <= told[k]]_rateVars

=============================================================================

------------------------------ MODULE AsyncProofs ------------------------------
(* The asynchronous jobs and the tabs that wait for them, for any number of jobs,   *)
(* owners and tabs and for all times to live and limits.  The ids need     *)
(* not be finite in number.                                                        *)
EXTENDS AsyncSafety, TLAPS, FiniteSetTheorems

StoreTypeOK ==
  /\ records \in [JobIds -> Records \cup {Nil}]
  /\ janitor \in BOOLEAN
  /\ since \in [JobIds -> 0 .. TombstoneTtl \cup {Nil}]
  /\ kept \in [JobIds -> 0 .. Ttl \cup {Nil}]

(* Until its tombstone may go, a job has a record, whose life and age add up.       *)
Remembered ==
  \A j \in JobIds :
    since[j] # Nil /\ since[j] # TombstoneTtl =>
      records[j] # Nil /\ records[j].forget + since[j] >= TombstoneTtl

(* The same holds for a result, which its tombstone outlives.                      *)
ResultLives ==
  \A j \in JobIds :
    HasResult(j) =>
      /\ kept[j] # Nil
      /\ records[j].expires <= records[j].forget
      /\ kept[j] = Ttl \/ records[j].expires + kept[j] >= Ttl

StoreInv == StoreTypeOK /\ Remembered /\ ResultLives

(* What can happen to the store, whoever makes it happen.                          *)
PruneOnly ==
  /\ records' = Prune(records) /\ janitor' \in BOOLEAN
  /\ UNCHANGED <<since, kept>>

Outcomes == {"known", "fresh", "refused"}

StoreStep ==
  \/ UNCHANGED storeVars
  \/ PruneOnly
  \/ \E j \in JobIds, owner \in Owners, outcome \in Outcomes : Reserve(j, owner, outcome)
  \/ \E j \in JobIds : Execute(j) \/ Complete(j)
  \/ Restart
  \/ Pass

-----------------------------------------------------------------------------
LEMMA Limits ==
  /\ Ttl \in Nat /\ TombstoneTtl \in Nat /\ TombstoneTtl >= Ttl
  /\ ShortTtl \in 0 .. Ttl /\ MaxBody \in Nat
  BY AsyncAssumption

(* A record that is emptied, and one that gets its result, is a record.              *)
Emptied(r) == [r EXCEPT !.state = "EXPIRED", !.size = 0]

WithResult(r, state, size, expires, forget) ==
  [r EXCEPT !.state = state, !.size = size, !.expires = expires, !.forget = forget]

LEMMA RecordEmptied ==
  ASSUME NEW r \in Records
  PROVE  /\ Emptied(r) \in Records /\ Emptied(r).state = "EXPIRED"
         /\ Emptied(r).expires = r.expires /\ Emptied(r).forget = r.forget
  <1> DEFINE s == [r EXCEPT !.state = "EXPIRED"]
  <1>1. Emptied(r) = [s EXCEPT !.size = 0]
    BY DEF Emptied
  <1>2. s \in Records /\ s.state = "EXPIRED" /\ s.expires = r.expires /\ s.forget = r.forget
    BY DEF Records
  <1> HIDE DEF s
  <1> QED BY <1>1, <1>2, Limits DEF Records

LEMMA RecordWithResult ==
  ASSUME NEW r \in Records, NEW state \in Active \cup Ended \cup {"EXPIRED"},
         NEW size \in 0 .. MaxBody, NEW expires \in -1 .. Ttl,
         NEW forget \in -1 .. TombstoneTtl
  PROVE  /\ WithResult(r, state, size, expires, forget) \in Records
         /\ WithResult(r, state, size, expires, forget).state = state
         /\ WithResult(r, state, size, expires, forget).expires = expires
         /\ WithResult(r, state, size, expires, forget).forget = forget
  <1> DEFINE s == [r EXCEPT !.state = state]
             t == [s EXCEPT !.size = size]
             u == [t EXCEPT !.expires = expires]
  <1>1. WithResult(r, state, size, expires, forget) = [u EXCEPT !.forget = forget]
    BY DEF WithResult
  <1>2. s \in Records /\ s.state = state
    BY DEF Records
  <1> HIDE DEF s
  <1>3. t \in Records /\ t.state = state
    BY <1>2 DEF Records
  <1> HIDE DEF t
  <1>4. u \in Records /\ u.state = state /\ u.expires = expires
    BY <1>3 DEF Records
  <1> HIDE DEF u
  <1> QED BY <1>1, <1>4 DEF Records

LEMMA RecordFields ==
  ASSUME NEW r \in Records
  PROVE  /\ r.state \in Active \cup Ended \cup {"EXPIRED"}
         /\ r.size \in 0 .. MaxBody
         /\ r.expires \in -1 .. Ttl /\ r.forget \in -1 .. TombstoneTtl
  BY DEF Records

LEMMA PrunedRecord ==
  ASSUME NEW rs, NEW j \in JobIds
  PROVE  Prune(rs)[j] =
           IF rs[j] = Nil \/ IsActive(rs, j) THEN rs[j]
           ELSE IF rs[j].forget <= 0 THEN Nil
           ELSE IF rs[j].expires <= 0 THEN Emptied(rs[j]) ELSE rs[j]
  BY DEF Prune, Emptied

(* What pruning keeps, drops and empties.                                         *)
LEMMA Pruned ==
  ASSUME StoreTypeOK
  PROVE  /\ Prune(records) \in [JobIds -> Records \cup {Nil}]
         /\ \A j \in JobIds :
              /\ Prune(records)[j] = Nil =>
                   records[j] = Nil \/ (~ IsActive(records, j) /\ records[j].forget <= 0)
              /\ Prune(records)[j] # Nil =>
                   /\ records[j] # Nil
                   /\ Prune(records)[j].forget = records[j].forget
                   /\ Prune(records)[j].expires = records[j].expires
                   /\ \/ Prune(records)[j].state = records[j].state
                      \/ /\ Prune(records)[j].state = "EXPIRED"
                         /\ ~ IsActive(records, j) /\ records[j].expires <= 0
  <1>1. ASSUME NEW j \in JobIds
        PROVE  /\ Prune(records)[j] \in Records \cup {Nil}
               /\ Prune(records)[j] = Nil =>
                    records[j] = Nil \/ (~ IsActive(records, j) /\ records[j].forget <= 0)
               /\ Prune(records)[j] # Nil =>
                    /\ records[j] # Nil
                    /\ Prune(records)[j].forget = records[j].forget
                    /\ Prune(records)[j].expires = records[j].expires
                    /\ \/ Prune(records)[j].state = records[j].state
                       \/ /\ Prune(records)[j].state = "EXPIRED"
                          /\ ~ IsActive(records, j) /\ records[j].expires <= 0
    <2>1. records[j] \in Records \cup {Nil}
      BY DEF StoreTypeOK
    <2>2. CASE records[j] = Nil
      <3>1. Prune(records)[j] = Nil
        BY <2>2, PrunedRecord, Zenon
      <3>2. Prune(records)[j] \in Records \cup {Nil}
        BY <3>1
      <3> QED BY <2>2, <3>1, <3>2, Zenon
    <2>3. CASE records[j] # Nil
      <3>1. /\ Emptied(records[j]) \in Records /\ Emptied(records[j]).state = "EXPIRED"
            /\ Emptied(records[j]).forget = records[j].forget
            /\ Emptied(records[j]).expires = records[j].expires
        BY <2>1, <2>3, RecordEmptied
      <3>2. Emptied(records[j]) # Nil
        BY <3>1, NullAssumption
      <3> QED BY <2>1, <2>3, <3>1, <3>2, PrunedRecord
    <2> QED BY <2>2, <2>3
  <1>2. Prune(records) \in [JobIds -> Records \cup {Nil}]
    <2>1. Prune(records) = [j \in JobIds |-> Prune(records)[j]]
      BY DEF Prune
    <2> QED BY <1>1, <2>1
  <1> QED BY <1>1, <1>2

(* The life of a record and of its result go on together.                           *)
LEMMA Elapsed ==
  ASSUME NEW top \in Nat, NEW left \in -1 .. top
  PROVE  /\ Elapse(left) \in -1 .. top
         /\ left >= 0 => Elapse(left) = left - 1
         /\ \A more \in Int : left <= more /\ more >= -1 => Elapse(left) <= Elapse(more)
  BY DEF Elapse

LEMMA Grown ==
  ASSUME NEW top \in Nat, NEW age \in 0 .. top \cup {Nil}
  PROVE  /\ Grow(age, top) \in 0 .. top \cup {Nil}
         /\ age # Nil => Grow(age, top) # Nil
         /\ age # Nil /\ age # top => Grow(age, top) = age + 1
         /\ age \in {Nil, top} => Grow(age, top) = age
  BY NullAssumption DEF Grow

-----------------------------------------------------------------------------
LEMMA StoreInitInv == StoreInit => StoreInv
  BY DEF StoreInit, StoreInv, StoreTypeOK, Remembered, ResultLives, HasResult

(* Every operation prunes first.                                                 *)
LEMMA PruneKeeps ==
  ASSUME StoreInv, PruneOnly
  PROVE  /\ StoreInv'
         /\ \A j \in JobIds : HasResult(j) /\ ~ HasResult(j)' => kept[j] = Ttl
  <1> USE DEF StoreInv
  <1>1. StoreTypeOK'
    BY Pruned DEF PruneOnly, StoreTypeOK
  <1>2. ASSUME NEW j \in JobIds
        PROVE  /\ since[j] \in 0 .. TombstoneTtl \cup {Nil}
               /\ kept[j] \in 0 .. Ttl \cup {Nil}
               /\ records[j] # Nil =>
                    records[j].forget \in Int /\ records[j].expires \in Int
    BY DEF StoreTypeOK, Records
  <1>3. Remembered'
    BY <1>2, Pruned, Limits DEF Remembered, PruneOnly
  <1>4. ASSUME NEW j \in JobIds, HasResult(j)'
        PROVE  HasResult(j) /\ records'[j].expires = records[j].expires
               /\ records'[j].forget = records[j].forget
    BY <1>4, Pruned DEF PruneOnly, HasResult
  <1>5. ResultLives'
    BY <1>2, <1>4 DEF ResultLives, PruneOnly
  <1>6. ASSUME NEW j \in JobIds, HasResult(j), ~ HasResult(j)'
        PROVE  kept[j] = Ttl
    <2>1. records[j].expires <= 0
      <3>1. records[j].expires <= records[j].forget /\ records[j] # Nil
        BY <1>6 DEF ResultLives, HasResult
      <3>2. CASE Prune(records)[j] = Nil
        BY <1>2, <3>1, <3>2, Pruned
      <3>3. CASE Prune(records)[j] # Nil
        BY <1>6, <3>3, Pruned DEF PruneOnly, HasResult
      <3> QED BY <3>2, <3>3
    <2> QED BY <1>2, <1>6, <2>1, Limits DEF ResultLives, HasResult
  <1> QED BY <1>1, <1>3, <1>5, <1>6

(* A reservation of a known or a refused job only prunes.                           *)
LEMMA ReserveKeeps ==
  ASSUME StoreInv, NEW j \in JobIds, NEW owner \in Owners, NEW outcome \in Outcomes,
         Reserve(j, owner, outcome)
  PROVE  /\ StoreInv'
         /\ \A i \in JobIds : HasResult(i) /\ ~ HasResult(i)' => kept[i] = Ttl
         /\ outcome # "fresh" => records' = Prune(records)
         /\ outcome = "fresh" =>
              /\ Prune(records)[j] = Nil
              /\ \A i \in JobIds \ {j} : records'[i] = Prune(records)[i]
  <1> USE DEF StoreInv
  <1>1. CASE outcome # "fresh"
    <2>1. PruneOnly
      BY <1>1 DEF Reserve, PruneOnly, StoreTypeOK
    <2> QED BY <1>1, <2>1, PruneKeeps DEF PruneOnly
  <1>2. CASE outcome = "fresh"
    <2> DEFINE new == [state |-> "QUEUED", owner |-> owner, size |-> 0,
                       expires |-> Ttl, forget |-> TombstoneTtl]
    <2>1. /\ Prune(records)[j] = Nil
          /\ records' = [Prune(records) EXCEPT ![j] = new]
          /\ janitor' = TRUE
          /\ since' = [since EXCEPT ![j] = 0]
          /\ kept' = [kept EXCEPT ![j] = Nil]
      BY <1>2 DEF Reserve, ReserveOutcome
    <2>2. new \in Records /\ new # Nil
      BY Limits, NullAssumption DEF Records, Active, Ended
    <2>3. Prune(records) \in [JobIds -> Records \cup {Nil}]
      BY Pruned
    <2>4. StoreTypeOK'
      BY <2>1, <2>2, <2>3, Limits DEF StoreTypeOK
    <2>5. records'[j] = new /\ \A i \in JobIds \ {j} : records'[i] = Prune(records)[i]
      BY <2>1, <2>3
    <2>6. ASSUME NEW i \in JobIds
          PROVE  /\ since[i] \in 0 .. TombstoneTtl \cup {Nil}
                 /\ kept[i] \in 0 .. Ttl \cup {Nil}
                 /\ records[i] # Nil =>
                      records[i].forget \in Int /\ records[i].expires \in Int
      BY DEF StoreTypeOK, Records
    <2>7. /\ since'[j] = 0 /\ \A i \in JobIds \ {j} : since'[i] = since[i]
          /\ \A i \in JobIds \ {j} : kept'[i] = kept[i]
      BY <2>1 DEF StoreTypeOK
    <2>8. Remembered'
      BY <2>2, <2>5, <2>6, <2>7, Pruned, Limits DEF Remembered
    <2>9. ~ HasResult(j)'
      BY <2>5 DEF HasResult
    <2>10. ASSUME NEW i \in JobIds, HasResult(i)'
           PROVE  /\ i # j /\ HasResult(i)
                  /\ records'[i].expires = records[i].expires
                  /\ records'[i].forget = records[i].forget
      BY <2>5, <2>9, <2>10, Pruned DEF HasResult
    <2>11. ResultLives'
      BY <2>6, <2>7, <2>10 DEF ResultLives
    <2>12. ASSUME NEW i \in JobIds, HasResult(i), ~ HasResult(i)'
           PROVE  kept[i] = Ttl
      <3>1. records[i].expires <= 0
        <4>1. records[i].expires <= records[i].forget /\ records[i] # Nil
          BY <2>12 DEF ResultLives, HasResult
        <4>2. CASE Prune(records)[i] = Nil
          BY <2>6, <4>1, <4>2, Pruned
        <4>3. CASE Prune(records)[i] # Nil
          BY <2>1, <2>5, <2>12, <4>3, Pruned DEF HasResult
        <4> QED BY <4>2, <4>3
      <3> QED BY <2>6, <2>12, <3>1, Limits DEF ResultLives, HasResult
    <2> QED BY <1>2, <2>1, <2>4, <2>5, <2>8, <2>11, <2>12
  <1> QED BY <1>1, <1>2

(* The end of a job gives its tombstone at least the life of its result.            *)
LEMMA FinishKeeps ==
  ASSUME StoreInv, NEW j \in JobIds, records[j] # Nil, records[j].state = "RUNNING",
         NEW state \in Ended, NEW size \in 0 .. MaxBody, NEW life \in 0 .. Ttl,
         FinishRun(j, state, size, life), state = "SUCCEEDED" => life = Ttl
  PROVE  /\ StoreInv'
         /\ \A i \in JobIds : HasResult(i) => HasResult(i)'
         /\ \A i \in JobIds \ {j} : records'[i] = records[i]
         /\ records'[j] # Nil /\ records'[j].state = state
  <1> USE DEF StoreInv
  <1> DEFINE new == WithResult(records[j], state, size, life, Bigger(records[j].forget, life))
  <1>1. records[j] \in Records
    BY DEF StoreTypeOK
  <1>2. /\ records[j].forget \in -1 .. TombstoneTtl
        /\ Bigger(records[j].forget, life) \in -1 .. TombstoneTtl
        /\ Bigger(records[j].forget, life) >= life
        /\ Bigger(records[j].forget, life) >= records[j].forget
    BY <1>1, RecordFields, Limits DEF Bigger
  <1>3. /\ new \in Records /\ new.state = state /\ new.expires = life
        /\ new.forget = Bigger(records[j].forget, life)
    <2>1. state \in Active \cup Ended \cup {"EXPIRED"} /\ life \in -1 .. Ttl
      BY Limits
    <2> QED BY <1>1, <1>2, <2>1, RecordWithResult
  <1>4. new # Nil
    BY <1>3, NullAssumption
  <1>5. /\ records' = [records EXCEPT ![j] = new]
        /\ kept' = [kept EXCEPT ![j] = IF state = "SUCCEEDED" THEN 0 ELSE Nil]
        /\ UNCHANGED <<janitor, since>>
    <2>1. records' = [records EXCEPT ![j] = new]
      BY Zenon DEF FinishRun, WithResult
    <2> QED BY <2>1, Zenon DEF FinishRun
  <1> HIDE DEF new
  <1>6. StoreTypeOK'
    BY <1>3, <1>5, Limits DEF StoreTypeOK
  <1>7. records'[j] = new /\ \A i \in JobIds \ {j} : records'[i] = records[i]
    BY <1>5 DEF StoreTypeOK
  <1>8. Remembered'
    <2>1. since[j] \in 0 .. TombstoneTtl \cup {Nil}
      BY DEF StoreTypeOK
    <2> QED BY <1>2, <1>3, <1>4, <1>5, <1>7, <2>1, Limits DEF Remembered
  <1>9. ResultLives'
    <2>1. ASSUME NEW i \in JobIds \ {j}, HasResult(i)'
          PROVE  HasResult(i) /\ records'[i] = records[i] /\ kept'[i] = kept[i]
      BY <1>5, <1>7, <2>1 DEF HasResult, StoreTypeOK
    <2>2. state = "SUCCEEDED" => kept'[j] = 0
      BY <1>5 DEF StoreTypeOK
    <2>3. HasResult(j)' => state = "SUCCEEDED"
      BY <1>3, <1>7 DEF HasResult
    <2> QED BY <1>2, <1>3, <1>7, <2>1, <2>2, <2>3, Limits, NullAssumption DEF ResultLives
  <1>10. \A i \in JobIds : HasResult(i) => HasResult(i)'
    BY <1>7 DEF HasResult
  <1> QED BY <1>3, <1>4, <1>6, <1>7, <1>8, <1>9, <1>10

LEMMA CompleteKeeps ==
  ASSUME StoreInv, NEW j \in JobIds, Complete(j)
  PROVE  /\ StoreInv'
         /\ \A i \in JobIds : HasResult(i) => HasResult(i)'
         /\ \A i \in JobIds \ {j} : records'[i] = records[i]
         /\ records[j] # Nil /\ records[j].state = "RUNNING"
         /\ records'[j] # Nil /\ records'[j].state \in Ended
  <1>1. records[j] # Nil /\ records[j].state = "RUNNING"
    BY DEF Complete
  <1>2. PICK state \in Ended, size \in 0 .. MaxBody, life \in 0 .. Ttl :
          FinishRun(j, state, size, life) /\ (state = "SUCCEEDED" => life = Ttl)
    BY Limits DEF Complete, Ended
  <1> QED BY <1>1, <1>2, FinishKeeps

LEMMA ExecuteKeeps ==
  ASSUME StoreInv, NEW j \in JobIds, Execute(j)
  PROVE  /\ StoreInv'
         /\ \A i \in JobIds : HasResult(i) => HasResult(i)'
         /\ \A i \in JobIds \ {j} : records'[i] = records[i]
         /\ records[j] # Nil /\ records[j].state = "QUEUED"
         /\ records'[j] # Nil /\ records'[j].state = "RUNNING"
  <1> USE DEF StoreInv
  <1> DEFINE new == [records[j] EXCEPT !.state = "RUNNING"]
  <1>1. records[j] \in Records /\ records[j].state = "QUEUED" /\ records[j] # Nil
    BY DEF Execute, StoreTypeOK
  <1>2. /\ new \in Records /\ new.state = "RUNNING"
        /\ new.forget = records[j].forget /\ new.expires = records[j].expires
    BY <1>1 DEF Records, Active
  <1>3. new # Nil
    BY <1>2, NullAssumption
  <1>4. records' = [records EXCEPT ![j] = new] /\ UNCHANGED <<janitor, since, kept>>
    BY DEF Execute
  <1> HIDE DEF new
  <1>5. records'[j] = new /\ \A i \in JobIds \ {j} : records'[i] = records[i]
    BY <1>4 DEF StoreTypeOK
  <1>6. StoreTypeOK'
    BY <1>2, <1>4 DEF StoreTypeOK
  <1>7. Remembered'
    BY <1>2, <1>3, <1>4, <1>5 DEF Remembered
  <1>8. ~ HasResult(j) /\ ~ HasResult(j)'
    BY <1>1, <1>2, <1>5 DEF HasResult
  <1>9. ResultLives'
    BY <1>4, <1>5, <1>8 DEF ResultLives, HasResult
  <1> QED BY <1>1, <1>2, <1>3, <1>5, <1>6, <1>7, <1>8, <1>9 DEF HasResult

LEMMA RestartKeeps == ASSUME StoreInv, Restart PROVE StoreInv'
  BY DEF Restart, StoreInv, StoreTypeOK, Remembered, ResultLives, HasResult

(* Time takes from what records have left what it adds to their age.                *)
LEMMA PassKeeps ==
  ASSUME StoreInv, Pass
  PROVE  /\ StoreInv'
         /\ \A j \in JobIds : HasResult(j) => HasResult(j)'
         /\ \A j \in JobIds :
              /\ records'[j] = Nil <=> records[j] = Nil
              /\ records[j] # Nil => records'[j].state = records[j].state
  <1> USE DEF StoreInv
  <1>1. ASSUME NEW j \in JobIds, records[j] # Nil
        PROVE  /\ records'[j] \in Records /\ records'[j] # Nil
               /\ records'[j].state = records[j].state
               /\ records'[j].expires = Elapse(records[j].expires)
               /\ records'[j].forget = Elapse(records[j].forget)
    <2> DEFINE s   == [records[j] EXCEPT !.expires = Elapse(records[j].expires)]
               new == [s EXCEPT !.forget = Elapse(records[j].forget)]
    <2>1. /\ records[j] \in Records
          /\ records[j].expires \in -1 .. Ttl /\ records[j].forget \in -1 .. TombstoneTtl
      BY <1>1, RecordFields DEF StoreTypeOK
    <2>2. /\ Elapse(records[j].expires) \in -1 .. Ttl
          /\ Elapse(records[j].forget) \in -1 .. TombstoneTtl
      BY <2>1, Elapsed, Limits
    <2>3. records'[j] = new
      BY <1>1, <2>1 DEF Pass, Records
    <2>4. /\ s \in Records /\ s.state = records[j].state
          /\ s.expires = Elapse(records[j].expires)
      BY <2>1, <2>2 DEF Records
    <2> HIDE DEF s
    <2>5. /\ new \in Records /\ new.state = records[j].state
          /\ new.expires = Elapse(records[j].expires)
          /\ new.forget = Elapse(records[j].forget)
      BY <2>2, <2>4 DEF Records
    <2>6. new # Nil
      BY <2>5, NullAssumption
    <2> QED BY <2>3, <2>5, <2>6
  <1>2. ASSUME NEW j \in JobIds, records[j] = Nil PROVE records'[j] = Nil
    BY <1>2 DEF Pass
  <1>3. ASSUME NEW j \in JobIds
        PROVE  /\ since[j] \in 0 .. TombstoneTtl \cup {Nil}
               /\ kept[j] \in 0 .. Ttl \cup {Nil}
               /\ since'[j] = Grow(since[j], TombstoneTtl)
               /\ kept'[j] = Grow(kept[j], Ttl)
    BY DEF Pass, StoreTypeOK
  <1>4. StoreTypeOK'
    <2>1. records' \in [JobIds -> Records \cup {Nil}]
      <3>1. DOMAIN records' = JobIds /\ records' = [j \in JobIds |-> records'[j]]
        BY DEF Pass
      <3> QED BY <1>1, <1>2, <3>1
    <2>2. /\ since' \in [JobIds -> 0 .. TombstoneTtl \cup {Nil}]
          /\ kept' \in [JobIds -> 0 .. Ttl \cup {Nil}]
      <3>1. /\ since' = [j \in JobIds |-> Grow(since[j], TombstoneTtl)]
            /\ kept' = [j \in JobIds |-> Grow(kept[j], Ttl)]
        BY DEF Pass
      <3> QED BY <1>3, <3>1, Grown, Limits
    <2> QED BY <2>1, <2>2 DEF StoreTypeOK, Pass
  <1>5. ASSUME NEW j \in JobIds, since'[j] # Nil, since'[j] # TombstoneTtl
        PROVE  records'[j] # Nil /\ records'[j].forget + since'[j] >= TombstoneTtl
    <2>1. since[j] # Nil /\ since[j] # TombstoneTtl /\ since'[j] = since[j] + 1
          /\ since[j] \in 0 .. TombstoneTtl
      BY <1>3, <1>5, Grown, Limits
    <2>2. records[j] # Nil /\ records[j].forget + since[j] >= TombstoneTtl
      BY <2>1 DEF Remembered
    <2>3. records[j].forget \in -1 .. TombstoneTtl
      BY <2>2, RecordFields DEF StoreTypeOK
    <2>4. Elapse(records[j].forget) = records[j].forget - 1
      BY <2>1, <2>2, <2>3, Limits DEF Elapse
    <2> QED BY <1>1, <2>1, <2>2, <2>3, <2>4
  <1>6. ASSUME NEW j \in JobIds, HasResult(j)'
        PROVE  /\ kept'[j] # Nil
               /\ records'[j].expires <= records'[j].forget
               /\ kept'[j] = Ttl \/ records'[j].expires + kept'[j] >= Ttl
    <2>1. HasResult(j) /\ records[j] # Nil
      BY <1>1, <1>2, <1>6 DEF HasResult
    <2>2. /\ kept[j] # Nil /\ kept[j] \in 0 .. Ttl
          /\ records[j].expires <= records[j].forget
          /\ kept[j] = Ttl \/ records[j].expires + kept[j] >= Ttl
      BY <1>3, <2>1 DEF ResultLives
    <2>3. records[j].expires \in -1 .. Ttl /\ records[j].forget \in -1 .. TombstoneTtl
      BY <2>1, RecordFields DEF StoreTypeOK
    <2>4. records'[j].expires <= records'[j].forget
      BY <1>1, <2>1, <2>2, <2>3, Elapsed, Limits
    <2>5. CASE kept[j] = Ttl
      BY <1>3, <2>2, <2>4, <2>5, Grown, Limits
    <2>6. CASE kept[j] # Ttl
      <3>1. kept'[j] = kept[j] + 1 /\ kept'[j] # Nil
        BY <1>3, <2>2, <2>6, Grown, Limits
      <3>2. records'[j].expires = records[j].expires - 1
        BY <1>1, <2>1, <2>2, <2>3, <2>6, Limits DEF Elapse
      <3> QED BY <2>2, <2>3, <2>4, <2>6, <3>1, <3>2, Limits
    <2> QED BY <2>5, <2>6
  <1>7. Remembered' /\ ResultLives'
    BY <1>5, <1>6 DEF Remembered, ResultLives
  <1> QED BY <1>1, <1>2, <1>4, <1>7 DEF HasResult

-----------------------------------------------------------------------------
LEMMA StoreUnchanged == ASSUME StoreInv, UNCHANGED storeVars PROVE StoreInv'
  BY DEF StoreInv, storeVars, StoreTypeOK, Remembered, ResultLives, HasResult

LEMMA StoreStepInv == ASSUME StoreInv, StoreStep PROVE StoreInv'
  BY StoreUnchanged, PruneKeeps, ReserveKeeps, ExecuteKeeps, CompleteKeeps,
     RestartKeeps, PassKeeps
     DEF StoreStep

(* A result goes only when its time is over, or with the process.                    *)
LEMMA ResultsStay ==
  ASSUME StoreInv, StoreStep, NEW j \in JobIds, HasResult(j), ~ HasResult(j)'
  PROVE  Restart \/ kept[j] = Ttl
  <1>1. CASE UNCHANGED storeVars
    BY <1>1 DEF storeVars, HasResult
  <1> QED BY <1>1, PruneKeeps, ReserveKeeps, ExecuteKeeps, CompleteKeeps, PassKeeps
          DEF StoreStep

(* Only a reservation queues a job, and only of a job without a record.                *)
LEMMA QueuedByReserve ==
  ASSUME StoreInv, StoreStep, NEW j \in JobIds, ReservedAnew(j)
  PROVE  Prune(records)[j] = Nil
  <1> USE DEF ReservedAnew
  <1>1. CASE UNCHANGED storeVars
    BY <1>1 DEF storeVars
  <1>2. CASE PruneOnly
    BY <1>2, Pruned DEF PruneOnly, StoreInv
  <1>3. CASE \E i \in JobIds, owner \in Owners, outcome \in Outcomes :
               Reserve(i, owner, outcome)
    <2>1. PICK i \in JobIds, owner \in Owners, outcome \in Outcomes :
                 Reserve(i, owner, outcome)
      BY <1>3
    <2>2. CASE outcome = "fresh" /\ i = j
      BY <2>1, <2>2, ReserveKeeps
    <2>3. CASE ~ (outcome = "fresh" /\ i = j)
      <3>1. records'[j] = Prune(records)[j]
        BY <2>1, <2>3, ReserveKeeps
      <3> QED BY <3>1, Pruned DEF StoreInv
    <2> QED BY <2>2, <2>3
  <1>4. CASE \E i \in JobIds : Execute(i) \/ Complete(i)
    <2>1. PICK i \in JobIds : Execute(i) \/ Complete(i)
      BY <1>4
    <2>2. /\ \A k \in JobIds \ {i} : records'[k] = records[k]
          /\ records'[i].state \in {"RUNNING"} \cup Ended
      BY <2>1, ExecuteKeeps, CompleteKeeps
    <2>3. j # i
      BY <2>2 DEF Ended
    <2> QED BY <2>2, <2>3
  <1>5. CASE Restart
    BY <1>5 DEF Restart
  <1>6. CASE Pass
    BY <1>6, PassKeeps
  <1> QED BY <1>1, <1>2, <1>3, <1>4, <1>5, <1>6 DEF StoreStep

LEMMA QueuedOnceRemembered ==
  ASSUME StoreInv, StoreStep, NEW j \in JobIds, ReservedAnew(j)
  PROVE  since[j] = Nil \/ since[j] = TombstoneTtl
  <1> SUFFICES ASSUME since[j] # Nil, since[j] # TombstoneTtl PROVE FALSE
    OBVIOUS
  <1>1. records[j] # Nil /\ records[j].forget + since[j] >= TombstoneTtl
    BY DEF StoreInv, Remembered
  <1>2. since[j] \in 0 .. TombstoneTtl /\ records[j].forget \in -1 .. TombstoneTtl
    BY <1>1, RecordFields DEF StoreInv, StoreTypeOK
  <1>3. records[j].forget <= 0
    BY <1>1, QueuedByReserve, Pruned DEF StoreInv
  <1> QED BY <1>1, <1>2, <1>3, Limits

-----------------------------------------------------------------------------
(* Every step of the system is a step of the store.                                 *)
LEMMA StepsOfStore ==
  ASSUME StoreInv, [AsyncNext]_asyncVars
  PROVE  StoreStep
  <1> USE DEF StoreStep
  <1>1. CASE UNCHANGED asyncVars
    BY <1>1 DEF asyncVars
  <1>2. ASSUME NEW t \in Tabs, NEW j \in JobIds, SubmitJob(t, j) PROVE StoreStep
    BY <1>2 DEF SubmitJob
  <1>3. ASSUME NEW t \in Tabs, Follow(t) PROVE StoreStep
    <2>1. CASE Poll(t) \/ Fetch(t)
      BY <2>1 DEF Poll, Fetch, PruneOnly, StoreInv, StoreTypeOK
    <2>2. CASE \/ Receipt(t) \/ NoReceipt(t) \/ Wake(t) \/ StopsWaiting(t)
               \/ PollUnheard(t) \/ FetchUnheard(t)
      BY <2>2 DEF Receipt, NoReceipt, Wake, StopsWaiting, PollUnheard, FetchUnheard
    <2> QED BY <1>3, <2>1, <2>2 DEF Follow
  <1>4. ASSUME NEW t \in Tabs, Reload(t) \/ Recover(t) \/ Dismiss(t) PROVE StoreStep
    BY <1>4 DEF Reload, Recover, Dismiss
  <1>5. ASSUME NEW j \in JobIds, NEW owner \in Owners, Deliver(j, owner) \/ Replay(j, owner)
        PROVE  StoreStep
    BY <1>5 DEF Deliver, Replay, Outcomes
  <1>6. ASSUME NEW j \in JobIds, TurnAway(j) PROVE StoreStep
    BY <1>6 DEF TurnAway
  <1>7. ASSUME NEW j \in JobIds, Run(j) PROVE StoreStep
    BY <1>7 DEF Run
  <1>8. CASE Sweep
    BY <1>8 DEF Sweep, Janitor, PruneOnly
  <1>9. CASE Reboot
    BY <1>9 DEF Reboot
  <1>10. CASE Tick
    BY <1>10 DEF Tick
  <1>11. ASSUME NEW t \in Tabs, NEW to \in Scopes \cup {Nil}, Session(t, to)
         PROVE  StoreStep
    BY <1>11 DEF Session
  <1> QED BY <1>1, <1>2, <1>3, <1>4, <1>5, <1>6, <1>7, <1>8, <1>9, <1>10, <1>11 DEF AsyncNext

LEMMA StoreInductive == (AsyncInit => StoreInv) /\ (StoreInv /\ [AsyncNext]_asyncVars => StoreInv')
  BY StoreInitInv, StoreStepInv, StepsOfStore DEF AsyncInit

(* A job id starts a second run only when the day of its tombstone has passed since    *)
(* its first reservation, however long it ran and whenever its result expired          *)
(* (JobStore.reserve, prune, finish).                                              *)
THEOREM NoSecondRun == AsyncSpec => RunsOnceWhileRemembered
  <1>1. StoreInv /\ [AsyncNext]_asyncVars =>
          \A j \in JobIds :
            ReservedAnew(j) => since[j] = Nil \/ since[j] = TombstoneTtl
    BY QueuedOnceRemembered, StepsOfStore
  <1> QED BY <1>1, StoreInductive, PTL DEF AsyncSpec, RunsOnceWhileRemembered

(* A result can be fetched for its whole time to live, counted from when it came,       *)
(* unless the process ends (JobStore.finish, prune).                                *)
THEOREM ResultsLiveTheirTime == AsyncSpec => ResultKept
  <1>1. StoreInv /\ [AsyncNext]_asyncVars =>
          (Restart \/ \A j \in JobIds : HasResult(j) /\ ~ HasResult(j)' => kept[j] = Ttl)
    BY ResultsStay, StepsOfStore
  <1> QED BY <1>1, StoreInductive, PTL DEF AsyncSpec, ResultKept

-----------------------------------------------------------------------------
(* Memory.  What is known and what is held is finite although the ids are not; the  *)
(* limits are compared with numbers of elements only because of that.               *)
Stored == [JobIds -> Records \cup {Nil}]

WithinLimits(rs) ==
  /\ IsFiniteSet(Known(rs)) /\ IsFiniteSet(Cells(rs))
  /\ Retained(rs) <= MaxBytes
  /\ Cardinality(Known(rs)) <= MaxRecords
  /\ Cardinality(RunningJobs(rs)) <= Capacity

(* A job takes no more of anything in qs than in rs.                               *)
NoMore(qs, rs, j) ==
  /\ qs[j] # Nil => rs[j] # Nil
  /\ IsActive(qs, j) => IsActive(rs, j)
  /\ Held(qs, j) <= Held(rs, j)

LEMMA HeldIsBounded ==
  ASSUME NEW rs \in Stored, NEW j \in JobIds
  PROVE  Held(rs, j) \in 0 .. MaxBody
  <1>1. CASE rs[j] = Nil
    BY <1>1, Limits DEF Held
  <1>2. CASE rs[j] # Nil
    <2>1. rs[j] \in Records
      BY <1>2 DEF Stored
    <2> QED BY <1>2, <2>1, RecordFields, Limits DEF Held
  <1> QED BY <1>1, <1>2

(* What takes no more stays within the limits.                                    *)
LEMMA LimitsShrink ==
  ASSUME NEW rs \in Stored, NEW qs \in Stored, WithinLimits(rs),
         \A j \in JobIds : NoMore(qs, rs, j)
  PROVE  WithinLimits(qs)
  <1>1. Known(qs) \in SUBSET Known(rs)
    BY DEF Known, NoMore
  <1>2. RunningJobs(qs) \in SUBSET RunningJobs(rs)
    BY DEF RunningJobs, NoMore
  <1>3. Cells(qs) \in SUBSET Cells(rs)
    <2>1. ASSUME NEW cell \in Cells(qs) PROVE cell \in Cells(rs)
      <3>1. /\ cell \in JobIds \X (1 .. MaxBody) /\ cell[1] \in JobIds
            /\ cell[2] <= Held(qs, cell[1]) /\ cell[2] \in Nat
        BY Limits DEF Cells
      <3>2. Held(qs, cell[1]) <= Held(rs, cell[1])
        BY <3>1 DEF NoMore
      <3>3. Held(qs, cell[1]) \in Nat /\ Held(rs, cell[1]) \in Nat
        BY <3>1, HeldIsBounded, Limits
      <3>4. cell[2] <= Held(rs, cell[1])
        BY <3>1, <3>2, <3>3
      <3> QED BY <3>1, <3>4 DEF Cells
    <2> QED BY <2>1
  <1>4. RunningJobs(rs) \in SUBSET Known(rs)
    BY DEF RunningJobs, IsActive, Known
  <1>5. IsFiniteSet(RunningJobs(rs))
    BY <1>4, FS_Subset DEF WithinLimits
  <1>6. /\ IsFiniteSet(Known(qs)) /\ Cardinality(Known(qs)) <= Cardinality(Known(rs))
        /\ Cardinality(Known(qs)) \in Nat /\ Cardinality(Known(rs)) \in Nat
    BY <1>1, FS_Subset, FS_CardinalityType DEF WithinLimits
  <1>7. /\ Cardinality(RunningJobs(qs)) <= Cardinality(RunningJobs(rs))
        /\ Cardinality(RunningJobs(qs)) \in Nat /\ Cardinality(RunningJobs(rs)) \in Nat
    BY <1>2, <1>5, FS_Subset, FS_CardinalityType
  <1>8. /\ IsFiniteSet(Cells(qs)) /\ Cardinality(Cells(qs)) <= Cardinality(Cells(rs))
        /\ Cardinality(Cells(qs)) \in Nat /\ Cardinality(Cells(rs)) \in Nat
    BY <1>3, FS_Subset, FS_CardinalityType DEF WithinLimits
  <1> QED BY <1>6, <1>7, <1>8, AsyncAssumption DEF WithinLimits, Retained

(* One more element, and one more job's cells.                                    *)
LEMMA OneMore ==
  ASSUME NEW S, IsFiniteSet(S), NEW x, NEW T \in SUBSET (S \cup {x})
  PROVE  /\ IsFiniteSet(T) /\ Cardinality(T) \in Nat /\ Cardinality(S) \in Nat
         /\ Cardinality(T) <= Cardinality(S) + 1
  <1>1. /\ IsFiniteSet(S \cup {x}) /\ Cardinality(S) \in Nat
        /\ Cardinality(S \cup {x}) <= Cardinality(S) + 1
    <2>1. Cardinality(S) \in Nat
      BY FS_CardinalityType
    <2>2. /\ IsFiniteSet(S \cup {x})
          /\ Cardinality(S \cup {x}) = IF x \in S THEN Cardinality(S) ELSE Cardinality(S) + 1
      BY FS_AddElement
    <2> QED BY <2>1, <2>2
  <1>2. /\ IsFiniteSet(T) /\ Cardinality(T) <= Cardinality(S \cup {x})
        /\ Cardinality(T) \in Nat /\ Cardinality(S \cup {x}) \in Nat
    BY <1>1, FS_Subset, FS_CardinalityType
  <1> QED BY <1>1, <1>2

LEMMA CellsOfOne ==
  ASSUME NEW j
  PROVE  IsFiniteSet({j} \X (1 .. MaxBody)) /\ Cardinality({j} \X (1 .. MaxBody)) = MaxBody
  <1>1. IsFiniteSet({j}) /\ Cardinality({j}) = 1
    BY FS_Singleton
  <1>2. IsFiniteSet(1 .. MaxBody) /\ Cardinality(1 .. MaxBody) = MaxBody
    BY FS_Interval, AsyncAssumption
  <1>3. /\ IsFiniteSet({j} \X (1 .. MaxBody))
        /\ Cardinality({j} \X (1 .. MaxBody)) = 1 * MaxBody
    BY ZenonT(40), <1>1, <1>2, FS_Product
  <1> QED BY <1>3, AsyncAssumption

(* A reservation takes what HasRoom has found free.                                *)
LEMMA LimitsGrow ==
  ASSUME NEW rs \in Stored, NEW qs \in Stored, WithinLimits(rs), NEW owner,
         HasRoom(rs, owner), NEW j \in JobIds, \A i \in JobIds \ {j} : qs[i] = rs[i]
  PROVE  WithinLimits(qs)
  <1>1. Known(qs) \in SUBSET (Known(rs) \cup {j})
    BY DEF Known
  <1>2. RunningJobs(qs) \in SUBSET (RunningJobs(rs) \cup {j})
    BY DEF RunningJobs, IsActive
  <1>3. Cells(qs) \in SUBSET (Cells(rs) \cup ({j} \X (1 .. MaxBody)))
    BY DEF Cells, Held, IsActive
  <1>4. IsFiniteSet(RunningJobs(rs))
    <2>1. RunningJobs(rs) \in SUBSET Known(rs)
      BY DEF RunningJobs, IsActive, Known
    <2> QED BY <2>1, FS_Subset DEF WithinLimits
  <1>5. /\ IsFiniteSet(Known(qs)) /\ Cardinality(Known(qs)) \in Nat
        /\ Cardinality(Known(qs)) <= Cardinality(Known(rs)) + 1
        /\ Cardinality(Known(rs)) \in Nat
    BY <1>1, OneMore DEF WithinLimits
  <1>6. /\ Cardinality(RunningJobs(qs)) \in Nat /\ Cardinality(RunningJobs(rs)) \in Nat
        /\ Cardinality(RunningJobs(qs)) <= Cardinality(RunningJobs(rs)) + 1
    BY <1>2, <1>4, OneMore
  <1>7. /\ IsFiniteSet(Cells(qs))
        /\ Cardinality(Cells(qs)) <= Cardinality(Cells(rs)) + MaxBody
    <2> DEFINE more == {j} \X (1 .. MaxBody)
    <2>1. IsFiniteSet(more) /\ Cardinality(more) = MaxBody
      BY CellsOfOne
    <2>2. Cells(qs) \in SUBSET (Cells(rs) \cup more)
      BY <1>3
    <2>3. IsFiniteSet(Cells(rs)) /\ Cardinality(Cells(rs)) \in Nat
      BY FS_CardinalityType DEF WithinLimits
    <2> HIDE DEF more
    <2>4. /\ IsFiniteSet(Cells(rs) \cup more)
          /\ Cardinality(Cells(rs) \cup more) =
               Cardinality(Cells(rs)) + Cardinality(more) - Cardinality(Cells(rs) \cap more)
      BY <2>1, <2>3, FS_Union
    <2>5. Cardinality(Cells(rs) \cap more) \in Nat
      <3>1. Cells(rs) \cap more \in SUBSET more
        OBVIOUS
      <3>2. IsFiniteSet(Cells(rs) \cap more)
        BY <2>1, <3>1, FS_Subset
      <3> QED BY <3>2, FS_CardinalityType
    <2>6. Cardinality(Cells(rs) \cup more) <= Cardinality(Cells(rs)) + MaxBody
      BY <2>1, <2>3, <2>4, <2>5, AsyncAssumption
    <2>7. /\ IsFiniteSet(Cells(qs))
          /\ Cardinality(Cells(qs)) <= Cardinality(Cells(rs) \cup more)
          /\ Cardinality(Cells(qs)) \in Nat /\ Cardinality(Cells(rs) \cup more) \in Nat
      BY <2>2, <2>4, FS_Subset, FS_CardinalityType
    <2> QED BY <2>3, <2>6, <2>7, AsyncAssumption
  <1>8. /\ Cardinality(RunningJobs(rs)) < Capacity /\ Cardinality(Known(rs)) < MaxRecords
        /\ Cardinality(Cells(rs)) + MaxBody <= MaxBytes
    BY DEF HasRoom, Retained
  <1>9. Cardinality(Cells(qs)) \in Nat /\ Cardinality(Cells(rs)) \in Nat
    BY <1>7, FS_CardinalityType DEF WithinLimits
  <1> QED BY <1>5, <1>6, <1>7, <1>8, <1>9, AsyncAssumption DEF WithinLimits, Retained

-----------------------------------------------------------------------------
LEMMA PruneTakesNoMore ==
  ASSUME StoreInv, NEW j \in JobIds
  PROVE  NoMore(Prune(records), records, j)
  <1>1. records \in Stored /\ Prune(records) \in Stored
    BY Pruned DEF StoreInv, StoreTypeOK, Stored
  <1>2. CASE records[j] = Nil \/ IsActive(records, j)
    <2>1. Prune(records)[j] = records[j]
      BY <1>2, PrunedRecord, Zenon
    <2> QED BY <1>1, <2>1, HeldIsBounded, Limits DEF NoMore, IsActive, Held
  <1>3. CASE records[j] # Nil /\ ~ IsActive(records, j) /\ Prune(records)[j] = Nil
    BY <1>1, <1>3, HeldIsBounded, Limits DEF NoMore, IsActive, Held
  <1>4. CASE records[j] # Nil /\ ~ IsActive(records, j) /\ Prune(records)[j] # Nil
    <2>1. records[j] \in Records /\ records[j].size \in 0 .. MaxBody
      BY <1>1, <1>4, RecordFields DEF Stored
    <2>2. Prune(records)[j] = records[j] \/ Prune(records)[j] = Emptied(records[j])
      BY <1>4, PrunedRecord, Zenon
    <2>3. Emptied(records[j]).size = 0 /\ Emptied(records[j]).state = "EXPIRED"
      BY <2>1 DEF Emptied, Records
    <2>4. /\ Prune(records)[j].size <= records[j].size
          /\ Prune(records)[j].state \notin Active
      BY <1>4, <2>1, <2>2, <2>3, Limits DEF IsActive, Active
    <2> QED BY <1>4, <2>4 DEF NoMore, IsActive, Held
  <1> QED BY <1>2, <1>3, <1>4

LEMMA CompleteTakesNoMore ==
  ASSUME StoreInv, NEW j \in JobIds, Complete(j), NEW i \in JobIds
  PROVE  NoMore(records', records, i)
  <1>1. records \in Stored /\ records' \in Stored
    BY CompleteKeeps DEF StoreInv, StoreTypeOK, Stored
  <1>2. Held(records', i) \in 0 .. MaxBody /\ Held(records, i) \in 0 .. MaxBody
    BY <1>1, HeldIsBounded
  <1>3. CASE i # j
    <2>1. records'[i] = records[i]
      BY <1>3, CompleteKeeps
    <2> QED BY <1>2, <2>1, Limits DEF NoMore, IsActive, Held
  <1>4. CASE i = j
    <2>1. records[j] # Nil /\ IsActive(records, j) /\ Held(records, j) = MaxBody
      BY CompleteKeeps DEF IsActive, Active, Held
    <2> QED BY <1>2, <1>4, <2>1, Limits DEF NoMore
  <1> QED BY <1>3, <1>4

LEMMA ExecuteTakesNoMore ==
  ASSUME StoreInv, NEW j \in JobIds, Execute(j), NEW i \in JobIds
  PROVE  NoMore(records', records, i)
  <1>1. records \in Stored /\ records' \in Stored
    BY ExecuteKeeps DEF StoreInv, StoreTypeOK, Stored
  <1>2. Held(records', i) \in 0 .. MaxBody /\ Held(records, i) \in 0 .. MaxBody
    BY <1>1, HeldIsBounded
  <1>3. CASE i # j
    <2>1. records'[i] = records[i]
      BY <1>3, ExecuteKeeps
    <2> QED BY <1>2, <2>1, Limits DEF NoMore, IsActive, Held
  <1>4. CASE i = j
    <2>1. records[j] # Nil /\ IsActive(records, j) /\ Held(records, j) = MaxBody
      BY ExecuteKeeps DEF IsActive, Active, Held
    <2> QED BY <1>2, <1>4, <2>1, Limits DEF NoMore
  <1> QED BY <1>3, <1>4

LEMMA PassTakesNoMore ==
  ASSUME StoreInv, Pass, NEW j \in JobIds
  PROVE  NoMore(records', records, j)
  <1>1. records \in Stored /\ records' \in Stored
    BY PassKeeps DEF StoreInv, StoreTypeOK, Stored
  <1>2. Held(records', j) \in 0 .. MaxBody /\ Held(records, j) \in 0 .. MaxBody
    BY <1>1, HeldIsBounded
  <1>3. /\ records'[j] = Nil <=> records[j] = Nil
        /\ records[j] # Nil => records'[j].state = records[j].state
    BY PassKeeps
  <1>4. CASE records[j] = Nil
    BY <1>2, <1>3, <1>4, Limits DEF NoMore, IsActive, Held
  <1>5. CASE records[j] # Nil
    <2>1. records[j] \in Records
      BY <1>1, <1>5 DEF Stored
    <2>2. records'[j].size = records[j].size
      BY <1>5, <2>1 DEF Pass, Records
    <2> QED BY <1>2, <1>3, <1>5, <2>2, Limits DEF NoMore, IsActive, Held
  <1> QED BY <1>4, <1>5

LEMMA RoomInit == StoreInit => WithinLimits(records)
  <1> SUFFICES ASSUME StoreInit PROVE WithinLimits(records)
    OBVIOUS
  <1>1. \A j \in JobIds : records[j] = Nil
    BY DEF StoreInit
  <1>2. Known(records) = {} /\ RunningJobs(records) = {} /\ Cells(records) = {}
    BY <1>1 DEF Known, RunningJobs, IsActive, Cells, Held
  <1> QED BY <1>2, FS_EmptySet, AsyncAssumption DEF WithinLimits, Retained

LEMMA RoomStep ==
  ASSUME StoreInv, WithinLimits(records), StoreStep
  PROVE  WithinLimits(records)'
  <1>1. records \in Stored /\ records' \in Stored /\ Prune(records) \in Stored
    BY StoreStepInv, Pruned DEF StoreInv, StoreTypeOK, Stored
  <1>2. WithinLimits(Prune(records))
    BY <1>1, PruneTakesNoMore, LimitsShrink
  <1>3. CASE UNCHANGED storeVars
    <2>1. records' = records
      BY <1>3 DEF storeVars
    <2> QED BY <2>1
  <1>4. CASE PruneOnly
    BY <1>2, <1>4 DEF PruneOnly
  <1>5. CASE \E j \in JobIds, owner \in Owners, outcome \in Outcomes :
               Reserve(j, owner, outcome)
    <2>1. PICK j \in JobIds, owner \in Owners, outcome \in Outcomes :
                 Reserve(j, owner, outcome)
      BY <1>5
    <2>2. CASE outcome # "fresh"
      <3>1. records' = Prune(records)
        BY <2>1, <2>2, ReserveKeeps
      <3> QED BY <1>2, <3>1
    <2>3. CASE outcome = "fresh"
      <3>1. HasRoom(Prune(records), owner)
        BY <2>1, <2>3 DEF Reserve, ReserveOutcome
      <3>2. \A i \in JobIds \ {j} : records'[i] = Prune(records)[i]
        BY <2>1, <2>3, ReserveKeeps
      <3> QED BY <1>1, <1>2, <3>1, <3>2, LimitsGrow
    <2> QED BY <2>2, <2>3
  <1>6. CASE \E j \in JobIds : Execute(j) \/ Complete(j)
    BY <1>1, <1>6, ExecuteTakesNoMore, CompleteTakesNoMore, LimitsShrink
  <1>7. CASE Restart
    <2>1. \A j \in JobIds : NoMore(records', records, j)
      <3>1. ASSUME NEW j \in JobIds PROVE NoMore(records', records, j)
        BY <1>1, <1>7, HeldIsBounded, Limits DEF Restart, NoMore, IsActive, Held
      <3> QED BY <3>1
    <2> QED BY <1>1, <2>1, LimitsShrink
  <1>8. CASE Pass
    BY <1>1, <1>8, PassTakesNoMore, LimitsShrink
  <1> QED BY <1>3, <1>4, <1>5, <1>6, <1>7, <1>8 DEF StoreStep

(* Whatever is running can still store its largest result, and neither the records    *)
(* nor the runs pass their number (JobStore.reserve).                              *)
THEOREM ResultsHaveRoom == AsyncSpec => []RoomForResults
  <1> DEFINE RoomInv == StoreInv /\ WithinLimits(records)
  <1>1. AsyncInit => RoomInv
    BY StoreInductive, RoomInit DEF AsyncInit
  <1>2. RoomInv /\ [AsyncNext]_asyncVars => RoomInv'
    BY StoreInductive, StepsOfStore, RoomStep
  <1>3. RoomInv => RoomForResults
    BY DEF WithinLimits, RoomForResults
  <1> HIDE DEF RoomInv
  <1> QED BY <1>1, <1>2, <1>3, PTL DEF AsyncSpec

-----------------------------------------------------------------------------
(* What the tabs know of the jobs.                                              *)
ClientTypeOK ==
  /\ row \in [Tabs -> Rows \cup {Nil}]
  /\ pc \in [Tabs -> {"idle", "posting", "polling", "sleeping", "fetching"}]
  /\ posts \subseteq JobIds
  /\ receipt \in [Tabs -> {Nil, "accepted", "refused"}]
  /\ told \in [JobIds -> {"unused", "submitted", "closed", "strayed"}]

Live(j)       == records[j] # Nil /\ records[j].state # "EXPIRED"
Follows(t, j) == row[t] # Nil /\ row[t].id = j /\ ~ row[t].delivered

(* Who waits, or got a receipt, has a row; its id is used.                          *)
RowsAreUsed ==
  \A t \in Tabs :
    /\ pc[t] # "idle" => row[t] # Nil
    /\ pc[t] # "posting" => receipt[t] # "refused"
    /\ row[t] # Nil => told[row[t].id] # "unused"

(* A submission under way has reserved nothing, and a refused one never will.         *)
NothingYet ==
  /\ \A j \in JobIds : told[j] = "unused" => j \notin posts /\ records[j] = Nil
  /\ \A j \in posts : told[j] = "submitted" => records[j] = Nil
  /\ \A t \in Tabs :
       receipt[t] = "refused" =>
         /\ row[t].id \notin posts
         /\ told[row[t].id] = "submitted" => records[row[t].id] = Nil

(* What is under way, runs or has a result is followed by a tab.                      *)
SomeoneFollows ==
  \A j \in JobIds :
    told[j] = "submitted" /\ (j \in posts \/ Live(j)) => \E t \in Tabs : Follows(t, j)

ClientInv == ClientTypeOK /\ RowsAreUsed /\ NothingYet /\ SomeoneFollows

LEMMA ClientInitInv == AsyncInit => ClientInv
  BY TabRowAssumption DEF AsyncInit, StoreInit, ClientInv, ClientTypeOK, RowsAreUsed, NothingYet, SomeoneFollows,
         Live

-----------------------------------------------------------------------------
(* Nothing but a reservation brings a job to life.                                    *)
Calm(j) ==
  /\ records[j] = Nil => records'[j] = Nil
  /\ Live(j)' => Live(j)

LEMMA PruneIsCalm ==
  ASSUME StoreTypeOK, NEW j \in JobIds, records'[j] = Prune(records)[j]
  PROVE  Calm(j)
  BY Pruned DEF Calm, Live

LEMMA RunIsCalm ==
  ASSUME StoreInv, NEW i \in JobIds, Execute(i) \/ Complete(i), NEW j \in JobIds
  PROVE  Calm(j)
  <1>1. CASE i = j
    BY <1>1, ExecuteKeeps, CompleteKeeps DEF Calm, Live
  <1>2. CASE i # j
    BY <1>2, ExecuteKeeps, CompleteKeeps DEF Calm, Live
  <1> QED BY <1>1, <1>2

LEMMA RestartIsCalm == ASSUME Restart, NEW j \in JobIds PROVE Calm(j)
  BY DEF Restart, Calm, Live

LEMMA PassIsCalm == ASSUME StoreInv, Pass, NEW j \in JobIds PROVE Calm(j)
  BY PassKeeps DEF Calm, Live

LEMMA StillIsCalm == ASSUME UNCHANGED records, NEW j \in JobIds PROVE Calm(j)
  BY DEF Calm, Live

(* A step that leaves every row with its job, told everything told and posts nothing    *)
(* keeps what is known, unless it brings a job to life for which nobody waits.           *)
SameRow(t) ==
  /\ row'[t] = Nil <=> row[t] = Nil
  /\ row[t] # Nil => row'[t].id = row[t].id /\ row'[t].delivered = row[t].delivered

LEMMA QuietKeeps ==
  ASSUME ClientInv, ClientTypeOK', UNCHANGED <<posts, told>>,
         \A t \in Tabs :
           /\ SameRow(t)
           /\ pc'[t] # "idle" => row[t] # Nil
           /\ receipt'[t] = "refused" => receipt[t] = "refused" /\ pc'[t] = "posting",
         \A j \in JobIds : told[j] \in {"unused", "submitted"} => Calm(j)
  PROVE  ClientInv'
  <1> USE DEF ClientInv
  <1>1. ASSUME NEW t \in Tabs, row[t] # Nil
        PROVE  row[t].id \in JobIds /\ row'[t] # Nil /\ row'[t].id = row[t].id
    BY <1>1 DEF SameRow, ClientTypeOK, Rows
  <1>2. RowsAreUsed'
    BY <1>1 DEF RowsAreUsed, SameRow
  <1>3. NothingYet'
    <2>1. ASSUME NEW j \in JobIds, told[j] \in {"unused", "submitted"}, records[j] = Nil
          PROVE  records'[j] = Nil
      BY <2>1 DEF Calm
    <2>2. ASSUME NEW t \in Tabs, receipt'[t] = "refused"
          PROVE  /\ row'[t].id \notin posts
                 /\ told[row'[t].id] = "submitted" => records'[row'[t].id] = Nil
      <3>1. receipt[t] = "refused" /\ row[t] # Nil
        BY <2>2
      <3>2. row'[t].id = row[t].id /\ row[t].id \in JobIds
        BY <1>1, <3>1
      <3> QED BY <2>1, <3>1, <3>2 DEF NothingYet
    <2>3. \A j \in JobIds : told[j] = "unused" => j \notin posts /\ records'[j] = Nil
      BY <2>1 DEF NothingYet
    <2>4. \A j \in posts : told[j] = "submitted" => records'[j] = Nil
      BY <2>1 DEF NothingYet, ClientTypeOK
    <2> QED BY <2>2, <2>3, <2>4 DEF NothingYet
  <1>4. SomeoneFollows'
    <2>1. ASSUME NEW j \in JobIds, told[j] = "submitted", j \in posts \/ Live(j)'
          PROVE  \E t \in Tabs : Follows(t, j)'
      <3>1. j \in posts \/ Live(j)
        BY <2>1 DEF Calm
      <3>2. PICK t \in Tabs : Follows(t, j)
        BY <2>1, <3>1 DEF SomeoneFollows
      <3>3. Follows(t, j)'
        BY <3>2 DEF Follows, SameRow
      <3> QED BY <3>3
    <2> QED BY <2>1 DEF SomeoneFollows
  <1> QED BY <1>2, <1>3, <1>4

-----------------------------------------------------------------------------
(* A row that hears of a deadline, of its receipt or of its answer is a row.             *)
LEMMA RowAltered ==
  ASSUME NEW r \in Rows
  PROVE  /\ \A left \in -1 .. Ttl :
              /\ [r EXCEPT !.expires = left] \in Rows
              /\ [r EXCEPT !.expires = left] # Nil
              /\ [r EXCEPT !.expires = left].id = r.id
              /\ [r EXCEPT !.expires = left].delivered = r.delivered
         /\ [r EXCEPT !.acknowledged = TRUE] \in Rows
         /\ [r EXCEPT !.acknowledged = TRUE] # Nil
         /\ [r EXCEPT !.acknowledged = TRUE].id = r.id
         /\ [r EXCEPT !.acknowledged = TRUE].delivered = r.delivered
         /\ [r EXCEPT !.delivered = TRUE] \in Rows
         /\ [r EXCEPT !.delivered = TRUE] # Nil
         /\ [r EXCEPT !.delivered = TRUE].id = r.id
         /\ [r EXCEPT !.delivered = TRUE].delivered = TRUE
  <1>1. ASSUME NEW left \in -1 .. Ttl
        PROVE  /\ [r EXCEPT !.expires = left] \in Rows
               /\ [r EXCEPT !.expires = left].id = r.id
               /\ [r EXCEPT !.expires = left].delivered = r.delivered
    BY DEF Rows
  <1>2. /\ [r EXCEPT !.acknowledged = TRUE] \in Rows
        /\ [r EXCEPT !.acknowledged = TRUE].id = r.id
        /\ [r EXCEPT !.acknowledged = TRUE].delivered = r.delivered
    BY DEF Rows
  <1>3. /\ [r EXCEPT !.delivered = TRUE] \in Rows
        /\ [r EXCEPT !.delivered = TRUE].id = r.id
        /\ [r EXCEPT !.delivered = TRUE].delivered = TRUE
    BY DEF Rows
  <1> QED BY <1>1, <1>2, <1>3, TabRowAssumption

(* A tab alone: its row keeps its job, the others stay as they are.                     *)
LEMMA AloneIsQuiet ==
  ASSUME ClientInv, NEW t \in Tabs, row[t] # Nil,
         NEW r \in Rows, r.id = row[t].id, r.delivered = row[t].delivered,
         row' = [row EXCEPT ![t] = r],
         NEW to \in {"idle", "posting", "polling", "sleeping", "fetching"},
         pc' = [pc EXCEPT ![t] = to], to # "posting",
         receipt' \in {receipt, [receipt EXCEPT ![t] = Nil]},
         pc[t] = "posting" => receipt' = [receipt EXCEPT ![t] = Nil],
         UNCHANGED <<posts, told>>,
         \A j \in JobIds : told[j] \in {"unused", "submitted"} => Calm(j)
  PROVE  ClientInv'
  <1> USE DEF ClientInv
  <1>1. r # Nil
    BY TabRowAssumption
  <1>2. ClientTypeOK'
    BY DEF ClientTypeOK
  <1>3. ASSUME NEW u \in Tabs
        PROVE  /\ SameRow(u)
               /\ pc'[u] # "idle" => row[u] # Nil
               /\ receipt'[u] = "refused" => receipt[u] = "refused" /\ pc'[u] = "posting"
    <2>1. CASE u = t
      <3>1. row'[t] = r /\ pc'[t] = to
        BY DEF ClientTypeOK
      <3>2. receipt'[t] # "refused"
        BY TabRowAssumption DEF ClientTypeOK, RowsAreUsed
      <3> QED BY <1>1, <2>1, <3>1, <3>2 DEF SameRow
    <2>2. CASE u # t
      <3>1. row'[u] = row[u] /\ pc'[u] = pc[u] /\ receipt'[u] = receipt[u]
        BY <2>2 DEF ClientTypeOK
      <3> QED BY <3>1 DEF SameRow, RowsAreUsed
    <2> QED BY <2>1, <2>2
  <1> QED BY <1>2, <1>3, QuietKeeps

(* Waiting, asking, giving up and coming back.                                        *)
LEMMA FollowingKeeps ==
  ASSUME ClientInv, StoreInv, NEW t \in Tabs,
         \/ NoReceipt(t) \/ Wake(t) \/ PollUnheard(t) \/ Poll(t) \/ FetchUnheard(t)
         \/ StopsWaiting(t) \/ Recover(t)
         \/ Receipt(t) /\ receipt[t] = "accepted"
  PROVE  ClientInv'
  <1> USE DEF ClientInv
  <1>1. row[t] # Nil /\ row[t] \in Rows
    BY DEF NoReceipt, Wake, PollUnheard, Poll, FetchUnheard, StopsWaiting, Recover, Reads, Receipt,
           RowsAreUsed, ClientTypeOK
  <1>2. row = [row EXCEPT ![t] = row[t]]
    BY DEF ClientTypeOK
  <1>3. CASE NoReceipt(t) \/ Wake(t) \/ PollUnheard(t) \/ FetchUnheard(t) \/ StopsWaiting(t)
             \/ Recover(t)
    <2>1. \A j \in JobIds : Calm(j)
      BY <1>3, StillIsCalm
         DEF NoReceipt, Wake, PollUnheard, FetchUnheard, StopsWaiting, Recover, storeVars
    <2>2. PICK to \in {"idle", "polling", "sleeping"} : pc' = [pc EXCEPT ![t] = to]
      BY <1>3 DEF NoReceipt, Wake, PollUnheard, FetchUnheard, StopsWaiting, Recover, Wait, Again, GiveUp
    <2>3. row' = [row EXCEPT ![t] = row[t]] /\ UNCHANGED <<posts, told>>
      BY <1>2, <1>3 DEF NoReceipt, Wake, PollUnheard, FetchUnheard, StopsWaiting, Recover, Again, GiveUp
    <2>4. /\ receipt' \in {receipt, [receipt EXCEPT ![t] = Nil]}
          /\ pc[t] = "posting" => receipt' = [receipt EXCEPT ![t] = Nil]
      BY <1>3 DEF NoReceipt, Wake, PollUnheard, FetchUnheard, StopsWaiting, Recover
    <2> QED BY <1>1, <2>1, <2>2, <2>3, <2>4, AloneIsQuiet
  <1>4. CASE Receipt(t) /\ receipt[t] = "accepted"
    <2> DEFINE r == [row[t] EXCEPT !.acknowledged = TRUE]
    <2>1. row' = [row EXCEPT ![t] = r] /\ pc' = [pc EXCEPT ![t] = "polling"]
      BY <1>4 DEF Receipt, Wait
    <2>2. r \in Rows /\ r.id = row[t].id /\ r.delivered = row[t].delivered
      BY <1>1, RowAltered
    <2>3. \A j \in JobIds : Calm(j)
      BY <1>4, StillIsCalm DEF Receipt, storeVars
    <2>4. receipt' = [receipt EXCEPT ![t] = Nil] /\ UNCHANGED <<posts, told>>
      BY <1>4 DEF Receipt
    <2> HIDE DEF r
    <2> QED BY <1>1, <2>1, <2>2, <2>3, <2>4, AloneIsQuiet
  <1>5. CASE Poll(t)
    <2> DEFINE seen == Prune(records)[row[t].id]
               r    == [row[t] EXCEPT !.expires = seen.expires]
    <2>1. \A j \in JobIds : Calm(j)
      BY <1>5, PruneIsCalm DEF Poll, StoreInv
    <2>2. UNCHANGED <<posts, told, receipt>> /\ pc[t] = "polling"
      BY <1>5 DEF Poll
    <2>3. seen # Nil => r \in Rows /\ r.id = row[t].id /\ r.delivered = row[t].delivered
      <3>1. SUFFICES ASSUME seen # Nil
                     PROVE  r \in Rows /\ r.id = row[t].id /\ r.delivered = row[t].delivered
        OBVIOUS
      <3>2. row[t].id \in JobIds
        BY <1>1 DEF Rows
      <3>3. seen \in Records
        BY <3>1, <3>2, Pruned DEF StoreInv
      <3>4. seen.expires \in -1 .. Ttl
        BY <3>3, RecordFields
      <3> HIDE DEF seen
      <3> QED BY <1>1, <3>4, RowAltered
    <2>4. \/ row' = [row EXCEPT ![t] = row[t]]
          \/ seen # Nil /\ row' = [row EXCEPT ![t] = r]
      BY <1>2, <1>5 DEF Poll, Again, GiveUp
    <2>5. PICK to \in {"idle", "sleeping", "fetching"} : pc' = [pc EXCEPT ![t] = to]
      BY <1>5 DEF Poll, Again, GiveUp
    <2> HIDE DEF seen, r
    <2>6. CASE row' = [row EXCEPT ![t] = row[t]]
      BY <1>1, <2>1, <2>2, <2>5, <2>6, AloneIsQuiet
    <2>7. CASE seen # Nil /\ row' = [row EXCEPT ![t] = r]
      BY <1>1, <2>1, <2>2, <2>3, <2>5, <2>7, AloneIsQuiet
    <2> QED BY <2>4, <2>6, <2>7
  <1> QED BY <1>3, <1>4, <1>5

-----------------------------------------------------------------------------
(* Where a tab is signed in is a scope, or nowhere.                                    *)
ScopeTypeOK == scope \in [Tabs -> Scopes \cup {Nil}]

LEMMA ScopeTyped == (AsyncInit => ScopeTypeOK) /\ (ScopeTypeOK /\ [AsyncNext]_asyncVars => ScopeTypeOK')
  <1>1. AsyncInit => ScopeTypeOK
    BY DEF AsyncInit, ScopeTypeOK
  <1>2. ASSUME ScopeTypeOK, [AsyncNext]_asyncVars PROVE ScopeTypeOK'
    <2>1. ASSUME NEW t \in Tabs, NEW to \in Scopes \cup {Nil}, Session(t, to)
          PROVE  ScopeTypeOK'
      BY <1>2, <2>1 DEF Session, ScopeTypeOK
    <2>2. CASE UNCHANGED scope
      BY <1>2, <2>2 DEF ScopeTypeOK
    <2>3. ASSUME NEW t \in Tabs, Follow(t) \/ Reload(t) \/ Recover(t) \/ Dismiss(t)
          PROVE  UNCHANGED scope
      BY <2>3 DEF Follow, Receipt, NoReceipt, Wake, StopsWaiting, Poll, PollUnheard, Fetch,
                  FetchUnheard, Reload, Recover, Dismiss
    <2>4. ASSUME \/ \E t \in Tabs, j \in JobIds : SubmitJob(t, j)
                 \/ \E j \in JobIds, owner \in Owners : Deliver(j, owner) \/ Replay(j, owner)
                 \/ \E j \in JobIds : TurnAway(j) \/ Run(j)
                 \/ Sweep \/ Reboot \/ Tick \/ UNCHANGED asyncVars
          PROVE  UNCHANGED scope
      BY <2>4 DEF SubmitJob, Deliver, Replay, TurnAway, Run, Sweep, Reboot, Tick, asyncVars, clientVars
    <2> QED BY <1>2, <2>1, <2>2, <2>3, <2>4 DEF AsyncNext
  <1> QED BY <1>1, <1>2

(* The id of a submission is new, and the tab writes it down first.                     *)
LEMMA SubmitKeeps ==
  ASSUME ClientInv, ScopeTypeOK, NEW t \in Tabs, NEW j \in JobIds, SubmitJob(t, j)
  PROVE  ClientInv'
  <1> USE DEF ClientInv
  <1> DEFINE r == [id |-> j, scope |-> scope[t], acknowledged |-> FALSE,
                   delivered |-> FALSE, expires |-> Ttl]
  <1>1. r \in Rows /\ r # Nil /\ r.id = j /\ ~ r.delivered
    <2>1. r \in Rows
      BY Limits DEF SubmitJob, ScopeTypeOK, Rows
    <2>2. r.id = j /\ ~ r.delivered
      OBVIOUS
    <2> HIDE DEF r
    <2> QED BY <2>1, <2>2, TabRowAssumption
  <1>2. /\ row' = [row EXCEPT ![t] = r] /\ pc' = [pc EXCEPT ![t] = "posting"]
        /\ posts' = posts \cup {j}
        /\ told' = [Stray(t, Elsewhere(t)) EXCEPT ![j] = "submitted"]
        /\ told[j] = "unused" /\ pc[t] = "idle"
        /\ row[t] = Nil \/ Elsewhere(t) \/ row[t].delivered
        /\ UNCHANGED <<receipt, records>>
    BY DEF SubmitJob, Reads, storeVars
  <1> HIDE DEF r
  <1>9. /\ told' \in [JobIds -> {"unused", "submitted", "closed", "strayed"}]
        /\ told'[j] = "submitted"
        /\ \A i \in JobIds \ {j} :
             /\ told'[i] \in {told[i], "strayed"}
             /\ told'[i] = "submitted" => ~ Follows(t, i)
    <2>1. CASE row[t] # Nil /\ told[row[t].id] = "submitted" /\ Elsewhere(t)
      <3>1. told' = [told EXCEPT ![row[t].id] = "strayed", ![j] = "submitted"]
        BY <1>2, <2>1 DEF Stray
      <3> QED BY <1>2, <2>1, <3>1 DEF ClientTypeOK, Follows, Rows
    <2>2. CASE ~ (row[t] # Nil /\ told[row[t].id] = "submitted" /\ Elsewhere(t))
      <3>1. told' = [told EXCEPT ![j] = "submitted"]
        BY <1>2, <2>2 DEF Stray
      <3> QED BY <1>2, <2>2, <3>1 DEF ClientTypeOK, Follows
    <2> QED BY <2>1, <2>2
  <1>3. ClientTypeOK'
    BY <1>1, <1>2, <1>9 DEF ClientTypeOK
  <1>4. /\ row'[t] = r /\ \A u \in Tabs \ {t} : row'[u] = row[u] /\ pc'[u] = pc[u]
        /\ receipt[t] # "refused"
    BY <1>2 DEF ClientTypeOK, RowsAreUsed
  <1>5. \A u \in Tabs : row[u] # Nil => row[u].id \in JobIds /\ row[u].id # j
    BY <1>2 DEF ClientTypeOK, RowsAreUsed, Rows
  <1>6. RowsAreUsed'
    BY <1>1, <1>2, <1>4, <1>5, <1>9 DEF RowsAreUsed
  <1>7. NothingYet'
    <2>1. records[j] = Nil
      BY <1>2 DEF NothingYet
    <2>2. ASSUME NEW u \in Tabs, receipt'[u] = "refused"
          PROVE  /\ row'[u].id \notin posts'
                 /\ told'[row'[u].id] = "submitted" => records'[row'[u].id] = Nil
      <3>1. u # t /\ receipt[u] = "refused" /\ row'[u] = row[u]
        BY <1>2, <1>4, <2>2
      <3>2. row[u] # Nil
        BY <3>1 DEF RowsAreUsed
      <3> QED BY <1>2, <1>5, <1>9, <3>1, <3>2 DEF NothingYet
    <2>3. \A i \in JobIds : told'[i] = "unused" => i \notin posts' /\ records'[i] = Nil
      BY <1>2, <1>9 DEF NothingYet
    <2>4. \A i \in posts' : told'[i] = "submitted" => records'[i] = Nil
      BY <1>2, <1>9, <2>1 DEF NothingYet, ClientTypeOK
    <2> QED BY <2>2, <2>3, <2>4 DEF NothingYet
  <1>8. SomeoneFollows'
    <2>1. ASSUME NEW i \in JobIds, told'[i] = "submitted", i \in posts' \/ Live(i)'
          PROVE  \E u \in Tabs : Follows(u, i)'
      <3>1. CASE i = j
        BY <1>1, <1>4, <3>1 DEF Follows
      <3>2. CASE i # j
        <4>1. told[i] = "submitted" /\ (i \in posts \/ Live(i))
          BY <1>2, <1>9, <2>1, <3>2 DEF Live
        <4>2. PICK u \in Tabs : Follows(u, i)
          BY <4>1 DEF SomeoneFollows
        <4>3. u # t
          BY <1>9, <2>1, <3>2, <4>2
        <4>4. Follows(u, i)'
          BY <1>4, <4>2, <4>3 DEF Follows
        <4> QED BY <4>4
      <3> QED BY <3>1, <3>2
    <2> QED BY <2>1 DEF SomeoneFollows
  <1> QED BY <1>3, <1>6, <1>7, <1>8

(* A submission that is answered: whatever the answer, its tab still has the row.         *)
LEMMA AnswerKeeps ==
  ASSUME ClientInv, StoreTypeOK', NEW j \in posts, posts' = posts \ {j},
         NEW answer \in {"accepted", "refused"}, Reply(j, answer),
         UNCHANGED <<row, pc, told>>,
         answer = "refused" => Calm(j),
         \A i \in JobIds \ {j} : Calm(i)
  PROVE  ClientInv'
  <1> USE DEF ClientInv
  <1>1. j \in JobIds
    BY DEF ClientTypeOK
  <1>2. ASSUME NEW u \in Tabs
        PROVE  receipt'[u] = IF pc[u] = "posting" /\ row[u].id = j THEN answer ELSE receipt[u]
    BY DEF Reply
  <1>3. ClientTypeOK'
    <2>1. DOMAIN receipt' = Tabs /\ receipt' = [u \in Tabs |-> receipt'[u]]
      BY DEF Reply
    <2>2. receipt' \in [Tabs -> {Nil, "accepted", "refused"}]
      BY <1>2, <2>1 DEF ClientTypeOK
    <2> QED BY <2>2 DEF ClientTypeOK
  <1>4. RowsAreUsed'
    BY <1>2 DEF RowsAreUsed
  <1>5. told[j] # "unused" /\ (told[j] = "submitted" => records[j] = Nil)
    BY <1>1 DEF NothingYet
  <1>6. NothingYet'
    <2>1. ASSUME NEW u \in Tabs, receipt'[u] = "refused"
          PROVE  /\ row[u].id \notin posts'
                 /\ told[row[u].id] = "submitted" => records'[row[u].id] = Nil
      <3>1. row[u] # Nil /\ row[u].id \in JobIds
        BY <1>2, <2>1 DEF RowsAreUsed, ClientTypeOK, Rows
      <3>2. CASE row[u].id = j
        <4>1. pc[u] = "posting"
          BY <1>2, <2>1 DEF RowsAreUsed
        <4>2. answer = "refused"
          BY <1>2, <2>1, <3>2, <4>1
        <4> QED BY <1>5, <3>2, <4>2 DEF Calm
      <3>3. CASE row[u].id # j
        <4>1. receipt[u] = "refused"
          BY <1>2, <2>1, <3>3
        <4> QED BY <3>1, <3>3, <4>1 DEF NothingYet, Calm
      <3> QED BY <3>2, <3>3
    <2>2. \A i \in JobIds : told[i] = "unused" => i \notin posts' /\ records'[i] = Nil
      BY <1>5 DEF NothingYet, Calm
    <2>3. \A i \in posts' : told[i] = "submitted" => records'[i] = Nil
      BY DEF NothingYet, Calm, ClientTypeOK
    <2> QED BY <2>1, <2>2, <2>3 DEF NothingYet
  <1>7. SomeoneFollows'
    <2>1. ASSUME NEW i \in JobIds, told[i] = "submitted", i \in posts' \/ Live(i)'
          PROVE  \E u \in Tabs : Follows(u, i)'
      <3>1. i \in posts \/ Live(i)
        BY <2>1 DEF Calm
      <3>2. PICK u \in Tabs : Follows(u, i)
        BY <2>1, <3>1 DEF SomeoneFollows
      <3> QED BY <3>2 DEF Follows
    <2> QED BY <2>1 DEF SomeoneFollows
  <1> QED BY <1>3, <1>4, <1>6, <1>7

LEMMA ReserveIsCalm ==
  ASSUME StoreInv, NEW j \in JobIds, NEW owner \in Owners, NEW outcome \in Outcomes,
         Reserve(j, owner, outcome), NEW i \in JobIds, outcome # "fresh" \/ i # j
  PROVE  Calm(i)
  <1>1. records'[i] = Prune(records)[i]
    BY ReserveKeeps
  <1> QED BY <1>1, PruneIsCalm DEF StoreInv

LEMMA DeliverKeeps ==
  ASSUME ClientInv, StoreInv, NEW j \in JobIds, NEW owner \in Owners, Deliver(j, owner)
  PROVE  ClientInv'
  <1>1. PICK outcome \in Outcomes :
          /\ Reserve(j, owner, outcome)
          /\ Reply(j, IF outcome = "refused" THEN "refused" ELSE "accepted")
    BY DEF Deliver, Outcomes
  <1>2. j \in posts /\ posts' = posts \ {j} /\ UNCHANGED <<row, pc, told>>
    BY DEF Deliver
  <1>3. StoreTypeOK'
    BY <1>1, ReserveKeeps DEF StoreInv
  <1>4. /\ \A i \in JobIds \ {j} : Calm(i)
        /\ outcome = "refused" => Calm(j)
    BY <1>1, ReserveIsCalm
  <1>5. CASE outcome = "refused"
    <2>1. Reply(j, "refused")
      BY <1>1, <1>5
    <2> QED BY <1>2, <1>3, <1>4, <1>5, <2>1, AnswerKeeps
  <1>6. CASE outcome # "refused"
    <2>1. Reply(j, "accepted")
      BY <1>1, <1>6
    <2> QED BY <1>2, <1>3, <1>4, <2>1, AnswerKeeps
  <1> QED BY <1>5, <1>6

LEMMA TurnAwayKeeps ==
  ASSUME ClientInv, StoreInv, NEW j \in JobIds, TurnAway(j)
  PROVE  ClientInv'
  <1>1. /\ j \in posts /\ posts' = posts \ {j} /\ Reply(j, "refused")
        /\ UNCHANGED <<row, pc, told>> /\ UNCHANGED storeVars
    BY DEF TurnAway
  <1>2. StoreTypeOK'
    BY <1>1, StoreUnchanged DEF StoreInv
  <1>3. \A i \in JobIds : Calm(i)
    BY <1>1, StillIsCalm DEF storeVars
  <1> QED BY <1>1, <1>2, <1>3, AnswerKeeps

-----------------------------------------------------------------------------
(* The ways in which a tab lets go of its job: it was refused, answered or dismissed,      *)
(* or lost with its page.  In the first case nothing runs, in the others its user knows.   *)
LEMMA LettingGoKeeps ==
  ASSUME ClientInv, NEW t \in Tabs, row[t] # Nil,
         NEW r \in Rows \cup {Nil},
         r # Nil => r.id = row[t].id,
         row' = [row EXCEPT ![t] = r], pc' = [pc EXCEPT ![t] = "idle"],
         \/ receipt' = [receipt EXCEPT ![t] = Nil]
         \/ UNCHANGED receipt /\ receipt[t] # "refused",
         UNCHANGED posts, \A j \in JobIds : Calm(j),
         \/ told' = [told EXCEPT ![row[t].id] = "closed"]
         \/ told' = [told EXCEPT ![row[t].id] = "strayed"]
         \/ UNCHANGED told /\ told[row[t].id] # "submitted"
         \/ UNCHANGED told /\ row[t].id \notin posts
            /\ (told[row[t].id] = "submitted" => records[row[t].id] = Nil)
  PROVE  ClientInv'
  <1> USE DEF ClientInv
  <1> DEFINE j == row[t].id
  <1>1. j \in JobIds
    BY DEF ClientTypeOK, Rows
  <1> HIDE DEF j
  <1>2. ClientTypeOK'
    BY <1>1 DEF ClientTypeOK, j
  <1>3. /\ row'[t] = r /\ pc'[t] = "idle" /\ receipt'[t] # "refused"
        /\ \A u \in Tabs \ {t} :
             row'[u] = row[u] /\ pc'[u] = pc[u] /\ receipt'[u] = receipt[u]
    BY TabRowAssumption DEF ClientTypeOK
  <1>4. \A i \in JobIds : told'[i] \in {told[i], "closed", "strayed"}
    BY <1>1 DEF ClientTypeOK, j
  <1>5. told'[j] # "submitted" \/ (j \notin posts /\ (told'[j] = "submitted" => ~ Live(j)))
    BY <1>1 DEF ClientTypeOK, j, Live
  <1>6. \A u \in Tabs : row[u] # Nil => row[u].id \in JobIds
    BY DEF ClientTypeOK, Rows
  <1>7. RowsAreUsed'
    <2>1. ASSUME NEW u \in Tabs, row'[u] # Nil PROVE told'[row'[u].id] # "unused"
      <3>1. row[u] # Nil /\ row'[u].id = row[u].id
        BY <1>3, <2>1
      <3> QED BY <1>4, <1>6, <3>1 DEF RowsAreUsed
    <2> QED BY <1>3, <2>1 DEF RowsAreUsed
  <1>8. NothingYet'
    <2>1. ASSUME NEW u \in Tabs, receipt'[u] = "refused"
          PROVE  /\ row'[u].id \notin posts
                 /\ told'[row'[u].id] = "submitted" => records'[row'[u].id] = Nil
      <3>1. u # t /\ receipt[u] = "refused" /\ row'[u] = row[u]
        BY <1>3, <2>1
      <3>2. row[u].id \in JobIds
        BY <1>6, <3>1 DEF RowsAreUsed
      <3> QED BY <1>4, <3>1, <3>2 DEF NothingYet, Calm
    <2>2. \A i \in JobIds : told'[i] = "unused" => i \notin posts /\ records'[i] = Nil
      BY <1>4 DEF NothingYet, Calm
    <2>3. \A i \in posts : told'[i] = "submitted" => records'[i] = Nil
      BY <1>4 DEF NothingYet, Calm, ClientTypeOK
    <2> QED BY <2>1, <2>2, <2>3 DEF NothingYet
  <1>9. SomeoneFollows'
    <2>1. ASSUME NEW i \in JobIds, told'[i] = "submitted", i \in posts \/ Live(i)'
          PROVE  \E u \in Tabs : Follows(u, i)'
      <3>1. told[i] = "submitted" /\ (i \in posts \/ Live(i))
        BY <1>4, <2>1 DEF Calm
      <3>2. i # j
        BY <1>5, <2>1, <3>1
      <3>3. PICK u \in Tabs : Follows(u, i)
        BY <3>1 DEF SomeoneFollows
      <3>4. u # t
        BY <3>2, <3>3 DEF Follows, j
      <3>5. Follows(u, i)'
        BY <1>3, <3>3, <3>4 DEF Follows
      <3> QED BY <3>5
    <2> QED BY <2>1 DEF SomeoneFollows
  <1> QED BY <1>2, <1>7, <1>8, <1>9

LEMMA RefusedKeeps ==
  ASSUME ClientInv, NEW t \in Tabs, Receipt(t), receipt[t] = "refused"
  PROVE  ClientInv'
  <1>1. /\ row' = [row EXCEPT ![t] = Nil] /\ pc' = [pc EXCEPT ![t] = "idle"]
        /\ receipt' = [receipt EXCEPT ![t] = Nil] /\ UNCHANGED <<storeVars, posts, told>>
        /\ pc[t] = "posting"
    BY DEF Receipt
  <1>2. /\ row[t].id \notin posts
        /\ told[row[t].id] = "submitted" => records[row[t].id] = Nil
    BY DEF ClientInv, NothingYet
  <1>3. row[t] # Nil
    BY <1>1 DEF ClientInv, RowsAreUsed
  <1>4. \A j \in JobIds : Calm(j)
    BY <1>1, StillIsCalm DEF storeVars
  <1> QED BY <1>1, <1>2, <1>3, <1>4, LettingGoKeeps

LEMMA AnsweredKeeps ==
  ASSUME ClientInv, StoreInv, NEW t \in Tabs, Fetch(t) \/ Dismiss(t)
  PROVE  ClientInv'
  <1>1. /\ pc' = [pc EXCEPT ![t] = "idle"] /\ UNCHANGED <<posts, receipt>>
        /\ told' = [told EXCEPT ![row[t].id] = "closed"]
        /\ pc[t] # "posting" /\ row[t] # Nil
    BY DEF Fetch, Dismiss, Reads, ClientInv, RowsAreUsed, ClientTypeOK
  <1>2. \A j \in JobIds : Calm(j)
    BY StillIsCalm, PruneIsCalm DEF Fetch, Dismiss, StoreInv, storeVars
  <1>3. row[t] \in Rows
    BY <1>1 DEF ClientInv, ClientTypeOK
  <1>4. PICK r \in Rows \cup {Nil} :
          (r # Nil => r.id = row[t].id) /\ row' = [row EXCEPT ![t] = r]
    <2>1. CASE Fetch(t)
      <3>1. row' = [row EXCEPT ![t] = [row[t] EXCEPT !.delivered = TRUE]]
        BY <2>1 DEF Fetch
      <3> QED BY <1>3, <3>1, RowAltered
    <2>2. CASE Dismiss(t)
      BY <2>2 DEF Dismiss
    <2> QED BY <2>1, <2>2
  <1>5. receipt[t] # "refused"
    BY <1>1 DEF ClientInv, RowsAreUsed
  <1> QED BY <1>1, <1>2, <1>4, <1>5, LettingGoKeeps

(* A page that is loaded anew still has its row, or lost it, or had none.                 *)
LEMMA ReloadKeeps ==
  ASSUME ClientInv, NEW t \in Tabs, Reload(t)
  PROVE  ClientInv'
  <1>1. /\ pc' = [pc EXCEPT ![t] = "idle"] /\ receipt' = [receipt EXCEPT ![t] = Nil]
        /\ UNCHANGED <<storeVars, posts>>
    BY DEF Reload
  <1>2. \A j \in JobIds : Calm(j)
    BY <1>1, StillIsCalm DEF storeVars
  <1>3. CASE row[t] = Nil
    <2>1. UNCHANGED <<row, told>>
      BY <1>3 DEF Reload, Stray, ClientInv, ClientTypeOK
    <2>2. ClientTypeOK'
      BY <1>1, <2>1 DEF ClientInv, ClientTypeOK
    <2>3. ASSUME NEW u \in Tabs
          PROVE  /\ SameRow(u)
                 /\ pc'[u] # "idle" => row[u] # Nil
                 /\ receipt'[u] = "refused" => receipt[u] = "refused" /\ pc'[u] = "posting"
      BY <1>1, <2>1, TabRowAssumption DEF SameRow, ClientInv, ClientTypeOK, RowsAreUsed
    <2> QED BY <1>1, <1>2, <2>1, <2>2, <2>3, QuietKeeps
  <1>4. CASE row[t] # Nil /\ UNCHANGED <<row, told>>
    <2>1. row[t] \in Rows /\ row' = [row EXCEPT ![t] = row[t]]
      BY <1>4 DEF ClientInv, ClientTypeOK
    <2> QED BY <1>1, <1>2, <1>4, <2>1, AloneIsQuiet
  <1>5. CASE row[t] # Nil /\ row' = [row EXCEPT ![t] = Nil] /\ told' = Stray(t, TRUE)
    <2>1. \/ told' = [told EXCEPT ![row[t].id] = "strayed"]
          \/ UNCHANGED told /\ told[row[t].id] # "submitted"
      BY <1>5 DEF Stray
    <2>2. row' = [row EXCEPT ![t] = Nil] /\ UNCHANGED posts
      BY <1>1, <1>5
    <2> QED BY <1>1, <1>2, <1>5, <2>1, <2>2, LettingGoKeeps
  <1> QED BY <1>3, <1>4, <1>5 DEF Reload

(* What the server does on its own, time, and a change of session.                      *)
LEMMA ServerKeeps ==
  ASSUME ClientInv, StoreInv,
         \/ UNCHANGED asyncVars
         \/ \E t \in Tabs, to \in Scopes \cup {Nil} : Session(t, to)
         \/ \E j \in JobIds, owner \in Owners : Replay(j, owner)
         \/ \E j \in JobIds : Run(j)
         \/ Sweep \/ Reboot \/ Tick
  PROVE  ClientInv'
  <1>1. UNCHANGED <<pc, posts, receipt, told>>
    BY DEF asyncVars, clientVars, Session, Replay, Run, Sweep, Reboot, Tick
  <1>2. \A j \in JobIds : told[j] \in {"unused", "submitted"} => Calm(j)
    <2>1. CASE UNCHANGED asyncVars
      BY <2>1, StillIsCalm DEF asyncVars, storeVars
    <2>2. CASE \E j \in JobIds, owner \in Owners : Replay(j, owner)
      <3>1. PICK j \in JobIds, owner \in Owners : Replay(j, owner)
        BY <2>2
      <3>2. PICK outcome \in Outcomes : Reserve(j, owner, outcome)
        BY <3>1 DEF Replay, Outcomes
      <3> QED BY <3>1, <3>2, ReserveIsCalm DEF Replay
    <2>3. CASE \E j \in JobIds : Run(j)
      BY <2>3, RunIsCalm DEF Run
    <2>4. CASE Sweep
      BY <2>4, PruneIsCalm DEF Sweep, Janitor, StoreInv
    <2>5. CASE Reboot
      BY <2>5, RestartIsCalm DEF Reboot
    <2>6. CASE Tick
      BY <2>6, PassIsCalm DEF Tick
    <2>7. CASE \E t \in Tabs, to \in Scopes \cup {Nil} : Session(t, to)
      BY <2>7, StillIsCalm DEF Session, storeVars
    <2> QED BY <2>1, <2>2, <2>3, <2>4, <2>5, <2>6, <2>7
  <1>3. row' \in [Tabs -> Rows \cup {Nil}] /\ \A t \in Tabs : SameRow(t)
    <2>1. CASE Tick
      <3>1. row' = [t \in Tabs |->
              IF row[t] = Nil THEN Nil
              ELSE [row[t] EXCEPT !.expires = Elapse(row[t].expires)]]
        BY <2>1 DEF Tick
      <3>2. ASSUME NEW t \in Tabs
            PROVE  row'[t] \in Rows \cup {Nil} /\ SameRow(t)
        <4>1. CASE row[t] = Nil
          BY <3>1, <4>1 DEF SameRow
        <4>2. CASE row[t] # Nil
          <5>1. row[t] \in Rows /\ row[t].expires \in -1 .. Ttl
            BY <4>2 DEF ClientInv, ClientTypeOK, Rows
          <5>2. Elapse(row[t].expires) \in -1 .. Ttl
            BY <5>1, Elapsed, Limits
          <5>3. row'[t] = [row[t] EXCEPT !.expires = Elapse(row[t].expires)]
            BY <3>1, <4>2
          <5> DEFINE new == [row[t] EXCEPT !.expires = Elapse(row[t].expires)]
          <5>4. /\ new \in Rows /\ new # Nil /\ new.id = row[t].id
                /\ new.delivered = row[t].delivered
            BY <5>1, <5>2, RowAltered
          <5> HIDE DEF new
          <5>5. row'[t] = new
            BY <5>3 DEF new
          <5> QED BY <4>2, <5>4, <5>5 DEF SameRow
        <4> QED BY <4>1, <4>2
      <3>3. row' = [t \in Tabs |-> row'[t]]
        BY <3>1
      <3> QED BY <3>2, <3>3
    <2>2. CASE ~ Tick
      <3>1. UNCHANGED row
        BY <2>2 DEF asyncVars, clientVars, Session, Replay, Run, Sweep, Reboot
      <3> QED BY <3>1 DEF SameRow, ClientInv, ClientTypeOK
    <2> QED BY <2>1, <2>2
  <1>4. ClientTypeOK'
    BY <1>1, <1>3 DEF ClientInv, ClientTypeOK
  <1>5. \A t \in Tabs :
          /\ pc'[t] # "idle" => row[t] # Nil
          /\ receipt'[t] = "refused" => receipt[t] = "refused" /\ pc'[t] = "posting"
    BY <1>1 DEF ClientInv, RowsAreUsed
  <1> QED BY <1>1, <1>2, <1>3, <1>4, <1>5, QuietKeeps

LEMMA ClientStepInv == ClientInv /\ StoreInv /\ ScopeTypeOK /\ [AsyncNext]_asyncVars => ClientInv'
  <1> SUFFICES ASSUME ClientInv, StoreInv, ScopeTypeOK, [AsyncNext]_asyncVars PROVE ClientInv'
    OBVIOUS
  <1>1. ASSUME NEW t \in Tabs, NEW j \in JobIds, SubmitJob(t, j) PROVE ClientInv'
    BY <1>1, SubmitKeeps
  <1>2. ASSUME NEW t \in Tabs, Follow(t) \/ Reload(t) \/ Recover(t) \/ Dismiss(t)
        PROVE  ClientInv'
    <2>1. CASE Receipt(t)
      <3>1. receipt[t] = "accepted" \/ receipt[t] = "refused"
        BY <2>1 DEF Receipt
      <3> QED BY <2>1, <3>1, FollowingKeeps, RefusedKeeps
    <2>2. CASE Fetch(t) \/ Dismiss(t)
      BY <2>2, AnsweredKeeps
    <2>3. CASE \/ NoReceipt(t) \/ Wake(t) \/ Poll(t) \/ PollUnheard(t) \/ FetchUnheard(t)
               \/ StopsWaiting(t) \/ Recover(t)
      BY <2>3, FollowingKeeps
    <2>4. CASE Reload(t)
      BY <2>4, ReloadKeeps
    <2> QED BY <1>2, <2>1, <2>2, <2>3, <2>4 DEF Follow
  <1>3. ASSUME NEW j \in JobIds, NEW owner \in Owners, Deliver(j, owner) PROVE ClientInv'
    BY <1>3, DeliverKeeps
  <1>4. ASSUME NEW j \in JobIds, TurnAway(j) PROVE ClientInv'
    BY <1>4, TurnAwayKeeps
  <1>5. CASE \/ UNCHANGED asyncVars
             \/ \E t \in Tabs, to \in Scopes \cup {Nil} : Session(t, to)
             \/ \E j \in JobIds, owner \in Owners : Replay(j, owner)
             \/ \E j \in JobIds : Run(j)
             \/ Sweep \/ Reboot \/ Tick
    BY <1>5, ServerKeeps
  <1> QED BY <1>1, <1>2, <1>3, <1>4, <1>5 DEF AsyncNext

(* Whatever gets lost, arrives late, is repeated or reloaded, and however often the        *)
(* server restarts and the tab changes its account or project: a paid generation that      *)
(* runs or has a result is followed by the tab that asked for it until its user was         *)
(* answered, dismissed it, asked for another one in that tab from elsewhere, or reloaded a   *)
(* page that had no session storage (acsJobSubmit, acsJobRead).                             *)
THEOREM PaidJobsAreFollowed == AsyncSpec => []NothingPaidIsLost
  <1> DEFINE FollowedInv == StoreInv /\ ScopeTypeOK /\ ClientInv
  <1>1. FollowedInv => NothingPaidIsLost
    BY DEF ClientInv, SomeoneFollows, NothingPaidIsLost, Follows, Live
  <1>2. AsyncInit => FollowedInv
    BY StoreInductive, ScopeTyped, ClientInitInv
  <1>3. FollowedInv /\ [AsyncNext]_asyncVars => FollowedInv'
    BY StoreInductive, ScopeTyped, ClientStepInv
  <1> HIDE DEF FollowedInv
  <1> QED BY <1>1, <1>2, <1>3, PTL DEF AsyncSpec
=============================================================================

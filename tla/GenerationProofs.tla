--------------------------- MODULE GenerationProofs ----------------------------
(* However a draft is cut into chunks and halves, however its workers end and       *)
(* resume, no zone is forgotten, none that is saved is paid for again and no home is   *)
(* delivered with an opening that is missing: for every outline, every kind of       *)
(* request and every bound.  The facts about numbers, sorting and sequences come     *)
(* first, the invariant next, then one lemma per action.                            *)
EXTENDS PlanGeneration, TLAPS, WellFoundedInduction, FiniteSetTheorems, SequenceTheorems

-----------------------------------------------------------------------------
(* Numbers.                                                                  *)

(* Every set of natural numbers has a least one; so has Min.                         *)
LEMMA LeastExists ==
  ASSUME NEW T, T \subseteq Nat, T # {}
  PROVE  Min(T) \in T /\ \A y \in T : Min(T) <= y
  <1>. DEFINE less == OpToRel(<, Nat)
  <1>1. IsWellFoundedOn(less, Nat)
    BY NatLessThanWellFounded
  <1>2. \A x, y \in Nat : x < y => <<x, y>> \in less
    BY DEF OpToRel
  <1>. HIDE DEF less
  <1>3. PICK x \in T : \A y \in T : ~ (<<y, x>> \in less)
    BY <1>1, WFMin
  <1>4. ASSUME NEW y \in T PROVE x <= y
    <2>1. x \in Nat /\ y \in Nat
      OBVIOUS
    <2>2. ~ (y < x)
      BY <2>1, <1>2, <1>3
    <2> QED BY <2>1, <2>2
  <1>5. \E m \in T : \A y \in T : m <= y
    BY <1>4
  <1> QED BY <1>5 DEF Min

(* A set of numbers up to n has a greatest one.                                    *)
LEMMA GreatestExists ==
  ASSUME NEW n \in Nat, NEW T, T \subseteq 1 .. n, T # {}
  PROVE  Max(T) \in T /\ \A y \in T : y <= Max(T)
  <1>. DEFINE U == {m \in Nat : \A y \in T : y <= m}
  <1>1. n \in U
    OBVIOUS
  <1>2. Min(U) \in U /\ \A y \in U : Min(U) <= y
    BY <1>1, LeastExists
  <1>3. PICK m \in Nat : m \in U /\ \A y \in U : m <= y
    BY <1>2
  <1>4. m \in T
    <2>1. SUFFICES ASSUME m \notin T PROVE FALSE
      OBVIOUS
    <2>2. \A y \in T : y \in Nat /\ y >= 1 /\ y <= m /\ y # m
      BY <1>3, <2>1
    <2>3. m - 1 \in Nat /\ \A y \in T : y <= m - 1
      <3>1. PICK y \in T : TRUE
        OBVIOUS
      <3>2. m >= 2
        BY <3>1, <2>2
      <3>3. ASSUME NEW y2 \in T PROVE y2 <= m - 1
        BY <2>2
      <3> QED BY <3>2, <3>3
    <2>4. m - 1 \in U
      BY <2>3
    <2> QED BY <1>3, <2>4
  <1>5. \A y \in T : m >= y /\ y \in Nat
    BY <1>3
  <1>6. \E x \in T : \A y \in T : x >= y
    BY <1>4, <1>5
  <1>7. Max(T) \in T /\ \A y \in T : Max(T) >= y
    BY <1>6 DEF Max
  <1> QED BY <1>7

LEMMA LeastOfTwo ==
  ASSUME NEW a \in Nat, NEW b \in Nat
  PROVE  Min({a, b}) \in {a, b} /\ Min({a, b}) <= a /\ Min({a, b}) <= b
  BY LeastExists

LEMMA GreatestOfTwo ==
  ASSUME NEW a \in Nat, NEW b \in Nat
  PROVE  Max({a, b}) \in {a, b} /\ Max({a, b}) >= a /\ Max({a, b}) >= b
  <1>1. \E x \in {a, b} : \A y \in {a, b} : x >= y
    <2>1. CASE a >= b BY <2>1
    <2>2. CASE b >= a BY <2>2
    <2> QED BY <2>1, <2>2
  <1> QED BY <1>1 DEF Max

-----------------------------------------------------------------------------

(* The invariant.  A plan has every zone exactly once: with an outcome, still to be    *)
(* chunked, or in a part of the chunk that is planned now.                          *)
IdsIn(s) == {s[i].id : i \in DOMAIN s}

ZoneSet == {Zones[i] : i \in DOMAIN Zones}

ZoneList(s) ==
  /\ s \in Seq(ZoneSet)
  /\ \A i, j \in DOMAIN s : s[i].id = s[j].id => i = j

PlanSet ==
  [outcome : [Ids -> {"unasked", "planned", "lost"}], pending : Seq(ZoneSet), rate : Nat, index : Nat]

PlanOK(p) == p \in PlanSet /\ ZoneList(p.pending)

LayoutSet ==
  [origin : {"none", "plan", "corrected", "calculated"}, flaw : {"none", "overlap", "other"},
   openings : [Groups -> {"none", "good", "bad"}]]

PartSet == [zones : Seq(ZoneSet), depth : Nat]

QueueIds(q) == UNION {IdsOf(q[i]) : i \in DOMAIN q}

QueueOK(q) ==
  /\ q \in Seq(PartSet)
  /\ \A i \in DOMAIN q : ZoneList(q[i].zones) /\ q[i].zones # <<>>
  /\ \A i, j \in DOMAIN q : i # j => IdsOf(q[i]) \cap IdsOf(q[j]) = {}

SavedSet ==
  [kind : {"start", "outline", "layout", "details"}, plan : PlanSet, layout : LayoutSet,
   done : SUBSET Groups]

SavedOK(c) ==
  /\ c \in SavedSet /\ PlanOK(c.plan)
  /\ c.kind \in {"start", "outline"} => c.layout = NoLayout /\ c.done = {}

GenTypeOK ==
  /\ gen \in {"idle", "outline", "carve", "part", "layout", "relayout", "shift", "details",
              "correct", "review", "delivered"}
  /\ brief \in Briefs /\ PlanOK(plan) /\ QueueOK(queue) /\ layout \in LayoutSet
  /\ done \subseteq Groups /\ todo \subseteq Groups /\ asked \subseteq Ids
  /\ request.open \in BOOLEAN
  /\ SavedOK(checkpoint)

(* The zones without outcome are those to be chunked and those in the queue.         *)
Rest(p, inQueue) ==
  /\ \A z \in Ids : p.outcome[z] = "unasked" <=> z \in IdsIn(p.pending) \cup inQueue
  /\ IdsIn(p.pending) \cap inQueue = {}

LostWereAsked(p, zones) == \A z \in Ids : p.outcome[z] = "lost" => z \in zones

NoneForgotten ==
  /\ Rest(plan, QueueIds(queue)) /\ Rest(checkpoint.plan, {})
  /\ gen = "part" <=> queue # <<>>
  /\ gen \in {"idle", "carve"} => ~ request.open
  /\ gen = "part" /\ request.open => IdsOf(Head(queue)) \subseteq asked
  /\ LostWereAsked(plan, asked) /\ LostWereAsked(checkpoint.plan, asked)

(* What was saved of the plan is in the plan the worker goes on with.                *)
Extends(p, saved) == \A z \in Ids : saved.outcome[z] = "planned" => p.outcome[z] = "planned"

PlannedStays ==
  /\ gen \in {"carve", "part"} => Extends(plan, checkpoint.plan)
  /\ gen = "outline" => checkpoint.kind = "start"

(* A merged layout comes from a plan that is whole.                               *)
FromWhole(l, p, zones) ==
  l.origin = "plan" =>
    \A z \in Ids : p.outcome[z] # "planned" => z \in zones \/ p.index >= MaxChunks

MergedWhole ==
  /\ FromWhole(layout, plan, asked) /\ FromWhole(checkpoint.layout, checkpoint.plan, asked)
  /\ gen \in {"idle", "outline", "carve", "part"} => layout.origin # "plan" /\ done = {}

Opened(l, groups) == \A g \in groups : l.openings[g] # "none"

OpeningsThere ==
  /\ Opened(layout, done) /\ Opened(checkpoint.layout, checkpoint.done)
  /\ gen = "details" => todo = Groups \ done /\ checkpoint.done = done
  /\ gen = "correct" => done = Groups
  /\ gen \in {"details", "correct"} => brief.residential /\ layout.flaw = "none"
  /\ gen = "relayout" => brief.residential
  /\ gen = "shift" => ~ brief.residential
  /\ gen \in {"review", "delivered"} /\ brief.residential =>
       layout.flaw = "none" /\ done = Groups /\ ~ Findings

GenInv == GenTypeOK /\ NoneForgotten /\ PlannedStays /\ MergedWhole /\ OpeningsThere

-----------------------------------------------------------------------------
(* The zones.  Counting the earlier zones of a name tells zones apart.            *)
LEMMA ZonesDiffer ==
  /\ DOMAIN Zones = 1 .. Len(Outline) /\ Len(Outline) \in Nat
  /\ \A i, j \in DOMAIN Zones : Zones[i].id = Zones[j].id => i = j
  <1>. DEFINE same(i) == {k \in 1 .. i : Outline[k].name = Outline[i].name}
  <1>1. DOMAIN Zones = 1 .. Len(Outline) /\ Len(Outline) \in Nat
    BY GenAssumption DEF Zones
  <1>2. \A i \in DOMAIN Zones : Zones[i].id = <<Outline[i].name, Cardinality(same(i))>>
    BY GenAssumption DEF Zones
  <1>3. ASSUME NEW i \in DOMAIN Zones, NEW j \in DOMAIN Zones, i < j,
               Zones[i].id = Zones[j].id
        PROVE  FALSE
    <2>1. Outline[i].name = Outline[j].name /\ Cardinality(same(i)) = Cardinality(same(j))
      BY <1>2, <1>3
    <2>2. i \in Nat /\ j \in Nat /\ j \in 1 .. j /\ j \notin 1 .. i
      BY <1>1, <1>3
    <2>3. same(i) \in SUBSET same(j)
      BY <2>1, <2>2, <1>3
    <2>4. j \in same(j) /\ j \notin same(i)
      BY <2>2
    <2>5. IsFiniteSet(1 .. j)
      BY <2>2, FS_Interval
    <2>6. IsFiniteSet(same(j))
      BY <2>5, FS_Subset, same(j) \in SUBSET (1 .. j)
    <2>7. same(i) = same(j)
      BY <2>1, <2>3, <2>6, FS_Subset
    <2> QED BY <2>4, <2>7
  <1>4. ASSUME NEW i \in DOMAIN Zones, NEW j \in DOMAIN Zones, Zones[i].id = Zones[j].id
        PROVE  i = j
    <2>1. i \in Nat /\ j \in Nat
      BY <1>1
    <2>2. ~ (i < j) /\ ~ (j < i)
      BY <1>3, <1>4
    <2> QED BY <2>1, <2>2
  <1> QED BY <1>1, <1>4

(* Zones are ordered by the first of their template, then as they are named.         *)
LEMMA BeforeIsOrder ==
  ASSUME NEW i \in DOMAIN Zones, NEW j \in DOMAIN Zones, NEW k \in DOMAIN Zones
  PROVE  /\ ~ Before(i, i)
         /\ i = j \/ Before(i, j) \/ Before(j, i)
         /\ Before(i, j) /\ Before(j, k) => Before(i, k)
  <1>1. \A l \in DOMAIN Zones : First(l) \in Nat
    <2> TAKE l \in DOMAIN Zones
    <2>. DEFINE peers == {m \in DOMAIN Zones : Zones[m].template = Zones[l].template}
    <2>1. l \in peers /\ peers \subseteq Nat
      BY ZonesDiffer
    <2>2. Min(peers) \in Nat
      BY <2>1, LeastExists
    <2> QED BY <2>2 DEF First
  <1>2. First(i) \in Nat /\ First(j) \in Nat /\ First(k) \in Nat
    BY <1>1
  <1>3. i \in Nat /\ j \in Nat /\ k \in Nat
    BY ZonesDiffer
  <1> QED BY <1>2, <1>3 DEF Before

(* So every place in the order is taken by one zone.                              *)
LEMMA TurnsAreTaken ==
  /\ \A i \in DOMAIN Zones : Turn(i) \in DOMAIN Zones
  /\ \A i, j \in DOMAIN Zones : Turn(i) = Turn(j) => i = j
  /\ \A k \in DOMAIN Zones : \E i \in DOMAIN Zones : Turn(i) = k
  <1>. DEFINE D == DOMAIN Zones
              upTo(i) == {j \in D : j = i \/ Before(j, i)}
              turns == [i \in D |-> Turn(i)]
  <1>1. D = 1 .. Len(Outline) /\ Len(Outline) \in Nat
    BY ZonesDiffer
  <1>2. IsFiniteSet(D) /\ Cardinality(D) = Len(Outline)
    BY <1>1, FS_Interval
  <1>3. \A i \in D : Turn(i) = Cardinality(upTo(i))
    BY DEF Turn
  <1>. HIDE DEF D
  <1>4. ASSUME NEW i \in D
        PROVE  IsFiniteSet(upTo(i)) /\ Turn(i) \in D
    <2>1. upTo(i) \in SUBSET D /\ i \in upTo(i)
      OBVIOUS
    <2>2. IsFiniteSet(upTo(i)) /\ Cardinality(upTo(i)) <= Len(Outline)
      BY <2>1, <1>2, FS_Subset
    <2>3. Cardinality(upTo(i)) \in Nat /\ Cardinality(upTo(i)) # 0
      BY <2>1, <2>2, FS_CardinalityType, FS_EmptySet
    <2> QED BY <2>2, <2>3, <1>1, <1>3
  <1>5. ASSUME NEW i \in D, NEW j \in D, Before(i, j), Turn(i) = Turn(j)
        PROVE  FALSE
    <2>1. upTo(i) \in SUBSET upTo(j)
      BY <1>5, BeforeIsOrder DEF D
    <2>2. j \in upTo(j) /\ j \notin upTo(i)
      BY <1>5, BeforeIsOrder DEF D
    <2>3. upTo(i) = upTo(j)
      BY <2>1, <1>3, <1>4, <1>5, FS_Subset
    <2> QED BY <2>2, <2>3
  <1>6. ASSUME NEW i \in D, NEW j \in D, Turn(i) = Turn(j)
        PROVE  i = j
    BY <1>5, <1>6, BeforeIsOrder DEF D
  <1>7. turns \in Injection(D, D)
    BY <1>4, <1>6 DEF Injection, IsInjective
  <1>8. turns \in Surjection(D, D)
    BY <1>7, <1>2, FS_Injection
  <1>9. \A k \in D : \E i \in D : Turn(i) = k
    BY <1>8 DEF Surjection
  <1> QED BY <1>4, <1>6, <1>9 DEF D

LEMMA GroupedKeepsZones == ZoneList(Grouped) /\ IdsIn(Grouped) = Ids
  <1>. DEFINE D == DOMAIN Zones
              at(k) == CHOOSE i \in D : Turn(i) = k
  <1>1. D = 1 .. Len(Outline) /\ Len(Outline) \in Nat
    BY ZonesDiffer
  <1>2. \A k \in D : at(k) \in D /\ Turn(at(k)) = k
    BY TurnsAreTaken
  <1>3. DOMAIN Grouped = D /\ \A k \in D : Grouped[k] = Zones[at(k)]
    BY DEF Grouped
  <1>. HIDE DEF D, at
  <1>4. \A k \in D : Grouped[k] \in ZoneSet
    BY <1>2, <1>3 DEF ZoneSet, D
  <1>5. Grouped = [k \in 1 .. Len(Outline) |-> Grouped[k]]
    BY <1>1 DEF Grouped, D
  <1>6. Grouped \in Seq(ZoneSet)
    BY <1>1, <1>4, <1>5, IsASeq
  <1>7. ASSUME NEW k \in D, NEW l \in D, Grouped[k].id = Grouped[l].id
        PROVE  k = l
    <2>1. at(k) = at(l)
      BY <1>2, <1>3, <1>7, ZonesDiffer DEF D
    <2> QED BY <2>1, <1>2
  <1>8. ASSUME NEW i \in D
        PROVE  \E k \in D : Grouped[k] = Zones[i]
    <2>1. PICK k \in D : Grouped[k] = Zones[at(k)] /\ Turn(at(k)) = k /\ Turn(i) = k
      <3>1. Turn(i) \in D
        BY TurnsAreTaken DEF D
      <3> QED BY <3>1, <1>2, <1>3
    <2>2. at(k) = i
      BY <2>1, <1>2, TurnsAreTaken DEF D
    <2> QED BY <2>1, <2>2
  <1>9. \A k \in D : \E i \in D : Grouped[k] = Zones[i]
    BY <1>2, <1>3
  <1>10. IdsIn(Grouped) = Ids
    <2>1. IdsIn(Grouped) \subseteq Ids
      BY <1>3, <1>9 DEF IdsIn, Ids, D
    <2>2. ASSUME NEW i \in D PROVE Zones[i].id \in IdsIn(Grouped)
      <3>1. PICK k \in D : Grouped[k] = Zones[i]
        BY <1>8
      <3> QED BY <3>1, <1>3 DEF IdsIn
    <2> QED BY <2>1, <2>2 DEF Ids, D
  <1> QED BY <1>3, <1>6, <1>7, <1>10 DEF ZoneList

-----------------------------------------------------------------------------
(* Chunks and halves.                                                        *)
LEMMA ChunkSizeIsPositive ==
  ASSUME NEW rate \in Nat
  PROVE  ChunkSize(rate) \in Nat \ {0}
  <1>. DEFINE n == SafeRoom \div (IF rate = 0 THEN ZoneTokens ELSE rate)
  <1>1. n \in Nat
    BY GenAssumption
  <1>2. MaxZones \in Nat /\ MinZones \in Nat \ {0}
    BY GenAssumption
  <1>. HIDE DEF n
  <1>3. Min({MaxZones, n}) \in Nat
    BY <1>1, <1>2, LeastOfTwo
  <1>4. Max({MinZones, Min({MaxZones, n})}) \in Nat
        /\ Max({MinZones, Min({MaxZones, n})}) >= MinZones
    BY <1>2, <1>3, GreatestOfTwo
  <1> QED BY <1>2, <1>4 DEF ChunkSize, n

LEMMA NextCountFits ==
  ASSUME NEW s, ZoneList(s), s # <<>>, NEW rate \in Nat
  PROVE  NextCount(s, rate) \in 1 .. Len(s)
  <1>. DEFINE runs == {n \in DOMAIN s : \A i \in 1 .. n : s[i].template = s[1].template}
              run == Max(runs)
              size == ChunkSize(rate)
  <1>1. Len(s) \in Nat \ {0} /\ DOMAIN s = 1 .. Len(s)
    BY EmptySeq, LenProperties DEF ZoneList
  <1>2. 1 \in runs
    BY <1>1
  <1>3. run \in 1 .. Len(s)
    BY <1>1, <1>2, GreatestExists, runs \subseteq 1 .. Len(s), runs # {}
  <1>4. size \in Nat \ {0}
    BY ChunkSizeIsPositive
  <1>5. MinZones \in Nat \ {0}
    BY GenAssumption
  <1>. HIDE DEF run, size, runs
  <1>6. Min({run, size}) \in 1 .. Len(s)
    BY <1>1, <1>3, <1>4, LeastOfTwo
  <1>7. Min({run, size, MinZones}) \in 1 .. Len(s)
    <2>1. {run, size, MinZones} \subseteq Nat /\ {run, size, MinZones} # {}
      BY <1>3, <1>4, <1>5
    <2>2. /\ Min({run, size, MinZones}) \in {run, size, MinZones}
          /\ Min({run, size, MinZones}) <= run
      BY <2>1, LeastExists
    <2> QED BY <2>1, <2>2, <1>1, <1>3, <1>4, <1>5
  <1>8. NextCount(s, rate) \in {Min({run, size}), Min({run, size, MinZones})}
    BY DEF NextCount, run, size, runs
  <1> QED BY <1>6, <1>7, <1>8

(* Cutting a list of zones in two keeps each zone in one of the parts.               *)
LEMMA CutKeepsZones ==
  ASSUME NEW s, ZoneList(s), NEW n \in 0 .. Len(s)
  PROVE  LET front == SubSeq(s, 1, n)
             back  == SubSeq(s, n + 1, Len(s))
         IN /\ ZoneList(front) /\ ZoneList(back)
            /\ Len(front) = n /\ Len(back) = Len(s) - n
            /\ IdsIn(s) = IdsIn(front) \cup IdsIn(back)
            /\ IdsIn(front) \cap IdsIn(back) = {}
  <1>. DEFINE front == SubSeq(s, 1, n)
              back  == SubSeq(s, n + 1, Len(s))
  <1>1. s \in Seq(ZoneSet) /\ Len(s) \in Nat /\ DOMAIN s = 1 .. Len(s) /\ n \in Nat
    BY LenProperties DEF ZoneList
  <1>2. /\ front \in Seq(ZoneSet) /\ Len(front) = n
        /\ DOMAIN front = 1 .. n /\ \A i \in 1 .. n : front[i] = s[i]
    BY <1>1, SubSeqProperties, LenProperties
  <1>3. /\ back \in Seq(ZoneSet) /\ Len(back) = Len(s) - n
        /\ DOMAIN back = 1 .. Len(s) - n
        /\ \A i \in 1 .. Len(s) - n : back[i] = s[n + i]
    <2>. DEFINE m == n + 1
    <2>1. m \in 1 .. Len(s) + 1 /\ Len(s) \in m - 1 .. Len(s) /\ Len(s) - m + 1 = Len(s) - n
      BY <1>1
    <2>2. \A i \in 1 .. Len(s) - n : m + i - 1 = n + i
      BY <1>1
    <2>3. back = SubSeq(s, m, Len(s))
      OBVIOUS
    <2>. HIDE DEF m, back
    <2>4. /\ back \in Seq(ZoneSet) /\ Len(back) = Len(s) - m + 1
          /\ \A i \in 1 .. Len(s) - m + 1 : back[i] = s[m + i - 1]
      BY <1>1, <2>1, <2>3, SubSeqProperties
    <2>5. DOMAIN back = 1 .. Len(back)
      BY <2>4, LenProperties
    <2> QED BY <2>1, <2>2, <2>4, <2>5
  <1>. HIDE DEF front, back
  <1>4. \A i, j \in 1 .. Len(s) : s[i].id = s[j].id => i = j
    BY <1>1 DEF ZoneList
  <1>5. ZoneList(front)
    BY <1>1, <1>2, <1>4 DEF ZoneList
  <1>6. ZoneList(back)
    <2>1. ASSUME NEW i \in 1 .. Len(s) - n, NEW j \in 1 .. Len(s) - n, back[i].id = back[j].id
          PROVE  i = j
      <3>1. n + i \in 1 .. Len(s) /\ n + j \in 1 .. Len(s)
        BY <1>1
      <3>2. n + i = n + j
        BY <3>1, <2>1, <1>3, <1>4
      <3> QED BY <3>2, <1>1
    <2> QED BY <2>1, <1>3 DEF ZoneList
  <1>7. \A i \in 1 .. Len(s) : (i \in 1 .. n) \/ (i - n \in 1 .. Len(s) - n /\ n + (i - n) = i)
    BY <1>1
  <1>8. IdsIn(s) \subseteq IdsIn(front) \cup IdsIn(back)
    <2>1. ASSUME NEW i \in 1 .. Len(s)
          PROVE  s[i].id \in IdsIn(front) \cup IdsIn(back)
      <3>1. CASE i \in 1 .. n
        BY <3>1, <1>2 DEF IdsIn
      <3>2. CASE i \notin 1 .. n
        <4>1. i - n \in DOMAIN back /\ back[i - n] = s[i]
          BY <3>2, <1>3, <1>7
        <4> QED BY <4>1 DEF IdsIn
      <3> QED BY <3>1, <3>2
    <2> QED BY <2>1, <1>1 DEF IdsIn
  <1>9. IdsIn(front) \subseteq IdsIn(s)
    BY <1>1, <1>2 DEF IdsIn
  <1>10. IdsIn(back) \subseteq IdsIn(s)
    <2>1. \A i \in 1 .. Len(s) - n : n + i \in 1 .. Len(s)
      BY <1>1
    <2> QED BY <2>1, <1>1, <1>3 DEF IdsIn
  <1>11. ASSUME NEW i \in 1 .. n, NEW j \in 1 .. Len(s) - n
         PROVE  front[i].id # back[j].id
    <2>1. i \in 1 .. Len(s) /\ n + j \in 1 .. Len(s) /\ i # n + j
      BY <1>1
    <2> QED BY <2>1, <1>2, <1>3, <1>4
  <1>12. IdsIn(front) \cap IdsIn(back) = {}
    BY <1>2, <1>3, <1>11 DEF IdsIn
  <1> QED BY <1>2, <1>3, <1>5, <1>6, <1>8, <1>9, <1>10, <1>12 DEF front, back

(* The first part of a queue, and the others.                                    *)
LEMMA QueueParts ==
  ASSUME NEW q, QueueOK(q), q # <<>>
  PROVE  /\ Head(q) \in PartSet /\ ZoneList(Head(q).zones)
         /\ Head(q).zones # <<>> /\ Len(Head(q).zones) \in Nat \ {0}
         /\ QueueOK(Tail(q))
         /\ QueueIds(q) = IdsOf(Head(q)) \cup QueueIds(Tail(q))
         /\ IdsOf(Head(q)) \cap QueueIds(Tail(q)) = {}
  <1>1. /\ q \in Seq(PartSet) /\ Len(q) \in Nat \ {0} /\ DOMAIN q = 1 .. Len(q)
        /\ Head(q) = q[1] /\ 1 \in 1 .. Len(q)
    BY EmptySeq, LenProperties, HeadTailProperties DEF QueueOK
  <1>2. /\ Tail(q) \in Seq(PartSet) /\ Len(Tail(q)) = Len(q) - 1
        /\ DOMAIN Tail(q) = 1 .. Len(q) - 1
        /\ \A i \in 1 .. Len(q) - 1 : Tail(q)[i] = q[i + 1] /\ i + 1 \in 1 .. Len(q)
    BY <1>1, HeadTailProperties, LenProperties
  <1>3. Head(q) \in PartSet /\ ZoneList(Head(q).zones) /\ Head(q).zones # <<>>
    BY <1>1, ElementOfSeq DEF QueueOK
  <1>4. Len(Head(q).zones) \in Nat \ {0}
    BY <1>3, EmptySeq, LenProperties DEF ZoneList
  <1>5. ASSUME NEW i \in 1 .. Len(q) - 1, NEW j \in 1 .. Len(q) - 1, i # j
        PROVE  IdsOf(Tail(q)[i]) \cap IdsOf(Tail(q)[j]) = {}
    <2>1. i + 1 # j + 1
      BY <1>1, <1>5
    <2> QED BY <2>1, <1>1, <1>2 DEF QueueOK
  <1>6. QueueOK(Tail(q))
    BY <1>1, <1>2, <1>5 DEF QueueOK
  <1>7. \A i \in 1 .. Len(q) : i = 1 \/ (i - 1 \in 1 .. Len(q) - 1 /\ i = (i - 1) + 1)
    BY <1>1
  <1>8. QueueIds(q) = IdsOf(Head(q)) \cup QueueIds(Tail(q))
    BY <1>1, <1>2, <1>7 DEF QueueIds
  <1>9. ASSUME NEW i \in 1 .. Len(q) - 1
        PROVE  IdsOf(Head(q)) \cap IdsOf(Tail(q)[i]) = {}
    <2>1. i + 1 # 1
      BY <1>1
    <2> QED BY <2>1, <1>1, <1>2 DEF QueueOK
  <1>10. IdsOf(Head(q)) \cap QueueIds(Tail(q)) = {}
    BY <1>2, <1>9 DEF QueueIds
  <1> QED BY <1>3, <1>4, <1>6, <1>8, <1>10

LEMMA ListedAreZones ==
  ASSUME NEW s, ZoneList(s)
  PROVE  IdsIn(s) \subseteq Ids
  BY LenProperties, ElementOfSeq DEF ZoneList, ZoneSet, IdsIn, Ids

LEMMA QueuedAreZones ==
  ASSUME NEW q, QueueOK(q)
  PROVE  QueueIds(q) \subseteq Ids
  BY ListedAreZones DEF QueueOK, QueueIds, IdsOf, IdsIn

(* A chunk is a queue of one part.                                              *)
LEMMA OnePart ==
  ASSUME NEW s, ZoneList(s), s # <<>>, NEW n \in Nat
  PROVE  LET q == <<[zones |-> s, depth |-> n]>>
         IN QueueOK(q) /\ q # <<>> /\ QueueIds(q) = IdsIn(s)
  <1>. DEFINE part == [zones |-> s, depth |-> n]
              q == <<part>>
  <1>1. part \in PartSet
    BY DEF PartSet, ZoneList
  <1>2. q \in Seq(PartSet) /\ DOMAIN q = {1} /\ q[1] = part /\ q # <<>>
    BY <1>1
  <1>3. part.zones = s
    OBVIOUS
  <1>. HIDE DEF q, part
  <1>4. QueueOK(q)
    BY <1>2, <1>3 DEF QueueOK
  <1>5. QueueIds(q) = IdsIn(s)
    BY <1>2, <1>3 DEF QueueIds, IdsOf, IdsIn
  <1> QED BY <1>2, <1>4, <1>5 DEF q, part

(* Halves take the place of their part.                                          *)
LEMMA JoinedQueues ==
  ASSUME NEW p, QueueOK(p), NEW q, QueueOK(q), QueueIds(p) \cap QueueIds(q) = {}
  PROVE  /\ QueueOK(p \o q) /\ QueueIds(p \o q) = QueueIds(p) \cup QueueIds(q)
         /\ p # <<>> => p \o q # <<>>
  <1>. DEFINE r == p \o q
  <1>1. /\ p \in Seq(PartSet) /\ Len(p) \in Nat /\ DOMAIN p = 1 .. Len(p)
        /\ q \in Seq(PartSet) /\ Len(q) \in Nat /\ DOMAIN q = 1 .. Len(q)
    BY LenProperties DEF QueueOK
  <1>2. /\ r \in Seq(PartSet) /\ Len(r) = Len(p) + Len(q)
        /\ \A i \in 1 .. Len(p) + Len(q) : r[i] = IF i <= Len(p) THEN p[i] ELSE q[i - Len(p)]
    BY <1>1, ConcatProperties
  <1>3. DOMAIN r = 1 .. Len(p) + Len(q)
    BY <1>2, LenProperties
  <1>4. p # <<>> => r # <<>>
    BY <1>1, ConcatEqualIffEmpty
  <1>. HIDE DEF r
  <1>5. ASSUME NEW i \in 1 .. Len(p) + Len(q)
        PROVE  \/ i \in 1 .. Len(p) /\ r[i] = p[i]
               \/ i - Len(p) \in 1 .. Len(q) /\ i \notin 1 .. Len(p) /\ r[i] = q[i - Len(p)]
    <2>1. CASE i <= Len(p) BY <2>1, <1>1, <1>2
    <2>2. CASE ~ (i <= Len(p)) BY <2>2, <1>1, <1>2
    <2> QED BY <2>1, <2>2
  <1>6. \A i \in DOMAIN r : ZoneList(r[i].zones) /\ r[i].zones # <<>>
    BY <1>1, <1>3, <1>5 DEF QueueOK
  <1>7. \A i \in 1 .. Len(p), j \in 1 .. Len(q) : IdsOf(p[i]) \cap IdsOf(q[j]) = {}
    BY <1>1 DEF QueueIds
  <1>8. ASSUME NEW i \in DOMAIN r, NEW j \in DOMAIN r, i # j
        PROVE  IdsOf(r[i]) \cap IdsOf(r[j]) = {}
    <2>1. /\ \/ i \in 1 .. Len(p) /\ r[i] = p[i]
             \/ i - Len(p) \in 1 .. Len(q) /\ r[i] = q[i - Len(p)]
          /\ \/ j \in 1 .. Len(p) /\ r[j] = p[j]
             \/ j - Len(p) \in 1 .. Len(q) /\ r[j] = q[j - Len(p)]
      BY <1>3, <1>5
    <2>2. i - Len(p) # j - Len(p)
      BY <1>1, <1>3, <1>8
    <2> QED BY <2>1, <2>2, <1>1, <1>7, <1>8 DEF QueueOK
  <1>9. QueueOK(r)
    BY <1>2, <1>6, <1>8 DEF QueueOK
  <1>10. QueueIds(r) \subseteq QueueIds(p) \cup QueueIds(q)
    <2>1. ASSUME NEW i \in DOMAIN r PROVE IdsOf(r[i]) \subseteq QueueIds(p) \cup QueueIds(q)
      BY <1>1, <1>3, <1>5 DEF QueueIds
    <2> QED BY <2>1 DEF QueueIds
  <1>11. QueueIds(p) \subseteq QueueIds(r)
    <2>1. ASSUME NEW i \in 1 .. Len(p) PROVE i \in DOMAIN r /\ r[i] = p[i]
      BY <1>1, <1>2, <1>3
    <2> QED BY <2>1, <1>1 DEF QueueIds
  <1>12. QueueIds(q) \subseteq QueueIds(r)
    <2>1. ASSUME NEW j \in 1 .. Len(q)
          PROVE  Len(p) + j \in DOMAIN r /\ r[Len(p) + j] = q[j]
      <3>1. Len(p) + j \in 1 .. Len(p) + Len(q) /\ ~ (Len(p) + j <= Len(p)) /\ (Len(p) + j) - Len(p) = j
        BY <1>1
      <3> QED BY <3>1, <1>2, <1>3
    <2> QED BY <2>1, <1>1 DEF QueueIds
  <1> QED BY <1>4, <1>9, <1>10, <1>11, <1>12 DEF r

LEMMA MiddleIsBetween ==
  ASSUME NEW n \in Nat, n > 1
  PROVE  n \div 2 \in 1 .. n - 1
  OBVIOUS

LEMMA PairIsJoined ==
  ASSUME NEW a, NEW b
  PROVE  <<a, b>> = <<a>> \o <<b>>
  <1>1. <<a>> \in Seq({a, b}) /\ <<b>> \in Seq({a, b}) /\ <<a, b>> \in Seq({a, b})
    OBVIOUS
  <1>2. Len(<<a>>) = 1 /\ Len(<<b>>) = 1 /\ Len(<<a, b>>) = 2
    OBVIOUS
  <1>3. /\ <<a>> \o <<b>> \in Seq({a, b}) /\ Len(<<a>> \o <<b>>) = 2
        /\ (<<a>> \o <<b>>)[1] = a /\ (<<a>> \o <<b>>)[2] = b
    BY <1>1, <1>2, ConcatProperties
  <1>4. \A i \in 1 .. 2 : (<<a>> \o <<b>>)[i] = <<a, b>>[i]
    BY <1>3
  <1> QED BY <1>1, <1>2, <1>3, <1>4, SeqEqual

LEMMA HalvesKeepZones ==
  ASSUME NEW part \in PartSet, ZoneList(part.zones), part.zones # <<>>, Halves(part) # <<>>
  PROVE  QueueOK(Halves(part)) /\ QueueIds(Halves(part)) = IdsOf(part)
  <1>. DEFINE mid == Len(part.zones) \div 2
              deeper == part.depth + 1
              front == SubSeq(part.zones, 1, mid)
              back == SubSeq(part.zones, mid + 1, Len(part.zones))
              one == [zones |-> front, depth |-> deeper]
              two == [zones |-> back, depth |-> deeper]
  <1>1. Len(part.zones) \in Nat /\ part.depth \in Nat /\ MinZones \in Nat \ {0}
    BY LenProperties, GenAssumption DEF ZoneList, PartSet
  <1>2. ~ (Len(part.zones) <= MinZones)
    BY DEF Halves
  <1>3. Halves(part) = <<one, two>>
    BY DEF Halves
  <1>4. mid \in 1 .. Len(part.zones) - 1
    <2>1. Len(part.zones) > 1
      BY <1>1, <1>2
    <2> QED BY <1>1, <2>1, MiddleIsBetween
  <1>. HIDE DEF mid, front, back
  <1>5. mid \in 0 .. Len(part.zones)
    BY <1>1, <1>4
  <1>6. /\ ZoneList(front) /\ ZoneList(back)
        /\ Len(front) = mid /\ Len(back) = Len(part.zones) - mid
        /\ IdsIn(part.zones) = IdsIn(front) \cup IdsIn(back)
        /\ IdsIn(front) \cap IdsIn(back) = {}
    BY <1>5, CutKeepsZones DEF front, back
  <1>7. front # <<>> /\ back # <<>>
    <2>1. Len(front) # 0 /\ Len(back) # 0
      BY <1>1, <1>4, <1>6
    <2> QED BY <2>1
  <1>8. deeper \in Nat
    BY <1>1
  <1>. HIDE DEF deeper
  <1>9. /\ QueueOK(<<one>>) /\ QueueIds(<<one>>) = IdsIn(front)
        /\ QueueOK(<<two>>) /\ QueueIds(<<two>>) = IdsIn(back)
    BY <1>6, <1>7, <1>8, OnePart
  <1>10. QueueOK(<<one>> \o <<two>>) /\ QueueIds(<<one>> \o <<two>>) = IdsIn(front) \cup IdsIn(back)
    BY <1>6, <1>9, JoinedQueues
  <1>. HIDE DEF one, two
  <1>11. Halves(part) = <<one>> \o <<two>>
    BY <1>3, PairIsJoined
  <1>12. IdsOf(part) = IdsIn(part.zones)
    BY DEF IdsOf, IdsIn
  <1> QED BY <1>6, <1>10, <1>11, <1>12

-----------------------------------------------------------------------------
(* The steps.                                                                *)
LEMMA NoQueue == QueueOK(<<>>) /\ QueueIds(<<>>) = {}
  BY EmptySeq DEF QueueOK, QueueIds

LEMMA FreshPlanOK ==
  /\ PlanOK(FreshPlan) /\ Rest(FreshPlan, {}) /\ FreshPlan.outcome = [z \in Ids |-> "unasked"]
  /\ NoLayout \in LayoutSet /\ NoLayout.origin = "none"
  BY GroupedKeepsZones DEF PlanOK, PlanSet, FreshPlan, Rest, ZoneList, LayoutSet, NoLayout

LEMMA GenInitInv == GenInit => GenInv
  <1>1. SUFFICES ASSUME GenInit PROVE GenInv
    OBVIOUS
  <1>2. checkpoint = [kind |-> "start", plan |-> FreshPlan, layout |-> NoLayout, done |-> {}]
    BY <1>1 DEF GenInit, Checkpoint
  <1>3. SavedOK(checkpoint)
    BY <1>2, FreshPlanOK DEF SavedOK, SavedSet, PlanOK
  <1>4. GenTypeOK
    BY <1>1, <1>3, FreshPlanOK, NoQueue DEF GenInit, GenTypeOK, NoCall
  <1>5. NoneForgotten /\ PlannedStays
    <2>1. checkpoint.plan = plan /\ plan = FreshPlan /\ queue = <<>> /\ gen = "idle" /\ ~ request.open
      BY <1>1, <1>2 DEF GenInit, NoCall
    <2>2. LostWereAsked(FreshPlan, asked)
      BY FreshPlanOK DEF LostWereAsked
    <2> QED BY <2>1, <2>2, FreshPlanOK, NoQueue DEF NoneForgotten, PlannedStays
  <1>6. MergedWhole /\ OpeningsThere
    BY <1>1, <1>2, FreshPlanOK DEF GenInit, MergedWhole, FromWhole, OpeningsThere, Opened
  <1> QED BY <1>4, <1>5, <1>6 DEF GenInv

(* A request leaves the plan alone; more zones have been asked for.                  *)
LEMMA RequestStep ==
  ASSUME GenInv, gen # "idle", gen # "carve", request'.open = TRUE,
         asked \subseteq asked', asked' \subseteq Ids,
         gen = "part" => IdsOf(Head(queue)) \subseteq asked',
         UNCHANGED <<gen, brief, plan, queue, layout, done, todo, checkpoint>>
  PROVE  GenInv'
  <1>1. GenTypeOK'
    BY DEF GenInv, GenTypeOK
  <1>2. NoneForgotten' /\ PlannedStays'
    BY DEF GenInv, NoneForgotten, LostWereAsked, PlannedStays
  <1>3. MergedWhole'
    BY DEF GenInv, MergedWhole, FromWhole
  <1>4. OpeningsThere'
    BY DEF GenInv, OpeningsThere, Findings
  <1> QED BY <1>1, <1>2, <1>3, <1>4 DEF GenInv

LEMMA AskStep ==
  ASSUME GenInv, GenAsk
  PROVE  GenInv'
  <1>1. gen # "idle" /\ gen # "carve" /\ request'.open = TRUE
    BY DEF GenAsk, Send, Calling
  <1>2. asked \subseteq asked' /\ asked' \subseteq Ids /\ (gen = "part" => IdsOf(Head(queue)) \subseteq asked')
    <2>1. CASE gen = "part"
      <3>1. QueueOK(queue) /\ queue # <<>> /\ asked \subseteq Ids
        BY <2>1 DEF GenInv, GenTypeOK, NoneForgotten
      <3>2. IdsOf(Head(queue)) \subseteq Ids
        BY <3>1, QueueParts, QueuedAreZones
      <3>3. asked' = asked \cup IdsOf(Head(queue))
        BY <2>1 DEF GenAsk
      <3> QED BY <3>1, <3>2, <3>3
    <2>2. CASE gen # "part"
      BY <2>2 DEF GenAsk, GenInv, GenTypeOK
    <2> QED BY <2>1, <2>2
  <1> QED BY <1>1, <1>2, RequestStep DEF GenAsk

LEMMA AgainStep ==
  ASSUME GenInv, NEW error \in BOOLEAN, GenRetry(error) \/ GenFallBack(error)
  PROVE  GenInv'
  <1>1. request.open /\ request'.open = TRUE
    BY DEF GenRetry, GenFallBack, Send
  <1>2. gen # "idle" /\ gen # "carve" /\ asked \subseteq Ids
        /\ (gen = "part" => IdsOf(Head(queue)) \subseteq asked)
    BY <1>1 DEF GenInv, GenTypeOK, NoneForgotten
  <1> QED BY <1>1, <1>2, RequestStep DEF GenRetry, GenFallBack

LEMMA StopStep ==
  ASSUME GenInv, GenStop
  PROVE  GenInv'
  <1>1. GenTypeOK'
    BY FreshPlanOK, NoQueue DEF GenStop, GenInv, GenTypeOK, NoCall
  <1>2. NoneForgotten' /\ PlannedStays'
    BY FreshPlanOK, NoQueue DEF GenStop, GenInv, NoneForgotten, LostWereAsked, PlannedStays, NoCall
  <1>3. MergedWhole' /\ OpeningsThere'
    BY FreshPlanOK DEF GenStop, GenInv, MergedWhole, FromWhole, OpeningsThere, Opened
  <1> QED BY <1>1, <1>2, <1>3 DEF GenInv

LEMMA StartStep ==
  ASSUME GenInv, GenStart
  PROVE  GenInv'
  <1>1. /\ gen = "idle" /\ queue = <<>> /\ ~ request.open /\ SavedOK(checkpoint)
        /\ plan' = checkpoint.plan /\ layout' = checkpoint.layout /\ done' = checkpoint.done
        /\ UNCHANGED <<brief, queue, todo, request, asked>>
    BY DEF GenStart, Resumed, GenInv, GenTypeOK, NoneForgotten
  <1>2. \/ /\ checkpoint.kind \in {"layout", "details"} /\ gen' = "layout" /\ checkpoint' = checkpoint
        \/ /\ checkpoint.kind \in {"start", "outline"} /\ gen' = "carve"
           /\ checkpoint' = [kind |-> "outline", plan |-> checkpoint.plan, layout |-> NoLayout, done |-> {}]
        \/ /\ checkpoint.kind = "start" /\ gen' = "outline" /\ checkpoint' = checkpoint
    <2>1. checkpoint.kind \in {"start", "outline", "layout", "details"}
      BY <1>1 DEF SavedOK, SavedSet
    <2>2. CASE checkpoint.kind = "outline"
      BY <2>2, <1>1 DEF GenStart, Checkpoint
    <2>3. CASE checkpoint.kind \in {"layout", "details"}
      BY <2>3 DEF GenStart
    <2>4. CASE checkpoint.kind = "start"
      <3>1. gen' = IF brief.residential /\ brief.manifest THEN "carve" ELSE "outline"
        BY <2>4, Zenon DEF GenStart
      <3> QED BY <3>1, <2>4, <1>1 DEF GenStart, Checkpoint
    <2> QED BY <2>1, <2>2, <2>3, <2>4
  <1>3. /\ SavedOK(checkpoint') /\ checkpoint'.plan = checkpoint.plan
        /\ checkpoint'.layout = checkpoint.layout /\ checkpoint'.done = checkpoint.done
    <2>1. CASE checkpoint' = checkpoint
      <3>1. SavedOK(checkpoint')
        BY <2>1, <1>1
      <3> QED BY <2>1, <3>1
    <2>2. CASE /\ checkpoint.kind \in {"start", "outline"}
               /\ checkpoint' = [kind |-> "outline", plan |-> checkpoint.plan,
                                 layout |-> NoLayout, done |-> {}]
      <3>1. checkpoint.layout = NoLayout /\ checkpoint.done = {} /\ PlanOK(checkpoint.plan)
        BY <2>2, <1>1 DEF SavedOK
      <3>2. SavedOK(checkpoint')
        BY <2>2, <3>1, FreshPlanOK DEF SavedOK, SavedSet, PlanOK
      <3> QED BY <2>2, <3>1, <3>2
    <2> QED BY <1>2, <2>1, <2>2
  <1>4. GenTypeOK'
    BY <1>1, <1>2, <1>3 DEF GenInv, GenTypeOK, SavedOK, SavedSet
  <1>5. NoneForgotten'
    BY <1>1, <1>2, <1>3, NoQueue DEF GenInv, NoneForgotten
  <1>6. PlannedStays'
    BY <1>1, <1>2, <1>3 DEF PlannedStays, Extends
  <1>7. MergedWhole'
    BY <1>1, <1>2, <1>3, FreshPlanOK DEF GenInv, MergedWhole, FromWhole, SavedOK
  <1>8. OpeningsThere'
    BY <1>1, <1>2, <1>3 DEF GenInv, OpeningsThere
  <1> QED BY <1>4, <1>5, <1>6, <1>7, <1>8 DEF GenInv

LEMMA OutlineStep ==
  ASSUME GenInv, GenOutline
  PROVE  GenInv'
  <1>1. /\ gen = "outline" /\ gen' = "carve" /\ ~ request'.open /\ request'.open \in BOOLEAN
        /\ checkpoint' = [kind |-> "outline", plan |-> plan, layout |-> NoLayout, done |-> {}]
        /\ UNCHANGED <<brief, plan, queue, layout, done, todo, asked>>
    BY DEF GenOutline, WithAnswer, NoCall, Checkpoint
  <1>2. PlanOK(plan) /\ Rest(plan, QueueIds(queue)) /\ queue = <<>> /\ LostWereAsked(plan, asked)
    BY <1>1 DEF GenInv, GenTypeOK, NoneForgotten
  <1>3. SavedOK(checkpoint') /\ checkpoint'.plan = plan /\ checkpoint'.layout = NoLayout
        /\ checkpoint'.done = {}
    BY <1>1, <1>2, FreshPlanOK DEF SavedOK, SavedSet, PlanOK
  <1>4. GenTypeOK'
    BY <1>1, <1>3 DEF GenInv, GenTypeOK
  <1>5. NoneForgotten'
    BY <1>1, <1>2, <1>3, NoQueue DEF GenInv, NoneForgotten
  <1>6. PlannedStays'
    BY <1>1, <1>3 DEF PlannedStays, Extends
  <1>7. MergedWhole' /\ OpeningsThere'
    BY <1>1, <1>3, FreshPlanOK DEF GenInv, MergedWhole, FromWhole, OpeningsThere, Opened
  <1> QED BY <1>4, <1>5, <1>6, <1>7 DEF GenInv

(* A chunk moves zones from the pending ones to the queue.                          *)
LEMMA CarveStep ==
  ASSUME GenInv, GenCarve
  PROVE  GenInv'
  <1>. DEFINE n == NextCount(plan.pending, plan.rate)
              zones == SubSeq(plan.pending, 1, n)
              left == SubSeq(plan.pending, n + 1, Len(plan.pending))
  <1>1. /\ gen = "carve" /\ gen' = "part" /\ plan.pending # <<>>
        /\ queue' = <<[zones |-> zones, depth |-> 0]>>
        /\ plan' = [plan EXCEPT !.pending = left, !.index = plan.index + 1]
        /\ UNCHANGED <<brief, layout, done, todo, request, checkpoint, asked>>
    BY DEF GenCarve, AfterChunk
  <1>2. PlanOK(plan) /\ queue = <<>> /\ Rest(plan, {}) /\ ~ request.open
    BY <1>1, NoQueue DEF GenInv, GenTypeOK, NoneForgotten
  <1>3. ZoneList(plan.pending) /\ plan.rate \in Nat /\ plan.index \in Nat
    BY <1>2 DEF PlanOK, PlanSet
  <1>4. n \in 1 .. Len(plan.pending)
    BY <1>1, <1>3, NextCountFits
  <1>5. Len(plan.pending) \in Nat
    BY <1>3, LenProperties DEF ZoneList
  <1>. HIDE DEF n
  <1>6. /\ ZoneList(zones) /\ ZoneList(left) /\ Len(zones) = n
        /\ IdsIn(plan.pending) = IdsIn(zones) \cup IdsIn(left)
        /\ IdsIn(zones) \cap IdsIn(left) = {}
    <2>1. n \in 0 .. Len(plan.pending)
      BY <1>4, <1>5
    <2> QED BY <1>3, <2>1, CutKeepsZones
  <1>7. zones # <<>>
    BY <1>4, <1>5, <1>6
  <1>. HIDE DEF zones, left
  <1>8. QueueOK(queue') /\ queue' # <<>> /\ QueueIds(queue') = IdsIn(zones)
    BY <1>1, <1>6, <1>7, OnePart
  <1>9. PlanOK(plan') /\ plan'.pending = left /\ plan'.outcome = plan.outcome
    <2>1. plan \in PlanSet /\ left \in Seq(ZoneSet) /\ plan.index + 1 \in Nat
      BY <1>2, <1>3, <1>6 DEF PlanOK, ZoneList
    <2>2. plan' \in PlanSet /\ plan'.pending = left /\ plan'.outcome = plan.outcome
      BY <1>1, <2>1 DEF PlanSet
    <2> QED BY <2>2, <1>6 DEF PlanOK
  <1>10. Rest(plan', QueueIds(queue'))
    BY <1>2, <1>6, <1>8, <1>9 DEF Rest
  <1>11. GenTypeOK'
    BY <1>1, <1>8, <1>9 DEF GenInv, GenTypeOK
  <1>12. NoneForgotten'
    BY <1>1, <1>2, <1>8, <1>9, <1>10 DEF GenInv, NoneForgotten, LostWereAsked
  <1>13. PlannedStays' /\ MergedWhole'
    BY <1>1, <1>9 DEF GenInv, PlannedStays, Extends, MergedWhole, FromWhole
  <1>14. OpeningsThere'
    BY <1>1 DEF GenInv, OpeningsThere
  <1> QED BY <1>11, <1>12, <1>13, <1>14 DEF GenInv

(* A part was answered: the chunk goes on with other parts, or it is saved.            *)
LEMMA GoOnStep ==
  ASSUME GenInv, gen = "part", WithAnswer, NEW p, NEW parts, GoOn(p, parts),
         PlanOK(p), QueueOK(parts), Rest(p, QueueIds(parts)),
         LostWereAsked(p, asked), Extends(p, checkpoint.plan)
  PROVE  GenInv'
  <1>1. /\ plan' = p /\ queue' = parts /\ ~ request'.open /\ request'.open \in BOOLEAN
        /\ UNCHANGED <<brief, layout, done, todo, asked>>
    BY DEF GoOn, WithAnswer, NoCall
  <1>2. \/ parts # <<>> /\ gen' = "part" /\ checkpoint' = checkpoint
        \/ /\ parts = <<>> /\ gen' = "carve"
           /\ checkpoint' = [kind |-> "outline", plan |-> p, layout |-> NoLayout, done |-> {}]
    BY DEF GoOn, Checkpoint
  <1>3. /\ SavedOK(checkpoint') /\ Rest(checkpoint'.plan, {}) /\ LostWereAsked(checkpoint'.plan, asked)
        /\ Extends(p, checkpoint'.plan)
        /\ FromWhole(checkpoint'.layout, checkpoint'.plan, asked)
        /\ Opened(checkpoint'.layout, checkpoint'.done)
    <2>1. CASE checkpoint' = checkpoint
      BY <2>1 DEF GenInv, GenTypeOK, NoneForgotten, MergedWhole, OpeningsThere
    <2>2. CASE /\ parts = <<>>
               /\ checkpoint' = [kind |-> "outline", plan |-> p, layout |-> NoLayout, done |-> {}]
      <3>1. SavedOK(checkpoint')
        BY <2>2, FreshPlanOK DEF SavedOK, SavedSet, PlanOK
      <3>2. Rest(p, {})
        BY <2>2, NoQueue
      <3>3. Extends(p, p) /\ FromWhole(NoLayout, p, asked) /\ Opened(NoLayout, {})
        BY FreshPlanOK DEF Extends, FromWhole, Opened
      <3> QED BY <2>2, <3>1, <3>2, <3>3
    <2> QED BY <1>2, <2>1, <2>2
  <1>4. GenTypeOK'
    BY <1>1, <1>2, <1>3 DEF GenInv, GenTypeOK
  <1>5. NoneForgotten'
    BY <1>1, <1>2, <1>3 DEF NoneForgotten
  <1>6. PlannedStays'
    BY <1>1, <1>2, <1>3 DEF PlannedStays
  <1>7. MergedWhole'
    BY <1>1, <1>2, <1>3 DEF GenInv, MergedWhole, FromWhole
  <1>8. OpeningsThere'
    BY <1>1, <1>2, <1>3 DEF GenInv, OpeningsThere
  <1> QED BY <1>4, <1>5, <1>6, <1>7, <1>8 DEF GenInv

(* What an answer records of the zones that were asked for.                         *)
LEMMA RecordedKeeps ==
  ASSUME GenInv, gen = "part", request.open,
         NEW planned, planned \subseteq IdsOf(Head(queue)), NEW rate \in Nat
  PROVE  LET p == Recorded(planned, rate)
         IN /\ PlanOK(p) /\ QueueOK(Tail(queue)) /\ Rest(p, QueueIds(Tail(queue)))
            /\ LostWereAsked(p, asked) /\ Extends(p, checkpoint.plan)
  <1>. DEFINE p == Recorded(planned, rate)
              mine == IdsOf(Head(queue))
              rest == QueueIds(Tail(queue))
  <1>1. /\ PlanOK(plan) /\ QueueOK(queue) /\ queue # <<>> /\ Rest(plan, QueueIds(queue))
        /\ mine \subseteq asked /\ LostWereAsked(plan, asked) /\ Extends(plan, checkpoint.plan)
    BY DEF GenInv, GenTypeOK, NoneForgotten, PlannedStays
  <1>2. QueueOK(Tail(queue)) /\ QueueIds(queue) = mine \cup rest /\ mine \cap rest = {}
    BY <1>1, QueueParts
  <1>. HIDE DEF mine, rest
  <1>3. /\ p.pending = plan.pending /\ p.rate = rate /\ p.index = plan.index
        /\ p.outcome = [z \in Ids |-> IF z \in planned THEN "planned"
                                       ELSE IF z \in mine THEN "lost" ELSE plan.outcome[z]]
        /\ PlanOK(p)
    BY <1>1 DEF Recorded, PlanOK, PlanSet, mine
  <1>. HIDE DEF p
  <1>4. planned \subseteq mine
    BY DEF mine
  <1>5. Rest(p, rest)
    <2>1. ASSUME NEW z \in Ids
          PROVE  p.outcome[z] = "unasked" <=> z \in IdsIn(p.pending) \cup rest
      <3>1. plan.outcome[z] = "unasked" <=> z \in IdsIn(plan.pending) \cup mine \cup rest
        BY <1>1, <1>2 DEF Rest
      <3>2. z \in mine => z \notin IdsIn(plan.pending) /\ z \notin rest
        BY <1>1, <1>2 DEF Rest
      <3> QED BY <3>1, <3>2, <1>3, <1>4
    <2>2. IdsIn(p.pending) \cap rest = {}
      BY <1>1, <1>2, <1>3 DEF Rest
    <2> QED BY <2>1, <2>2 DEF Rest
  <1>6. LostWereAsked(p, asked)
    BY <1>1, <1>3 DEF LostWereAsked
  <1>7. Extends(p, checkpoint.plan)
    <2>1. ASSUME NEW z \in Ids, checkpoint.plan.outcome[z] = "planned"
          PROVE  p.outcome[z] = "planned"
      <3>1. plan.outcome[z] = "planned"
        BY <1>1, <2>1 DEF Extends
      <3>2. z \notin mine
        BY <3>1, <1>1, <1>2 DEF Rest
      <3> QED BY <3>1, <3>2, <1>3, <1>4
    <2> QED BY <2>1 DEF Extends
  <1> QED BY <1>2, <1>3, <1>5, <1>6, <1>7 DEF p, rest

LEMMA RateIsNumber ==
  ASSUME GenInv, NEW tokens \in Nat, NEW n \in Nat \ {0}
  PROVE  MeasuredRate(tokens, n) \in Nat
  <1>1. plan.rate \in Nat /\ ZoneTokens \in Nat /\ (tokens \div n) + 1 \in Nat
    BY GenAssumption DEF GenInv, GenTypeOK, PlanOK, PlanSet
  <1>. DEFINE k == (tokens \div n) + 1
              all == {plan.rate, ZoneTokens, k}
  <1>. HIDE DEF k
  <1>2. \E x \in all : \A y \in all : x >= y
    <2>1. plan.rate \in Nat /\ ZoneTokens \in Nat /\ k \in Nat
      BY <1>1 DEF k
    <2>2. CASE plan.rate >= ZoneTokens /\ plan.rate >= k
      BY <2>1, <2>2
    <2>3. CASE ZoneTokens >= plan.rate /\ ZoneTokens >= k
      BY <2>1, <2>3
    <2>4. CASE k >= plan.rate /\ k >= ZoneTokens
      BY <2>1, <2>4
    <2> QED BY <2>1, <2>2, <2>3, <2>4
  <1>3. Max(all) \in all
    BY <1>2 DEF Max
  <1> QED BY <1>1, <1>3 DEF MeasuredRate, k

LEMMA PlannedStep ==
  ASSUME GenInv, NEW planned \in SUBSET Ids, NEW tokens \in Answers, GenPlanned(planned, tokens)
  PROVE  GenInv'
  <1>1. gen = "part" /\ WithAnswer /\ request.open /\ planned \subseteq IdsOf(Head(queue))
    BY DEF GenPlanned, WithAnswer
  <1>2. Len(Head(queue).zones) \in Nat \ {0}
    BY <1>1, QueueParts DEF GenInv, GenTypeOK, NoneForgotten
  <1>3. tokens \in Nat
    BY GenAssumption
  <1>4. MeasuredRate(tokens, Len(Head(queue).zones)) \in Nat
    BY <1>2, <1>3, RateIsNumber
  <1> QED BY <1>1, <1>4, RecordedKeeps, GoOnStep DEF GenPlanned

LEMMA PartFailedStep ==
  ASSUME GenInv, GenPartFailed
  PROVE  GenInv'
  <1>1. gen = "part" /\ WithAnswer /\ request.open
    BY DEF GenPartFailed, WithAnswer
  <1>2. plan.rate \in Nat
    BY DEF GenInv, GenTypeOK, PlanOK, PlanSet
  <1> QED BY <1>1, <1>2, RecordedKeeps, GoOnStep DEF GenPartFailed

LEMMA CutStep ==
  ASSUME GenInv, GenCut
  PROVE  GenInv'
  <1>. DEFINE part == Head(queue)
              rate == MeasuredRate(Room, Len(part.zones))
  <1>1. gen = "part" /\ WithAnswer /\ request.open
    BY DEF GenCut, WithAnswer
  <1>2. /\ QueueOK(queue) /\ queue # <<>> /\ PlanOK(plan) /\ Rest(plan, QueueIds(queue))
        /\ LostWereAsked(plan, asked) /\ Extends(plan, checkpoint.plan)
    BY <1>1 DEF GenInv, GenTypeOK, NoneForgotten, PlannedStays
  <1>3. /\ part \in PartSet /\ ZoneList(part.zones) /\ part.zones # <<>>
        /\ Len(part.zones) \in Nat \ {0} /\ QueueOK(Tail(queue))
        /\ QueueIds(queue) = IdsOf(part) \cup QueueIds(Tail(queue))
        /\ IdsOf(part) \cap QueueIds(Tail(queue)) = {}
    BY <1>2, QueueParts
  <1>4. rate \in Nat
    BY <1>3, RateIsNumber, GenAssumption
  <1>5. CASE Halves(part) = <<>>
    <2>1. GoOn(Recorded({}, rate), Tail(queue))
      BY <1>5 DEF GenCut
    <2> QED BY <1>1, <1>4, <2>1, RecordedKeeps, GoOnStep
  <1>6. CASE Halves(part) # <<>>
    <2>. DEFINE p == [plan EXCEPT !.rate = rate]
                parts == Halves(part) \o Tail(queue)
    <2>1. GoOn(p, parts)
      BY <1>6 DEF GenCut
    <2>2. QueueOK(Halves(part)) /\ QueueIds(Halves(part)) = IdsOf(part)
      BY <1>3, <1>6, HalvesKeepZones
    <2>3. QueueOK(parts) /\ QueueIds(parts) = QueueIds(queue)
      BY <1>3, <2>2, JoinedQueues
    <2>. HIDE DEF parts, rate
    <2>4. PlanOK(p) /\ p.outcome = plan.outcome /\ p.pending = plan.pending
      BY <1>2, <1>4 DEF PlanOK, PlanSet
    <2>5. Rest(p, QueueIds(parts)) /\ LostWereAsked(p, asked) /\ Extends(p, checkpoint.plan)
      BY <1>2, <2>3, <2>4 DEF Rest, LostWereAsked, Extends
    <2> QED BY <1>1, <2>1, <2>3, <2>4, <2>5, GoOnStep
  <1> QED BY <1>5, <1>6

(* Without zones that are left, or with no chunk left to ask in, the plan is merged.   *)
LEMMA MergeStep ==
  ASSUME GenInv, NEW flaw \in {"none", "overlap", "other"}, GenMerge(flaw)
  PROVE  GenInv'
  <1>1. /\ gen = "carve" /\ gen' = "layout"
        /\ plan.pending = <<>> \/ plan.index >= MaxChunks
        /\ layout' = [NoLayout EXCEPT !.origin = "plan", !.flaw = flaw]
        /\ UNCHANGED <<brief, plan, queue, done, todo, request, checkpoint, asked>>
    BY DEF GenMerge
  <1>2. PlanOK(plan) /\ queue = <<>> /\ Rest(plan, {}) /\ LostWereAsked(plan, asked) /\ done = {}
    BY <1>1, NoQueue DEF GenInv, GenTypeOK, NoneForgotten, MergedWhole
  <1>3. layout' \in LayoutSet
    BY <1>1 DEF LayoutSet, NoLayout
  <1>4. FromWhole(layout', plan, asked)
    <2>1. CASE plan.index >= MaxChunks
      BY <2>1 DEF FromWhole
    <2>2. CASE plan.pending = <<>>
      <3>1. IdsIn(plan.pending) = {}
        BY <2>2 DEF IdsIn
      <3>2. \A z \in Ids : plan.outcome[z] \in {"planned", "lost"}
        BY <3>1, <1>2 DEF Rest, PlanOK, PlanSet
      <3> QED BY <3>2, <1>2 DEF FromWhole, LostWereAsked
    <2> QED BY <1>1, <2>1, <2>2
  <1>5. GenTypeOK' /\ NoneForgotten'
    BY <1>1, <1>3 DEF GenInv, GenTypeOK, NoneForgotten
  <1>6. PlannedStays' /\ MergedWhole'
    BY <1>1, <1>4 DEF GenInv, PlannedStays, MergedWhole
  <1>7. OpeningsThere'
    BY <1>1, <1>2 DEF GenInv, OpeningsThere, Opened
  <1> QED BY <1>5, <1>6, <1>7 DEF GenInv

(* The later steps: the plan stays, the layout, the openings and what is saved change.   *)
LEMMA LaterStep ==
  ASSUME GenInv,
         gen \in {"layout", "relayout", "shift", "details", "correct", "review"},
         gen' \in {"layout", "relayout", "shift", "details", "correct", "review", "delivered"},
         UNCHANGED <<brief, plan, queue, asked>>, request'.open \in BOOLEAN,
         layout' \in LayoutSet, done' \subseteq Groups, todo' \subseteq Groups,
         layout'.origin # "plan" \/ layout'.origin = layout.origin,
         checkpoint' = checkpoint
           \/ /\ checkpoint'.kind \in {"layout", "details"} /\ checkpoint' \in SavedSet
              /\ checkpoint'.plan = plan /\ checkpoint'.layout = layout'
              /\ Opened(layout', checkpoint'.done),
         Opened(layout', done'),
         gen' = "details" => todo' = Groups \ done' /\ checkpoint'.done = done',
         gen' = "correct" => done' = Groups,
         gen' \in {"details", "correct"} => brief.residential /\ layout'.flaw = "none",
         gen' = "relayout" => brief.residential,
         gen' = "shift" => ~ brief.residential,
         gen' \in {"review", "delivered"} /\ brief.residential =>
           layout'.flaw = "none" /\ done' = Groups /\ ~ Findings'
  PROVE  GenInv'
  <1>1. /\ PlanOK(plan) /\ queue = <<>> /\ Rest(plan, {}) /\ LostWereAsked(plan, asked)
        /\ FromWhole(layout, plan, asked)
    BY NoQueue DEF GenInv, GenTypeOK, NoneForgotten, MergedWhole
  <1>2. FromWhole(layout', plan, asked)
    BY <1>1 DEF FromWhole
  <1>3. /\ SavedOK(checkpoint') /\ Rest(checkpoint'.plan, {}) /\ LostWereAsked(checkpoint'.plan, asked)
        /\ FromWhole(checkpoint'.layout, checkpoint'.plan, asked)
        /\ Opened(checkpoint'.layout, checkpoint'.done)
    <2>1. CASE checkpoint' = checkpoint
      BY <2>1 DEF GenInv, GenTypeOK, NoneForgotten, MergedWhole, OpeningsThere
    <2>2. CASE checkpoint' # checkpoint
      <3>1. /\ checkpoint'.kind \in {"layout", "details"} /\ checkpoint' \in SavedSet
            /\ checkpoint'.plan = plan /\ checkpoint'.layout = layout'
            /\ Opened(layout', checkpoint'.done)
        BY <2>2
      <3>2. SavedOK(checkpoint')
        BY <3>1, <1>1 DEF SavedOK
      <3> QED BY <3>1, <3>2, <1>1, <1>2
    <2> QED BY <2>1, <2>2
  <1>4. GenTypeOK'
    BY <1>3 DEF GenInv, GenTypeOK
  <1>5. NoneForgotten' /\ PlannedStays'
    BY <1>1, <1>3, NoQueue DEF NoneForgotten, PlannedStays
  <1>6. MergedWhole'
    BY <1>2, <1>3 DEF MergedWhole
  <1>7. OpeningsThere'
    BY <1>3 DEF OpeningsThere
  <1> QED BY <1>4, <1>5, <1>6, <1>7 DEF GenInv

LEMMA Basics ==
  ASSUME GenInv
  PROVE  /\ layout \in LayoutSet /\ done \subseteq Groups /\ todo \subseteq Groups /\ plan \in PlanSet
         /\ request.open \in BOOLEAN /\ Opened(layout, done) /\ brief \in Briefs
         /\ brief.residential \in BOOLEAN
  BY GenAssumption DEF GenInv, GenTypeOK, PlanOK, OpeningsThere

LEMMA NoCallIsClosed == NoCall.open = FALSE
  BY DEF NoCall

LEMMA LayoutStep ==
  ASSUME GenInv, GenLayoutSound \/ GenLayoutFlawed \/ GenRelaid
  PROVE  GenInv'
  <1>1. CASE GenLayoutSound
    <2>1. /\ gen = "layout" /\ gen' = "details" /\ brief.residential /\ layout.flaw = "none"
          /\ todo' = Groups \ done
          /\ checkpoint' = [kind |-> "details", plan |-> plan, layout |-> layout, done |-> done]
          /\ UNCHANGED <<brief, plan, queue, layout, done, request, asked>>
      BY <1>1 DEF GenLayoutSound, Checkpoint
    <2>2. checkpoint' \in SavedSet
      BY <2>1, Basics DEF SavedSet
    <2> QED BY <2>1, <2>2, Basics, LaterStep
  <1>2. CASE GenLayoutFlawed
    <2>1. /\ gen = "layout" /\ gen' = "relayout" /\ brief.residential
          /\ checkpoint' = [kind |-> "layout", plan |-> plan, layout |-> layout, done |-> {}]
          /\ UNCHANGED <<brief, plan, queue, layout, done, todo, request, asked>>
      BY <1>2 DEF GenLayoutFlawed, Checkpoint
    <2>2. checkpoint' \in SavedSet /\ Opened(layout, {})
      BY <2>1, Basics DEF SavedSet, Opened
    <2> QED BY <2>1, <2>2, Basics, LaterStep
  <1>3. CASE GenRelaid
    <2>1. /\ gen = "relayout" /\ gen' = "layout" /\ done' = {} /\ request'.open \in BOOLEAN
          /\ layout' = [NoLayout EXCEPT !.origin = "corrected"]
          /\ checkpoint' = [kind |-> "layout", plan |-> plan, layout |-> layout', done |-> {}]
          /\ UNCHANGED <<brief, plan, queue, todo, asked>>
      BY <1>3 DEF GenRelaid, Checkpoint, WithAnswer, NoCall
    <2>2. layout' \in LayoutSet /\ layout'.origin = "corrected" /\ Opened(layout', {})
      BY <2>1 DEF LayoutSet, NoLayout, Opened
    <2>3. checkpoint' \in SavedSet
      BY <2>1, <2>2, Basics DEF SavedSet
    <2> QED BY <2>1, <2>2, <2>3, Basics, LaterStep
  <1> QED BY <1>1, <1>2, <1>3

LEMMA PositionStep ==
  ASSUME GenInv, GenPositions \/ GenShifted
  PROVE  GenInv'
  <1>1. ~ brief.residential
    BY DEF GenPositions, GenShifted, GenInv, OpeningsThere
  <1>2. /\ gen \in {"layout", "shift"} /\ gen' \in {"review", "shift"}
        /\ layout' \in {layout, [layout EXCEPT !.flaw = "none"]}
        /\ request' \in {request, NoCall}
        /\ UNCHANGED <<brief, plan, queue, done, todo, checkpoint, asked>>
    BY DEF GenPositions, GenShifted, WithAnswer
  <1>3. layout' \in LayoutSet /\ layout'.origin = layout.origin /\ layout'.openings = layout.openings
    BY <1>2, Basics DEF LayoutSet
  <1>4. Opened(layout', done')
    BY <1>2, <1>3, Basics DEF Opened
  <1>5. request'.open \in BOOLEAN
    BY <1>2, Basics, NoCallIsClosed
  <1> QED BY <1>1, <1>2, <1>3, <1>4, <1>5, Basics, LaterStep

(* The openings of one group are written, the group is noted and both are saved.        *)
LEMMA DetailedStep ==
  ASSUME GenInv, NEW quality \in {"good", "bad"}, GenDetailed(quality)
  PROVE  GenInv'
  <1>. DEFINE g == Min(todo)
  <1>1. /\ gen \in {"details", "correct"} /\ gen' = gen /\ todo # {} /\ request'.open \in BOOLEAN
        /\ layout' = [layout EXCEPT !.openings[g] = quality]
        /\ done' = done \cup {g} /\ todo' = todo \ {g}
        /\ checkpoint' = [kind |-> "details", plan |-> plan, layout |-> layout', done |-> done']
        /\ UNCHANGED <<brief, plan, queue, asked>>
    BY DEF GenDetailed, WithAnswer, NoCall, Checkpoint
  <1>2. g \in todo /\ g \in Groups
    BY <1>1, LeastExists, Basics, GenAssumption
  <1>. HIDE DEF g
  <1>3. /\ layout' \in LayoutSet /\ layout'.origin = layout.origin /\ layout'.flaw = layout.flaw
        /\ layout'.openings = [layout.openings EXCEPT ![g] = quality]
    BY <1>1, <1>2, Basics DEF LayoutSet
  <1>4. Opened(layout', done')
    BY <1>1, <1>2, <1>3, Basics DEF Opened, LayoutSet
  <1>5. done' \subseteq Groups /\ todo' \subseteq Groups /\ checkpoint' \in SavedSet
    BY <1>1, <1>2, <1>3, Basics DEF SavedSet
  <1>6. /\ brief.residential /\ layout'.flaw = "none"
        /\ gen' = "details" => todo' = Groups \ done'
        /\ gen' = "correct" => done' = Groups
    BY <1>1, <1>2, <1>3 DEF GenInv, OpeningsThere
  <1>7. checkpoint'.kind = "details" /\ checkpoint'.plan = plan /\ checkpoint'.layout = layout'
        /\ checkpoint'.done = done'
    BY <1>1
  <1> QED BY <1>1, <1>3, <1>4, <1>5, <1>6, <1>7, LaterStep

LEMMA CheckedStep ==
  ASSUME GenInv, NEW affected \in SUBSET Groups, GenChecked(affected)
  PROVE  GenInv'
  <1>1. /\ gen \in {"details", "correct"} /\ todo = {} /\ todo' \subseteq Groups
        /\ \/ gen' = "review" /\ ~ Findings
           \/ gen' = "correct"
        /\ UNCHANGED <<brief, plan, queue, layout, done, request, checkpoint, asked>>
    BY DEF GenChecked
  <1>2. brief.residential /\ layout.flaw = "none" /\ done = Groups
    BY <1>1, Basics DEF GenInv, OpeningsThere
  <1>3. Findings' = Findings
    BY <1>1 DEF Findings
  <1> QED BY <1>1, <1>2, <1>3, Basics, LaterStep

LEMMA IncompleteStep ==
  ASSUME GenInv, GenIncomplete
  PROVE  GenInv'
  <1>1. /\ gen \in {"relayout", "details", "correct"} /\ gen' = "review" /\ request' \in {request, NoCall}
        /\ layout' = [origin |-> "calculated", flaw |-> "none", openings |-> [g \in Groups |-> "good"]]
        /\ done' = Groups /\ todo' = {}
        /\ checkpoint' = [kind |-> "details", plan |-> plan, layout |-> layout', done |-> Groups]
        /\ UNCHANGED <<brief, plan, queue, asked>>
    BY DEF GenIncomplete, WithAnswer, Checkpoint
  <1>2. /\ layout' \in LayoutSet /\ layout'.origin = "calculated" /\ layout'.flaw = "none"
        /\ Opened(layout', Groups)
    BY <1>1 DEF LayoutSet, Opened
  <1>3. ~ Findings'
    BY <1>1 DEF Findings
  <1>4. checkpoint' \in SavedSet
    BY <1>1, <1>2, Basics DEF SavedSet
  <1>5. request'.open \in BOOLEAN
    BY <1>1, Basics, NoCallIsClosed
  <1> QED BY <1>1, <1>2, <1>3, <1>4, <1>5, LaterStep

LEMMA DeliverStep ==
  ASSUME GenInv, GenDeliver
  PROVE  GenInv'
  <1>1. /\ gen = "review" /\ gen' = "delivered" /\ Findings' = Findings
        /\ UNCHANGED <<brief, plan, queue, layout, done, todo, request, checkpoint, asked>>
    BY DEF GenDeliver, Findings
  <1>2. brief.residential => layout.flaw = "none" /\ done = Groups /\ ~ Findings
    BY <1>1 DEF GenInv, OpeningsThere
  <1> QED BY <1>1, <1>2, Basics, LaterStep

LEMMA GenStutterStep ==
  ASSUME GenInv, UNCHANGED genVars
  PROVE  GenInv'
  BY DEF genVars, GenInv, GenTypeOK, NoneForgotten, LostWereAsked, PlannedStays, MergedWhole,
         FromWhole, OpeningsThere, Findings

LEMMA GenNextInv == GenInv /\ [GenNext]_genVars => GenInv'
  <1>1. SUFFICES ASSUME GenInv, GenNext PROVE GenInv'
    BY GenStutterStep
  <1>2. CASE GenStart \/ GenStop \/ GenAsk \/ GenOutline \/ GenCarve \/ GenCut \/ GenPartFailed
    BY <1>1, <1>2, StartStep, StopStep, AskStep, OutlineStep, CarveStep, CutStep, PartFailedStep
  <1>3. CASE \E error \in BOOLEAN : GenRetry(error) \/ GenFallBack(error)
    BY <1>1, <1>3, AgainStep
  <1>4. CASE \E planned \in SUBSET Ids, tokens \in Answers : GenPlanned(planned, tokens)
    BY <1>1, <1>4, PlannedStep
  <1>5. CASE \E flaw \in {"none", "overlap", "other"} : GenMerge(flaw)
    BY <1>1, <1>5, MergeStep
  <1>6. CASE GenLayoutSound \/ GenLayoutFlawed \/ GenRelaid \/ GenPositions \/ GenShifted
    BY <1>1, <1>6, LayoutStep, PositionStep
  <1>7. CASE \E quality \in {"good", "bad"} : GenDetailed(quality)
    BY <1>1, <1>7, DetailedStep
  <1>8. CASE \E affected \in SUBSET Groups : GenChecked(affected)
    BY <1>1, <1>8, CheckedStep
  <1>9. CASE GenIncomplete \/ GenDeliver
    BY <1>1, <1>9, IncompleteStep, DeliverStep
  <1> QED BY <1>1, <1>2, <1>3, <1>4, <1>5, <1>6, <1>7, <1>8, <1>9 DEF GenNext

(* The plan, its queue, its layout and what is saved are well formed, and every zone is     *)
(* in exactly one place, whatever workers of a job do (_plan_bounded, next_chunk,       *)
(* split_chunk, validate_chunk).                                                *)
THEOREM GenerationInvariant == GenSpec => []GenInv
  BY GenInitInv, GenNextInv, PTL DEF GenSpec

(* No zone is forgotten between chunks, halves, crashes and resumed workers, and a home     *)
(* is delivered with a sound layout and openings that are there (merge_plan, detail).   *)
THEOREM DeliveredPlansAreWhole == GenSpec => []DeliveredIsWhole
  <1>1. GenInv => DeliveredIsWhole
    <2>1. SUFFICES ASSUME GenInv PROVE DeliveredIsWhole
      OBVIOUS
    <2>2. FromWhole(layout, plan, asked)
      BY <2>1 DEF GenInv, MergedWhole
    <2>3. gen = "delivered" /\ brief.residential =>
            layout.flaw = "none" /\ (\A g \in Groups : layout.openings[g] # "none") /\ ~ Findings
      BY <2>1 DEF GenInv, OpeningsThere, Opened
    <2> QED BY <2>2, <2>3 DEF DeliveredIsWhole, FromWhole
  <1> QED BY <1>1, GenerationInvariant, PTL

(* What is saved is never asked for again: neither a zone that has its geometry, nor an     *)
(* outline that is known, nor openings that are there (_plan_bounded, detail).           *)
THEOREM SavedIsNotPaidAgain == GenSpec => []NothingPaidTwice
  <1>1. GenInv => NothingPaidTwice
    <2>1. SUFFICES ASSUME GenInv PROVE NothingPaidTwice
      OBVIOUS
    <2>2. ASSUME gen = "part", NEW i \in DOMAIN queue, NEW z \in IdsOf(queue[i])
          PROVE  plan.outcome[z] = "unasked" /\ checkpoint.plan.outcome[z] # "planned"
      <3>1. QueueOK(queue) /\ Rest(plan, QueueIds(queue)) /\ Extends(plan, checkpoint.plan)
        BY <2>1, <2>2 DEF GenInv, GenTypeOK, NoneForgotten, PlannedStays
      <3>2. z \in QueueIds(queue)
        BY <2>2 DEF QueueIds
      <3>3. z \in Ids
        BY <3>1, <3>2, QueuedAreZones
      <3> QED BY <3>1, <3>2, <3>3 DEF Rest, Extends
    <2>3. /\ gen = "outline" => checkpoint.kind = "start"
          /\ gen = "details" => todo \cap checkpoint.done = {}
      BY <2>1 DEF GenInv, PlannedStays, OpeningsThere
    <2> QED BY <2>2, <2>3 DEF NothingPaidTwice
  <1> QED BY <1>1, GenerationInvariant, PTL

=============================================================================

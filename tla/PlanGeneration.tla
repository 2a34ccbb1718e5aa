--------------------------- MODULE PlanGeneration ------------------------------
(***************************************************************************)
(* The isolated worker that drafts a plan with a bounded number of requests to a   *)
(* provider.  It outlines the zones, plans them chunk by chunk, halves a chunk      *)
(* whose answer was cut, merges, corrects the layout once and, for homes, proposes   *)
(* openings group by group and corrects them once.  What is paid for is saved as a       *)
(* checkpoint after each whole chunk and each group; a job that ended can be resumed   *)
(* from it by a new worker with a new ceiling.  Geometry is abstract: a layout has a   *)
(* flaw or none, a group's openings pass the checks or do not.                       *)
(***************************************************************************)
EXTENDS Integers, Sequences, FiniteSets, FiniteSetsExt

CONSTANTS
  Outline,          (* the named zones of the building, with their templates   *)
  Briefs,           (* the kinds of request: whether it is a home, its programme is   *)
                    (* explicit, it has apartments, a calculated layout and a second   *)
                    (* provider exist                                          *)
  Room, SafeRoom,   (* tokens an answer may have; those a chunk is sized for     *)
  ZoneTokens,       (* tokens a zone is estimated to take                      *)
  Tolerance,        (* how often more it may take without a pilot chunk          *)
  MinZones, MaxZones, MaxSplits, MaxChunks,
  Answers,          (* bound: tokens of the complete answers to a chunk          *)
  Groups,           (* the groups of rooms whose openings are one request, numbered   *)
  Ceilings,         (* bound: the ceilings on requests that users choose         *)
  MaxStarts         (* bound: workers of one job and of those that resume it      *)

ASSUME GenAssumption ==
  /\ DOMAIN Outline = 1 .. Len(Outline) /\ Len(Outline) \in Nat
  /\ {Room, SafeRoom, ZoneTokens, Tolerance, MinZones, MaxZones} \subseteq Nat \ {0}
  /\ MaxSplits \in Nat /\ MaxChunks \in Nat
  /\ Answers \subseteq 0 .. Room /\ Groups \subseteq Nat
  /\ \A b \in Briefs : \A f \in {"residential", "manifest", "units", "calculated", "backup"} :
       b[f] \in BOOLEAN

VARIABLES
  gen,              (* what the worker does: "idle" without one               *)
  brief,            (* the kind of request                                    *)
  plan,             (* outcome of each zone, zones left, rate, chunks cut        *)
  queue,            (* the chunk being planned, or what is left of its halves     *)
  layout,           (* the merged plan: its origin, flaw and openings            *)
  done, todo,       (* groups with openings; groups to ask for                  *)
  request,          (* the request that waits for its answer                    *)
  spent, limit,     (* requests spent, also by earlier workers, and the ceiling   *)
  checkpoint,       (* what was saved last                                    *)
  asked,            (* zones any worker has asked for                          *)
  starts

genVars == <<gen, brief, plan, queue, layout, done, todo, request, spent, limit, checkpoint, asked, starts>>

-----------------------------------------------------------------------------
(* Zones and chunks.  A name that comes again is told apart by its count, so an   *)
(* identifier is a name and a number.                                          *)

Zones ==
  [i \in DOMAIN Outline |->
    [id |-> <<Outline[i].name,
              Cardinality({j \in 1 .. i : Outline[j].name = Outline[i].name})>>,
     template |-> Outline[i].template]]

Ids == {Zones[i].id : i \in DOMAIN Zones}

First(i) == Min({j \in DOMAIN Zones : Zones[j].template = Zones[i].template})

(* Zones of one template together, templates as they first appear.              *)
Before(i, j) == First(i) < First(j) \/ (First(i) = First(j) /\ i < j)

Turn(i) == Cardinality({j \in DOMAIN Zones : j = i \/ Before(j, i)})

Grouped == [k \in DOMAIN Zones |-> Zones[CHOOSE i \in DOMAIN Zones : Turn(i) = k]]

ChunkSize(rate) ==
  Max({MinZones, Min({MaxZones, SafeRoom \div (IF rate = 0 THEN ZoneTokens ELSE rate)})})

NeedsPilot(n) == n * ZoneTokens * Tolerance > Room

(* Zones the next chunk takes: never of two templates; few when nothing was          *)
(* measured yet and a wordy answer could be cut.                                 *)
NextCount(pending, rate) ==
  LET run == Max({n \in DOMAIN pending :
                    \A i \in 1 .. n : pending[i].template = pending[1].template})
      size == ChunkSize(rate)
  IN IF rate = 0 /\ NeedsPilot(Min({run, size}))
     THEN Min({run, size, MinZones})
     ELSE Min({run, size})

AfterChunk(pending, rate) == SubSeq(pending, NextCount(pending, rate) + 1, Len(pending))

(* Tokens are taken for content: the rate only ever grows.                      *)
MeasuredRate(tokens, n) == Max({plan.rate, ZoneTokens, (tokens \div n) + 1})

Halves(part) ==
  LET mid == Len(part.zones) \div 2
      half(zones) == [zones |-> zones, depth |-> part.depth + 1]
  IN IF Len(part.zones) <= MinZones \/ part.depth >= MaxSplits
     THEN <<>>
     ELSE <<half(SubSeq(part.zones, 1, mid)),
            half(SubSeq(part.zones, mid + 1, Len(part.zones)))>>

IdsOf(part) == {part.zones[i].id : i \in DOMAIN part.zones}

-----------------------------------------------------------------------------
NoCall   == [left |-> 0, erred |-> FALSE, backup |-> FALSE, open |-> FALSE]
NoLayout == [origin |-> "none", flaw |-> "none", openings |-> [g \in Groups |-> "none"]]

FreshPlan ==
  [outcome |-> [z \in Ids |-> "unasked"], pending |-> Grouped, rate |-> 0, index |-> 0]

(* In the checkpoint of a layout the plan it came from is kept for the properties.   *)
Checkpoint(kind, p, l, d) == [kind |-> kind, plan |-> p, layout |-> l, done |-> d]

GenInit ==
  /\ gen = "idle"
  /\ brief \in Briefs
  /\ plan = FreshPlan /\ queue = <<>>
  /\ layout = NoLayout /\ done = {} /\ todo = {}
  /\ request = NoCall
  /\ spent = 0 /\ limit = 0
  /\ checkpoint = Checkpoint("start", FreshPlan, NoLayout, {})
  /\ asked = {} /\ starts = 0

(* A worker starts from the last checkpoint; a residential programme that is        *)
(* explicit enough is outlined without the provider.                            *)
(* Slip: a resumed job plans every zone again.                                 *)
ResumedAfresh == [checkpoint.plan EXCEPT !.pending = Grouped]

Resumed == checkpoint.plan

GenStart ==
  /\ gen = "idle" /\ starts < MaxStarts
  /\ starts' = starts + 1
  /\ limit' \in {n \in Ceilings : n > spent}
  /\ plan' = Resumed
  /\ layout' = checkpoint.layout /\ done' = checkpoint.done
  /\ gen' = CASE checkpoint.kind = "outline" -> "carve"
              [] checkpoint.kind \in {"layout", "details"} -> "layout"
              [] OTHER -> IF brief.residential /\ brief.manifest THEN "carve" ELSE "outline"
  /\ checkpoint' = IF gen' = "carve" THEN Checkpoint("outline", plan', NoLayout, {}) ELSE checkpoint
  /\ UNCHANGED <<brief, queue, todo, request, spent, asked>>

(* An error that is not handled, the ceiling on requests, the deadline or a crash   *)
(* end the worker; what it had not saved is lost.                                    *)
GenStop ==
  /\ gen \notin {"idle", "delivered"}
  /\ gen' = "idle"
  /\ plan' = FreshPlan /\ queue' = <<>>
  /\ layout' = NoLayout /\ done' = {} /\ todo' = {}
  /\ request' = NoCall /\ limit' = 0
  /\ UNCHANGED <<brief, spent, checkpoint, asked, starts>>

-----------------------------------------------------------------------------
(* One call to the provider: up to two requests, and as many to the other provider    *)
(* when the first was unavailable.  Each is counted, durably, before it is sent.     *)

Calling ==
  \/ gen \in {"outline", "part", "relayout", "shift"}
  \/ gen \in {"details", "correct"} /\ todo # {}

Send(erred, backup, left) ==
  /\ spent < limit /\ spent' = spent + 1
  /\ request' = [left |-> left, erred |-> erred, backup |-> backup, open |-> TRUE]

GenAsk ==
  /\ Calling /\ ~ request.open
  /\ Send(FALSE, FALSE, 1)
  /\ asked' = IF gen = "part" THEN asked \cup IdsOf(Head(queue)) ELSE asked
  /\ UNCHANGED <<gen, brief, plan, queue, layout, done, todo, limit, checkpoint, starts>>

(* An answer without text, or an error that may pass: once more, with other settings.  *)
GenRetry(error) ==
  /\ request.open /\ request.left > 0
  /\ Send(request.erred \/ error, request.backup, request.left - 1)
  /\ UNCHANGED <<gen, brief, plan, queue, layout, done, todo, limit, checkpoint, asked, starts>>

(* The provider was unavailable, also when its second request would have been the first  *)
(* one again and was not sent: the other one, if there is one, and no third.          *)
GenFallBack(error) ==
  /\ request.open /\ (request.erred \/ error)
  /\ brief.backup /\ ~ request.backup
  /\ Send(FALSE, TRUE, 1)
  /\ UNCHANGED <<gen, brief, plan, queue, layout, done, todo, limit, checkpoint, asked, starts>>

(* Text, complete or not, ends the call; so does the last answer without any.       *)
WithAnswer == request.open /\ request' = NoCall

-----------------------------------------------------------------------------
(* The outline and the chunks.                                                *)

GenOutline ==
  /\ gen = "outline" /\ WithAnswer
  /\ gen' = "carve"
  /\ checkpoint' = Checkpoint("outline", plan, NoLayout, {})
  /\ UNCHANGED <<brief, plan, queue, layout, done, todo, spent, limit, asked, starts>>

GenCarve ==
  /\ gen = "carve"
  /\ plan.pending # <<>> /\ plan.index < MaxChunks
  /\ gen' = "part"
  /\ queue' = <<[zones |-> SubSeq(plan.pending, 1, NextCount(plan.pending, plan.rate)),
                 depth |-> 0]>>
  /\ plan' = [plan EXCEPT !.pending = AfterChunk(plan.pending, plan.rate),
                          !.index = plan.index + 1]
  /\ UNCHANGED <<brief, layout, done, todo, request, spent, limit, checkpoint, asked, starts>>

(* The chunk goes on with these parts; after the last one it is saved.                 *)
GoOn(p, parts) ==
  /\ plan' = p /\ queue' = parts
  /\ gen' = IF parts = <<>> THEN "carve" ELSE "part"
  /\ checkpoint' = IF parts = <<>> THEN Checkpoint("outline", p, NoLayout, {}) ELSE checkpoint
  /\ UNCHANGED <<brief, layout, done, todo, spent, limit, asked, starts>>

Recorded(planned, rate) ==
  [plan EXCEPT !.rate = rate,
     !.outcome = [z \in Ids |-> IF z \in planned THEN "planned"
                                ELSE IF z \in IdsOf(Head(queue)) THEN "lost"
                                ELSE plan.outcome[z]]]

(* Valid rooms of zones that were asked for are kept, the other zones are lost.     *)
GenPlanned(planned, tokens) ==
  /\ gen = "part" /\ WithAnswer
  /\ planned \subseteq IdsOf(Head(queue))
  /\ GoOn(Recorded(planned, MeasuredRate(tokens, Len(Head(queue).zones))), Tail(queue))

(* The answer was cut at the ceiling: the halves are asked for instead.            *)
GenCut ==
  /\ gen = "part" /\ WithAnswer
  /\ LET rate == MeasuredRate(Room, Len(Head(queue).zones))
         halves == Halves(Head(queue))
     IN IF halves = <<>>
        THEN GoOn(Recorded({}, rate), Tail(queue))
        ELSE GoOn([plan EXCEPT !.rate = rate], halves \o Tail(queue))

(* Any other failure loses the zones of this part only.                          *)
GenPartFailed ==
  /\ gen = "part" /\ WithAnswer
  /\ GoOn(Recorded({}, plan.rate), Tail(queue))

Planned == {z \in Ids : plan.outcome[z] = "planned"}

(* A zone without geometry is given a rectangle, which is a flaw.                 *)
GenMerge(flaw) ==
  /\ gen = "carve"
  /\ plan.pending = <<>> \/ plan.index >= MaxChunks
  /\ Planned # Ids => flaw = "other"
  /\ gen' = "layout"
  /\ layout' = [NoLayout EXCEPT !.origin = "plan", !.flaw = flaw]
  /\ UNCHANGED <<brief, plan, queue, done, todo, request, spent, limit, checkpoint, asked, starts>>

-----------------------------------------------------------------------------
(* The layout: one correction by the provider, for homes, or new positions.         *)

GenLayoutSound ==
  /\ gen = "layout" /\ brief.residential /\ layout.flaw = "none"
  /\ gen' = "details" /\ todo' = Groups \ done
  /\ checkpoint' = Checkpoint("details", plan, layout, done)
  /\ UNCHANGED <<brief, plan, queue, layout, done, request, spent, limit, asked, starts>>

GenLayoutFlawed ==
  /\ gen = "layout" /\ brief.residential /\ layout.flaw # "none"
  /\ gen' = "relayout"
  /\ checkpoint' = Checkpoint("layout", plan, layout, {})
  /\ UNCHANGED <<brief, plan, queue, layout, done, todo, request, spent, limit, asked, starts>>

GenRelaid ==
  /\ gen = "relayout" /\ WithAnswer
  /\ gen' = "layout"
  /\ layout' = [NoLayout EXCEPT !.origin = "corrected"] /\ done' = {}
  /\ checkpoint' = Checkpoint("layout", plan, layout', {})
  /\ UNCHANGED <<brief, plan, queue, todo, spent, limit, asked, starts>>

(* Positions found without the provider, or none needed, or none allowed.           *)
GenPositions ==
  /\ gen = "layout" /\ ~ brief.residential
  /\ \/ gen' = "review" /\ UNCHANGED layout
     \/ /\ layout.flaw = "overlap"
        /\ gen' = "review" /\ layout' = [layout EXCEPT !.flaw = "none"]
     \/ /\ layout.flaw = "overlap" /\ spent < limit
        /\ gen' = "shift" /\ UNCHANGED layout
  /\ UNCHANGED <<brief, plan, queue, done, todo, request, spent, limit, checkpoint, asked, starts>>

GenShifted ==
  /\ gen = "shift" /\ WithAnswer
  /\ gen' = "review"
  /\ layout' \in {layout, [layout EXCEPT !.flaw = "none"]}
  /\ UNCHANGED <<brief, plan, queue, done, todo, spent, limit, checkpoint, asked, starts>>

-----------------------------------------------------------------------------
(* The openings of homes.                                                    *)

(* Slip: the checkpoint is taken before the openings are in the rooms.              *)
GenDetailedUnsaved(quality) ==
  /\ gen \in {"details", "correct"} /\ WithAnswer
  /\ todo # {}
  /\ layout' = [layout EXCEPT !.openings[Min(todo)] = quality]
  /\ done' = done \cup {Min(todo)} /\ todo' = todo \ {Min(todo)}
  /\ checkpoint' = Checkpoint("details", plan, layout, done')
  /\ UNCHANGED <<gen, brief, plan, queue, spent, limit, asked, starts>>

GenDetailed(quality) ==
  /\ gen \in {"details", "correct"} /\ WithAnswer
  /\ todo # {}
  /\ layout' = [layout EXCEPT !.openings[Min(todo)] = quality]
  /\ done' = done \cup {Min(todo)} /\ todo' = todo \ {Min(todo)}
  /\ checkpoint' = Checkpoint("details", plan, layout', done')
  /\ UNCHANGED <<gen, brief, plan, queue, spent, limit, asked, starts>>

Findings == brief.units /\ \E g \in Groups : layout.openings[g] # "good"

(* All groups are there: those the findings are about are asked for once more.       *)
GenChecked(affected) ==
  /\ gen \in {"details", "correct"} /\ todo = {}
  /\ \/ /\ ~ Findings
        /\ gen' = "review" /\ UNCHANGED todo
     \/ /\ Findings /\ gen = "details"
        /\ {g \in Groups : layout.openings[g] # "good"} \subseteq affected
        /\ gen' = "correct" /\ todo' = affected
  /\ UNCHANGED <<brief, plan, queue, layout, done, request, spent, limit, checkpoint, asked, starts>>

(* The correction did not help, or an answer is incomplete: a calculated layout        *)
(* takes its place, openings and all, where the programme allows one.               *)
GenIncomplete ==
  /\ brief.residential /\ brief.calculated
  /\ \/ gen = "relayout" /\ WithAnswer
     \/ gen \in {"details", "correct"} /\ todo # {} /\ WithAnswer
     \/ gen = "correct" /\ todo = {} /\ Findings /\ UNCHANGED request
  /\ gen' = "review"
  /\ layout' = [origin |-> "calculated", flaw |-> "none", openings |-> [g \in Groups |-> "good"]]
  /\ done' = Groups /\ todo' = {}
  /\ checkpoint' = Checkpoint("details", plan, layout', Groups)
  /\ UNCHANGED <<brief, plan, queue, spent, limit, asked, starts>>

GenDeliver ==
  /\ gen = "review" /\ gen' = "delivered"
  /\ UNCHANGED <<brief, plan, queue, layout, done, todo, request, spent, limit, checkpoint, asked, starts>>

GenNext ==
  \/ GenStart \/ GenStop \/ GenAsk \/ GenOutline \/ GenCarve \/ GenCut \/ GenPartFailed
  \/ \E error \in BOOLEAN : GenRetry(error) \/ GenFallBack(error)
  \/ \E planned \in SUBSET Ids, tokens \in Answers : GenPlanned(planned, tokens)
  \/ \E flaw \in {"none", "overlap", "other"} : GenMerge(flaw)
  \/ GenLayoutSound \/ GenLayoutFlawed \/ GenRelaid \/ GenPositions \/ GenShifted
  \/ \E quality \in {"good", "bad"} : GenDetailed(quality)
  \/ \E affected \in SUBSET Groups : GenChecked(affected)
  \/ GenIncomplete \/ GenDeliver

GenSpec == GenInit /\ [][GenNext]_genVars

-----------------------------------------------------------------------------
(* A plan is delivered whole.  No zone is forgotten between chunks, halves, crashes and   *)
(* resumed workers: one without geometry in a merged plan was asked for and not answered, *)
(* unless the number of chunks reached its cap ("a zone the client asked for is never      *)
(* dropped", next_chunk, split_chunk, save_layout).  A home is delivered with a sound      *)
(* layout and openings for every group of that layout, that pass the checks where there    *)
(* are apartments, whichever worker proposed which (detail, its checkpoints, the fallback). *)
DeliveredIsWhole ==
  /\ layout.origin = "plan" =>
       \A z \in Ids : plan.outcome[z] # "planned" => z \in asked \/ plan.index >= MaxChunks
  /\ (gen = "delivered" /\ brief.residential) =>
       /\ layout.flaw = "none"
       /\ \A g \in Groups : layout.openings[g] # "none"
       /\ ~ Findings

(* What is saved is not paid for again: no worker asks for a zone that has its            *)
(* geometry, for an outline that is known or, before the corrective pass, for openings    *)
(* that are there (the checkpoints of _plan_bounded and detail).                       *)
NothingPaidTwice ==
  /\ gen = "outline" => checkpoint.kind = "start"
  /\ gen = "part" => \A i \in DOMAIN queue : \A z \in IdsOf(queue[i]) :
                       plan.outcome[z] = "unasked" /\ checkpoint.plan.outcome[z] # "planned"
  /\ gen = "details" => todo \cap checkpoint.done = {}

=============================================================================

----------------------------- MODULE MCServices -------------------------------
(* The services that keep no state in common, side by side: in one behaviour one  *)
(* of them moves, since steps of two that share nothing only multiply states.      *)
EXTENDS AuthoringSafety, CpuPool, GenerationRunner, RateLimit, RateCheck, PlanSources,
        PlanGeneration, LocalProject, RuleResults

CONSTANTS a, b, c, t1, t2,          (* a building                           *)
          u1, u2, u3, u4,           (* calls, requests, uploads               *)
          h1, d1, d2, g             (* keys of the rate limiter               *)

VARIABLE focus                      (* the service that moves                *)

servicesVars ==
  <<focus, authoringVars, cpuVars, runVars, rateVars, checkVars, sourceVars,
    genVars, localVars, packVars, resultVars>>

Only(service, one, others) == focus = service /\ one /\ UNCHANGED <<focus, others>>

Editing == Only("editing", AuthoringNext, <<cpuVars, runVars, rateVars, checkVars, sourceVars, genVars, localVars, packVars, resultVars>>)
Pooling == Only("pooling", CpuNext, <<authoringVars, runVars, rateVars, checkVars, sourceVars, genVars, localVars, packVars, resultVars>>)
Running(step) == Only("running", step, <<authoringVars, cpuVars, rateVars, checkVars, sourceVars, genVars, localVars, packVars, resultVars>>)
Limiting == Only("limiting", RateNext, <<authoringVars, cpuVars, runVars, checkVars, sourceVars, genVars, localVars, packVars, resultVars>>)
Checking == Only("checking", CheckNext, <<authoringVars, cpuVars, runVars, rateVars, sourceVars, genVars, localVars, packVars, resultVars>>)
Storing(step) == Only("storing", step, <<authoringVars, cpuVars, runVars, rateVars, checkVars, genVars, localVars, packVars, resultVars>>)
Drafting == Only("drafting", GenNext, <<authoringVars, cpuVars, runVars, rateVars, checkVars, sourceVars, localVars, packVars, resultVars>>)
Keeping == Only("keeping", LocalNext, <<authoringVars, cpuVars, runVars, rateVars, checkVars, sourceVars, genVars, packVars, resultVars>>)
Judging == Only("judging", PackNext, <<authoringVars, cpuVars, runVars, rateVars, checkVars, sourceVars, genVars, localVars, resultVars>>)
Rating == Only("rating", ResultNext, <<authoringVars, cpuVars, runVars, rateVars, checkVars, sourceVars, genVars, localVars>>)

-----------------------------------------------------------------------------
(* The calls, the keys and the drawings.                                      *)

FourCalls == {u1, u2, u3, u4}
ThreeCalls == {u1, u2, u3}
TwoCalls == {u1, u2}

(* One document, two candidates of which one binds, one pack of both.             *)
Code  == {u1}
Rules == {u2, u3}
Pack  == {u4}
FromCode == [k \in Rules |-> u1]
Binding == {u2}
BothRules == [p \in Pack |-> Rules]

(* The rule that binds is for one of two groups of occupancy, the other one for both.   *)
TwoGroups == {d1, d2}
ForOneGroup == [k \in Rules |-> IF k = u2 THEN {d1} ELSE TwoGroups]

(* The saves of two tabs; what an earlier visit left on the device.            *)
Alternating == [s \in 1 .. 3 |-> IF s = 2 THEN u2 ELSE u1]
Earlier == {[at |-> 1, state |-> "foreign"], [at |-> 2, state |-> "usable"]}

FourKeys == {h1, d1, d2, g}
Limits   == [k \in FourKeys |-> IF k = d1 THEN 2 ELSE 1]
Windows  == [k \in FourKeys |-> IF k = h1 THEN 1 ELSE 2]

Quotas == [r \in TwoCalls |-> IF r = u2 THEN <<"edit">> ELSE <<"hour", "day">>]
Caps   == [k \in {"global", "hour", "day", "edit"} |-> IF k \in {"hour", "global"} THEN 2 ELSE 1]

Drawings ==
  [u \in FourCalls |-> [original |-> IF u = u4 THEN "other" ELSE "first",
                        preview  |-> IF u = u2 THEN "page2" ELSE "page1"]]
Notes == [u \in FourCalls |-> IF u = u3 THEN "renamed" ELSE "named"]

NamedZones ==
  << [name |-> "room", template |-> "t1"], [name |-> "store", template |-> "t2"],
     [name |-> "room", template |-> "t1"], [name |-> "hall", template |-> "t1"] >>

Kind(home, explicit, units, calculated, second) ==
  [residential |-> home, manifest |-> explicit, units |-> units,
   calculated |-> calculated, backup |-> second]

Kinds == { Kind(FALSE, FALSE, FALSE, FALSE, TRUE), Kind(TRUE, TRUE, TRUE, TRUE, FALSE),
           Kind(TRUE, FALSE, FALSE, FALSE, FALSE) }

-----------------------------------------------------------------------------
(* The building and what clients do with it.                                  *)

ThreeSpaces  == {a, b, c}
TwoTemplates == {t1, t2}
Templating   == [s \in ThreeSpaces |-> IF s = c THEN t2 ELSE t1]

Item(kind, x) == [kind |-> kind, at |-> x, height |-> 0]

(* Two spaces side by side; a door through the wall between them.  Imported, it may   *)
(* also have spaces that overlap, or a window that is wider than what is left of its   *)
(* wall.                                                                       *)
SmallBuilding ==
  [rooms |-> [s \in ThreeSpaces |->
     IF s = a THEN [x |-> 0, w |-> 4, name |-> 0,
                    openings |-> {[id |-> 1, edge |-> "E", off |-> 2, wide |-> 2],
                                  [id |-> 2, edge |-> "N", off |-> 2, wide |-> 2]},
                    objects |-> <<Item("OBJECT", 1), Item("STAIR", 2), Item("OBJECT", 3)>>,
                    points |-> <<>>]
     ELSE IF s = b THEN [x |-> 4, w |-> 3, name |-> 0, openings |-> {},
                    objects |-> <<>>, points |-> <<Item("POINT", 1)>>]
     ELSE NoRoom],
   levels |-> [i \in 0 .. TopIndex |-> IF i = 0 THEN t1 ELSE NoTemplate],
   settings |-> [n \in {"SITE", "LEVEL_HEIGHT", "POSITION", "ROTATION"} |-> 1],
   locks |-> {}, next |-> 3]

Overlapping == [SmallBuilding EXCEPT !.rooms[a].w = 5]

Overhanging ==
  [SmallBuilding EXCEPT !.rooms[a].openings =
     {IF o.id = 2 THEN [o EXCEPT !.wide = 6] ELSE o : o \in @}]

SomeBuildings == {SmallBuilding, Overlapping, Overhanging}

Cmd(verb, noun, target) ==
  [verb |-> verb, noun |-> noun, target |-> target, host |-> None, edge |-> "N",
   at |-> 0, size |-> 0, strategy |-> "NONE", keep |-> {}]

Site   == <<"site">>
Wall   == <<"wall", t1, 4>>
Door   == <<"opening", 1>>
Object(i) == <<"item", a, "objects", i>>

FewBatches ==
  { <<Cmd("DELETE", "OBJECT", Object(1))>>,
    <<Cmd("LOCK", "ELEMENT", Object(1)),
      [Cmd("MOVE", "STAIR", Object(2)) EXCEPT !.at = 4]>>,
    <<Cmd("UNLOCK", "ELEMENT", Object(1)),
      [Cmd("DELETE", "STAIR", Object(2)) EXCEPT !.keep = {"LEVEL_COUNT"}]>>,
    <<[Cmd("RESIZE", "SPACE", <<"space", a>>) EXCEPT !.size = 5]>>,
    <<[Cmd("MOVE", "WALL", Wall) EXCEPT !.at = -1, !.strategy = "KEEP_RELATIVE_POSITION"]>>,
    <<[Cmd("MOVE", "WALL", Wall) EXCEPT !.at = 1, !.strategy = "KEEP_WORLD_POSITION"],
      [Cmd("MOVE", "OPENING", Door) EXCEPT !.edge = "E", !.at = 3]>>,
    <<[Cmd("DELETE", "SPACE", <<"space", a>>) EXCEPT !.keep = {"SITE"}],
      [Cmd("ADD", "OPENING", <<"space", b>>) EXCEPT !.edge = "W", !.at = 2, !.size = 2],
      [Cmd("PROMOTE", "OBJECT", <<"visual">>) EXCEPT !.host = b, !.at = 1],
      [Cmd("ADD", "POINT", <<"space", b>>) EXCEPT !.at = 2],
      [Cmd("CHANGE", "POINT", <<"item", b, "points", 2>>) EXCEPT !.size = 2]>>,
    <<[Cmd("ADD", "SPACE", Site) EXCEPT !.host = c, !.size = 3],
      [Cmd("ADD", "LEVEL", Site) EXCEPT !.host = t2],
      [Cmd("RENAME", "SPACE", <<"space", c>>) EXCEPT !.at = 1],
      [Cmd("CHANGE", "ROTATION", Site) EXCEPT !.at = -2]>> }

Proposed ==
  << [sourced |-> TRUE,
      commands |-> <<[Cmd("CHANGE", "OPENING", Door) EXCEPT !.size = 4]>>],
     [sourced |-> FALSE, commands |-> <<[Cmd("CHANGE", "SITE", Site) EXCEPT !.at = 9]>>] >>

-----------------------------------------------------------------------------
ServicesInit ==
  /\ focus \in {"editing", "pooling", "running", "limiting", "checking", "storing", "drafting", "keeping", "judging",
             "rating"}
  /\ AuthoringInit /\ CpuInit /\ RunInit /\ RateInit /\ CheckInit /\ SourceInit /\ GenInit
  /\ LocalInit /\ ResultInit
  /\ IF focus = "rating" THEN VerifiedInit ELSE PackInit
  /\ focus # "rating" => VerifiedGroups = {}
  /\ focus # "editing" => imported = SmallBuilding
  /\ focus # "checking" => atomic
  /\ focus # "keeping" => pointer = Nothing /\ held = [t \in Tabs |-> KnowsNothing]
  /\ focus # "judging" => \A k \in Candidates : candidate[k].gap = "none"
  /\ focus # "drafting" => brief = CHOOSE b1 \in Briefs : TRUE

ServicesNext ==
  Editing \/ Pooling \/ Running(RunNext) \/ Limiting \/ Checking \/ Storing(SourceNext) \/ Drafting
  \/ Keeping \/ Judging \/ Rating

ServicesSpec ==
  /\ ServicesInit /\ [][ServicesNext]_servicesVars
  /\ \A call \in RunCalls :
       /\ WF_servicesVars(Running(RunGoesOn(call)))
       /\ WF_servicesVars(Running(RunExpire(call)))
  /\ \A u \in Uploads : WF_servicesVars(Storing(UploadGoesOn(u)))

=============================================================================

------------------------------ MODULE RuleResults -------------------------------
(***************************************************************************)
(* What a rule says of a building, and for how long it may be said.  The rules in force   *)
(* are copied when the packs of the project are looked up; evaluating one reads the        *)
(* building, how its occupancy is classified, where the project is and what the caller     *)
(* adds.  A result is kept with the hashes of what it came from; a check compares them    *)
(* with the hashes of what is there now, and nothing is evaluated again by itself.        *)
(***************************************************************************)
EXTENDS RulePacks

CONSTANTS
  OccupancyGroups,
  AppliesTo         (* per candidate: the groups it applies to                   *)

ASSUME ResultAssumption == AppliesTo \in [Candidates -> SUBSET OccupancyGroups]

Home == "home"      (* where the rules that bind apply                            *)

VARIABLES
  facts,            (* the building: a width, 0 if none is stated; how it was        *)
                    (* measured; what its viewer shows                         *)
  classified,       (* per group: the status of the record that names it           *)
  country,          (* where the project says it is                            *)
  caller,           (* the edition that the caller asks for, and where it says      *)
                    (* that the project is                                      *)
  definition,       (* per candidate: what its rule states beside its meaning       *)
  loaded,           (* the rules in force, as they were copied                    *)
  kept              (* a result with its hashes                                 *)

resultVars == <<facts, classified, country, caller, definition, loaded, kept>>

NoResult == [rule |-> "NONE"]

(* Everything was verified as it is, and the project is bound to every pack: a state that  *)
(* the steps of RulePacks lead to.                                                  *)
VerifiedInit ==
  /\ document = [d \in Documents |-> [status |-> "CONTENT_VERIFIED", bytes |-> 1]]
  /\ candidate = [c \in Candidates |->
       [status |-> "VERIFIED", meaning |-> 1, taken |-> 1, gap |-> "none",
        verdict |-> [bytes |-> 1, meaning |-> 1]]]
  /\ pack = [p \in Packs |-> "VERIFIED_PARTIAL"] /\ enabled = Packs
  /\ approved = {<<c, candidate[c].verdict>> : c \in Candidates} /\ edits = 0

(* The occupancy may have been classified before.                                   *)
ResultInit ==
  /\ facts = [width |-> 1, measured |-> "COMPLETE", view |-> 0]
  /\ classified \in [OccupancyGroups -> {"NONE", "VERIFIED"}]
  /\ country = Home /\ caller = [edition |-> "SAME", country |-> "PROJECT"]
  /\ definition = [c \in Candidates |-> "ENABLED"]
  /\ loaded = [c \in {} |-> "NONE"]
  /\ kept = NoResult

-----------------------------------------------------------------------------
(* Evaluation is of what it is given: the building, the groups that verified records       *)
(* give, where the project is, what the rule states and what the caller adds.  A caller    *)
(* that names no jurisdiction at all is given that of the project.                      *)

VerifiedGroups == {g \in OccupancyGroups : classified[g] = "VERIFIED"}

Read(c) ==
  [width |-> facts.width, measured |-> facts.measured, groups |-> VerifiedGroups,
   country |-> country, caller |-> caller,
   meaning |-> loaded[c].meaning, definition |-> loaded[c].definition]

Place(read) == IF read.caller.country = "PROJECT" THEN read.country ELSE read.caller.country

(* Two groups that disagree give none.                                             *)
Classified(read) == Cardinality(read.groups) = 1

Reasons(c, read) ==
  << <<read.definition = "INVALID", "INVALID_RULE_DEFINITION">>,
     <<read.definition = "DISABLED", "NOT_APPLICABLE">>,
     <<read.caller.edition = "OTHER", "NOT_APPLICABLE">>,
     <<c \in Regulatory /\ Place(read) = "NONE", "NOT_EVALUATED">>,
     <<c \in Regulatory /\ Place(read) # Home, "NOT_APPLICABLE">>,
     <<AppliesTo[c] # OccupancyGroups /\ ~ Classified(read), "INSUFFICIENT_DATA">>,
     <<AppliesTo[c] # OccupancyGroups /\ ~ read.groups \subseteq AppliesTo[c], "NOT_APPLICABLE">>,
     <<read.measured = "NONE", "INSUFFICIENT_DATA">>,
     <<read.measured # "COMPLETE", "NOT_EVALUATED">>,
     <<read.width = 0, "INSUFFICIENT_DATA">>,
     <<read.width >= read.meaning, "PASS">>,
     <<TRUE, "FAIL">> >>

(* The first of these that holds is the answer.                                      *)
Answer(c, read) ==
  LET reasons == Reasons(c, read)
      first == CHOOSE i \in DOMAIN reasons :
                 reasons[i][1] /\ \A j \in 1 .. i - 1 : ~ reasons[j][1]
  IN reasons[first][2]

Evaluated(c) == Answer(c, Read(c))

(* Slip: a result is not anchored to the classification it may rest on.                  *)
AnchorsUnclassified(c) ==
  [model |-> {<<facts.width, facts.measured>>}, context |-> {<<country, enabled>>},
   source |-> {SourceOf(c).bytes},
   rule |-> IF c \in DOMAIN loaded THEN {loaded[c].meaning} ELSE {}]

(* The hashes, by what they are taken of.  What the viewer shows and the records that     *)
(* are not verified are in none of them, and of a rule only its meaning is; a rule that    *)
(* is no longer in force gives none.                                               *)
Anchors(c) ==
  [model |-> {<<facts.width, facts.measured>>}, occupancy |-> VerifiedGroups,
   context |-> {<<country, enabled>>}, source |-> {SourceOf(c).bytes},
   rule |-> IF c \in DOMAIN loaded THEN {loaded[c].meaning} ELSE {}]

(* The check of a result, given all there is.                                       *)
Integrity(r) ==
  LET now   == Anchors(r.rule)
      asked == IF r.rule \in DOMAIN loaded THEN DOMAIN now ELSE DOMAIN now \ {"rule"}
  IN IF \E a \in asked : now[a] # r.anchors[a] THEN "STALE"
     ELSE IF asked # DOMAIN now THEN "CURRENT_UNDER_SAME_HASH" ELSE "CURRENT"

-----------------------------------------------------------------------------
InForce(bound) ==
  [c \in UNION {HeldBy[p] : p \in {q \in bound : pack[q] \in ActiveStates /\ ValidPack(q, pack[q])}} |->
     [meaning |-> candidate[c].meaning, definition |-> definition[c]]]

(* Binding the project to a pack, and looking the packs up, copies the rules in force.    *)
Bind(p) ==
  /\ BindProject(p) /\ loaded' = InForce(enabled')
  /\ UNCHANGED <<facts, classified, country, caller, definition, kept>>

LookUp ==
  /\ loaded' = InForce(enabled)
  /\ UNCHANGED <<packVars, facts, classified, country, caller, definition, kept>>

(* The code keeps the answer and its hashes.  The question, which is what the rule stated   *)
(* and what the caller said when it was evaluated, is kept for the properties alone.       *)
KeepResult(c) ==
  /\ c \in DOMAIN loaded /\ kept = NoResult
  /\ kept' = [rule |-> c, says |-> Evaluated(c), anchors |-> Anchors(c),
              question |-> [definition |-> loaded[c].definition, caller |-> caller]]
  /\ UNCHANGED <<packVars, facts, classified, country, caller, definition, loaded>>

(* The building is edited or measured, or only looked at; occupancy is proposed,          *)
(* verified or withdrawn; the project moves; the caller asks for an edition or names a    *)
(* place; a rule is switched off, or its source is no longer marked as verified.                         *)
Change ==
  /\ edits < MaxEdits /\ edits' = edits + 1
  /\ \/ /\ \/ \E w \in 0 .. 2 \ {facts.width} : facts' = [facts EXCEPT !.width = w]
           \/ \E m \in {"NONE", "PARTIAL", "COMPLETE"} \ {facts.measured} :
                facts' = [facts EXCEPT !.measured = m]
           \/ facts' = [facts EXCEPT !.view = 1 - @]
        /\ UNCHANGED <<classified, country, caller, definition>>
     \/ /\ \E g \in OccupancyGroups, to \in {"NONE", "CANDIDATE", "VERIFIED"} :
             /\ to # classified[g] /\ to = "VERIFIED" => classified[g] = "CANDIDATE"
             /\ classified' = [classified EXCEPT ![g] = to]
        /\ UNCHANGED <<facts, country, caller, definition>>
     \/ /\ country' \in {"NONE", Home, "abroad"} \ {country}
        /\ UNCHANGED <<facts, classified, caller, definition>>
     \/ /\ \/ \E e \in {"SAME", "OTHER"} \ {caller.edition} : caller' = [caller EXCEPT !.edition = e]
           \/ \E l \in {"PROJECT", "NONE", Home} \ {caller.country} :
                caller' = [caller EXCEPT !.country = l]
        /\ UNCHANGED <<facts, classified, country, definition>>
     \/ /\ \E c \in Candidates, to \in {"ENABLED", "DISABLED", "INVALID"} :
             to # definition[c] /\ definition' = [definition EXCEPT ![c] = to]
        /\ UNCHANGED <<facts, classified, country, caller>>
  /\ UNCHANGED <<document, candidate, pack, enabled, approved, loaded, kept>>

(* A pack whose verdict is taken back is out of force like one whose source was edited.   *)
ResultNext ==
  \/ Edit /\ UNCHANGED resultVars
  \/ LookUp \/ Change
  \/ \E p \in Packs : Bind(p)
  \/ \E c \in Candidates : KeepResult(c)

ResultSpec == VerifiedInit /\ ResultInit /\ [][ResultNext]_<<packVars, resultVars>>

-----------------------------------------------------------------------------
(* A result that the check calls current answers its question: what its rule stated then,    *)
(* asked by that caller of the building, the occupancy, the project and the meaning that    *)
(* are there now, has the same answer, whatever was edited, measured, verified, withdrawn,  *)
(* bound or looked up since (check_result_integrity, evaluate_rule, resolve_occupancy).     *)
(* It does not say that the question is still the one that would be asked: see below.      *)
Asked(r) ==
  [Read(r.rule) EXCEPT !.definition = r.question.definition, !.caller = r.question.caller]

CurrentAnswersItsQuestion ==
  kept # NoResult /\ Integrity(kept) = "CURRENT"
    => Answer(kept.rule, Asked(kept)) = kept.says

(* The document of this layer promises to say whether anything that the result depended on  *)
(* has changed since: of a result that is called current, evaluating its rule again would   *)
(* say the same (check_result_integrity, evaluate_rule).  The code does not keep this: a    *)
(* rule that is switched off or loses the mark of its source, an edition or a place that   *)
(* the caller asks for, changes the answer and no hash.                                *)
CurrentStillHolds ==
  kept # NoResult /\ Integrity(kept) = "CURRENT" => Evaluated(kept.rule) = kept.says

=============================================================================

------------------------------- MODULE RuleProofs -------------------------------
(* Rules are worth what stands behind them, for any number of documents, candidates,      *)
(* packs and groups and any number of edits: a project is judged only by what somebody     *)
(* verified as it is now, and a result that is said to be current still answers the       *)
(* question it was asked.                                                         *)
EXTENDS RuleResults, TLAPS

-----------------------------------------------------------------------------
(* Verdicts.                                                                     *)

DocumentStates ==
  {"UNVERIFIED", "SOURCE_IDENTIFIED", "OFFICIAL_SOURCE_VERIFIED", "CONTENT_VERIFIED"}
    \union Withdrawn

CandidateStates == Needs \union {"EXTRACTED", "READY_FOR_VERIFICATION", "VERIFIED", "REJECTED"}

PackStates == ActiveStates \union {"DRAFT", "UNDER_REVIEW", "SUPERSEDED", "REVOKED"}

Verdicts == [bytes : Int, meaning : Int]

PackTypeOK ==
  /\ document \in [Documents -> [status : DocumentStates, bytes : Int]]
  /\ candidate \in [Candidates -> [status : CandidateStates, meaning : Int, taken : Int,
                                   gap : Gaps, verdict : Verdicts]]
  /\ pack \in [Packs -> PackStates]
  /\ enabled \subseteq Packs
  /\ approved \subseteq Candidates \X Verdicts
  /\ edits \in 0 .. MaxEdits

(* A verdict says what was approved, of a document whose content was verified then and    *)
(* may only have been withdrawn since; it stays when the candidate is moved down, so that   *)
(* it has to hold whatever the status of the candidate is.                              *)
VerdictsGrounded ==
  \A c \in Candidates : candidate[c].verdict # NoVerdict =>
    /\ <<c, candidate[c].verdict>> \in approved
    /\ ContentStands(c) \/ SourceOf(c).status \in Withdrawn
    /\ c \in Regulatory => TakenFrom[c] \in Official

PackInv == PackTypeOK /\ VerdictsGrounded

(* The moves lead to statuses, and from verified content only out of use.              *)
LEMMA DocumentsMove ==
  ASSUME NEW from, NEW to \in DocumentMoves(from)
  PROVE  to \in DocumentStates
  BY Zenon DEF DocumentMoves, DocumentStates, Withdrawn

LEMMA ContentIsOnlyWithdrawn ==
  ASSUME NEW from \in {"CONTENT_VERIFIED"} \union Withdrawn, NEW to \in DocumentMoves(from)
  PROVE  to \in Withdrawn
  BY Zenon DEF DocumentMoves, Withdrawn

LEMMA PacksMove ==
  ASSUME NEW from \in PackStates, NEW to \in PackMoves(from)
  PROVE  to \in PackStates
  BY Zenon DEF PackMoves, PackStates, ActiveStates

LEMMA AssessedIsState ==
  ASSUME NEW c PROVE Assessed(c) \in CandidateStates
  BY Zenon DEF Assessed, CandidateStates, Needs

(* Nobody moves a candidate to ready unless its rule may bind.                           *)
LEMMA ReadyIsOfficial ==
  ASSUME NEW c, Assessed(c) = "READY_FOR_VERIFICATION", c \in Regulatory
  PROVE  TakenFrom[c] \in Official
  BY Zenon DEF Assessed

-----------------------------------------------------------------------------
LEMMA PackInitInv == PackInit => PackInv
  BY PackAssumption
  DEF PackInit, PackInv, PackTypeOK, VerdictsGrounded, NoVerdict, Verdicts, DocumentStates,
      CandidateStates, PackStates, Gaps

LEMMA DocumentKeeps ==
  ASSUME PackInv, NEW d \in Documents, TransitionDocument(d)
  PROVE  PackInv'
  <1>1. PICK to \in DocumentMoves(document[d].status) :
          document' = [document EXCEPT ![d].status = to]
    BY DEF TransitionDocument
  <1>2. UNCHANGED <<candidate, pack, enabled, approved, edits>>
    BY DEF TransitionDocument
  <1>3. PackTypeOK'
    BY <1>1, <1>2, DocumentsMove DEF PackInv, PackTypeOK
  <1>4. ASSUME NEW c \in Candidates, candidate'[c].verdict # NoVerdict
        PROVE  ContentStands(c)' \/ SourceOf(c)'.status \in Withdrawn
    <2>1. ContentStands(c) \/ SourceOf(c).status \in Withdrawn
      BY <1>2, <1>4 DEF PackInv, VerdictsGrounded
    <2>2. CASE TakenFrom[c] = d
      <3>1. to \in Withdrawn
        BY <1>1, <2>1, <2>2, ContentIsOnlyWithdrawn DEF ContentStands, SourceOf
      <3> QED BY <1>1, <2>2, <3>1 DEF SourceOf, PackInv, PackTypeOK
    <2>3. CASE TakenFrom[c] # d
      BY <1>1, <2>1, <2>3, PackAssumption DEF SourceOf, ContentStands, PackInv, PackTypeOK
    <2> QED BY <2>2, <2>3
  <1>5. VerdictsGrounded'
    BY <1>2, <1>4 DEF PackInv, VerdictsGrounded
  <1> QED BY <1>3, <1>5 DEF PackInv

LEMMA AdvanceKeeps ==
  ASSUME PackInv, NEW c \in Candidates, AdvanceCandidate(c)
  PROVE  PackInv'
  <1>1. candidate' = [candidate EXCEPT ![c].status = Advanced(c)]
    BY DEF AdvanceCandidate
  <1>2. UNCHANGED <<document, pack, enabled, approved, edits>>
    BY DEF AdvanceCandidate
  <1>3. Advanced(c) \in CandidateStates
    BY AssessedIsState DEF Advanced, PackInv, PackTypeOK
  <1>4. PackTypeOK'
    BY <1>1, <1>2, <1>3 DEF PackInv, PackTypeOK
  <1>5. \A k \in Candidates : candidate'[k].verdict = candidate[k].verdict
    BY <1>1 DEF PackInv, PackTypeOK
  <1>6. VerdictsGrounded'
    BY <1>2, <1>5 DEF PackInv, VerdictsGrounded, ContentStands, SourceOf
  <1> QED BY <1>4, <1>6 DEF PackInv

LEMMA VerifyKeeps ==
  ASSUME PackInv, NEW c \in Candidates, VerifyCandidate(c)
  PROVE  PackInv'
  <1> DEFINE verdict == [bytes |-> SourceOf(c).bytes, meaning |-> candidate[c].meaning]
  <1>1. candidate' = [candidate EXCEPT ![c].status = "VERIFIED", ![c].verdict = verdict]
    BY DEF VerifyCandidate
  <1>2. approved' = approved \union {<<c, verdict>>}
    BY DEF VerifyCandidate
  <1>3. UNCHANGED <<document, pack, enabled, edits>>
    BY DEF VerifyCandidate
  <1>4. verdict \in Verdicts
    BY PackAssumption DEF SourceOf, Verdicts, PackInv, PackTypeOK
  <1>5. PackTypeOK'
    <2> HIDE DEF verdict
    <2>1. candidate' \in [Candidates -> [status : CandidateStates, meaning : Int, taken : Int,
                                         gap : Gaps, verdict : Verdicts]]
      BY <1>1, <1>4 DEF PackInv, PackTypeOK, CandidateStates
    <2> QED BY <1>2, <1>3, <1>4, <2>1 DEF PackInv, PackTypeOK
  <1>6. ASSUME NEW k \in Candidates, candidate'[k].verdict # NoVerdict
        PROVE  /\ <<k, candidate'[k].verdict>> \in approved'
               /\ ContentStands(k)' \/ SourceOf(k)'.status \in Withdrawn
               /\ k \in Regulatory => TakenFrom[k] \in Official
    <2> HIDE DEF verdict
    <2>1. CASE k = c
      <3>1. candidate'[k].verdict = verdict
        BY <1>1, <2>1 DEF PackInv, PackTypeOK
      <3>2. ContentStands(c) /\ Assessed(c) = "READY_FOR_VERIFICATION"
        BY DEF VerifyCandidate
      <3> QED BY <1>2, <1>3, <2>1, <3>1, <3>2, ReadyIsOfficial DEF ContentStands, SourceOf
    <2>2. CASE k # c
      <3>1. candidate'[k] = candidate[k]
        BY <1>1, <2>2 DEF PackInv, PackTypeOK
      <3> QED BY <1>2, <1>3, <1>6, <3>1 DEF PackInv, VerdictsGrounded, ContentStands, SourceOf
    <2> QED BY <2>1, <2>2
  <1>7. VerdictsGrounded'
    BY <1>6 DEF VerdictsGrounded
  <1> QED BY <1>5, <1>7 DEF PackInv

LEMMA PackKeeps ==
  ASSUME PackInv, NEW p \in Packs, VerifyPack(p) \/ BindProject(p)
  PROVE  PackInv'
  <1>1. UNCHANGED <<document, candidate, approved, edits>>
    BY DEF VerifyPack, BindProject
  <1>2. pack' \in [Packs -> PackStates] /\ enabled' \subseteq Packs
    <2>1. CASE VerifyPack(p)
      BY <2>1, PacksMove DEF VerifyPack, PackInv, PackTypeOK
    <2>2. CASE BindProject(p)
      BY <2>2 DEF BindProject, PackInv, PackTypeOK
    <2> QED BY <2>1, <2>2
  <1>3. PackTypeOK'
    BY <1>1, <1>2 DEF PackInv, PackTypeOK
  <1>4. VerdictsGrounded'
    BY <1>1 DEF PackInv, VerdictsGrounded, ContentStands, SourceOf
  <1> QED BY <1>3, <1>4 DEF PackInv

(* Edits touch neither statuses nor verdicts, which is why a verdict is compared with     *)
(* what there is.                                                                 *)
LEMMA EditKeeps ==
  ASSUME PackInv, Edit
  PROVE  PackInv'
  <1>1. UNCHANGED <<pack, enabled, approved>> /\ edits' \in 0 .. MaxEdits
    BY PackAssumption DEF Edit, PackInv, PackTypeOK
  <1>2. /\ document' \in [Documents -> [status : DocumentStates, bytes : Int]]
        /\ \A d \in Documents : document'[d].status = document[d].status
    BY DEF Edit, PackInv, PackTypeOK
  <1> DEFINE Kept ==
        /\ candidate' \in [Candidates -> [status : CandidateStates, meaning : Int, taken : Int,
                                          gap : Gaps, verdict : Verdicts]]
        /\ \A c \in Candidates : candidate'[c].verdict = candidate[c].verdict
  <1>3. Kept
    <2>1. CASE UNCHANGED candidate
      BY <2>1 DEF PackInv, PackTypeOK
    <2>2. ASSUME NEW c \in Candidates, candidate' = [candidate EXCEPT ![c].meaning = 3 - @]
          PROVE  Kept
      BY <2>2 DEF PackInv, PackTypeOK
    <2>3. ASSUME NEW c \in Candidates,
                 candidate' = [candidate EXCEPT ![c].taken = SourceOf(c).bytes]
          PROVE  Kept
      BY <2>3, PackAssumption DEF PackInv, PackTypeOK, SourceOf
    <2>4. ASSUME NEW c \in Candidates, NEW gap \in Gaps,
                 candidate' = [candidate EXCEPT ![c].gap = gap]
          PROVE  Kept
      BY <2>4 DEF PackInv, PackTypeOK
    <2> QED BY <2>1, <2>2, <2>3, <2>4 DEF Edit
  <1>4. PackTypeOK'
    BY <1>1, <1>2, <1>3 DEF PackInv, PackTypeOK
  <1>5. VerdictsGrounded'
    BY <1>1, <1>2, <1>3, PackAssumption DEF PackInv, VerdictsGrounded, ContentStands, SourceOf
  <1> QED BY <1>4, <1>5 DEF PackInv

LEMMA PackStepInv == PackInv /\ [PackNext]_packVars => PackInv'
  <1> SUFFICES ASSUME PackInv, [PackNext]_packVars PROVE PackInv'
    OBVIOUS
  <1>1. CASE UNCHANGED packVars
    BY <1>1 DEF packVars, PackInv, PackTypeOK, VerdictsGrounded, ContentStands, SourceOf
  <1> QED BY <1>1, DocumentKeeps, AdvanceKeeps, VerifyKeeps, PackKeeps, EditKeeps DEF PackNext

(* What a pack in force holds was verified as it is.                                  *)
LEMMA GroundedRulesStand == PackInv => ActiveRulesStand
  <1> SUFFICES ASSUME PackInv, NEW p \in Packs, Active(p), NEW c \in HeldBy[p]
               PROVE  /\ <<c, [bytes |-> SourceOf(c).bytes,
                               meaning |-> candidate[c].meaning]>> \in approved
                      /\ ContentStands(c)
                      /\ c \in Regulatory => TakenFrom[c] \in Official
    BY DEF ActiveRulesStand
  <1>1. c \in Candidates
    BY PackAssumption
  <1>2. VerdictStands(c)
    BY DEF Active, ValidPack
  <1>3. candidate[c].verdict = [bytes |-> SourceOf(c).bytes, meaning |-> candidate[c].meaning]
    BY <1>1, <1>2 DEF VerdictStands, PackInv, PackTypeOK, Verdicts
  <1> QED BY <1>1, <1>2, <1>3 DEF VerdictStands, PackInv, VerdictsGrounded

(* The statuses of documents, candidates and packs are those of the state machines of     *)
(* acs_ingest.json, however they are moved and edited.                                 *)
THEOREM RulesAreTyped == PackSpec => []PackTypeOK
  <1>1. PackInv => PackTypeOK
    BY DEF PackInv
  <1> QED BY <1>1, PackInitInv, PackStepInv, PTL DEF PackSpec

(* However documents, rules and packs are verified, edited and withdrawn, and in whatever   *)
(* order, a project is judged only by rules that somebody approved with exactly this        *)
(* meaning, read from exactly these bytes (verification_still_valid, validate_pack,        *)
(* resolve_active_rules).                                                           *)
THEOREM OnlyApprovedRulesJudge == PackSpec => []ActiveRulesStand
  <1> QED BY GroundedRulesStand, PackInitInv, PackStepInv, PTL DEF PackSpec

-----------------------------------------------------------------------------
(* Results.                                                                      *)

(* A result that an evaluation of these things gave.  All of it is in one of the hashes of   *)
(* the result or in its question.                                                   *)
CameFrom(r, width, measured, groups, place, who, meaning, stated, bound, bytes) ==
  /\ r.says = Answer(r.rule, [width |-> width, measured |-> measured, groups |-> groups,
                              country |-> place, caller |-> who, meaning |-> meaning,
                              definition |-> stated])
  /\ r.anchors = [model |-> {<<width, measured>>}, occupancy |-> groups,
                  context |-> {<<place, bound>>}, source |-> {bytes}, rule |-> {meaning}]
  /\ r.question = [definition |-> stated, caller |-> who]

KeptWasRead ==
  kept # NoResult =>
    \E width, measured, groups, place, who, meaning, stated, bound, bytes :
      CameFrom(kept, width, measured, groups, place, who, meaning, stated, bound, bytes)

LEMMA KeptInit == ResultInit => KeptWasRead
  BY DEF ResultInit, KeptWasRead

LEMMA KeptStep == KeptWasRead /\ [ResultNext]_<<packVars, resultVars>> => KeptWasRead'
  <1> SUFFICES ASSUME KeptWasRead, [ResultNext]_<<packVars, resultVars>> PROVE KeptWasRead'
    OBVIOUS
  <1>1. CASE kept' = kept
    BY <1>1 DEF KeptWasRead
  <1>2. ASSUME NEW c \in Candidates, KeepResult(c) PROVE KeptWasRead'
    <2>1. /\ kept'.rule = c /\ kept'.says = Answer(c, Read(c))
          /\ kept'.anchors = Anchors(c)
          /\ kept'.question = [definition |-> loaded[c].definition, caller |-> caller]
      BY <1>2 DEF KeepResult, Evaluated
    <2>2. Anchors(c) = [model |-> {<<facts.width, facts.measured>>},
                        occupancy |-> VerifiedGroups, context |-> {<<country, enabled>>},
                        source |-> {SourceOf(c).bytes}, rule |-> {loaded[c].meaning}]
      BY <1>2 DEF KeepResult, Anchors
    <2>3. CameFrom(kept', facts.width, facts.measured, VerifiedGroups, country, caller,
                   loaded[c].meaning, loaded[c].definition, enabled, SourceOf(c).bytes)
      BY <2>1, <2>2 DEF CameFrom, Read
    <2> QED BY <2>3, Zenon DEF KeptWasRead
  <1>3. CASE UNCHANGED <<packVars, resultVars>>
    BY <1>1, <1>3 DEF resultVars
  <1>4. ASSUME NEW p \in Packs, Bind(p) PROVE kept' = kept
    BY <1>4 DEF Bind
  <1>5. ASSUME (Edit /\ UNCHANGED resultVars) \/ LookUp \/ Change PROVE kept' = kept
    BY <1>5 DEF LookUp, Change, resultVars
  <1> QED BY <1>1, <1>2, <1>3, <1>4, <1>5 DEF ResultNext

(* A check that finds nothing changed has compared every hash.                         *)
LEMMA CurrentMeansSame ==
  ASSUME NEW r, Integrity(r) = "CURRENT"
  PROVE  /\ r.rule \in DOMAIN loaded
         /\ \A a \in {"model", "occupancy", "context", "source", "rule"} :
              Anchors(r.rule)[a] = r.anchors[a]
  <1>1. DOMAIN Anchors(r.rule) = {"model", "occupancy", "context", "source", "rule"}
    BY DEF Anchors
  <1>2. r.rule \in DOMAIN loaded
    BY <1>1 DEF Integrity
  <1> QED BY <1>1, <1>2 DEF Integrity

(* Equal hashes give equal readings, since each is of a single value.                    *)
LEMMA SameHashesSameAnswer == KeptWasRead => CurrentAnswersItsQuestion
  <1> SUFFICES ASSUME KeptWasRead, kept # NoResult, Integrity(kept) = "CURRENT"
               PROVE  Answer(kept.rule, Asked(kept)) = kept.says
    BY DEF CurrentAnswersItsQuestion
  <1> DEFINE c == kept.rule
  <1>1. PICK width, measured, groups, place, who, meaning, stated, bound, bytes :
          CameFrom(kept, width, measured, groups, place, who, meaning, stated, bound, bytes)
    BY DEF KeptWasRead
  <1>2. c \in DOMAIN loaded
    BY CurrentMeansSame
  <1>3. /\ {<<facts.width, facts.measured>>} = {<<width, measured>>}
        /\ VerifiedGroups = groups
        /\ {<<country, enabled>>} = {<<place, bound>>}
        /\ {loaded[c].meaning} = {meaning}
    <2>1. /\ Anchors(c)["model"] = kept.anchors["model"]
          /\ Anchors(c)["occupancy"] = kept.anchors["occupancy"]
          /\ Anchors(c)["context"] = kept.anchors["context"]
          /\ Anchors(c)["rule"] = kept.anchors["rule"]
      BY CurrentMeansSame
    <2>2. kept.anchors = [model |-> {<<width, measured>>}, occupancy |-> groups,
                          context |-> {<<place, bound>>}, source |-> {bytes},
                          rule |-> {meaning}]
      BY <1>1 DEF CameFrom
    <2>3. Anchors(c) = [model |-> {<<facts.width, facts.measured>>},
                        occupancy |-> VerifiedGroups, context |-> {<<country, enabled>>},
                        source |-> {SourceOf(c).bytes}, rule |-> {loaded[c].meaning}]
      BY <1>2 DEF Anchors
    <2> QED BY <2>1, <2>2, <2>3
  <1>4. kept.question.definition = stated /\ kept.question.caller = who
    BY <1>1 DEF CameFrom
  <1>5. /\ facts.width = width /\ facts.measured = measured
        /\ country = place /\ loaded[c].meaning = meaning
    <2>1. \A x, y : {x} = {y} => x = y
      OBVIOUS
    <2>2. <<facts.width, facts.measured>> = <<width, measured>>
      BY <1>3, <2>1
    <2>3. <<country, enabled>> = <<place, bound>>
      BY <1>3, <2>1
    <2>4. loaded[c].meaning = meaning
      BY <1>3, <2>1
    <2> QED BY <2>2, <2>3, <2>4
  <1>6. Asked(kept) = [width |-> facts.width, measured |-> facts.measured,
                       groups |-> VerifiedGroups, country |-> country, caller |-> who,
                       meaning |-> loaded[c].meaning, definition |-> stated]
    <2> DEFINE now == Read(kept.rule)
    <2>1. now = [width |-> facts.width, measured |-> facts.measured,
                 groups |-> VerifiedGroups, country |-> country, caller |-> caller,
                 meaning |-> loaded[c].meaning, definition |-> loaded[c].definition]
      BY DEF Read
    <2>2. Asked(kept) = [now EXCEPT !.definition = stated, !.caller = who]
      BY <1>4 DEF Asked
    <2> HIDE DEF now
    <2> QED BY <2>1, <2>2
  <1>7. Asked(kept) = [width |-> width, measured |-> measured, groups |-> groups,
                       country |-> place, caller |-> who, meaning |-> meaning,
                       definition |-> stated]
    BY <1>3, <1>5, <1>6
  <1> QED BY <1>1, <1>7 DEF CameFrom

(* A result that is called current is the answer that its rule, as it was stated then, has   *)
(* for that caller now, whatever changed in between: what the hashes leave out is the      *)
(* question and nothing else (snapshot_result, check_result_integrity, evaluate_rule).      *)
THEOREM CurrentIsItsAnswer == ResultSpec => []CurrentAnswersItsQuestion
  <1> QED BY SameHashesSameAnswer, KeptInit, KeptStep, PTL DEF ResultSpec

=============================================================================

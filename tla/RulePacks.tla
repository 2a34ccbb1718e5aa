------------------------------- MODULE RulePacks -------------------------------
(***************************************************************************)
(* How a clause of a standard becomes a rule that a project is judged by.  Somebody     *)
(* verifies the document, then a candidate rule taken from it, then a pack of them, and    *)
(* the project enables the pack.  Each verdict is about what it was given; documents,     *)
(* rules and evidence are edited afterwards, and what still stands is found out anew     *)
(* each time the project is evaluated.                                             *)
(***************************************************************************)
EXTENDS Integers, FiniteSets

CONSTANTS
  Documents, Candidates, Packs,
  TakenFrom,        (* the document of a candidate                            *)
  HeldBy,           (* the candidates of a pack                               *)
  Official,         (* documents from their issuing authority                   *)
  Regulatory,       (* candidates for rules that bind                           *)
  Complete,         (* packs that declare to cover their scope                  *)
  MaxEdits          (* bound: edits of documents, rules and evidence             *)

ASSUME PackAssumption ==
  /\ TakenFrom \in [Candidates -> Documents] /\ HeldBy \in [Packs -> SUBSET Candidates]
  /\ Official \subseteq Documents /\ Regulatory \subseteq Candidates
  /\ Complete \subseteq Packs /\ MaxEdits \in Nat

(* What may still be wrong with the evidence of a candidate.                        *)
Gaps == {"none", "broken", "malformed", "reference", "exception", "definition"}

VARIABLES
  document,         (* per document: its status and its bytes                   *)
  candidate,        (* per candidate: status, meaning, bytes it was taken from,   *)
                    (* the gap in its evidence and its verification            *)
  pack,             (* the status of each pack                               *)
  enabled,          (* packs the project has bound itself to                    *)
  approved,         (* what somebody approved while the document's content stood  *)
  edits

packVars == <<document, candidate, pack, enabled, approved, edits>>

NoVerdict == [bytes |-> 0, meaning |-> 0]

PackInit ==
  /\ document = [d \in Documents |-> [status |-> "UNVERIFIED", bytes |-> 1]]
  /\ candidate \in [Candidates ->
       [status : {"EXTRACTED"}, meaning : {1}, taken : {1}, gap : {"none", "reference"},
        verdict : {NoVerdict}]]
  /\ pack = [p \in Packs |-> "DRAFT"]
  /\ enabled = {} /\ approved = {} /\ edits = 0

-----------------------------------------------------------------------------
(* Who may become what.                                                          *)

DocumentMoves(from) ==
  CASE from = "UNVERIFIED" -> {"SOURCE_IDENTIFIED", "INVALID"}
    [] from = "SOURCE_IDENTIFIED" ->
         {"OFFICIAL_SOURCE_VERIFIED", "CONTENT_VERIFIED", "INVALID", "REVOKED"}
    [] from = "OFFICIAL_SOURCE_VERIFIED" ->
         {"CONTENT_VERIFIED", "SUPERSEDED", "REVOKED", "INVALID"}
    [] from = "CONTENT_VERIFIED" -> {"SUPERSEDED", "REVOKED", "INVALID"}
    [] from = "SUPERSEDED" -> {"REVOKED"}
    [] OTHER -> {}

Needs == {"NEEDS_INTERPRETATION", "NEEDS_CROSS_REFERENCE", "NEEDS_EXCEPTION_REVIEW"}

CandidateMoves(from) ==
  CASE from = "EXTRACTED" -> Needs \union {"READY_FOR_VERIFICATION", "REJECTED"}
    [] from \in Needs ->
         (Needs \ {from}) \union {"READY_FOR_VERIFICATION", "REJECTED"}
    [] from = "READY_FOR_VERIFICATION" -> Needs \union {"VERIFIED", "REJECTED"}
    [] from = "REJECTED" -> {"NEEDS_INTERPRETATION"}
    [] from = "VERIFIED" -> {"REJECTED", "NEEDS_INTERPRETATION"}

PackMoves(from) ==
  CASE from = "DRAFT" -> {"UNDER_REVIEW", "REVOKED"}
    [] from = "UNDER_REVIEW" ->
         {"VERIFIED_PARTIAL", "VERIFIED_FOR_DECLARED_SCOPE", "DRAFT", "REVOKED"}
    [] from = "VERIFIED_PARTIAL" ->
         {"VERIFIED_FOR_DECLARED_SCOPE", "SUPERSEDED", "REVOKED", "UNDER_REVIEW"}
    [] from = "VERIFIED_FOR_DECLARED_SCOPE" -> {"SUPERSEDED", "REVOKED", "UNDER_REVIEW"}
    [] from = "SUPERSEDED" -> {"REVOKED"}
    [] from = "REVOKED" -> {}

ActiveStates == {"VERIFIED_PARTIAL", "VERIFIED_FOR_DECLARED_SCOPE"}
Withdrawn == {"SUPERSEDED", "REVOKED", "INVALID"}

SourceOf(c) == document[TakenFrom[c]]
ContentStands(c) == SourceOf(c).status = "CONTENT_VERIFIED"

(* The status that the evidence of a candidate deserves.                          *)
Assessed(c) ==
  LET k == candidate[c]
  IN CASE k.gap = "broken" \/ k.taken # SourceOf(c).bytes -> "REJECTED"
       [] \/ k.gap = "malformed"
          \/ c \in Regulatory /\ (~ ContentStands(c) \/ TakenFrom[c] \notin Official)
            -> "NEEDS_INTERPRETATION"
       [] k.gap = "reference" -> "NEEDS_CROSS_REFERENCE"
       [] k.gap = "exception" -> "NEEDS_EXCEPTION_REVIEW"
       [] k.gap = "definition" -> "NEEDS_INTERPRETATION"
       [] OTHER -> "READY_FOR_VERIFICATION"

(* Where the evidence takes a candidate, as far as it may go there from where it is.    *)
Advanced(c) ==
  IF Assessed(c) \in CandidateMoves(candidate[c].status) THEN Assessed(c)
  ELSE candidate[c].status

(* Slip: a verdict is taken to stand as long as the bytes do.                       *)
BytesStand(c) ==
  candidate[c].verdict # NoVerdict /\ SourceOf(c).bytes = candidate[c].verdict.bytes

(* A verdict is pinned to the bytes and to the meaning it was given for.              *)
VerdictStands(c) ==
  /\ candidate[c].verdict # NoVerdict
  /\ SourceOf(c).bytes = candidate[c].verdict.bytes
  /\ SourceOf(c).status \notin Withdrawn
  /\ candidate[c].meaning = candidate[c].verdict.meaning
  /\ candidate[c].gap # "broken"

ValidPack(p, status) ==
  /\ \A c \in HeldBy[p] : candidate[c].status = "VERIFIED" /\ VerdictStands(c)
  /\ status \in ActiveStates => HeldBy[p] # {}

-----------------------------------------------------------------------------
(* Steps up need a method and evidence, and an official source an official chain; they    *)
(* are refused otherwise.                                                         *)
TransitionDocument(d) ==
  /\ \E to \in DocumentMoves(document[d].status) :
       /\ to = "OFFICIAL_SOURCE_VERIFIED" => d \in Official
       /\ document' = [document EXCEPT ![d].status = to]
  /\ UNCHANGED <<candidate, pack, enabled, approved, edits>>

AdvanceCandidate(c) ==
  /\ Advanced(c) # candidate[c].status
  /\ candidate' = [candidate EXCEPT ![c].status = Advanced(c)]
  /\ UNCHANGED <<document, pack, enabled, approved, edits>>

(* The document has to be verified even for a rule that does not bind; the candidate      *)
(* is ready first, then verified.                                                   *)
VerifyCandidate(c) ==
  /\ Assessed(c) = "READY_FOR_VERIFICATION"
  /\ ContentStands(c) /\ candidate[c].taken = SourceOf(c).bytes
  /\ Advanced(c) = "READY_FOR_VERIFICATION"
  /\ LET verdict == [bytes |-> SourceOf(c).bytes, meaning |-> candidate[c].meaning]
     IN /\ candidate' = [candidate EXCEPT ![c].status = "VERIFIED", ![c].verdict = verdict]
        /\ approved' = approved \union {<<c, verdict>>}
  /\ UNCHANGED <<document, pack, enabled, edits>>

(* Every move of a pack is refused while the pack is not valid.                       *)
VerifyPack(p) ==
  /\ ValidPack(p, pack[p])
  /\ \E to \in PackMoves(pack[p]) :
       /\ to = "VERIFIED_FOR_DECLARED_SCOPE" => p \in Complete
       /\ pack' = [pack EXCEPT ![p] = to]
  /\ UNCHANGED <<document, candidate, enabled, approved, edits>>

BindProject(p) ==
  /\ enabled' = IF p \in enabled THEN enabled \ {p} ELSE enabled \union {p}
  /\ UNCHANGED <<document, candidate, pack, approved, edits>>

(* The caller keeps the store: it imports other bytes, rewrites a rule, pins a candidate   *)
(* to the document anew, or finds and closes gaps in its evidence.                      *)
Edit ==
  /\ edits < MaxEdits /\ edits' = edits + 1
  /\ \/ \E d \in Documents :
          /\ document' = [document EXCEPT ![d].bytes = 3 - @]
          /\ UNCHANGED candidate
     \/ \E c \in Candidates :
          /\ \/ candidate' = [candidate EXCEPT ![c].meaning = 3 - @]
             \/ candidate' = [candidate EXCEPT ![c].taken = SourceOf(c).bytes]
             \/ \E gap \in Gaps \ {candidate[c].gap} :
                  candidate' = [candidate EXCEPT ![c].gap = gap]
          /\ UNCHANGED document
  /\ UNCHANGED <<pack, enabled, approved>>

PackNext ==
  \/ \E d \in Documents : TransitionDocument(d)
  \/ \E c \in Candidates : AdvanceCandidate(c) \/ VerifyCandidate(c)
  \/ \E p \in Packs : VerifyPack(p) \/ BindProject(p)
  \/ Edit

PackSpec == PackInit /\ [][PackNext]_packVars

-----------------------------------------------------------------------------
Active(p) == p \in enabled /\ pack[p] \in ActiveStates /\ ValidPack(p, pack[p])

(* A project is judged by a rule only if somebody approved exactly this meaning, read      *)
(* from exactly these bytes, when the content of the document was verified, and the       *)
(* document has not been withdrawn since: whatever was edited, in which order verdicts      *)
(* were given, and although the pack was verified only once (resolve_active_rules,         *)
(* verification_still_valid, verify_candidate).                                      *)
ActiveRulesStand ==
  \A p \in Packs : Active(p) =>
    \A c \in HeldBy[p] :
      /\ <<c, [bytes |-> SourceOf(c).bytes, meaning |-> candidate[c].meaning]>> \in approved
      /\ ContentStands(c)
      /\ c \in Regulatory => TakenFrom[c] \in Official

=============================================================================

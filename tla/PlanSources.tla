------------------------------ MODULE PlanSources ------------------------------
(***************************************************************************)
(* Uploads of drawings that claim one source id.  An upload stores the original    *)
(* and its preview, which nothing ever replaces, then the row that describes both,   *)
(* unless the id has one, and reads the row back.  Replies get lost and processes     *)
(* stop between any two calls; the client repeats the upload under the same id.      *)
(***************************************************************************)
EXTENDS Integers, FiniteSets

CONSTANTS
  Uploads,
  Bytes,            (* of each upload: its [original, preview]                *)
  About,            (* of each upload: what else its row says                 *)
  NoBytes,
  MaxLost           (* bound: calls whose reply is lost                       *)

ASSUME SourceAssumption ==
  /\ IsFiniteSet(Uploads) /\ MaxLost \in Nat
  /\ \A u \in Uploads : NoBytes \notin {Bytes[u].original, Bytes[u].preview}

NoRow == [original |-> NoBytes, preview |-> NoBytes, about |-> NoBytes]

VARIABLES
  stored,           (* the objects of the id                                 *)
  described,        (* its row, of NoBytes as long as there is none            *)
  upload,           (* the call an upload makes next                           *)
  said,             (* what an upload was told last                            *)
  misses            (* lost replies so far                                    *)

sourceVars == <<stored, described, upload, said, misses>>

SourceInit ==
  /\ stored = [original |-> NoBytes, preview |-> NoBytes]
  /\ described = NoRow
  /\ upload = [u \in Uploads |-> "none"]
  /\ said = [u \in Uploads |-> "none"]
  /\ misses = 0

SourceRow(u) == [original |-> Bytes[u].original, preview |-> Bytes[u].preview, about |-> About[u]]

-----------------------------------------------------------------------------
Goes(u, to) == upload' = [upload EXCEPT ![u] = to] /\ UNCHANGED <<said, misses>>

Ends(u, what) ==
  /\ upload' = [upload EXCEPT ![u] = "none"]
  /\ said' = [said EXCEPT ![u] = what]
  /\ UNCHANGED misses

Missed(u) ==
  /\ misses < MaxLost /\ misses' = misses + 1
  /\ upload' = [upload EXCEPT ![u] = "none"]
  /\ said' = [said EXCEPT ![u] = "unavailable"]

(* The client repeats an upload until it is saved or its id taken.             *)
SaveSource(u) ==
  /\ upload[u] = "none" /\ said[u] \in {"none", "unavailable"}
  /\ Goes(u, "original")
  /\ UNCHANGED <<stored, described>>

(* Slip: an object that is there is taken for this one.                         *)
SameAny(u, part) == TRUE

(* Slip: an object that is there is an error.                                  *)
SameNever(u, part) == FALSE

(* What the store refused as a duplicate is read and compared.                  *)
SameBytes(u, part) == stored[part] = Bytes[u][part]

PostObject(u) ==
  \E part \in {"original", "preview"} :
    /\ upload[u] = part
    /\ \/ /\ stored[part] = NoBytes
          /\ stored' = [stored EXCEPT ![part] = Bytes[u][part]]
          /\ \/ Goes(u, IF part = "original" THEN "preview" ELSE "row")
             \/ Missed(u)
       \/ /\ stored[part] # NoBytes
          /\ IF SameBytes(u, part)
             THEN Goes(u, IF part = "original" THEN "preview" ELSE "row")
             ELSE Ends(u, "unavailable")
          /\ UNCHANGED stored
    /\ UNCHANGED described

(* A second row for the id is ignored.                                        *)
PostRow(u) ==
  /\ upload[u] = "row"
  /\ described' = IF described = NoRow THEN SourceRow(u) ELSE described
  /\ Goes(u, "read") \/ Missed(u)
  /\ UNCHANGED stored

ReadBack(u) ==
  /\ upload[u] = "read"
  /\ Ends(u, IF described = SourceRow(u) THEN "saved" ELSE "taken")
  /\ UNCHANGED <<stored, described>>

CallFails(u) ==
  /\ upload[u] # "none" /\ Missed(u)
  /\ UNCHANGED <<stored, described>>

UploadGoesOn(u) == SaveSource(u) \/ PostObject(u) \/ PostRow(u) \/ ReadBack(u)

SourceNext == \E u \in Uploads : UploadGoesOn(u) \/ CallFails(u)

SourceSpec == SourceInit /\ [][SourceNext]_sourceVars

SourceFairSpec == SourceSpec /\ \A u \in Uploads : WF_sourceVars(UploadGoesOn(u))

-----------------------------------------------------------------------------
(* What was told to be saved can be read for ever: the row is the uploader's own and  *)
(* its fingerprints are those of the stored objects, whoever raced for the id and       *)
(* whatever got lost between the three writes (save_source, read_source).             *)
SavedIsReadable ==
  \A u \in Uploads : said[u] = "saved" =>
    described = SourceRow(u) /\ \A part \in DOMAIN stored : stored[part] = Bytes[u][part]

(* Half an upload never takes its id out of use: as long as clients repeat their      *)
(* uploads, one of those that claim the id is saved (object_request: a lost response    *)
(* may be retried using the same id).                                            *)
SomeoneIsSaved ==
  (\E u \in Uploads : upload[u] # "none") ~> (\E u \in Uploads : said[u] = "saved")

=============================================================================

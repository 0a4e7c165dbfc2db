----------------------------- MODULE HumanReview -----------------------------
(***************************************************************************)
(* Human labels: reviewers answer a queue of exported turns or of campaign  *)
(* disagreements (scripts/calibration/human-label-review.ts), the answers   *)
(* are files beside the exports, and the aggregate of the directory         *)
(* (scripts/calibration-aggregate.ts) is what the trainer reads.            *)
(*                                                                          *)
(* Files are read in the order of their names, which is the order of Files; *)
(* a file is a set of rows, no two with one id.  A row keeps its outcome    *)
(* signals, "failure" standing for every signal and telemetry proxy of a    *)
(* failed turn, its explicit success label and its provenance.              *)
(***************************************************************************)
EXTENDS Naturals, Sequences

CONSTANTS Files,    \* number of file names in the directory
          NoRowId,  \* the id of a row that has none
          Exports,  \* what telemetry exports and scripts may put into a file
          Queue     \* the disagreements of a campaign's report, as rows

VARIABLES dir,      \* the rows of every file, {} for a file that is not there
          answered  \* every <<id, answer>> a person ever gave

hvars == <<dir, answered>>

Feedback == {"feedback_good", "feedback_bad"}
ExportRow ==
    [id : STRING, signals : SUBSET (Feedback \cup {"failure"}), success : {"good", "bad", "none"},
     provenance : {"human_feedback", "llm_judge", "scripted_intent", "none"}]

ASSUME RowsAssumption == Files \in Nat /\ Exports \subseteq SUBSET ExportRow /\ Queue \subseteq ExportRow

Decisions == {"good", "bad"}

-----------------------------------------------------------------------------
(* The review. *)

(* emitHumanFeedbackRow: the row of an answer, which replaces prior         *)
(* feedback and provenance and leaves the other signals.                    *)
emitHumanFeedbackRow(row, decision) ==
    [row EXCEPT !.signals = (@ \ Feedback) \cup {IF decision = "good" THEN "feedback_good" ELSE "feedback_bad"},
                !.success = decision,
                !.provenance = "human_feedback"]

(* applyReviewDecisions, runInteractiveReview: `answers` says which rows are *)
(* answered; what is skipped, or comes after quitting, emits nothing.  The   *)
(* output file is replaced.                                                  *)
applyReviewDecisions(rows, answers) ==
    {emitHumanFeedbackRow(r, answers[r.id]) : r \in {r \in rows : r.id \in DOMAIN answers}}

Review(rows, answers, out) == dir' = [dir EXCEPT ![out] = applyReviewDecisions(rows, answers)]

(* answersFromExistingFeedback: feedback given in the session is the answer *)
(* unless it contradicts itself.                                            *)
Rated(rows) == {r \in rows : \E f \in Feedback : r.signals \cap Feedback = {f}}
answersFromExistingFeedback(rows) ==
    [i \in {r.id : r \in Rated(rows)} |->
        IF \E r \in Rated(rows) : r.id = i /\ "feedback_good" \in r.signals THEN "good" ELSE "bad"]

-----------------------------------------------------------------------------
HumanInit == dir = [f \in 1 .. Files |-> {}] /\ answered = {}

(* An export holds the feedback given in its sessions. *)
PlaceExport ==
    \E f \in 1 .. Files, rows \in Exports :
        /\ dir' = [dir EXCEPT ![f] = rows]
        /\ answered' = answered \cup {<<r.id, "good">> : r \in {r \in rows : "feedback_good" \in r.signals}}
                                \cup {<<r.id, "bad">> : r \in {r \in rows : "feedback_bad" \in r.signals}}

ReviewAnswers ==
    \E rows \in {Queue} \cup {dir[f] : f \in 1 .. Files}, out \in 1 .. Files :
        \E asked \in SUBSET {r.id : r \in rows} :
            \E answers \in [asked -> Decisions] :
                /\ Review(rows, answers, out)
                /\ answered' = answered \cup {<<i, answers[i]>> : i \in asked}

ReviewFromFeedback ==
    /\ \E f, out \in 1 .. Files : Review(dir[f], answersFromExistingFeedback(dir[f]), out)
    /\ UNCHANGED answered

HumanNext == PlaceExport \/ ReviewAnswers \/ ReviewFromFeedback

-----------------------------------------------------------------------------
(* The aggregate and the trainer. *)

(* deriveSuccessLabelFromExportRow: a failure outweighs praise, and any      *)
(* signal outweighs the explicit label.                                      *)
Derived(row) ==
    IF row.signals \cap {"feedback_bad", "failure"} # {} THEN "bad"
    ELSE IF "feedback_good" \in row.signals THEN "good" ELSE row.success

(* enrichContribRecordWithFailureLabels *)
Enriched(row) == [row EXCEPT !.success = Derived(row)]

(* collectContribFromDir, aggregateContribRecords: of rows with one id the  *)
(* first file's counts; rows without an id all do.                          *)
Seen(row, f) == row.id # NoRowId /\ \E g \in 1 .. f - 1 : \E old \in dir[g] : old.id = row.id
Aggregated == UNION {{Enriched(r) : r \in {r \in dir[f] : ~Seen(r, f)}} : f \in 1 .. Files}

(* Mutant: whatever no script made up is eligible. *)
isNotQuarantined(row) == row.provenance # "scripted_intent"

isShipEligibleProvenance(row) == row.provenance \in {"human_feedback", "llm_judge"}

(* labeledSampleFromContribRecord, of the records it yields a sample for.   *)
LabeledSamples(records) == {r \in records : r.provenance # "scripted_intent" /\ Derived(r) # "none"}

(* What a bundle that ships is trained on (--verifier-grade-only).          *)
Trained == LabeledSamples({r \in Aggregated : isShipEligibleProvenance(r)})

(* A label that trains a shipped bundle as a human's is one a person gave   *)
(* to that very row, through any sequence of exports, reviews of reviews    *)
(* and overwritten files; a turn praised but known to have failed is the    *)
(* only one that trains as bad without having been called so.               *)
HumanLabelsAnswered ==
    \A r \in Trained :
        \/ <<r.id, r.success>> \in answered
        \/ r.success = "bad" /\ "failure" \in r.signals /\ <<r.id, "good">> \in answered
=============================================================================

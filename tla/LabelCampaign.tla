---------------------------- MODULE LabelCampaign ----------------------------
(***************************************************************************)
(* How label packs come to be: the labeling campaign                        *)
(* (scripts/calibration/adversarial-label-campaign.ts) has every generator  *)
(* answer every task and keeps the answers its blinded graders agree on;    *)
(* the panel (adjudicate-disagreements.ts) decides some of the rest by      *)
(* majority and appends them; the trainer (train-routing-calibration.ts)    *)
(* splits what the packs hold into a fit and a holdout.                     *)
(*                                                                          *)
(* Both programs compute everything first and then write one file after the *)
(* other; a run may be killed between two writes, and any other run may     *)
(* follow.  A run that fails before its first write leaves no trace and is  *)
(* no step.  A pack is a set of rows; a row keeps, beside what the code     *)
(* stores, the seed of the campaign it comes from, who decided it, what     *)
(* every judge voted and which model the deciding program took the author   *)
(* to be.                                                                   *)
(***************************************************************************)
EXTENDS Integers, Sequences, FiniteSets, FiniteSetsExt

CONSTANTS Tasks,       \* the tasks file, a sequence
          SessionOf,   \* the session a task was taken from
          Generators,  \* the clients that answer
          Graders,     \* the clients that grade in the campaign
          Panel,       \* the panel pool and after it the fill pool, a sequence
          ModelOf,     \* the provider's model behind each client
          Undeclared,  \* no model: of a recorded client, or of one the panel does not know
          PanelAuthors, \* what the panel's --generator list may say of the generators' models
          Seeds,       \* seeds a campaign may be given
          HeldOut,     \* <<seed, session>> whose hash falls below the holdout share
          Sheets,      \* for every answer, what the judges may say of it
          PassScore, MinNegativePercent, MinDistinctFailureScores,
          WarmStart    \* rows of the warm-start packs

VARIABLES disk,   \* the campaign's report and the two packs
          after,  \* what the run in progress has computed for them
          left    \* the files it has yet to write, a sequence

vars == <<disk, after, left>>

NoScore == -1  \* the judge failed or its answer was no score
Judges == Graders \cup {Panel[n] : n \in DOMAIN Panel}
Samples == {Tasks[n] : n \in DOMAIN Tasks} \X Generators

ASSUME ListsAssumption == Tasks \in Seq(DOMAIN SessionOf) /\ Panel \in Seq(DOMAIN ModelOf) /\ Seeds # {}
ASSUME SheetAssumption ==
    \A s \in Samples : \A sheet \in Sheets[s] : \A judge \in Judges : sheet[judge] \in NoScore .. 9
ASSUME WarmStartAssumption == \A row \in WarmStart : row.weak /\ row.split = "none"

(* assignSessionHoldout: a hash of seed and session decides. *)
assignSessionHoldout(task, seed) == IF <<seed, SessionOf[task]>> \in HeldOut THEN "holdout" ELSE "fit"

(* A label pack row of the campaign with this seed, drawn with that one.    *)
Row(sample, seed, drawn, success, by, votes, author) ==
    [sample |-> sample, seed |-> seed, split |-> assignSessionHoldout(sample[1], drawn),
     success |-> success, by |-> by, votes |-> votes, author |-> author, weak |-> FALSE]

-----------------------------------------------------------------------------
(* The campaign. *)

(* The model a client declares: recorded clients declare none.             *)
Declared(recorded, client) == IF recorded THEN Undeclared ELSE ModelOf[client]

(* Mutant: the author's model grades its own answers. *)
OnlyItselfExcluded(recorded, grader, generator) == grader = generator

(* A client grades neither itself nor a client that declares its model.     *)
isGraderExcludedForGenerator(recorded, grader, generator) ==
    \/ grader = generator
    \/ Declared(recorded, grader) # Undeclared /\ Declared(recorded, grader) = Declared(recorded, generator)

Used(recorded, generator) == {g \in Graders : ~isGraderExcludedForGenerator(recorded, g, generator)}

Passing(sheet, judges) == {j \in judges : sheet[j] >= PassScore}
Answering(sheet, judges) == {j \in judges : sheet[j] # NoScore}
Votes(sheet, judges) == [j \in judges |-> j \in Passing(sheet, judges)]

(* Mutant: two graders that pass are enough. *)
TwoPasses(sheet, judges) == Passing(sheet, judges) = {} \/ Cardinality(Passing(sheet, judges)) >= 2

Unanimous(sheet, judges) == Passing(sheet, judges) \in {{}, judges}

(* The mean of the scores to one decimal, in tenths. *)
JudgeScore(sheet, judges) ==
    LET n == Cardinality(judges)
    IN  (20 * MapThenSumSet(LAMBDA j : sheet[j], judges) + n) \div (2 * n)

(* validateCampaignFloors: enough failures, and not all of one score. *)
ReachesFloors(labeled, says) ==
    LET failed == {r \in labeled : ~r.success}
    IN  /\ labeled # {}
        /\ 100 * Cardinality(failed) >= MinNegativePercent * Cardinality(labeled)
        /\ Cardinality({JudgeScore(says[r.sample], DOMAIN r.votes) : r \in failed}) >= MinDistinctFailureScores

Labeled(recorded, says, seed) ==
    {LET judges == Used(recorded, s[2])
     IN  Row(s, seed, seed, Passing(says[s], judges) # {}, "graders", Votes(says[s], judges),
             Declared(recorded, s[2])) :
        s \in {s \in DOMAIN says : Unanimous(says[s], Used(recorded, s[2]))}}

Disagreed(recorded, says) == {s \in DOMAIN says : ~Unanimous(says[s], Used(recorded, s[2]))}

(* runAdversarialCampaignCli with live or recorded clients, `says` being    *)
(* what the judges say of each answer.  No caller asks for fewer graders    *)
(* than there are.  The report is written in any case, the packs only when  *)
(* the floors are reached; they replace the old ones.                       *)
Campaign(seed, recorded, says) ==
    LET labeled == Labeled(recorded, says, seed)
        valid == ReachesFloors(labeled, says)
    IN  /\ left = <<>>
        /\ \A s \in DOMAIN says :
              LET judges == Used(recorded, s[2])
              IN  Cardinality(judges) >= 2 /\ Answering(says[s], judges) = judges
        /\ after' = [report |-> [seed |-> seed, disagreed |-> Disagreed(recorded, says)],
                     fit |-> IF valid THEN {r \in labeled : r.split = "fit"} \cup WarmStart
                                      ELSE disk.fit,
                     holdout |-> IF valid THEN {r \in labeled : r.split = "holdout"}
                                          ELSE disk.holdout]
        /\ left' = IF valid THEN <<"report", "fit", "holdout">> ELSE <<"report">>
        /\ UNCHANGED disk

-----------------------------------------------------------------------------
(* The panel. *)

(* Mutant: the author's model may sit on the panel. *)
MaySitWithAuthor(author, n) == \A m \in 1 .. n - 1 : ModelOf[Panel[m]] # ModelOf[Panel[n]]

(* A client of the pools sits on the panel unless its model is that of the  *)
(* author or already sits there, until three do.                            *)
MaySit(author, n) ==
    /\ ModelOf[Panel[n]] # author
    /\ \A m \in 1 .. n - 1 : ModelOf[Panel[m]] # ModelOf[Panel[n]]

selectPanelForGenerator(author) ==
    {Panel[n] : n \in {n \in DOMAIN Panel :
        MaySit(author, n) /\ Cardinality({m \in 1 .. n - 1 : MaySit(author, m)}) < 3}}

(* majorityDecision: two usable votes that agree. *)
majorityDecision(sheet, judges) ==
    LET passing == Cardinality(Passing(sheet, judges))
        failing == Cardinality(judges \ Passing(sheet, judges))
    IN  IF passing >= 2 THEN {TRUE} ELSE IF failing >= 2 THEN {FALSE} ELSE {}

(* Mutant: every panel draws with the default seed. *)
DefaultSeed(report) == CHOOSE s \in Seeds : TRUE

(* loadDisagreementsFromReport: the panel draws partitions with the seed of *)
(* the campaign whose disagreements it decides.                             *)
SeedOf(report) == report.seed

(* runAdjudication, `authors` being the models that the generators are said *)
(* to be: judges that fail are skipped; what stays undecided and what was   *)
(* written by an unknown generator is left to human review.                 *)
Resolved(says, authors, report) ==
    UNION {LET panel == selectPanelForGenerator(authors[s[2]])
               usable == Answering(says[s], panel)
           IN  IF authors[s[2]] = Undeclared \/ Cardinality(panel) < 3 THEN {}
               ELSE {Row(s, report.seed, SeedOf(report), d, "panel", Votes(says[s], usable), authors[s[2]]) :
                        d \in majorityDecision(says[s], usable)} :
           s \in DOMAIN says}

(* Mutant: the fit pack alone is looked at. *)
NewToFit(rows, fit, holdout) == {r \in rows : \A old \in fit : old.sample # r.sample}

(* appendPackRowsDeduped: a sample either pack knows is not added again. *)
NewRows(rows, fit, holdout) == {r \in rows : \A old \in fit \cup holdout : old.sample # r.sample}

(* runAdjudicateCli reads whatever report and packs it finds. *)
Adjudicate(says, authors) ==
    LET new == NewRows(Resolved(says, authors, disk.report), disk.fit, disk.holdout)
    IN  /\ left = <<>>
        /\ DOMAIN says = disk.report.disagreed
        /\ after' = [disk EXCEPT !.fit = @ \cup {r \in new : r.split = "fit"},
                                 !.holdout = @ \cup {r \in new : r.split = "holdout"}]
        /\ left' = <<"fit", "holdout">>
        /\ UNCHANGED disk

-----------------------------------------------------------------------------
Init ==
    /\ disk = [report |-> [seed |-> CHOOSE s \in Seeds : TRUE, disagreed |-> {}],
               fit |-> {}, holdout |-> {}]
    /\ after = disk
    /\ left = <<>>

(* writeJsonFile, writePackFile, writeTextFile: one file is replaced. *)
Write ==
    /\ left # <<>>
    /\ disk' = [disk EXCEPT ![Head(left)] = after[Head(left)]]
    /\ left' = Tail(left)
    /\ UNCHANGED after

(* The run is killed between two writes. *)
Killed ==
    /\ left # <<>>
    /\ left' = <<>>
    /\ after' = disk
    /\ UNCHANGED disk

Says(samples) ==
    {says \in [samples -> UNION {Sheets[s] : s \in samples}] : \A s \in samples : says[s] \in Sheets[s]}

(* The first tasks of the file, as many as --limit says. *)
RunCampaign ==
    \E seed \in Seeds, recorded \in BOOLEAN, limit \in 0 .. Len(Tasks) :
        \E says \in Says({Tasks[n] : n \in 1 .. limit} \X Generators) : Campaign(seed, recorded, says)

RunPanel ==
    /\ disk.report.disagreed # {}
    /\ \E says \in Says(disk.report.disagreed), authors \in PanelAuthors : Adjudicate(says, authors)

Next == RunCampaign \/ RunPanel \/ Write \/ Killed

Spec == Init /\ [][Next]_vars

-----------------------------------------------------------------------------
(* What the trainer makes of the packs: weak rows are dropped, the others   *)
(* split by the partition they carry, untagged ones fit.                    *)
isWeakLabelPackRow(row) == row.weak

partitionPackRowsBySession(rows) ==
    LET kept == {r \in rows : ~isWeakLabelPackRow(r)}
    IN  [fit |-> {r \in kept : r.split # "holdout"}, holdout |-> {r \in kept : r.split = "holdout"}]

(* Every row of a session lands in the same partition, whichever run wrote  *)
(* it and whatever was killed: no session whose rows were drawn with one    *)
(* seed is both fitted and held out, and no held-out row is in the fit file *)
(* (adversarial-label-campaign.ts:18).                                      *)
PartitionKept ==
    LET trained == partitionPackRowsBySession(disk.fit \cup disk.holdout)
    IN  /\ \A f \in trained.fit, h \in trained.holdout :
              f.seed = h.seed => SessionOf[f.sample[1]] # SessionOf[h.sample[1]]
        /\ \A r \in disk.fit : r.split # "holdout"
        /\ \A r \in disk.holdout : r.split = "holdout"

(* No sample is counted twice: a pack has one row of it, and under one seed *)
(* so have both packs together, after any run, re-run or kill.              *)
OneLabelPerSample ==
    \A r1, r2 \in disk.fit \cup disk.holdout :
        /\ r1.sample = r2.sample
        /\ r1.seed = r2.seed \/ {r1, r2} \subseteq disk.fit \/ {r1, r2} \subseteq disk.holdout
        => r1 = r2

(* The packs after any campaigns, panels, re-runs and kills: partitions do  *)
(* not mix and nothing counts twice.                                        *)
PacksSound == PartitionKept /\ OneLabelPerSample

(* No label rests on one judge, on a minority or on the author: at least    *)
(* two judges voted for it, all of the graders when they decided ("never    *)
(* coerced to a majority vote", adversarial-label-campaign.ts:505) and more *)
(* than half of the votes that the panel had; and no judge is the author's  *)
(* model, as far as the program that decided was told that model.  Told     *)
(* nothing, as in a recorded campaign, it only keeps the generator from     *)
(* grading itself.                                                          *)
IndependentJudges ==
    \A r \in disk.fit \cup disk.holdout :
        LET judges == DOMAIN r.votes
            agreeing == {j \in judges : r.votes[j] = r.success}
        IN  ~r.weak => /\ Cardinality(agreeing) >= 2
                       /\ IF r.by = "graders" THEN agreeing = judges
                                              ELSE 2 * Cardinality(agreeing) > Cardinality(judges)
                       /\ \A j \in judges :
                            IF r.author = Undeclared THEN j # r.sample[2] ELSE ModelOf[j] # r.author
=============================================================================

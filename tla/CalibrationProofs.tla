--------------------------- MODULE CalibrationProofs ---------------------------
(***************************************************************************)
(* Proofs about the label packs of LabelCampaign and the reviewed rows of   *)
(* HumanReview, for any tasks, clients, answers, seeds and files; about the *)
(* tier that TierChoice chooses, for any fleet, prices and weights; and     *)
(* about the rates that IsotonicFit looks up, for any scores and labels.    *)
(***************************************************************************)
EXTENDS LabelCampaign, HumanReview, IsotonicFit, TierChoice, FleetLemmas, FiniteSetTheorems, SequenceTheorems

(* Votes that carry a label: two or more, all of the graders', more than    *)
(* half of a panel's, and none by what is known to be the author's model.   *)
VoteMaps == UNION {[judges -> BOOLEAN] : judges \in SUBSET Judges}
Agreeing(votes, success) == {j \in DOMAIN votes : votes[j] = success}
Carries(by, votes, success) ==
  /\ Cardinality(Agreeing(votes, success)) >= 2
  /\ IF by = "graders" THEN Agreeing(votes, success) = DOMAIN votes
                       ELSE 2 * Cardinality(Agreeing(votes, success)) > Cardinality(DOMAIN votes)
Independent(votes, author, generator) ==
  \A j \in DOMAIN votes : IF author = Undeclared THEN j # generator ELSE ModelOf[j] # author

(* The rows that a campaign or a panel may write into one of the packs: the *)
(* partition is the one their own seed draws, and the votes carry them.     *)
Authors ==
  {Undeclared} \cup {ModelOf[g] : g \in Generators}
  \cup UNION {{authors[g] : g \in Generators} : authors \in PanelAuthors}
RowSet ==
  [sample : Samples, seed : Seeds, split : {"fit", "holdout"}, success : BOOLEAN,
   by : {"graders", "panel"}, votes : VoteMaps, author : Authors, weak : {FALSE}]
Written(part) ==
  {r \in RowSet : /\ r.split = part /\ r.split = assignSessionHoldout(r.sample[1], r.seed)
                  /\ Carries(r.by, r.votes, r.success)
                  /\ Independent(r.votes, r.author, r.sample[2])}
Labels == Written("fit") \cup Written("holdout")

(* A pack has one row of a sample.                                          *)
Distinct(pack) == \A r1, r2 \in pack : r1.sample = r2.sample => r1 = r2

Reports == [seed : Seeds, disagreed : SUBSET Samples]
Disks == [report : Reports, fit : SUBSET (Written("fit") \cup WarmStart), holdout : SUBSET Written("holdout")]

CampaignInv == disk \in Disks /\ after \in Disks /\ left \in Seq({"report", "fit", "holdout"})

(* Both what is on the disk and what will be.                               *)
DistinctPacks(d) == Distinct(d.fit) /\ Distinct(d.holdout)
Unrepeated == DistinctPacks(disk) /\ DistinctPacks(after)

LEMMA DrawnPartition ==
  \A task, seed : assignSessionHoldout(task, seed) \in {"fit", "holdout"}
BY DEF assignSessionHoldout

LEMMA SplitLabels ==
  ASSUME NEW rows \in SUBSET Labels
  PROVE  /\ {r \in rows : r.split = "fit"} \subseteq Written("fit")
         /\ {r \in rows : r.split = "holdout"} \subseteq Written("holdout")
BY DEF Labels, Written

LEMMA WrittenRow ==
  ASSUME NEW s \in Samples, NEW seed \in Seeds, NEW d \in BOOLEAN, NEW by \in {"graders", "panel"},
         NEW votes \in VoteMaps, NEW author \in Authors,
         Carries(by, votes, d), Independent(votes, author, s[2])
  PROVE  Row(s, seed, seed, d, by, votes, author) \in Labels
<1> DEFINE r == Row(s, seed, seed, d, by, votes, author)
<1>1. /\ r.sample = s /\ r.seed = seed /\ r.split = assignSessionHoldout(s[1], seed)
      /\ r.success = d /\ r.by = by /\ r.votes = votes /\ r.author = author
  BY DEF Row
<1>2. r \in RowSet
  BY DrawnPartition DEF Row, RowSet
<1> HIDE DEF r
<1>3. r.split = "fit" \/ r.split = "holdout"
  BY <1>1, DrawnPartition
<1>4. r \in Labels
  BY <1>1, <1>2, <1>3 DEF Labels, Written
<1> QED BY <1>4 DEF r

LEMMA VotesCast ==
  ASSUME NEW sheet, NEW judges \in SUBSET Judges
  PROVE  /\ Votes(sheet, judges) \in VoteMaps /\ DOMAIN Votes(sheet, judges) = judges
         /\ Agreeing(Votes(sheet, judges), TRUE) = Passing(sheet, judges)
         /\ Agreeing(Votes(sheet, judges), FALSE) = judges \ Passing(sheet, judges)
<1>1. Votes(sheet, judges) \in [judges -> BOOLEAN] /\ DOMAIN Votes(sheet, judges) = judges
  BY DEF Votes
<1>2. Votes(sheet, judges) \in VoteMaps
  BY <1>1 DEF VoteMaps
<1>3. \A j \in judges : Votes(sheet, judges)[j] = (j \in Passing(sheet, judges))
  BY DEF Votes
<1>4. Passing(sheet, judges) \subseteq judges
  BY DEF Passing
<1> QED BY <1>1, <1>2, <1>3, <1>4, Zenon DEF Agreeing

(* The graders of a campaign, live or recorded, that agree carry a label.   *)
LEMMA GradersCarry ==
  ASSUME NEW recorded \in BOOLEAN, NEW sheet, NEW generator \in Generators,
         Cardinality(Used(recorded, generator)) >= 2, Unanimous(sheet, Used(recorded, generator))
  PROVE  LET judges == Used(recorded, generator)
             votes == Votes(sheet, judges)
         IN  /\ votes \in VoteMaps /\ Declared(recorded, generator) \in Authors
             /\ Carries("graders", votes, Passing(sheet, judges) # {})
             /\ Independent(votes, Declared(recorded, generator), generator)
<1> DEFINE judges == Used(recorded, generator)
           votes == Votes(sheet, judges)
           author == Declared(recorded, generator)
<1>1. judges \in SUBSET Judges
  BY DEF Used, Judges
<1>2. /\ votes \in VoteMaps /\ DOMAIN votes = judges
      /\ Agreeing(votes, TRUE) = Passing(sheet, judges)
      /\ Agreeing(votes, FALSE) = judges \ Passing(sheet, judges)
  BY <1>1, VotesCast
<1>3. author \in Authors
  BY DEF Declared, Authors
<1>4. \A j \in judges : IF author = Undeclared THEN j # generator ELSE ModelOf[j] # author
  BY DEF Used, isGraderExcludedForGenerator, Declared
<1>5. Independent(votes, author, generator)
  BY <1>2, <1>4 DEF Independent
<1>6. Passing(sheet, judges) \in {{}, judges} /\ judges # {}
  BY FS_EmptySet DEF Unanimous
<1> HIDE DEF judges, votes
<1>7. Agreeing(votes, Passing(sheet, judges) # {}) = judges
  <2>1. CASE Passing(sheet, judges) = {}
    <3>1. Agreeing(votes, FALSE) = judges
      BY <1>2, <2>1
    <3>2. (Passing(sheet, judges) # {}) = FALSE
      BY <2>1
    <3> QED BY <3>1, <3>2, Zenon
  <2>2. CASE Passing(sheet, judges) = judges
    <3>1. Agreeing(votes, TRUE) = judges
      BY <1>2, <2>2
    <3>2. (Passing(sheet, judges) # {}) = TRUE
      BY <1>6, <2>2
    <3> QED BY <3>1, <3>2, Zenon
  <2> QED BY <1>6, <2>1, <2>2
<1>8. Cardinality(judges) >= 2
  BY DEF judges
<1>9. Carries("graders", votes, Passing(sheet, judges) # {})
  BY <1>2, <1>7, <1>8 DEF Carries
<1> QED BY <1>2, <1>3, <1>5, <1>9 DEF judges, votes

LEMMA LabeledRows ==
  ASSUME NEW says, DOMAIN says \subseteq Samples, NEW seed \in Seeds, NEW recorded \in BOOLEAN,
         \A s \in DOMAIN says : Cardinality(Used(recorded, s[2])) >= 2
  PROVE  Labeled(recorded, says, seed) \subseteq Labels /\ Distinct(Labeled(recorded, says, seed))
<1> DEFINE Judging(s) == Used(recorded, s[2])
           RowOf(s) == Row(s, seed, seed, Passing(says[s], Judging(s)) # {}, "graders",
                           Votes(says[s], Judging(s)), Declared(recorded, s[2]))
<1>1. Labeled(recorded, says, seed) = {RowOf(s) : s \in {s \in DOMAIN says : Unanimous(says[s], Judging(s))}}
  BY DEF Labeled
<1>2. ASSUME NEW s \in DOMAIN says, Unanimous(says[s], Judging(s)) PROVE RowOf(s) \in Labels
  <2>1. s \in Samples /\ s[2] \in Generators
    BY DEF Samples
  <2>2. /\ Votes(says[s], Judging(s)) \in VoteMaps /\ Declared(recorded, s[2]) \in Authors
        /\ Carries("graders", Votes(says[s], Judging(s)), Passing(says[s], Judging(s)) # {})
        /\ Independent(Votes(says[s], Judging(s)), Declared(recorded, s[2]), s[2])
    BY <1>2, <2>1, GradersCarry
  <2> DEFINE passes == Passing(says[s], Judging(s)) # {}
             votes == Votes(says[s], Judging(s))
  <2>3. passes \in BOOLEAN
    OBVIOUS
  <2> HIDE DEF Judging, passes, votes
  <2>4. Row(s, seed, seed, passes, "graders", votes, Declared(recorded, s[2])) \in Labels
    BY <2>1, <2>2, <2>3, WrittenRow DEF passes, votes
  <2> QED BY <2>4 DEF passes, votes
<1>3. \A s : RowOf(s).sample = s
  BY DEF Row
<1> HIDE DEF RowOf
<1> QED BY <1>1, <1>2, <1>3 DEF Distinct

(* No panel has more than three judges: each that sits has its own number   *)
(* of predecessors that do, 0, 1 or 2.                                      *)
LEMMA PanelOfThree ==
  ASSUME NEW author
  PROVE  /\ IsFiniteSet(selectPanelForGenerator(author))
         /\ Cardinality(selectPanelForGenerator(author)) <= 3
<1> DEFINE Earlier(n) == {m \in 1 .. n - 1 : MaySit(author, m)}
           seats == {n \in DOMAIN Panel : MaySit(author, n) /\ Cardinality(Earlier(n)) < 3}
           rank == [n \in seats |-> Cardinality(Earlier(n))]
<1>1. Len(Panel) \in Nat /\ DOMAIN Panel = 1 .. Len(Panel)
  BY ListsAssumption
<1>2. ASSUME NEW n \in DOMAIN Panel PROVE IsFiniteSet(Earlier(n)) /\ Cardinality(Earlier(n)) \in Nat
  <2>1. n - 1 \in Int
    BY <1>1
  <2>2. IsFiniteSet(1 .. n - 1)
    BY <2>1, FS_Interval
  <2> QED BY <2>2, FS_Subset, FS_CardinalityType
<1>3. ASSUME NEW n1 \in seats, NEW n2 \in seats, n1 < n2 PROVE rank[n1] # rank[n2]
  <2>1. n1 \in Earlier(n2) /\ n1 \notin Earlier(n1) /\ Earlier(n1) \in SUBSET Earlier(n2)
    BY <1>1, <1>3
  <2>2. Cardinality(Earlier(n1)) # Cardinality(Earlier(n2))
    BY <1>2, <2>1, FS_Subset
  <2> QED BY <2>2
<1>4. rank \in Injection(seats, 0 .. 2)
  <2>1. \A n \in seats : rank[n] \in 0 .. 2
    BY <1>2
  <2>2. \A n1, n2 \in seats : n1 # n2 => n1 < n2 \/ n2 < n1
    BY <1>1
  <2>3. \A n1, n2 \in seats : rank[n1] = rank[n2] => n1 = n2
    BY <1>3, <2>2
  <2>4. rank \in [seats -> 0 .. 2]
    BY <2>1
  <2> HIDE DEF rank, seats
  <2> QED BY <2>3, <2>4 DEF Injection, IsInjective
<1>5. IsFiniteSet(seats) /\ Cardinality(seats) <= 3 /\ Cardinality(seats) \in Nat
  <2> HIDE DEF rank, seats
  <2>1. IsFiniteSet(0 .. 2) /\ Cardinality(0 .. 2) = IF 0 > 2 THEN 0 ELSE 2 - 0 + 1
    <3>1. 0 \in Int /\ 2 \in Int
      OBVIOUS
    <3> QED BY <3>1, FS_Interval
  <2> QED BY <1>4, <2>1, FS_Injection, FS_CardinalityType
<1>6. selectPanelForGenerator(author) = {Panel[n] : n \in seats}
  BY DEF selectPanelForGenerator
<1> DEFINE called == [n \in seats |-> Panel[n]]
<1> HIDE DEF seats
<1>7. called \in Surjection(seats, {Panel[n] : n \in seats})
  BY DEF Surjection
<1> HIDE DEF called
<1>8. IsFiniteSet({Panel[n] : n \in seats}) /\ Cardinality({Panel[n] : n \in seats}) <= Cardinality(seats)
  BY <1>5, <1>7, FS_Surjection
<1> QED BY <1>5, <1>6, <1>8, FS_CardinalityType

(* What a panel decides, more than half of its votes carry.                 *)
LEMMA PanelCarries ==
  ASSUME NEW author, author # Undeclared, NEW generator, NEW sheet,
         NEW judges, judges = Answering(sheet, selectPanelForGenerator(author)),
         NEW d \in majorityDecision(sheet, judges)
  PROVE  /\ d \in BOOLEAN /\ Votes(sheet, judges) \in VoteMaps
         /\ Carries("panel", Votes(sheet, judges), d)
         /\ Independent(Votes(sheet, judges), author, generator)
<1> DEFINE votes == Votes(sheet, judges)
           pass == Passing(sheet, judges)
           passing == Cardinality(pass)
           failing == Cardinality(judges \ pass)
<1>1. judges \subseteq selectPanelForGenerator(author)
  BY DEF Answering
<1>2. judges \in SUBSET Judges /\ \A j \in judges : ModelOf[j] # author
  BY <1>1 DEF selectPanelForGenerator, MaySit, Judges
<1>3. IsFiniteSet(judges) /\ Cardinality(judges) \in Nat /\ Cardinality(judges) <= 3
  <2>1. Cardinality(selectPanelForGenerator(author)) \in Nat
    BY PanelOfThree, FS_CardinalityType
  <2>2. /\ IsFiniteSet(judges) /\ Cardinality(judges) \in Nat
        /\ Cardinality(judges) <= Cardinality(selectPanelForGenerator(author))
    BY <1>1, PanelOfThree, FS_Subset, FS_CardinalityType
  <2> QED BY <2>1, <2>2, PanelOfThree
<1>4. passing \in Nat /\ failing \in Nat
  <2>1. pass \in SUBSET judges /\ judges \ pass \in SUBSET judges
    BY DEF Passing
  <2> QED BY <1>3, <2>1, FS_Subset, FS_CardinalityType
<1>5. /\ votes \in VoteMaps /\ DOMAIN votes = judges
      /\ Agreeing(votes, TRUE) = pass /\ Agreeing(votes, FALSE) = judges \ pass
  BY <1>2, VotesCast
<1>6. d \in (IF passing >= 2 THEN {TRUE} ELSE IF failing >= 2 THEN {FALSE} ELSE {})
  BY DEF majorityDecision
<1> HIDE DEF votes, pass
<1>7. (d = TRUE /\ passing >= 2) \/ (d = FALSE /\ failing >= 2)
  <2> HIDE DEF passing, failing
  <2> QED BY <1>6
<1>8. d \in BOOLEAN /\ Carries("panel", votes, d)
  <2>1. CASE d = TRUE /\ passing >= 2
    <3>1. Cardinality(Agreeing(votes, d)) = passing
      BY <1>5, <2>1
    <3>2. 2 * passing > Cardinality(DOMAIN votes)
      BY <1>3, <1>4, <1>5, <2>1
    <3> QED BY <2>1, <3>1, <3>2 DEF Carries
  <2>2. CASE d = FALSE /\ failing >= 2
    <3>1. Cardinality(Agreeing(votes, d)) = failing
      BY <1>5, <2>2
    <3>2. 2 * failing > Cardinality(DOMAIN votes)
      BY <1>3, <1>4, <1>5, <2>2
    <3> QED BY <2>2, <3>1, <3>2 DEF Carries
  <2> QED BY <1>7, <2>1, <2>2
<1>9. Independent(votes, author, generator)
  BY <1>2, <1>5 DEF Independent
<1> QED BY <1>5, <1>8, <1>9 DEF votes

LEMMA OneDecision ==
  \A sheet, judges : \A d1, d2 \in majorityDecision(sheet, judges) : d1 = d2
<1> SUFFICES ASSUME NEW sheet, NEW judges, NEW d1 \in majorityDecision(sheet, judges),
                    NEW d2 \in majorityDecision(sheet, judges)
             PROVE  d1 = d2
  OBVIOUS
<1> DEFINE passing == Cardinality(Passing(sheet, judges))
           failing == Cardinality(judges \ Passing(sheet, judges))
<1>1. majorityDecision(sheet, judges) = IF passing >= 2 THEN {TRUE} ELSE IF failing >= 2 THEN {FALSE} ELSE {}
  BY DEF majorityDecision
<1> HIDE DEF passing, failing
<1>2. CASE passing >= 2
  BY <1>1, <1>2
<1>3. CASE ~(passing >= 2) /\ failing >= 2
  BY <1>1, <1>3
<1>4. CASE ~(passing >= 2) /\ ~(failing >= 2)
  <2>1. majorityDecision(sheet, judges) = {}
    BY <1>1, <1>4
  <2> QED BY <2>1
<1> QED BY <1>2, <1>3, <1>4

LEMMA ResolvedRows ==
  ASSUME NEW report \in Reports, NEW says, DOMAIN says = report.disagreed, NEW authors \in PanelAuthors
  PROVE  Resolved(says, authors, report) \subseteq Labels /\ Distinct(Resolved(says, authors, report))
<1> DEFINE Usable(s) == Answering(says[s], selectPanelForGenerator(authors[s[2]]))
           RowOf(s, d) == Row(s, report.seed, SeedOf(report), d, "panel", Votes(says[s], Usable(s)), authors[s[2]])
           Of(s) == {RowOf(s, d) : d \in majorityDecision(says[s], Usable(s))}
<1>1. \A r \in Resolved(says, authors, report) : \E s \in DOMAIN says : authors[s[2]] # Undeclared /\ r \in Of(s)
  BY DEF Resolved
<1>2. report.seed \in Seeds /\ SeedOf(report) = report.seed /\ DOMAIN says \subseteq Samples
  BY DEF Reports, SeedOf
<1>3. ASSUME NEW s \in DOMAIN says, authors[s[2]] # Undeclared, NEW r \in Of(s) PROVE r \in Labels
  <2>1. PICK d \in majorityDecision(says[s], Usable(s)) : r = RowOf(s, d)
    OBVIOUS
  <2>2. s \in Samples /\ authors[s[2]] \in Authors
    BY <1>2 DEF Samples, Authors
  <2> DEFINE votes == Votes(says[s], Usable(s))
  <2>3. d \in BOOLEAN /\ votes \in VoteMaps /\ Carries("panel", votes, d) /\ Independent(votes, authors[s[2]], s[2])
    BY <1>3, PanelCarries
  <2>4. r = Row(s, report.seed, report.seed, d, "panel", votes, authors[s[2]])
    BY <1>2, <2>1
  <2> HIDE DEF Usable, RowOf, votes
  <2>5. Row(s, report.seed, report.seed, d, "panel", votes, authors[s[2]]) \in Labels
    BY <1>2, <2>2, <2>3, WrittenRow
  <2> QED BY <2>4, <2>5
<1>4. ASSUME NEW s \in DOMAIN says, NEW r1 \in Of(s), NEW r2 \in Of(s) PROVE r1 = r2
  <2>1. PICK d1 \in majorityDecision(says[s], Usable(s)) : r1 = RowOf(s, d1)
    OBVIOUS
  <2>2. PICK d2 \in majorityDecision(says[s], Usable(s)) : r2 = RowOf(s, d2)
    OBVIOUS
  <2> HIDE DEF Usable, RowOf
  <2>3. d1 = d2
    BY OneDecision
  <2> QED BY <2>1, <2>2, <2>3
<1>5. ASSUME NEW s \in DOMAIN says, NEW r \in Of(s) PROVE r.sample = s
  BY DEF Row
<1> HIDE DEF Of
<1> QED BY <1>1, <1>3, <1>4, <1>5 DEF Distinct

-----------------------------------------------------------------------------
(* The runs. *)

LEMMA CampaignKeeps ==
  ASSUME CampaignInv, NEW seed \in Seeds, NEW recorded \in BOOLEAN, NEW says,
         DOMAIN says \subseteq Samples, Campaign(seed, recorded, says)
  PROVE  /\ CampaignInv'
         /\ Unrepeated /\ Distinct(WarmStart) /\ (\A r \in WarmStart : r.sample \notin Samples) => Unrepeated'
<1> DEFINE labeled == Labeled(recorded, says, seed)
           valid == ReachesFloors(labeled, says)
           fitted == {r \in labeled : r.split = "fit"}
           heldOut == {r \in labeled : r.split = "holdout"}
           report == [seed |-> seed, disagreed |-> Disagreed(recorded, says)]
<1>1. /\ \A s \in DOMAIN says : Cardinality(Used(recorded, s[2])) >= 2
      /\ after' = [report |-> report,
                   fit |-> IF valid THEN fitted \cup WarmStart ELSE disk.fit,
                   holdout |-> IF valid THEN heldOut ELSE disk.holdout]
      /\ left' = IF valid THEN <<"report", "fit", "holdout">> ELSE <<"report">>
      /\ disk' = disk
  BY DEF Campaign
<1>2. labeled \in SUBSET Labels /\ Distinct(labeled)
  BY <1>1, LabeledRows
<1> HIDE DEF labeled, valid
<1>3. fitted \subseteq Written("fit") /\ heldOut \subseteq Written("holdout")
  BY <1>2, SplitLabels
<1>4. Distinct(fitted) /\ Distinct(heldOut)
  BY <1>2 DEF Distinct
<1>5. report \in Reports
  BY DEF Reports, Disagreed
<1> HIDE DEF fitted, heldOut, report
<1>6. disk.fit \in SUBSET (Written("fit") \cup WarmStart) /\ disk.holdout \in SUBSET Written("holdout")
  BY DEF CampaignInv, Disks
<1>7. after'.report = report /\ after'.fit \in {fitted \cup WarmStart, disk.fit} /\ after'.holdout \in {heldOut, disk.holdout}
  BY <1>1
<1>8. after' \in Disks
  BY <1>1, <1>3, <1>5, <1>6 DEF Disks
<1>9. left' \in Seq({"report", "fit", "holdout"})
  <2> DEFINE F == {"report", "fit", "holdout"}
  <2>1. <<"report", "fit", "holdout">> \in Seq(F) /\ <<"report">> \in Seq(F)
    OBVIOUS
  <2>2. left' = <<"report", "fit", "holdout">> \/ left' = <<"report">>
    <3>1. CASE valid
      BY <1>1, <3>1
    <3>2. CASE ~valid
      BY <1>1, <3>2
    <3> QED BY <3>1, <3>2
  <2> HIDE DEF F
  <2> QED BY <2>1, <2>2 DEF F
<1>10. CampaignInv'
  BY <1>1, <1>8, <1>9 DEF CampaignInv
<1>11. ASSUME Unrepeated, Distinct(WarmStart), \A r \in WarmStart : r.sample \notin Samples PROVE Unrepeated'
  <2>1. \A r \in fitted : r.sample \in Samples
    BY <1>3 DEF Written, RowSet
  <2>2. Distinct(fitted \cup WarmStart)
    BY <1>4, <1>11, <2>1 DEF Distinct
  <2>3. DistinctPacks(after')
    BY <1>4, <1>7, <1>11, <2>2 DEF Unrepeated, DistinctPacks
  <2> QED BY <1>1, <1>11, <2>3 DEF Unrepeated
<1> QED BY <1>10, <1>11

LEMMA PanelKeeps ==
  ASSUME CampaignInv, NEW says, NEW authors \in PanelAuthors, Adjudicate(says, authors)
  PROVE  CampaignInv' /\ (Unrepeated => Unrepeated')
<1> DEFINE rows == Resolved(says, authors, disk.report)
           new == NewRows(rows, disk.fit, disk.holdout)
           fitted == {r \in new : r.split = "fit"}
           heldOut == {r \in new : r.split = "holdout"}
<1>1. /\ DOMAIN says = disk.report.disagreed
      /\ after' = [disk EXCEPT !.fit = @ \cup fitted, !.holdout = @ \cup heldOut]
      /\ left' = <<"fit", "holdout">> /\ disk' = disk
  BY DEF Adjudicate
<1>2. disk \in Disks /\ disk.report \in Reports
  BY DEF CampaignInv, Disks
<1>3. rows \in SUBSET Labels /\ Distinct(rows)
  BY <1>1, <1>2, ResolvedRows
<1> HIDE DEF rows
<1>4. new \in SUBSET Labels /\ Distinct(new)
  BY <1>3 DEF NewRows, Distinct
<1>5. \A r \in new : \A old \in disk.fit \cup disk.holdout : old.sample # r.sample
  BY DEF NewRows
<1> HIDE DEF new
<1>6. fitted \subseteq Written("fit") /\ heldOut \subseteq Written("holdout")
  BY <1>4, SplitLabels
<1>7. /\ Distinct(fitted) /\ \A r \in fitted : \A old \in disk.fit : old.sample # r.sample
      /\ Distinct(heldOut) /\ \A r \in heldOut : \A old \in disk.holdout : old.sample # r.sample
  BY <1>4, <1>5 DEF Distinct
<1> HIDE DEF fitted, heldOut
<1>8. /\ after'.fit = disk.fit \cup fitted /\ after'.holdout = disk.holdout \cup heldOut
      /\ after' \in Disks
  BY <1>1, <1>2, <1>6 DEF Disks
<1>9. left' \in Seq({"report", "fit", "holdout"})
  BY <1>1
<1>10. CampaignInv'
  BY <1>1, <1>8, <1>9 DEF CampaignInv
<1>11. ASSUME Unrepeated PROVE Unrepeated'
  <2>1. Distinct(disk.fit \cup fitted)
    BY <1>7, <1>11 DEF Unrepeated, DistinctPacks, Distinct
  <2>2. Distinct(disk.holdout \cup heldOut)
    BY <1>7, <1>11 DEF Unrepeated, DistinctPacks, Distinct
  <2> QED BY <1>1, <1>8, <1>11, <2>1, <2>2 DEF Unrepeated, DistinctPacks
<1> QED BY <1>10, <1>11

LEMMA WriteKeeps ==
  ASSUME CampaignInv, Write
  PROVE  CampaignInv' /\ (Unrepeated => Unrepeated')
<1>1. /\ left # <<>> /\ disk' = [disk EXCEPT ![Head(left)] = after[Head(left)]]
      /\ left' = Tail(left) /\ after' = after
  BY DEF Write
<1>2. Head(left) \in {"report", "fit", "holdout"} /\ Tail(left) \in Seq({"report", "fit", "holdout"})
  BY <1>1, HeadTailProperties DEF CampaignInv
<1>3. disk \in Disks /\ after \in Disks
  BY DEF CampaignInv
<1>4. /\ disk' \in Disks
      /\ disk'.fit \in {disk.fit, after.fit} /\ disk'.holdout \in {disk.holdout, after.holdout}
  <2>1. CASE Head(left) = "report"
    BY <1>1, <1>3, <2>1 DEF Disks
  <2>2. CASE Head(left) = "fit"
    BY <1>1, <1>3, <2>2 DEF Disks
  <2>3. CASE Head(left) = "holdout"
    BY <1>1, <1>3, <2>3 DEF Disks
  <2> QED BY <1>2, <2>1, <2>2, <2>3
<1>5. CampaignInv'
  BY <1>1, <1>2, <1>3, <1>4 DEF CampaignInv
<1>6. Unrepeated => Unrepeated'
  BY <1>1, <1>4 DEF Unrepeated, DistinctPacks
<1> QED BY <1>5, <1>6

LEMMA CampaignStep ==
  ASSUME CampaignInv, [Next]_vars
  PROVE  /\ CampaignInv'
         /\ Unrepeated /\ Distinct(WarmStart) /\ (\A r \in WarmStart : r.sample \notin Samples) => Unrepeated'
<1>1. CASE RunCampaign
  <2>1. PICK seed \in Seeds, recorded \in BOOLEAN, limit \in 0 .. Len(Tasks) :
          \E says \in Says({Tasks[n] : n \in 1 .. limit} \X Generators) : Campaign(seed, recorded, says)
    BY <1>1 DEF RunCampaign
  <2>2. PICK says \in Says({Tasks[n] : n \in 1 .. limit} \X Generators) : Campaign(seed, recorded, says)
    BY <2>1
  <2>3. DOMAIN says = {Tasks[n] : n \in 1 .. limit} \X Generators
    BY DEF Says
  <2>4. 1 .. limit \subseteq DOMAIN Tasks
    BY ListsAssumption
  <2>5. DOMAIN says \subseteq Samples
    BY <2>3, <2>4 DEF Samples
  <2> QED BY <2>2, <2>5, CampaignKeeps
<1>2. CASE RunPanel
  BY <1>2, PanelKeeps DEF RunPanel
<1>3. CASE Write
  BY <1>3, WriteKeeps
<1>4. CASE Killed
  <2>1. left' = <<>> /\ after' = disk /\ disk' = disk
    BY <1>4 DEF Killed
  <2> QED BY <2>1 DEF CampaignInv, Unrepeated, DistinctPacks
<1>5. CASE UNCHANGED vars
  BY <1>5 DEF vars, CampaignInv, Unrepeated, DistinctPacks
<1> QED BY <1>1, <1>2, <1>3, <1>4, <1>5 DEF Next

LEMMA CampaignInit == Init => CampaignInv /\ Unrepeated
<1> SUFFICES ASSUME Init PROVE CampaignInv /\ Unrepeated
  OBVIOUS
<1>1. /\ disk = [report |-> [seed |-> CHOOSE s \in Seeds : TRUE, disagreed |-> {}], fit |-> {}, holdout |-> {}]
      /\ after = disk /\ left = <<>>
  BY DEF Init
<1>2. (CHOOSE s \in Seeds : TRUE) \in Seeds
  BY ListsAssumption
<1>3. disk.fit = {} /\ disk.holdout = {} /\ disk \in Disks
  BY <1>1, <1>2 DEF Disks, Reports
<1>4. Unrepeated
  BY <1>1, <1>3 DEF Unrepeated, DistinctPacks, Distinct
<1> QED BY <1>1, <1>3, <1>4 DEF CampaignInv

LEMMA CampaignInvHolds == Spec => []CampaignInv
BY CampaignInit, CampaignStep, PTL DEF Spec

-----------------------------------------------------------------------------
(* Whatever campaigns, live or recorded, panels and kills produced the      *)
(* packs: behind every row that is not a warm start's stand at least two    *)
(* judges who voted for its label, all of the graders or more than half of  *)
(* the panel, and none of them is of the model that the program which       *)
(* decided took the author to be.  Of a recorded campaign this only says    *)
(* that the generator did not grade itself: its clients declare no model.   *)
THEOREM JudgesAreIndependent == Spec => []IndependentJudges
<1>1. CampaignInv => IndependentJudges
  <2> SUFFICES ASSUME CampaignInv, NEW r \in disk.fit \cup disk.holdout, ~r.weak
               PROVE  /\ Carries(r.by, r.votes, r.success)
                      /\ Independent(r.votes, r.author, r.sample[2])
    BY DEF IndependentJudges, Carries, Agreeing, Independent
  <2>1. r \in Written("fit") \cup Written("holdout") \cup WarmStart
    BY DEF CampaignInv, Disks
  <2>2. r \notin WarmStart
    BY WarmStartAssumption
  <2> QED BY <2>1, <2>2 DEF Written
<1> QED BY <1>1, CampaignInvHolds, PTL

(* With one seed no session is both fitted and held out and no held-out row *)
(* is in the fit pack, and a pack has one row of a sample, after any        *)
(* sequence of campaigns, panels and kills between two writes.  That no row *)
(* is duplicated needs warm-start packs without duplicates, of answers that *)
(* are not the campaign's: the code adds them unchecked.                    *)
THEOREM PacksStaySound ==
  ASSUME \A r1, r2 \in WarmStart : r1.sample = r2.sample => r1 = r2,
         \A r \in WarmStart : r.sample \notin Samples
  PROVE  Spec => []PacksSound
<1>1. CampaignInv => PartitionKept
  <2> SUFFICES ASSUME CampaignInv PROVE PartitionKept
    OBVIOUS
  <2>1. disk.fit \subseteq Written("fit") \cup WarmStart /\ disk.holdout \subseteq Written("holdout")
    BY DEF CampaignInv, Disks
  <2>2. \A r \in disk.fit : r.split # "holdout"
    BY <2>1, WarmStartAssumption DEF Written
  <2>3. \A r \in disk.holdout : r.split = "holdout"
    BY <2>1 DEF Written
  <2> DEFINE trained == partitionPackRowsBySession(disk.fit \cup disk.holdout)
  <2>4. trained.fit \subseteq Written("fit") /\ trained.holdout \subseteq Written("holdout")
    BY <2>1, <2>2, <2>3, WarmStartAssumption DEF partitionPackRowsBySession, isWeakLabelPackRow
  <2> HIDE DEF trained
  <2>5. ASSUME NEW f \in trained.fit, NEW h \in trained.holdout, f.seed = h.seed,
               SessionOf[f.sample[1]] = SessionOf[h.sample[1]]
        PROVE  FALSE
    <3>1. /\ assignSessionHoldout(f.sample[1], f.seed) = "fit"
          /\ assignSessionHoldout(h.sample[1], h.seed) = "holdout"
      BY <2>4 DEF Written
    <3> QED BY <2>5, <3>1 DEF assignSessionHoldout
  <2> QED BY <2>2, <2>3, <2>5 DEF PartitionKept, trained
<1>2. CampaignInv /\ Unrepeated => OneLabelPerSample
  <2> SUFFICES ASSUME CampaignInv, Unrepeated,
                      NEW r1 \in disk.fit \cup disk.holdout, NEW r2 \in disk.fit \cup disk.holdout,
                      r1.sample = r2.sample,
                      r1.seed = r2.seed \/ {r1, r2} \subseteq disk.fit \/ {r1, r2} \subseteq disk.holdout
               PROVE  r1 = r2
    BY DEF OneLabelPerSample
  <2>1. disk.fit \subseteq Written("fit") \cup WarmStart /\ disk.holdout \subseteq Written("holdout")
    BY DEF CampaignInv, Disks
  <2>2. Distinct(disk.fit) /\ Distinct(disk.holdout)
    BY DEF Unrepeated, DistinctPacks
  <2>3. ASSUME NEW f \in disk.fit, NEW h \in disk.holdout, f.sample = h.sample, f.seed = h.seed PROVE FALSE
    <3>1. h \in Written("holdout") /\ h.sample \in Samples
      BY <2>1 DEF Written, RowSet
    <3>2. f \in Written("fit")
      BY <2>1, <2>3, <3>1
    <3> QED BY <2>3, <3>1, <3>2 DEF Written
  <2>4. CASE {r1, r2} \subseteq disk.fit \/ {r1, r2} \subseteq disk.holdout
    BY <2>2, <2>4 DEF Distinct
  <2>5. CASE r1.seed = r2.seed
    BY <2>2, <2>3, <2>5 DEF Distinct
  <2> QED BY <2>4, <2>5
<1>3. Distinct(WarmStart) /\ \A r \in WarmStart : r.sample \notin Samples
  BY DEF Distinct
<1>4. Init => CampaignInv /\ Unrepeated
  BY CampaignInit
<1>5. CampaignInv /\ Unrepeated /\ [Next]_vars => (CampaignInv /\ Unrepeated)'
  BY <1>3, CampaignStep
<1>6. CampaignInv /\ Unrepeated => PacksSound
  BY <1>1, <1>2 DEF PacksSound
<1> QED BY <1>4, <1>5, <1>6, PTL DEF Spec

-----------------------------------------------------------------------------
(* The reviewed rows.  A row carries only feedback that was given for its   *)
(* id, and one that counts carries some.                                    *)
Vouched(row, given) ==
  /\ "feedback_good" \in row.signals => <<row.id, "good">> \in given
  /\ "feedback_bad" \in row.signals => <<row.id, "bad">> \in given
  /\ isShipEligibleProvenance(row) => row.signals \cap Feedback # {}

HumanInv ==
  /\ dir \in [1 .. Files -> SUBSET ExportRow]
  /\ \A f \in 1 .. Files : \A r \in dir[f] : Vouched(r, answered)

LEMMA VouchedStays ==
  ASSUME NEW r, NEW given, NEW more, Vouched(r, given), given \subseteq more
  PROVE  Vouched(r, more)
BY DEF Vouched

LEMMA EmittedRow ==
  ASSUME NEW row \in ExportRow, NEW decision \in Decisions, NEW given, <<row.id, decision>> \in given
  PROVE  /\ emitHumanFeedbackRow(row, decision) \in ExportRow
         /\ Vouched(emitHumanFeedbackRow(row, decision), given)
<1> DEFINE new == IF decision = "good" THEN "feedback_good" ELSE "feedback_bad"
           signals == (row.signals \ Feedback) \cup {new}
           r == emitHumanFeedbackRow(row, decision)
<1>1. new \in Feedback
  BY DEF Feedback
<1>2. signals \in SUBSET (Feedback \cup {"failure"}) /\ signals \cap Feedback # {}
  BY <1>1 DEF ExportRow
<1>3. ("feedback_good" \in signals => decision = "good") /\ ("feedback_bad" \in signals => decision = "bad")
  BY DEF Feedback, Decisions
<1>4. r = [row EXCEPT !.signals = signals, !.success = decision, !.provenance = "human_feedback"]
  BY DEF emitHumanFeedbackRow
<1> HIDE DEF signals, r
<1>5. r \in ExportRow /\ r.id = row.id /\ r.signals = signals
  BY <1>2, <1>4 DEF ExportRow, Decisions
<1> QED BY <1>2, <1>3, <1>5 DEF Vouched, r

(* Whatever file the reviewed rows go to: answers to them that were given.  *)
LEMMA ReviewKeeps ==
  ASSUME HumanInv, NEW rows \in SUBSET ExportRow, NEW answers, NEW out \in 1 .. Files,
         Review(rows, answers, out), answered \subseteq answered',
         \A i \in DOMAIN answers : answers[i] \in Decisions /\ <<i, answers[i]>> \in answered'
  PROVE  HumanInv'
<1> DEFINE new == applyReviewDecisions(rows, answers)
<1>1. ASSUME NEW r \in new PROVE r \in ExportRow /\ Vouched(r, answered')
  <2>1. PICK row \in rows : row.id \in DOMAIN answers /\ r = emitHumanFeedbackRow(row, answers[row.id])
    BY DEF applyReviewDecisions
  <2> QED BY <2>1, EmittedRow
<1>2. dir' = [dir EXCEPT ![out] = new]
  BY DEF Review
<1> HIDE DEF new
<1>3. /\ dir' \in [1 .. Files -> SUBSET ExportRow]
      /\ \A f \in 1 .. Files : dir'[f] = IF f = out THEN new ELSE dir[f]
  BY <1>1, <1>2 DEF HumanInv
<1>4. ASSUME NEW f \in 1 .. Files, NEW r \in dir'[f] PROVE Vouched(r, answered')
  <2>1. CASE f = out
    BY <1>1, <1>3, <1>4, <2>1
  <2>2. CASE f # out
    BY <1>3, <1>4, <2>2, VouchedStays DEF HumanInv
  <2> QED BY <2>1, <2>2
<1> QED BY <1>3, <1>4 DEF HumanInv

(* Feedback given in a session answers for its row as that person did.      *)
LEMMA FeedbackAnswers ==
  ASSUME HumanInv, NEW f \in 1 .. Files
  PROVE  LET answers == answersFromExistingFeedback(dir[f])
         IN  \A i \in DOMAIN answers : answers[i] \in Decisions /\ <<i, answers[i]>> \in answered
<1> DEFINE rows == dir[f]
           answers == answersFromExistingFeedback(rows)
<1> SUFFICES ASSUME NEW i \in DOMAIN answers
             PROVE  answers[i] \in Decisions /\ <<i, answers[i]>> \in answered
  OBVIOUS
<1>1. /\ DOMAIN answers = {r.id : r \in Rated(rows)}
      /\ answers[i] = IF \E r \in Rated(rows) : r.id = i /\ "feedback_good" \in r.signals THEN "good" ELSE "bad"
  BY DEF answersFromExistingFeedback
<1>2. Rated(rows) \subseteq rows /\ \A r \in rows : Vouched(r, answered)
  BY DEF Rated, HumanInv
<1>3. \A r \in Rated(rows) : "feedback_good" \in r.signals \/ "feedback_bad" \in r.signals
  BY DEF Rated, Feedback
<1>4. PICK rated \in Rated(rows) : rated.id = i
  BY <1>1
<1> HIDE DEF rows, answers
<1>5. CASE \E r \in Rated(rows) : r.id = i /\ "feedback_good" \in r.signals
  BY <1>1, <1>2, <1>5 DEF Vouched, Decisions
<1>6. CASE ~\E r \in Rated(rows) : r.id = i /\ "feedback_good" \in r.signals
  <2>1. "feedback_bad" \in rated.signals
    BY <1>3, <1>4, <1>6
  <2> QED BY <1>1, <1>2, <1>4, <1>6, <2>1 DEF Vouched, Decisions
<1> QED BY <1>5, <1>6 DEF answers, rows

LEMMA HumanStep ==
  ASSUME \A rows \in Exports : \A r \in rows : isShipEligibleProvenance(r) => r.signals \cap Feedback # {},
         HumanInv, [HumanNext]_hvars
  PROVE  HumanInv'
<1>1. CASE PlaceExport
  <2>1. PICK f \in 1 .. Files, rows \in Exports :
          /\ dir' = [dir EXCEPT ![f] = rows]
          /\ answered' = answered \cup {<<r.id, "good">> : r \in {r \in rows : "feedback_good" \in r.signals}}
                                  \cup {<<r.id, "bad">> : r \in {r \in rows : "feedback_bad" \in r.signals}}
    BY <1>1 DEF PlaceExport
  <2>2. rows \in SUBSET ExportRow
    BY RowsAssumption
  <2>3. answered \subseteq answered'
    BY <2>1
  <2>4. \A r \in rows : Vouched(r, answered')
    BY <2>1 DEF Vouched
  <2>5. /\ dir' \in [1 .. Files -> SUBSET ExportRow]
        /\ \A g \in 1 .. Files : dir'[g] = IF g = f THEN rows ELSE dir[g]
    BY <2>1, <2>2 DEF HumanInv
  <2>6. ASSUME NEW g \in 1 .. Files, NEW r \in dir'[g] PROVE Vouched(r, answered')
    <3>1. CASE g = f
      BY <2>4, <2>5, <2>6, <3>1
    <3>2. CASE g # f
      BY <2>3, <2>5, <2>6, <3>2, VouchedStays DEF HumanInv
    <3> QED BY <3>1, <3>2
  <2> QED BY <2>5, <2>6 DEF HumanInv
<1>2. CASE ReviewAnswers
  <2>1. PICK rows \in {Queue} \cup {dir[f] : f \in 1 .. Files}, out \in 1 .. Files :
          \E asked \in SUBSET {r.id : r \in rows} :
            \E answers \in [asked -> Decisions] :
              /\ Review(rows, answers, out)
              /\ answered' = answered \cup {<<i, answers[i]>> : i \in asked}
    BY <1>2 DEF ReviewAnswers
  <2>5. PICK asked \in SUBSET {r.id : r \in rows} :
          \E answers \in [asked -> Decisions] :
            /\ Review(rows, answers, out)
            /\ answered' = answered \cup {<<i, answers[i]>> : i \in asked}
    BY <2>1
  <2>2. PICK answers \in [asked -> Decisions] :
          /\ Review(rows, answers, out)
          /\ answered' = answered \cup {<<i, answers[i]>> : i \in asked}
    BY <2>5
  <2>3. rows \in SUBSET ExportRow
    BY RowsAssumption DEF HumanInv
  <2>4. answered \subseteq answered' /\ \A i \in DOMAIN answers : answers[i] \in Decisions /\ <<i, answers[i]>> \in answered'
    BY <2>2
  <2> QED BY <2>2, <2>3, <2>4, ReviewKeeps
<1>3. CASE ReviewFromFeedback
  <2>1. PICK f \in 1 .. Files, out \in 1 .. Files : Review(dir[f], answersFromExistingFeedback(dir[f]), out)
    BY <1>3 DEF ReviewFromFeedback
  <2>2. answered' = answered
    BY <1>3 DEF ReviewFromFeedback
  <2>3. dir[f] \in SUBSET ExportRow
    BY DEF HumanInv
  <2> DEFINE answers == answersFromExistingFeedback(dir[f])
  <2>4. \A i \in DOMAIN answers : answers[i] \in Decisions /\ <<i, answers[i]>> \in answered
    BY FeedbackAnswers
  <2> HIDE DEF answers
  <2>5. Review(dir[f], answers, out)
    BY <2>1 DEF answers
  <2> QED BY <2>2, <2>3, <2>4, <2>5, ReviewKeeps
<1>4. CASE UNCHANGED hvars
  BY <1>4 DEF hvars, HumanInv
<1> QED BY <1>1, <1>2, <1>3, <1>4 DEF HumanNext

(* A human label that trains is one a person gave to that row, after any    *)
(* exports, reviews and overwritten files: given only that no export claims *)
(* a provenance that counts for a row without feedback.  Telemetry writes   *)
(* no provenance at all; the review's own rows have feedback.               *)
THEOREM HumanLabelsAreAnswered ==
  ASSUME \A rows \in Exports : \A r \in rows : isShipEligibleProvenance(r) => r.signals \cap Feedback # {}
  PROVE  HumanInit /\ [][HumanNext]_hvars => []HumanLabelsAnswered
<1>1. HumanInit => HumanInv
  BY DEF HumanInit, HumanInv
<1>2. HumanInv /\ [HumanNext]_hvars => HumanInv'
  BY HumanStep
<1>3. HumanInv => HumanLabelsAnswered
  <2> SUFFICES ASSUME HumanInv, NEW r \in Trained
               PROVE  \/ <<r.id, r.success>> \in answered
                      \/ r.success = "bad" /\ "failure" \in r.signals /\ <<r.id, "good">> \in answered
    BY DEF HumanLabelsAnswered
  <2>0. PICK f \in 1 .. Files : \E row \in dir[f] : r = Enriched(row)
    BY DEF Trained, LabeledSamples, Aggregated
  <2>1. PICK row \in dir[f] : r = Enriched(row)
    BY <2>0
  <2>2. row \in ExportRow /\ Vouched(row, answered)
    BY <2>1 DEF HumanInv
  <2>3. r = [row EXCEPT !.success = Derived(row)]
    BY <2>1 DEF Enriched
  <2>4. r.id = row.id /\ r.signals = row.signals /\ r.success = Derived(row) /\ r.provenance = row.provenance
    BY <2>2, <2>3 DEF ExportRow
  <2>5. row.signals \cap Feedback # {}
    BY <2>2, <2>4 DEF Trained, LabeledSamples, isShipEligibleProvenance, Vouched
  <2>6. "feedback_good" \in row.signals \/ "feedback_bad" \in row.signals
    BY <2>5 DEF Feedback
  <2>7. CASE "feedback_bad" \in row.signals
    BY <2>2, <2>4, <2>7 DEF Vouched, Derived
  <2>8. CASE "feedback_bad" \notin row.signals
    BY <2>2, <2>4, <2>6, <2>8 DEF Vouched, Derived
  <2> QED BY <2>7, <2>8
<1> QED BY <1>1, <1>2, <1>3, PTL

-----------------------------------------------------------------------------
(* The choice of a tier. *)

(* Products of naturals keep an order.                                      *)
LEMMA TimesKeepsOrder ==
  ASSUME NEW a \in Int, NEW b \in Int, NEW c \in Nat, a <= b
  PROVE  a * c <= b * c
<1>1. (b - a) * c >= 0
  OBVIOUS
<1>2. (b - a) * c = b * c - a * c
  OBVIOUS
<1> QED BY <1>1, <1>2

LEMMA TimesKeepsStrict ==
  ASSUME NEW a \in Int, NEW b \in Int, NEW c \in Nat \ {0}
  PROVE  /\ a < b <=> a * c < b * c
         /\ a = b <=> a * c = b * c
<1>1. ASSUME NEW x \in Int, NEW y \in Int, x < y
      PROVE  x * c < y * c
  <2>1. (y - x) * c > 0
    BY <1>1
  <2>2. (y - x) * c = y * c - x * c
    OBVIOUS
  <2> QED BY <2>1, <2>2
<1>2. a < b => a * c < b * c
  BY <1>1
<1>3. b < a => b * c < a * c
  BY <1>1
<1>4. a * c \in Int /\ b * c \in Int
  OBVIOUS
<1> QED BY <1>2, <1>3, <1>4

-----------------------------------------------------------------------------
Amounts == [TierName -> Nat]
Market ==
  [fleet : SUBSET Models, prices : PriceList, quota : 0 .. Window, trust : 0 .. Parts,
   alpha : 0 .. Parts, ready : BOOLEAN, pin : Models \cup {NoModel}]

(* How the expected cost of a cheap tier weighs its own cost and that of the *)
(* frontier.                                                                *)
Risk(k)   == (Parts - k.alpha) * (Parts - k.trust)
Own(k)    == Parts * Parts + Risk(k)
Frontier(k) == Parts * (Parts - k.trust) + Risk(k)

LEMMA WeightsAreNatural ==
  ASSUME NEW k \in Market
  PROVE  Risk(k) \in Nat /\ Own(k) \in Nat \ {0} /\ Frontier(k) \in Nat
<1>1. Parts \in Nat \ {0} /\ Parts - k.alpha \in Nat /\ Parts - k.trust \in Nat
  BY PartsAssumption DEF Market
<1>2. ASSUME NEW x \in Nat, NEW y \in Nat PROVE x * y \in Nat
  OBVIOUS
<1>3. Parts * Parts > 0
  BY <1>1
<1> QED BY <1>1, <1>2, <1>3 DEF Risk, Own, Frontier

LEMMA CheapExpected ==
  ASSUME NEW k \in Market, NEW cost \in Amounts, NEW t \in Cheap
  PROVE  adjustedExpectedCost(k, cost, t) = Own(k) * cost[t] + Frontier(k) * cost["frontier-cloud"]
<1> DEFINE P == Parts  p == k.trust  a == k.alpha  c == cost[t]  f == cost["frontier-cloud"]
<1>1. P \in Int /\ p \in Int /\ a \in Int /\ c \in Int /\ f \in Int
  BY PartsAssumption DEF Market, Amounts, Cheap, TierName
<1>2. adjustedExpectedCost(k, cost, t) =
        P * (p * c + (P - p) * (c + f)) + (P - a) * ((P - p) * (c + f))
  BY DEF adjustedExpectedCost, resolvePSuccessForTier, buildEscalationCost, Cheap
<1>3. Own(k) = P * P + (P - a) * (P - p) /\ Frontier(k) = P * (P - p) + (P - a) * (P - p)
  BY DEF Own, Frontier, Risk
<1> HIDE DEF P, p, a, c, f
<1>4. P * (p * c + (P - p) * (c + f)) + (P - a) * ((P - p) * (c + f))
        = (P * P + (P - a) * (P - p)) * c + (P * (P - p) + (P - a) * (P - p)) * f
  BY <1>1
<1> QED BY <1>2, <1>3, <1>4 DEF c, f

LEMMA FrontierExpected ==
  ASSUME NEW k \in Market, NEW cost \in Amounts
  PROVE  adjustedExpectedCost(k, cost, "frontier-cloud") = (Parts * Parts) * cost["frontier-cloud"]
<1> DEFINE P == Parts  a == k.alpha  f == cost["frontier-cloud"]
<1>1. P \in Int /\ a \in Int /\ f \in Int
  BY PartsAssumption DEF Market, Amounts, TierName
<1>2. adjustedExpectedCost(k, cost, "frontier-cloud") = P * (P * f + (P - P) * 0) + (P - a) * ((P - P) * 0)
  BY DEF adjustedExpectedCost, resolvePSuccessForTier, buildEscalationCost
<1> HIDE DEF P, a, f
<1>3. P * (P * f + (P - P) * 0) + (P - a) * ((P - P) * 0) = (P * P) * f
  BY <1>1
<1> QED BY <1>2, <1>3 DEF P, f

LEMMA ExpectedIsNatural ==
  ASSUME NEW k \in Market, NEW cost \in Amounts, NEW t \in TierName
  PROVE  adjustedExpectedCost(k, cost, t) \in Nat
<1>1. cost[t] \in Nat /\ cost["frontier-cloud"] \in Nat
  BY DEF Amounts, TierName
<1>2. ASSUME NEW x \in Nat, NEW y \in Nat PROVE x * y \in Nat
  OBVIOUS
<1>3. Own(k) \in Nat /\ Frontier(k) \in Nat /\ Parts * Parts \in Nat
  BY WeightsAreNatural, PartsAssumption, <1>2
<1>4. CASE t \in Cheap
  <2>1. Own(k) * cost[t] \in Nat /\ Frontier(k) * cost["frontier-cloud"] \in Nat
    BY <1>1, <1>2, <1>3
  <2> QED BY <1>4, <2>1, CheapExpected
<1>5. CASE t = "frontier-cloud"
  BY <1>1, <1>2, <1>3, <1>5, FrontierExpected
<1> QED BY <1>4, <1>5 DEF TierName, Cheap

-----------------------------------------------------------------------------
(* Comparing tiers.                                                         *)
Beats(k, cost, t, u) ==
  \/ adjustedExpectedCost(k, cost, t) < adjustedExpectedCost(k, cost, u)
  \/ adjustedExpectedCost(k, cost, t) = adjustedExpectedCost(k, cost, u) /\ Before(k, t, u)

Leads(k, cost, t) ==
  t \in listViableTiers(k) /\ \A u \in listViableTiers(k) \ {t} : Beats(k, cost, t, u)

LEMMA FirstIsFirst ==
  ASSUME NEW fleet \in SUBSET Models, fleet # {}
  PROVE  \E i \in DOMAIN Catalog :
           /\ Catalog[i] = First(fleet) /\ Catalog[i] \in fleet
           /\ \A j \in DOMAIN Catalog : Catalog[j] \in fleet => i <= j
<1> DEFINE hits == {i \in DOMAIN Catalog : Catalog[i] \in fleet}
<1>1. hits # {} /\ hits \subseteq Nat
  BY CatalogAssumption
<1>2. PICK i \in hits : \A j \in hits : <<j, i>> \notin OpToRel(<, Nat)
  BY <1>1, NatLessThanWellFounded, WFMin
<1>3. \A j \in hits : ~ (j < i)
  BY <1>1, <1>2, Zenon DEF OpToRel
<1>4. \A j \in hits : i <= j
  BY <1>1, <1>3
<1>5. \E k \in DOMAIN Catalog :
        /\ Catalog[k] \in fleet
        /\ \A j \in DOMAIN Catalog : Catalog[j] \in fleet => k <= j
  BY <1>4
<1> QED BY <1>5 DEF First

(* The first model that is up of a viable tier is somewhere in the catalog. *)
Rivals(k, t, u) == {m \in k.fleet : IsHealthy(m) /\ Profile[m].tier \in {t, u}}

LEMMA RivalsMeet ==
  ASSUME NEW k \in Market, NEW t \in listViableTiers(k), NEW u \in listViableTiers(k)
  PROVE  \E i \in DOMAIN Catalog :
           /\ Catalog[i] \in Rivals(k, t, u)
           /\ \A j \in DOMAIN Catalog : Catalog[j] \in Rivals(k, t, u) => i <= j
           /\ Before(k, t, u) <=> Profile[Catalog[i]].tier = t
<1>1. Rivals(k, t, u) \in SUBSET Models /\ Rivals(k, t, u) # {}
  BY DEF Rivals, Market, listViableTiers, OnTier
<1> QED BY <1>1, FirstIsFirst DEF Before, Rivals

LEMMA BeforeIsTotal ==
  ASSUME NEW k \in Market, NEW t \in listViableTiers(k), NEW u \in listViableTiers(k), t # u
  PROVE  Before(k, t, u) <=> ~Before(k, u, t)
<1>1. Rivals(k, t, u) = Rivals(k, u, t)
  BY DEF Rivals
<1>2. PICK i \in DOMAIN Catalog :
        /\ Catalog[i] \in Rivals(k, t, u)
        /\ \A j \in DOMAIN Catalog : Catalog[j] \in Rivals(k, t, u) => i <= j
        /\ Before(k, t, u) <=> Profile[Catalog[i]].tier = t
  BY RivalsMeet
<1>3. PICK n \in DOMAIN Catalog :
        /\ Catalog[n] \in Rivals(k, u, t)
        /\ \A j \in DOMAIN Catalog : Catalog[j] \in Rivals(k, u, t) => n <= j
        /\ Before(k, u, t) <=> Profile[Catalog[n]].tier = u
  BY RivalsMeet
<1>4. DOMAIN Catalog \subseteq Int
  BY CatalogAssumption
<1>5. i = n
  BY <1>1, <1>2, <1>3, <1>4
<1> QED BY <1>2, <1>3, <1>5 DEF Rivals

LEMMA BeforeIsTransitive ==
  ASSUME NEW k \in Market, NEW t \in listViableTiers(k), NEW u \in listViableTiers(k),
         NEW v \in listViableTiers(k), t # u, u # v, t # v, Before(k, t, u), Before(k, u, v)
  PROVE  Before(k, t, v)
<1>1. PICK i \in DOMAIN Catalog :
        /\ Catalog[i] \in Rivals(k, t, u)
        /\ \A j \in DOMAIN Catalog : Catalog[j] \in Rivals(k, t, u) => i <= j
        /\ Before(k, t, u) <=> Profile[Catalog[i]].tier = t
  BY RivalsMeet
<1>2. PICK n \in DOMAIN Catalog :
        /\ Catalog[n] \in Rivals(k, u, v)
        /\ \A j \in DOMAIN Catalog : Catalog[j] \in Rivals(k, u, v) => n <= j
        /\ Before(k, u, v) <=> Profile[Catalog[n]].tier = u
  BY RivalsMeet
<1>3. PICK q \in DOMAIN Catalog :
        /\ Catalog[q] \in Rivals(k, t, v)
        /\ \A j \in DOMAIN Catalog : Catalog[j] \in Rivals(k, t, v) => q <= j
        /\ Before(k, t, v) <=> Profile[Catalog[q]].tier = t
  BY RivalsMeet
<1> SUFFICES ASSUME Profile[Catalog[q]].tier = v PROVE FALSE
  BY <1>3 DEF Rivals
<1>4. DOMAIN Catalog \subseteq Int
  BY CatalogAssumption
<1>5. i <= n
  BY <1>1, <1>2 DEF Rivals
<1>6. n <= q
  BY <1>2, <1>3 DEF Rivals
<1>7. q <= i
  BY <1>1, <1>3 DEF Rivals
<1>8. i = q
  BY <1>4, <1>5, <1>6, <1>7
<1> QED BY <1>1, <1>8

LEMMA BeatsIsTotal ==
  ASSUME NEW k \in Market, NEW cost \in Amounts,
         NEW t \in listViableTiers(k), NEW u \in listViableTiers(k), t # u
  PROVE  Beats(k, cost, t, u) <=> ~Beats(k, cost, u, t)
<1>1. adjustedExpectedCost(k, cost, t) \in Nat /\ adjustedExpectedCost(k, cost, u) \in Nat
  BY ExpectedIsNatural DEF listViableTiers
<1> QED BY <1>1, BeforeIsTotal DEF Beats

LEMMA BeatsIsTransitive ==
  ASSUME NEW k \in Market, NEW cost \in Amounts, NEW t \in listViableTiers(k),
         NEW u \in listViableTiers(k), NEW v \in listViableTiers(k), t # u, u # v, t # v,
         Beats(k, cost, t, u), Beats(k, cost, u, v)
  PROVE  Beats(k, cost, t, v)
<1>1. /\ adjustedExpectedCost(k, cost, t) \in Nat /\ adjustedExpectedCost(k, cost, u) \in Nat
      /\ adjustedExpectedCost(k, cost, v) \in Nat
  BY ExpectedIsNatural DEF listViableTiers
<1> QED BY <1>1, BeforeIsTransitive DEF Beats

(* Of the viable tiers one leads, and only one.                             *)
LEMMA OneLeads ==
  ASSUME NEW k \in Market, NEW cost \in Amounts, listViableTiers(k) # {}
  PROVE  \E t \in TierName : Leads(k, cost, t)
<1> DEFINE V == listViableTiers(k)
<1>1. V \subseteq TierName /\ V # {}
  BY DEF listViableTiers
<1>2. \A t, u \in V : t # u => (Beats(k, cost, t, u) <=> ~Beats(k, cost, u, t))
  BY BeatsIsTotal
<1>3. \A t, u, v \in V : t # u /\ u # v /\ t # v /\ Beats(k, cost, t, u) /\ Beats(k, cost, u, v)
        => Beats(k, cost, t, v)
  BY BeatsIsTransitive
<1> HIDE DEF V
<1> SUFFICES \E t \in V : \A u \in V \ {t} : Beats(k, cost, t, u)
  BY <1>1 DEF V, Leads
<1> DEFINE W == V \cap Cheap
<1>4. ASSUME W # {}
      PROVE  \E w \in W : \A u \in W \ {w} : Beats(k, cost, w, u)
  <2>1. CASE "zero-tier" \in W /\ ("economical-cloud" \in W => Beats(k, cost, "zero-tier", "economical-cloud"))
    BY <2>1 DEF Cheap
  <2>2. CASE "zero-tier" \in W /\ "economical-cloud" \in W /\ ~Beats(k, cost, "zero-tier", "economical-cloud")
    BY <1>2, <2>2 DEF Cheap
  <2>3. CASE "zero-tier" \notin W
    BY <1>4, <2>3 DEF Cheap
  <2> QED BY <2>1, <2>2, <2>3
<1>5. \A u \in V : u \in W \/ u = "frontier-cloud"
  BY <1>1 DEF TierName, Cheap
<1>6. CASE W = {}
  BY <1>1, <1>5, <1>6
<1>7. CASE W # {}
  <2>1. PICK w \in W : \A u \in W \ {w} : Beats(k, cost, w, u)
    BY <1>4, <1>7
  <2>2. CASE "frontier-cloud" \notin V \/ Beats(k, cost, w, "frontier-cloud")
    BY <1>5, <2>1, <2>2
  <2>3. CASE "frontier-cloud" \in V /\ Beats(k, cost, "frontier-cloud", w)
    <3>1. \A u \in W : u # "frontier-cloud"
      BY DEF Cheap
    <3>2. \A u \in W \ {w} : Beats(k, cost, "frontier-cloud", u)
      BY <1>3, <2>1, <2>3, <3>1
    <3> QED BY <1>5, <2>3, <3>2
  <2>4. "frontier-cloud" # w
    BY DEF Cheap
  <2> QED BY <1>2, <2>1, <2>2, <2>3, <2>4
<1> QED BY <1>6, <1>7

LEMMA BestLeads ==
  ASSUME NEW k \in Market, NEW cost \in Amounts, listViableTiers(k) # {}
  PROVE  Leads(k, cost, Best(k, cost))
<1> DEFINE V == listViableTiers(k)
<1>1. PICK t \in V : \A u \in V \ {t} : Beats(k, cost, t, u)
  BY OneLeads DEF Leads
<1>2. \A u \in V : [w \in V |-> adjustedExpectedCost(k, cost, w)][u] = adjustedExpectedCost(k, cost, u)
  OBVIOUS
<1>3. \E x \in V : \A u \in V \ {x} :
        \/ [w \in V |-> adjustedExpectedCost(k, cost, w)][x] < [w \in V |-> adjustedExpectedCost(k, cost, w)][u]
        \/ [w \in V |-> adjustedExpectedCost(k, cost, w)][x] = [w \in V |-> adjustedExpectedCost(k, cost, w)][u]
           /\ Before(k, x, u)
  BY <1>1, <1>2 DEF Beats
<1>4. /\ Best(k, cost) \in V
      /\ \A u \in V \ {Best(k, cost)} :
           \/ [w \in V |-> adjustedExpectedCost(k, cost, w)][Best(k, cost)] < [w \in V |-> adjustedExpectedCost(k, cost, w)][u]
           \/ [w \in V |-> adjustedExpectedCost(k, cost, w)][Best(k, cost)] = [w \in V |-> adjustedExpectedCost(k, cost, w)][u]
              /\ Before(k, Best(k, cost), u)
  BY <1>3, Zenon DEF Best
<1> QED BY <1>2, <1>4 DEF Leads, Beats

LEMMA LeaderIsBest ==
  ASSUME NEW k \in Market, NEW cost \in Amounts, NEW t, Leads(k, cost, t)
  PROVE  Best(k, cost) = t
<1>1. t \in listViableTiers(k) /\ Leads(k, cost, Best(k, cost))
  BY BestLeads DEF Leads
<1> QED BY <1>1, BeatsIsTotal DEF Leads

-----------------------------------------------------------------------------
(* Costs.                                                                   *)
LEMMA NaturalProduct ==
  ASSUME NEW x \in Nat, NEW y \in Nat PROVE x * y \in Nat
OBVIOUS

LEMMA ProductsKeepOrder ==
  ASSUME NEW a \in Nat, NEW b \in Nat, NEW c \in Nat, NEW d \in Nat, a <= b, c <= d
  PROVE  a * c <= b * d
<1>1. a * c <= b * c /\ c * b <= d * b
  BY TimesKeepsOrder
<1>2. c * b = b * c /\ d * b = b * d
  OBVIOUS
<1> QED BY <1>1, <1>2, NaturalProduct

Consumed(q) == Window - q
Short(q) == IF q < ExhaustionParts THEN ExhaustionParts - q ELSE 0
Credit == ExhaustionParts * ExhaustionParts * Window * Window * PrefixCacheDiscountPct * PrefixCacheWeightPct
Uplift(q) == Scale * 100 * (LambdaMax - 1) * Consumed(q) * Consumed(q)
Arbitrage(q) == Scale * ArbitragePct * Consumed(q) * Window
Exhaustion(q) == 100 * ExhaustionPct * Window * Window * Short(q) * Short(q)
Cold(q) == CostUnit + Uplift(q) + Arbitrage(q) + Exhaustion(q)

LEMMA PositiveProduct ==
  ASSUME NEW a \in Nat \ {0}, NEW b \in Nat \ {0}
  PROVE  a * b \in Nat \ {0}
<1>1. a * b > 0 /\ a * b \in Int
  OBVIOUS
<1> QED BY <1>1

LEMMA UnitIsPositive == Scale \in Nat \ {0} /\ CostUnit \in Nat \ {0}
<1>1. Window \in Nat \ {0} /\ ExhaustionParts \in Nat \ {0} /\ 100 \in Nat \ {0}
  BY PartsAssumption
<1>2. Scale \in Nat \ {0}
  <2>1. 100 * ExhaustionParts \in Nat \ {0}
    BY <1>1, PositiveProduct
  <2>2. (100 * ExhaustionParts) * ExhaustionParts \in Nat \ {0}
    BY <1>1, <2>1, PositiveProduct
  <2> QED BY <2>2 DEF Scale
<1>3. Scale * 100 \in Nat \ {0}
  BY <1>1, <1>2, PositiveProduct
<1>4. (Scale * 100) * Window \in Nat \ {0}
  BY <1>1, <1>3, PositiveProduct
<1>5. ((Scale * 100) * Window) * Window \in Nat \ {0}
  BY <1>1, <1>4, PositiveProduct
<1> QED BY <1>2, <1>5 DEF CostUnit

(* A window that drains makes everything dearer.                            *)
LEMMA DrainingCostsMore ==
  ASSUME NEW q \in 0 .. Window, NEW r \in 0 .. Window, r <= q
  PROVE  /\ Uplift(q) \in Nat /\ Arbitrage(q) \in Nat /\ Exhaustion(q) \in Nat
         /\ Cold(q) \in Nat /\ Cold(r) \in Nat /\ CostUnit <= Cold(q) /\ Cold(q) <= Cold(r)
<1>1. Window \in Nat /\ ExhaustionParts \in Nat \ {0} /\ LambdaMax \in Nat \ {0}
      /\ ArbitragePct \in Nat /\ ExhaustionPct \in Nat /\ Scale \in Nat
  BY PartsAssumption, WeightsAssumption, UnitIsPositive
<1>2. /\ Consumed(q) \in Nat /\ Consumed(r) \in Nat /\ Consumed(q) <= Consumed(r)
      /\ Short(q) \in Nat /\ Short(r) \in Nat /\ Short(q) <= Short(r)
  BY <1>1 DEF Consumed, Short
<1>3. Uplift(q) \in Nat /\ Uplift(r) \in Nat /\ Uplift(q) <= Uplift(r)
  <2> DEFINE l == Scale * 100 * (LambdaMax - 1)
  <2>1. l \in Nat
    <3>1. Scale * 100 \in Nat /\ LambdaMax - 1 \in Nat
      BY <1>1
    <3> QED BY <3>1, NaturalProduct
  <2> HIDE DEF l
  <2>2. l * Consumed(q) \in Nat /\ l * Consumed(r) \in Nat /\ l * Consumed(q) <= l * Consumed(r)
    BY <1>2, <2>1, ProductsKeepOrder, NaturalProduct
  <2>3. (l * Consumed(q)) * Consumed(q) <= (l * Consumed(r)) * Consumed(r)
    BY <1>2, <2>2, ProductsKeepOrder
  <2>4. (l * Consumed(q)) * Consumed(q) \in Nat /\ (l * Consumed(r)) * Consumed(r) \in Nat
    BY <1>2, <2>2, NaturalProduct
  <2> QED BY <2>3, <2>4 DEF Uplift, l
<1>4. Arbitrage(q) \in Nat /\ Arbitrage(r) \in Nat /\ Arbitrage(q) <= Arbitrage(r)
  <2> DEFINE a == Scale * ArbitragePct
  <2>0. a \in Nat
    BY <1>1, NaturalProduct
  <2> HIDE DEF a
  <2>1. a * Consumed(q) \in Nat /\ a * Consumed(r) \in Nat /\ a * Consumed(q) <= a * Consumed(r)
    BY <1>2, <2>0, ProductsKeepOrder, NaturalProduct
  <2>2. (a * Consumed(q)) * Window <= (a * Consumed(r)) * Window
    BY <1>1, <2>1, ProductsKeepOrder
  <2>3. (a * Consumed(q)) * Window \in Nat /\ (a * Consumed(r)) * Window \in Nat
    BY <1>1, <2>1, NaturalProduct
  <2> QED BY <2>2, <2>3 DEF Arbitrage, a
<1>5. Exhaustion(q) \in Nat /\ Exhaustion(r) \in Nat /\ Exhaustion(q) <= Exhaustion(r)
  <2> DEFINE x == 100 * ExhaustionPct * Window * Window
  <2>1. x \in Nat
    <3>1. 100 * ExhaustionPct \in Nat
      BY <1>1
    <3>2. (100 * ExhaustionPct) * Window \in Nat
      BY <1>1, <3>1, NaturalProduct
    <3> QED BY <1>1, <3>2, NaturalProduct
  <2> HIDE DEF x
  <2>3. x * Short(q) \in Nat /\ x * Short(r) \in Nat /\ x * Short(q) <= x * Short(r)
    BY <1>2, <2>1, ProductsKeepOrder, NaturalProduct
  <2>4. (x * Short(q)) * Short(q) <= (x * Short(r)) * Short(r)
    BY <1>2, <2>3, ProductsKeepOrder
  <2>5. (x * Short(q)) * Short(q) \in Nat /\ (x * Short(r)) * Short(r) \in Nat
    BY <1>2, <2>3, NaturalProduct
  <2> QED BY <2>4, <2>5 DEF Exhaustion, x
<1> QED BY <1>3, <1>4, <1>5, UnitIsPositive DEF Cold

(* The credit of a warm prefix is less than the prefix costs.               *)
SomeIsPaid == PrefixCacheDiscountPct * PrefixCacheWeightPct < 10000

LEMMA CreditIsPart ==
  ASSUME SomeIsPaid
  PROVE  Credit \in Nat /\ Credit < CostUnit
<1> DEFINE w == ExhaustionParts * ExhaustionParts * Window * Window
           d == PrefixCacheDiscountPct * PrefixCacheWeightPct
<1>1. Window \in Nat \ {0} /\ ExhaustionParts \in Nat \ {0}
      /\ PrefixCacheDiscountPct \in Nat /\ PrefixCacheWeightPct \in Nat
  BY PartsAssumption, CachePctAssumption
<1>2. w \in Nat \ {0}
  <2>1. ExhaustionParts * ExhaustionParts \in Nat \ {0}
    BY <1>1, PositiveProduct
  <2>2. (ExhaustionParts * ExhaustionParts) * Window \in Nat \ {0}
    BY <1>1, <2>1, PositiveProduct
  <2> QED BY <1>1, <2>2, PositiveProduct
<1>3. d \in Nat /\ d < 10000
  BY <1>1, NaturalProduct DEF SomeIsPaid
<1>4. Credit = w * d
  <2> DEFINE v == w
  <2>1. v \in Nat /\ Credit = v * PrefixCacheDiscountPct * PrefixCacheWeightPct
    BY <1>2 DEF Credit
  <2> HIDE DEF v
  <2>2. v * PrefixCacheDiscountPct * PrefixCacheWeightPct = v * (PrefixCacheDiscountPct * PrefixCacheWeightPct)
    BY <1>1, <2>1
  <2> QED BY <2>1, <2>2 DEF v
<1>5. CostUnit = 10000 * w
  <2> DEFINE e == ExhaustionParts * ExhaustionParts  f == Window * Window
  <2>1. Scale = 100 * e /\ e \in Nat
    BY <1>1, NaturalProduct DEF Scale
  <2>2. CostUnit = (Scale * 100) * f /\ w = e * f /\ f \in Nat
    BY <1>1, UnitIsPositive, NaturalProduct DEF CostUnit
  <2> HIDE DEF e, f, w
  <2> QED BY <2>1, <2>2
<1> HIDE DEF w, d
<1>6. w * d \in Nat /\ w * d < 10000 * w
  <2>1. (10000 - d) * w > 0
    BY <1>2, <1>3
  <2>2. (10000 - d) * w = 10000 * w - w * d
    BY <1>2, <1>3
  <2> QED BY <1>2, <1>3, <2>1, <2>2, NaturalProduct
<1> QED BY <1>4, <1>5, <1>6

LEMMA FactorIs ==
  ASSUME NEW q \in 0 .. Window
  PROVE  /\ VirtualCostFactor(q, FALSE) = Cold(q)
         /\ SomeIsPaid => VirtualCostFactor(q, TRUE) = Cold(q) - Credit
<1>1. ASSUME NEW warm
      PROVE  VirtualCostFactor(q, warm)
               = CostUnit + Uplift(q) + Arbitrage(q) + (Exhaustion(q) - IF warm THEN Credit ELSE 0)
  BY Zenon DEF VirtualCostFactor, Uplift, Arbitrage, Exhaustion, Credit, Consumed, Short
<1>2. /\ VirtualCostFactor(q, TRUE) = CostUnit + Uplift(q) + Arbitrage(q) + (Exhaustion(q) - Credit)
      /\ VirtualCostFactor(q, FALSE) = CostUnit + Uplift(q) + Arbitrage(q) + (Exhaustion(q) - 0)
  BY <1>1, Zenon
<1> DEFINE hot == VirtualCostFactor(q, TRUE)  mild == VirtualCostFactor(q, FALSE)
<1>3. hot = CostUnit + Uplift(q) + Arbitrage(q) + (Exhaustion(q) - Credit)
      /\ mild = CostUnit + Uplift(q) + Arbitrage(q) + (Exhaustion(q) - 0)
  BY <1>2, Zenon
<1> HIDE DEF hot, mild
<1>4. CostUnit \in Nat /\ Uplift(q) \in Nat /\ Arbitrage(q) \in Nat /\ Exhaustion(q) \in Nat
  BY DrainingCostsMore, UnitIsPositive
<1>5. mild = Cold(q)
  BY <1>3, <1>4 DEF Cold
<1>6. SomeIsPaid => hot = Cold(q) - Credit
  BY <1>3, <1>4, CreditIsPart DEF Cold
<1> QED BY <1>5, <1>6, Zenon DEF hot, mild

LEMMA FactorIsPositive ==
  ASSUME SomeIsPaid, NEW q \in 0 .. Window
  PROVE  /\ VirtualCostFactor(q, TRUE) \in Nat \ {0} /\ VirtualCostFactor(q, FALSE) \in Nat \ {0}
         /\ VirtualCostFactor(q, TRUE) <= VirtualCostFactor(q, FALSE)
<1> DEFINE hot == VirtualCostFactor(q, TRUE)  mild == VirtualCostFactor(q, FALSE)
<1>1. Cold(q) \in Nat /\ CostUnit <= Cold(q)
  BY DrainingCostsMore
<1>2. hot = Cold(q) - Credit /\ mild = Cold(q)
  BY FactorIs, Zenon
<1> HIDE DEF hot, mild
<1>3. hot \in Nat \ {0} /\ mild \in Nat \ {0} /\ hot <= mild
  BY <1>1, <1>2, UnitIsPositive, CreditIsPart
<1> QED BY <1>3, Zenon DEF hot, mild

LEMMA TierPriceIsNatural ==
  ASSUME NEW k \in Market, NEW t
  PROVE  resolveTierCostPer1M(k, t) \in Nat
<1> DEFINE m == Representative(k.fleet, t)
<1>1. LowestCost(OnTier(k.fleet, t)) \in SUBSET Models /\ LowestCost(OnTier(k.fleet, t)) \subseteq k.fleet
  BY DEF Market, LowestCost, OnTier
<1>2. m \in Models \cup {NoModel}
  BY <1>1, FirstOrNone DEF Representative, selectLowestCostModel
<1>3. CASE m = NoModel
  BY <1>3 DEF resolveTierCostPer1M
<1>4. CASE m \in Models
  <2>1. Profile[m].cost \in Nat
    BY <1>4, ProfileAssumption DEF ModelProfile
  <2>2. /\ k.prices.override[m] # NoPrice => k.prices.override[m] \in Nat
        /\ k.prices.registry[m] # NoPrice => k.prices.registry[m] \in Nat
        /\ k.prices.quota[m] # NoPrice => k.prices.quota[m] \in Nat
    BY <1>4 DEF Market, PriceList, Price
  <2>3. resolvePrice(k.prices, m) \in Nat
    BY <2>1, <2>2 DEF resolvePrice
  <2>4. resolveFrugalityCostPer1M(k.prices, m) \in Nat
    BY <2>2, <2>3 DEF resolveFrugalityCostPer1M
  <2>5. m # NoModel
    BY <1>4, NoModelAssumption
  <2> QED BY <2>4, <2>5 DEF resolveTierCostPer1M
<1> QED BY <1>2, <1>3, <1>4

DirectCosts(k) == [t \in TierName |-> directCost(k, t)]

LEMMA CostsAreAmounts ==
  ASSUME SomeIsPaid, NEW k \in Market
  PROVE  DirectCosts(k) \in Amounts
<1> SUFFICES ASSUME NEW t \in TierName PROVE directCost(k, t) \in Nat
  BY DEF DirectCosts, Amounts
<1>1. VirtualCostFactor(k.quota, PinActive(k, t)) \in Nat
  <2>1. k.quota \in 0 .. Window
    BY DEF Market
  <2>2. /\ VirtualCostFactor(k.quota, TRUE) \in Nat /\ VirtualCostFactor(k.quota, FALSE) \in Nat
    BY <2>1, FactorIsPositive, Zenon
  <2>3. PinActive(k, t) = TRUE \/ PinActive(k, t) = FALSE
    BY DEF PinActive, Pinned
  <2> QED BY <2>2, <2>3, Zenon
<1> QED BY <1>1, TierPriceIsNatural, NaturalProduct DEF directCost

-----------------------------------------------------------------------------
(* Two turns, j and k.                                                      *)
Expected(k, cost, t) == adjustedExpectedCost(k, cost, t)
Select(k) == selectTierByExpectedCost(k, DirectCosts(k))

(* What t has over u in one turn it has in the other.                       *)
Keeps(j, c, k, d, t, u) ==
  /\ Expected(j, c, t) < Expected(j, c, u) => Expected(k, d, t) < Expected(k, d, u)
  /\ Expected(j, c, t) <= Expected(j, c, u) => Expected(k, d, t) <= Expected(k, d, u)

LEMMA BeatsAgain ==
  ASSUME NEW j \in Market, NEW k \in Market, NEW c \in Amounts, NEW d \in Amounts,
         j.fleet = k.fleet, NEW t \in TierName, NEW u \in TierName,
         Keeps(j, c, k, d, t, u), Beats(j, c, t, u)
  PROVE  Beats(k, d, t, u)
<1>1. /\ Expected(j, c, t) \in Nat /\ Expected(j, c, u) \in Nat
      /\ Expected(k, d, t) \in Nat /\ Expected(k, d, u) \in Nat
  BY ExpectedIsNatural DEF Expected
<1>2. Before(j, t, u) <=> Before(k, t, u)
  BY DEF Before
<1> QED BY <1>1, <1>2 DEF Keeps, Beats, Expected

(* What Select chooses.                                                     *)
LEMMA SelectLeads ==
  ASSUME SomeIsPaid, NEW k \in Market
  PROVE  /\ listViableTiers(k) = {} => Select(k).best = NoTierHint /\ Select(k).hint = NoTierHint
         /\ listViableTiers(k) # {} =>
              /\ Leads(k, DirectCosts(k), Select(k).best)
              /\ Select(k).best = Best(k, DirectCosts(k))
         /\ Select(k).best \in TierName \/ Select(k).best = NoTierHint
<1>1. CASE listViableTiers(k) = {}
  BY <1>1 DEF Select, selectTierByExpectedCost, Chosen
<1>2. CASE listViableTiers(k) # {}
  <2>1. Select(k).best = Best(k, DirectCosts(k))
    BY <1>2 DEF Select, selectTierByExpectedCost, Chosen
  <2>2. Leads(k, DirectCosts(k), Best(k, DirectCosts(k)))
    BY <1>2, CostsAreAmounts, BestLeads
  <2> QED BY <1>2, <2>1, <2>2 DEF Leads, listViableTiers
<1> QED BY <1>1, <1>2

(* The hint of a tier that leads.                                           *)
LEMMA SelectHints ==
  ASSUME SomeIsPaid, NEW k \in Market, listViableTiers(k) # {}
  PROVE  LET best == Select(k).best
             gated == best \in Cheap /\ ~hasSignificantPriceDelta(DirectCosts(k))
             kept == shouldKeepPinnedTier(k, best) IN
         /\ gated => Select(k).hint = NoTierHint
         /\ ~gated /\ kept => Select(k).hint = Profile[k.pin].tier /\ Select(k).reason = "pin_cache_economics"
         /\ ~gated /\ ~kept => Select(k).hint = best
<1> DEFINE best == Best(k, DirectCosts(k))
<1>1. Select(k).best = best
  BY SelectLeads
<1>2. Select(k) =
        IF best \in Cheap /\ ~hasSignificantPriceDelta(DirectCosts(k))
          THEN Chosen(best, NoTierHint, "price_delta_insufficient")
        ELSE IF shouldKeepPinnedTier(k, best)
          THEN Chosen(best, Profile[k.pin].tier, "pin_cache_economics")
        ELSE Chosen(best, best, "expected_cost")
  BY Zenon DEF Select, selectTierByExpectedCost
<1> HIDE DEF best
<1> QED BY <1>1, <1>2 DEF Chosen

(* A cheap tier that stays ahead of the frontier keeps it from being chosen. *)
LEMMA FrontierStaysBehind ==
  ASSUME SomeIsPaid, NEW j \in Market, NEW k \in Market, j.fleet = k.fleet, j.ready = k.ready,
         Select(j).best \in Cheap,
         Keeps(j, DirectCosts(j), k, DirectCosts(k), Select(j).best, "frontier-cloud")
  PROVE  Select(k).best \in Cheap
<1> DEFINE b == Select(j).best  f == "frontier-cloud"  c == DirectCosts(j)  d == DirectCosts(k)
<1>1. listViableTiers(j) = listViableTiers(k)
  BY DEF listViableTiers
<1>2. b # NoTierHint /\ b # f /\ b \in TierName
  BY DEF Cheap, NoTierHint, TierName
<1>3. Leads(j, c, b) /\ listViableTiers(j) # {}
  BY <1>2, SelectLeads
<1>4. Leads(k, d, Select(k).best) /\ Select(k).best \in TierName
  BY <1>1, <1>3, SelectLeads DEF Leads, listViableTiers
<1> SUFFICES ASSUME Select(k).best = f PROVE FALSE
  BY <1>4 DEF TierName, Cheap
<1>5. Beats(j, c, b, f) /\ Beats(k, d, f, b) /\ b \in listViableTiers(k) /\ f \in listViableTiers(k)
  BY <1>1, <1>2, <1>3, <1>4 DEF Leads
<1>6. c \in Amounts /\ d \in Amounts
  BY CostsAreAmounts
<1>7. Beats(k, d, b, f)
  BY <1>2, <1>5, <1>6, BeatsAgain DEF TierName
<1> QED BY <1>2, <1>5, <1>6, <1>7, BeatsIsTotal

-----------------------------------------------------------------------------
(* A prompt that is trusted more, a higher alpha.                           *)
LEMMA RiskFalls ==
  ASSUME NEW j \in Market, NEW k \in Market, j.trust <= k.trust, j.alpha <= k.alpha
  PROVE  Own(k) <= Own(j) /\ Frontier(k) <= Frontier(j)
<1>1. /\ Parts \in Nat /\ Parts - j.alpha \in Nat /\ Parts - j.trust \in Nat
      /\ Parts - k.alpha \in Nat /\ Parts - k.trust \in Nat
      /\ Parts - k.alpha <= Parts - j.alpha /\ Parts - k.trust <= Parts - j.trust
  BY PartsAssumption DEF Market
<1>2. Risk(k) <= Risk(j)
  BY <1>1, ProductsKeepOrder DEF Risk
<1>3. Parts * (Parts - k.trust) <= Parts * (Parts - j.trust)
  BY <1>1, ProductsKeepOrder
<1>4. /\ Parts * (Parts - k.trust) \in Nat /\ Parts * (Parts - j.trust) \in Nat /\ Parts * Parts \in Nat
      /\ Risk(k) \in Nat /\ Risk(j) \in Nat
  BY <1>1, NaturalProduct, WeightsAreNatural
<1> QED BY <1>2, <1>3, <1>4 DEF Own, Frontier

LEMMA TrustHolds ==
  ASSUME SomeIsPaid, NEW j \in Market, NEW k \in Market, j.fleet = k.fleet, j.prices = k.prices,
         j.quota = k.quota, j.ready = k.ready, j.pin = k.pin, j.trust <= k.trust, j.alpha <= k.alpha
  PROVE  /\ Select(j).best \in Cheap => Select(k).best \in Cheap
         /\ Select(k).hint = "frontier-cloud" =>
              Select(j).hint = "frontier-cloud" \/ Select(k).reason = "pin_cache_economics"
<1> DEFINE f == "frontier-cloud"  c == DirectCosts(j)
<1>1. DirectCosts(k) = c
  BY DEF DirectCosts, directCost, resolveTierCostPer1M, PinActive, Pinned
<1>2. c \in Amounts
  BY CostsAreAmounts
<1>3. listViableTiers(j) = listViableTiers(k)
  BY DEF listViableTiers
<1>4. ASSUME NEW t \in Cheap PROVE Keeps(j, c, k, c, t, f)
  <2>1. c[t] \in Nat /\ c[f] \in Nat
    BY <1>2 DEF Amounts, Cheap, TierName
  <2>2. /\ Own(j) \in Nat /\ Own(k) \in Nat /\ Frontier(j) \in Nat /\ Frontier(k) \in Nat
    BY WeightsAreNatural
  <2>3. Own(k) * c[t] <= Own(j) * c[t] /\ Frontier(k) * c[f] <= Frontier(j) * c[f]
    BY <2>1, <2>2, RiskFalls, ProductsKeepOrder
  <2>4. /\ Own(k) * c[t] \in Nat /\ Own(j) * c[t] \in Nat
        /\ Frontier(k) * c[f] \in Nat /\ Frontier(j) * c[f] \in Nat
    BY <2>1, <2>2, NaturalProduct
  <2>5. Expected(j, c, t) = Own(j) * c[t] + Frontier(j) * c[f]
        /\ Expected(k, c, t) = Own(k) * c[t] + Frontier(k) * c[f]
    BY <1>2, CheapExpected DEF Expected
  <2>6. Expected(j, c, f) = (Parts * Parts) * c[f] /\ Expected(k, c, f) = (Parts * Parts) * c[f]
    BY <1>2, FrontierExpected DEF Expected
  <2>7. Expected(k, c, t) <= Expected(j, c, t) /\ Expected(k, c, f) = Expected(j, c, f)
    BY <2>3, <2>4, <2>5, <2>6
  <2>8. Expected(k, c, t) \in Nat /\ Expected(j, c, t) \in Nat /\ Expected(j, c, f) \in Nat
    BY <1>2, ExpectedIsNatural DEF Expected, Cheap, TierName
  <2> QED BY <2>7, <2>8 DEF Keeps
<1>5. Select(j).best \in Cheap => Select(k).best \in Cheap
  BY <1>1, <1>4, FrontierStaysBehind
<1>6. ASSUME Select(k).hint = f, Select(k).reason # "pin_cache_economics"
      PROVE  Select(j).hint = f
  <2>1. listViableTiers(k) # {}
    BY <1>6, SelectLeads DEF NoTierHint
  <2>2. Select(k).best = f /\ ~shouldKeepPinnedTier(k, f)
    BY <1>6, <2>1, SelectHints DEF NoTierHint
  <2>3. Select(j).best \notin Cheap
    BY <1>5, <2>2 DEF Cheap
  <2>4. Leads(j, c, Select(j).best)
    BY <1>3, <2>1, SelectLeads
  <2>5. Select(j).best = f
    BY <2>3, <2>4 DEF Leads, listViableTiers, TierName, Cheap
  <2>6. ~shouldKeepPinnedTier(j, f)
    BY <2>2 DEF shouldKeepPinnedTier, Pinned
  <2> QED BY <1>3, <2>1, <2>3, <2>5, <2>6, SelectHints
<1> QED BY <1>5, <1>6

-----------------------------------------------------------------------------
(* A quota window that drains.                                              *)
Prices(k) == [t \in TierName |-> resolveTierCostPer1M(k, t)]

LEMMA QuotaScales ==
  ASSUME NEW k \in Market, k.pin = NoModel
  PROVE  /\ Prices(k) \in Amounts
         /\ Cold(k.quota) \in Nat \ {0}
         /\ \A t \in TierName : DirectCosts(k)[t] = Prices(k)[t] * Cold(k.quota)
<1>1. k.quota \in 0 .. Window /\ ~Pinned(k)
  BY NoModelAssumption DEF Market, Pinned
<1>2. Cold(k.quota) \in Nat \ {0}
  BY <1>1, DrainingCostsMore, UnitIsPositive
<1>3. ASSUME NEW t \in TierName PROVE directCost(k, t) = resolveTierCostPer1M(k, t) * Cold(k.quota)
  <2>1. PinActive(k, t) = FALSE
    BY <1>1 DEF PinActive
  <2>2. VirtualCostFactor(k.quota, FALSE) = Cold(k.quota)
    BY <1>1, FactorIs, Zenon
  <2> QED BY <2>1, <2>2, Zenon DEF directCost
<1> QED BY <1>2, <1>3, TierPriceIsNatural DEF DirectCosts, Prices, Amounts

LEMMA ScaledExpected ==
  ASSUME NEW k \in Market, NEW c \in Amounts, NEW d \in Amounts, NEW s \in Nat \ {0},
         \A t \in TierName : d[t] = c[t] * s, NEW t \in TierName
  PROVE  Expected(k, d, t) = Expected(k, c, t) * s
<1> DEFINE f == "frontier-cloud"
<1>1. c[t] \in Nat /\ c[f] \in Nat /\ d[t] = c[t] * s /\ d[f] = c[f] * s
  BY DEF Amounts, TierName
<1>2. Own(k) \in Nat /\ Frontier(k) \in Nat /\ Parts * Parts \in Nat
  BY WeightsAreNatural, PartsAssumption, NaturalProduct
<1>3. CASE t \in Cheap
  <2>1. Expected(k, d, t) = Own(k) * (c[t] * s) + Frontier(k) * (c[f] * s)
    BY <1>1, <1>3, CheapExpected DEF Expected
  <2>2. Expected(k, c, t) = Own(k) * c[t] + Frontier(k) * c[f]
    BY <1>3, CheapExpected DEF Expected
  <2>3. ASSUME NEW o \in Nat, NEW r \in Nat, NEW x \in Nat, NEW y \in Nat
        PROVE  o * (x * s) + r * (y * s) = (o * x + r * y) * s
    OBVIOUS
  <2> QED BY <1>1, <1>2, <2>1, <2>2, <2>3
<1>4. CASE t = f
  <2>1. Expected(k, d, t) = (Parts * Parts) * (c[f] * s) /\ Expected(k, c, t) = (Parts * Parts) * c[f]
    BY <1>1, <1>4, FrontierExpected DEF Expected
  <2>2. ASSUME NEW o \in Nat, NEW y \in Nat PROVE o * (y * s) = (o * y) * s
    OBVIOUS
  <2> QED BY <1>1, <1>2, <2>1, <2>2
<1> QED BY <1>3, <1>4 DEF TierName, Cheap

LEMMA ScaledGate ==
  ASSUME NEW c \in Amounts, NEW d \in Amounts, NEW s \in Nat \ {0},
         \A t \in TierName : d[t] = c[t] * s
  PROVE  /\ c["frontier-cloud"] \in Nat /\ EconomicalCost(c) \in Nat
         /\ hasSignificantPriceDelta(d) <=>
              (c["frontier-cloud"] - EconomicalCost(c)) * s >= 2 * CostUnit * MinPriceDelta
<1> DEFINE f == c["frontier-cloud"]  e == c["economical-cloud"]  z == c["zero-tier"]
<1>1. f \in Nat /\ e \in Nat /\ z \in Nat
  BY DEF Amounts, TierName
<1>2. d["frontier-cloud"] = f * s /\ d["economical-cloud"] = e * s /\ d["zero-tier"] = z * s
  BY DEF TierName
<1>3. EconomicalCost(c) = (IF z # 0 /\ z < e THEN z ELSE e)
  BY DEF EconomicalCost
<1>4. EconomicalCost(d) = (IF z * s # 0 /\ z * s < e * s THEN z * s ELSE e * s)
  BY <1>2 DEF EconomicalCost
<1> HIDE DEF f, e, z
<1>5. (z < e <=> z * s < e * s) /\ (z = 0 <=> z * s = 0 * s) /\ 0 * s = 0
  BY <1>1, TimesKeepsStrict
<1>6. EconomicalCost(d) = EconomicalCost(c) * s /\ EconomicalCost(c) \in Nat
  BY <1>1, <1>3, <1>4, <1>5
<1>7. ASSUME NEW y \in Nat PROVE (f - y) * s = f * s - y * s
  BY <1>1
<1>8. f * s - EconomicalCost(c) * s = (f - EconomicalCost(c)) * s
  BY <1>6, <1>7
<1>9. hasSignificantPriceDelta(d) <=> f * s - EconomicalCost(c) * s >= 2 * CostUnit * MinPriceDelta
  BY <1>2, <1>6 DEF hasSignificantPriceDelta
<1>10. c["frontier-cloud"] \in Nat
  BY <1>1 DEF f
<1>11. hasSignificantPriceDelta(d) <=> (f - EconomicalCost(c)) * s >= 2 * CostUnit * MinPriceDelta
  BY <1>8, <1>9
<1> QED BY <1>6, <1>10, <1>11, Zenon DEF f

LEMMA DrainHolds ==
  ASSUME SomeIsPaid, NEW j \in Market, NEW k \in Market, j.fleet = k.fleet, j.prices = k.prices,
         j.trust = k.trust, j.alpha = k.alpha, j.ready = k.ready, j.pin = NoModel, k.pin = NoModel,
         k.quota < j.quota
  PROVE  /\ Select(k).best = Select(j).best
         /\ Select(j).hint # NoTierHint => Select(k).hint = Select(j).hint
<1> DEFINE x == Prices(j)  c == DirectCosts(j)  d == DirectCosts(k)  s == Cold(j.quota)  r == Cold(k.quota)
           V == listViableTiers(j)
<1>1. Prices(k) = x
  BY DEF Prices, resolveTierCostPer1M
<1>2. x \in Amounts /\ c \in Amounts /\ d \in Amounts
  BY QuotaScales, CostsAreAmounts
<1>3. s \in Nat \ {0} /\ r \in Nat \ {0} /\ s <= r
  <2>1. j.quota \in 0 .. Window /\ k.quota \in 0 .. Window /\ k.quota <= j.quota
    BY DEF Market
  <2> QED BY <2>1, QuotaScales, DrainingCostsMore
<1>4. \A t \in TierName : c[t] = x[t] * s /\ d[t] = x[t] * r
  BY <1>1, QuotaScales
<1>5. listViableTiers(k) = V
  BY DEF listViableTiers
<1> HIDE DEF c, d, s, r, x
<1>6. ASSUME NEW t \in TierName, NEW u \in TierName PROVE Keeps(j, c, k, d, t, u)
  <2>1. Expected(j, x, t) = Expected(k, x, t) /\ Expected(j, x, u) = Expected(k, x, u)
    BY DEF Expected, adjustedExpectedCost, resolvePSuccessForTier
  <2>2. /\ Expected(j, c, t) = Expected(j, x, t) * s /\ Expected(j, c, u) = Expected(j, x, u) * s
        /\ Expected(k, d, t) = Expected(k, x, t) * r /\ Expected(k, d, u) = Expected(k, x, u) * r
    BY <1>2, <1>3, <1>4, ScaledExpected
  <2>3. Expected(j, x, t) \in Nat /\ Expected(j, x, u) \in Nat
    BY <1>2, ExpectedIsNatural DEF Expected
  <2>4. ASSUME NEW a \in Nat, NEW b \in Nat
        PROVE  /\ (a * s < b * s <=> a < b) /\ (a * r < b * r <=> a < b)
               /\ (a * s <= b * s <=> a <= b) /\ (a * r <= b * r <=> a <= b)
    <3>1. a * s \in Nat /\ b * s \in Nat /\ a * r \in Nat /\ b * r \in Nat
      BY <1>3, NaturalProduct
    <3>2. /\ (a < b <=> a * s < b * s) /\ (a = b <=> a * s = b * s)
          /\ (a < b <=> a * r < b * r) /\ (a = b <=> a * r = b * r)
      BY <1>3, TimesKeepsStrict
    <3> QED BY <3>1, <3>2
  <2> DEFINE a == Expected(j, x, t)  b == Expected(j, x, u)
  <2>5. /\ (a * s < b * s => a * r < b * r) /\ (a * s <= b * s => a * r <= b * r)
    BY <2>3, <2>4
  <2> QED BY <2>1, <2>2, <2>5 DEF Keeps
<1>7. Select(k).best = Select(j).best
  <2>1. CASE V = {}
    BY <1>5, <2>1, SelectLeads
  <2>2. CASE V # {}
    <3> DEFINE b == Select(j).best
    <3>1. Leads(j, c, b)
      BY <2>2, SelectLeads DEF c
    <3>2. ASSUME NEW u \in V \ {b} PROVE Beats(k, d, b, u)
      <4>1. b \in TierName /\ u \in TierName /\ Beats(j, c, b, u)
        BY <3>1 DEF Leads, listViableTiers
      <4> QED BY <1>2, <1>6, <4>1, BeatsAgain
    <3>3. Leads(k, d, b)
      BY <1>5, <3>1, <3>2 DEF Leads
    <3>4. Best(k, d) = b
      BY <1>2, <3>3, LeaderIsBest
    <3> QED BY <1>5, <2>2, <3>4, SelectLeads DEF d
  <2> QED BY <2>1, <2>2
<1>8. ASSUME hasSignificantPriceDelta(c) PROVE hasSignificantPriceDelta(d)
  <2> DEFINE y == x["frontier-cloud"] - EconomicalCost(x)  n == 2 * CostUnit * MinPriceDelta
  <2>1. /\ x["frontier-cloud"] \in Nat /\ EconomicalCost(x) \in Nat
        /\ hasSignificantPriceDelta(c) <=> y * s >= n
        /\ hasSignificantPriceDelta(d) <=> y * r >= n
    BY <1>2, <1>3, <1>4, ScaledGate
  <2>2. y \in Int
    BY <2>1
  <2>3. n \in Nat
    <3>1. 2 * CostUnit \in Nat /\ MinPriceDelta \in Nat
      BY UnitIsPositive, WeightsAssumption
    <3> QED BY <3>1, NaturalProduct
  <2> HIDE DEF y, n
  <2>4. y >= 0
    <3> SUFFICES ASSUME y < 0 PROVE FALSE
      BY <2>2
    <3>1. y * s < 0 * s
      BY <1>3, <2>2, TimesKeepsStrict
    <3>2. 0 * s = 0 /\ y * s \in Int
      BY <1>3, <2>2
    <3> QED BY <1>8, <2>1, <2>3, <3>1, <3>2
  <2>5. y * s <= y * r
    BY <1>3, <2>2, <2>4, ProductsKeepOrder
  <2>6. y * s \in Int /\ y * r \in Int
    BY <1>3, <2>2
  <2> QED BY <1>8, <2>1, <2>3, <2>5, <2>6
<1>9. ASSUME Select(j).hint # NoTierHint PROVE Select(k).hint = Select(j).hint
  <2>1. V # {}
    BY <1>9, SelectLeads
  <2> DEFINE b == Select(j).best
  <2>2. ~shouldKeepPinnedTier(j, b) /\ ~shouldKeepPinnedTier(k, b)
    BY NoModelAssumption DEF shouldKeepPinnedTier, Pinned, Market
  <2>3. ~(b \in Cheap /\ ~hasSignificantPriceDelta(c))
    BY <1>9, <2>1, SelectHints DEF c
  <2>4. ~(b \in Cheap /\ ~hasSignificantPriceDelta(d))
    BY <1>8, <2>3
  <2>5. Select(j).hint = b
    BY <2>1, <2>2, <2>3, SelectHints DEF c
  <2>6. Select(k).hint = b
    BY <1>5, <1>7, <2>1, <2>2, <2>4, SelectHints DEF d
  <2> QED BY <2>5, <2>6
<1> QED BY <1>7, <1>9

-----------------------------------------------------------------------------
(* A local tier that becomes ready.                                         *)
LEMMA ReadyHolds ==
  ASSUME SomeIsPaid, NEW j \in Market, NEW k \in Market, j.fleet = k.fleet, j.prices = k.prices,
         j.quota = k.quota, j.trust = k.trust, j.alpha = k.alpha, j.pin = k.pin, k.ready
  PROVE  Select(k).best \in {Select(j).best, "zero-tier"}
<1> DEFINE c == DirectCosts(j)  V == listViableTiers(j)  W == listViableTiers(k)  b == Select(k).best
<1>1. DirectCosts(k) = c /\ c \in Amounts
  BY CostsAreAmounts DEF DirectCosts, directCost, resolveTierCostPer1M, PinActive, Pinned
<1>2. V \subseteq W /\ W \subseteq V \cup {"zero-tier"}
  BY DEF listViableTiers
<1>3. CASE W = {}
  BY <1>2, <1>3, SelectLeads
<1>4. CASE W # {}
  <2> SUFFICES ASSUME b # "zero-tier" PROVE b = Select(j).best
    OBVIOUS
  <2>1. Leads(k, c, b)
    BY <1>1, <1>4, SelectLeads
  <2>2. b \in V
    BY <1>2, <2>1 DEF Leads
  <2>3. ASSUME NEW u \in V \ {b} PROVE Beats(j, c, b, u)
    <3>1. Beats(k, c, b, u)
      BY <1>2, <2>1, <2>3 DEF Leads
    <3> QED BY <3>1 DEF Beats, adjustedExpectedCost, resolvePSuccessForTier, Before
  <2>4. Leads(j, c, b)
    BY <2>2, <2>3 DEF Leads
  <2>5. Best(j, c) = b
    BY <1>1, <2>4, LeaderIsBest
  <2> QED BY <2>2, <2>5, SelectLeads
<1> QED BY <1>3, <1>4

-----------------------------------------------------------------------------
(* A pin.                                                                   *)
LEMMA LessOfADifference ==
  ASSUME NEW y \in Int, NEW o \in Nat, NEW s \in Nat, NEW r \in Nat, r <= s, s > 0 => r > 0
  PROVE  /\ y * s < o => y * r < o
         /\ y * s <= o => y * r <= o
<1>1. CASE y >= 0
  <2>1. y * r <= y * s
    BY <1>1, ProductsKeepOrder
  <2>2. y * r \in Int /\ y * s \in Int
    OBVIOUS
  <2> QED BY <2>1, <2>2
<1>2. CASE y < 0 /\ s > 0
  <2>1. y * r < 0 * r /\ 0 * r = 0 /\ y * r \in Int
    BY <1>2, TimesKeepsStrict
  <2> QED BY <2>1
<1>3. CASE s = 0
  <2>1. r = s
    BY <1>3
  <2> QED BY <2>1
<1> QED BY <1>1, <1>2, <1>3

LEMMA PinScales ==
  ASSUME SomeIsPaid, NEW j \in Market, NEW k \in Market, j.fleet = k.fleet, j.prices = k.prices,
         j.quota = k.quota, j.pin = NoModel, k.pin \in Models, NEW t \in TierName
  PROVE  /\ DirectCosts(j)[t] \in Nat /\ DirectCosts(k)[t] \in Nat
         /\ DirectCosts(k)[t] <= DirectCosts(j)[t]
         /\ DirectCosts(j)[t] > 0 => DirectCosts(k)[t] > 0
         /\ t # Profile[k.pin].tier => DirectCosts(k)[t] = DirectCosts(j)[t]
<1> DEFINE hot == VirtualCostFactor(j.quota, TRUE)  mild == VirtualCostFactor(j.quota, FALSE)
           x == resolveTierCostPer1M(j, t)
<1>1. hot \in Nat \ {0} /\ mild \in Nat \ {0} /\ hot <= mild
  <2>1. j.quota \in 0 .. Window
    BY DEF Market
  <2> QED BY <2>1, FactorIsPositive, Zenon
<1>2. x \in Nat /\ resolveTierCostPer1M(k, t) = x
  BY TierPriceIsNatural DEF resolveTierCostPer1M
<1>3. DirectCosts(j)[t] = x * mild
  <2>1. PinActive(j, t) = FALSE
    BY NoModelAssumption DEF PinActive, Pinned, Market
  <2> QED BY <2>1, Zenon DEF DirectCosts, directCost
<1>4. DirectCosts(k)[t] = x * hot \/ DirectCosts(k)[t] = x * mild
  <2>1. PinActive(k, t) = TRUE \/ PinActive(k, t) = FALSE
    BY DEF PinActive, Pinned
  <2>2. DirectCosts(k)[t] = x * VirtualCostFactor(j.quota, PinActive(k, t))
    BY <1>2, Zenon DEF DirectCosts, directCost
  <2> QED BY <2>1, <2>2, Zenon
<1>5. t # Profile[k.pin].tier => DirectCosts(k)[t] = x * mild
  <2>1. ASSUME t # Profile[k.pin].tier PROVE PinActive(k, t) = FALSE
    BY <2>1 DEF PinActive
  <2>2. DirectCosts(k)[t] = x * VirtualCostFactor(j.quota, PinActive(k, t))
    BY <1>2, Zenon DEF DirectCosts, directCost
  <2> QED BY <2>1, <2>2, Zenon
<1> HIDE DEF hot, mild, x
<1>6. x * hot <= x * mild /\ x * hot \in Nat /\ x * mild \in Nat
  BY <1>1, <1>2, ProductsKeepOrder, NaturalProduct
<1>7. x * mild > 0 => x * hot > 0
  <2>1. CASE x = 0
    <3>1. 0 * mild = 0
      BY <1>1
    <3> QED BY <2>1, <3>1
  <2>2. CASE x # 0
    <3>1. 0 * x < hot * x
      BY <1>1, <1>2, <2>2, TimesKeepsStrict
    <3>2. 0 * x = 0 /\ hot * x = x * hot
      BY <1>1, <1>2
    <3> QED BY <3>1, <3>2
  <2> QED BY <2>1, <2>2
<1> QED BY <1>3, <1>4, <1>5, <1>6, <1>7

LEMMA PinKeeps ==
  ASSUME SomeIsPaid, NEW j \in Market, NEW k \in Market, j.fleet = k.fleet, j.prices = k.prices,
         j.quota = k.quota, j.trust = k.trust, j.alpha = k.alpha, j.pin = NoModel, k.pin \in Models,
         NEW t \in TierName, NEW u \in TierName, u # Profile[k.pin].tier, t # u
  PROVE  Keeps(j, DirectCosts(j), k, DirectCosts(k), t, u)
<1> DEFINE f == "frontier-cloud"  c == DirectCosts(j)  d == DirectCosts(k)  p == Profile[k.pin].tier
           P2 == Parts * Parts
<1>1. c \in Amounts /\ d \in Amounts
  BY CostsAreAmounts
<1>2. Own(k) = Own(j) /\ Frontier(k) = Frontier(j) /\ Own(j) \in Nat /\ Frontier(j) \in Nat /\ P2 \in Nat
  BY WeightsAreNatural, PartsAssumption, NaturalProduct DEF Own, Frontier, Risk
<1>3. ASSUME NEW v \in TierName
      PROVE  /\ c[v] \in Nat /\ d[v] \in Nat /\ d[v] <= c[v] /\ (c[v] > 0 => d[v] > 0)
             /\ (v # p => d[v] = c[v])
  BY PinScales
<1>4. ASSUME NEW v \in Cheap
      PROVE  /\ Expected(j, c, v) = Own(j) * c[v] + Frontier(j) * c[f]
             /\ Expected(k, d, v) = Own(j) * d[v] + Frontier(j) * d[f]
  BY <1>1, <1>2, CheapExpected DEF Expected
<1>5. Expected(j, c, f) = P2 * c[f] /\ Expected(k, d, f) = P2 * d[f]
  BY <1>1, FrontierExpected DEF Expected
<1>6. f \in TierName /\ Cheap \subseteq TierName /\ TierName = Cheap \cup {f} /\ f \notin Cheap
  BY DEF TierName, Cheap
<1> HIDE DEF c, d, p, P2
<1>7. CASE p # f
  <2>1. d[f] = c[f] /\ d[u] = c[u]
    BY <1>3, <1>6, <1>7 DEF p
  <2>2. Expected(k, d, u) = Expected(j, c, u)
    BY <1>4, <1>5, <1>6, <2>1
  <2>3. Expected(k, d, t) <= Expected(j, c, t)
    <3>1. CASE t = f
      <4>1. Expected(k, d, t) = Expected(j, c, t) /\ Expected(j, c, t) \in Nat
        BY <1>1, <1>5, <2>1, <3>1, ExpectedIsNatural DEF Expected
      <4> QED BY <4>1
    <3>2. CASE t \in Cheap
      <4>1. Own(j) * d[t] <= Own(j) * c[t]
        BY <1>2, <1>3, ProductsKeepOrder
      <4>2. Own(j) * d[t] \in Nat /\ Own(j) * c[t] \in Nat /\ Frontier(j) * c[f] \in Nat
        BY <1>2, <1>3, <1>6, NaturalProduct
      <4> QED BY <1>4, <2>1, <3>2, <4>1, <4>2
    <3> QED BY <1>6, <3>1, <3>2
  <2>4. /\ Expected(k, d, t) \in Nat /\ Expected(j, c, t) \in Nat /\ Expected(j, c, u) \in Nat
    BY <1>1, ExpectedIsNatural DEF Expected
  <2> QED BY <2>2, <2>3, <2>4 DEF Keeps, c, d
<1>8. CASE p = f
  <2>1. u \in Cheap /\ d[u] = c[u]
    BY <1>3, <1>6, <1>8 DEF p
  <2>2. CASE t \in Cheap
    <3>1. d[t] = c[t]
      BY <1>3, <1>6, <1>8, <2>2
    <3>2. /\ Own(j) * c[t] \in Nat /\ Own(j) * c[u] \in Nat
          /\ Frontier(j) * c[f] \in Nat /\ Frontier(j) * d[f] \in Nat
      BY <1>2, <1>3, <1>6, NaturalProduct
    <3>3. /\ Expected(j, c, t) = Own(j) * c[t] + Frontier(j) * c[f]
          /\ Expected(j, c, u) = Own(j) * c[u] + Frontier(j) * c[f]
          /\ Expected(k, d, t) = Own(j) * c[t] + Frontier(j) * d[f]
          /\ Expected(k, d, u) = Own(j) * c[u] + Frontier(j) * d[f]
      BY <1>4, <2>1, <2>2, <3>1
    <3> QED BY <3>2, <3>3 DEF Keeps, c, d
  <2>3. CASE t = f
    <3> DEFINE y == P2 - Frontier(j)  o == Own(j) * c[u]
    <3>1. y \in Int /\ o \in Nat
      BY <1>2, <1>3, NaturalProduct
    <3>2. ASSUME NEW x \in Nat PROVE y * x = P2 * x - Frontier(j) * x /\ P2 * x \in Nat /\ Frontier(j) * x \in Nat
      BY <1>2, NaturalProduct
    <3>3. /\ Expected(j, c, t) = P2 * c[f] /\ Expected(j, c, u) = o + Frontier(j) * c[f]
          /\ Expected(k, d, t) = P2 * d[f] /\ Expected(k, d, u) = o + Frontier(j) * d[f]
      BY <1>4, <1>5, <2>1, <2>3
    <3> HIDE DEF y, o
    <3>4. /\ (y * c[f] < o => y * d[f] < o)
          /\ (y * c[f] <= o => y * d[f] <= o)
      BY <1>3, <1>6, <3>1, LessOfADifference
    <3>5. c[f] \in Nat /\ d[f] \in Nat
      BY <1>3, <1>6
    <3> QED BY <3>1, <3>2, <3>3, <3>4, <3>5 DEF Keeps, c, d
  <2> QED BY <1>6, <2>2, <2>3
<1> QED BY <1>7, <1>8

LEMMA PinHolds ==
  ASSUME SomeIsPaid, NEW j \in Market, NEW k \in Market, j.fleet = k.fleet, j.prices = k.prices,
         j.quota = k.quota, j.trust = k.trust, j.alpha = k.alpha, j.ready = k.ready,
         j.pin = NoModel, k.pin \in Models
  PROVE  Select(k).best \in {Select(j).best, Profile[k.pin].tier}
<1> DEFINE b == Select(j).best  n == Select(k).best  V == listViableTiers(j)
           c == DirectCosts(j)  d == DirectCosts(k)
<1>1. listViableTiers(k) = V
  BY DEF listViableTiers
<1>2. CASE V = {}
  BY <1>1, <1>2, SelectLeads
<1>3. CASE V # {}
  <2> SUFFICES ASSUME n # b, n # Profile[k.pin].tier PROVE FALSE
    OBVIOUS
  <2>1. Leads(j, c, b) /\ Leads(k, d, n)
    BY <1>1, <1>3, SelectLeads
  <2>2. b \in V /\ n \in V /\ b \in TierName /\ n \in TierName
    BY <1>1, <2>1 DEF Leads, listViableTiers
  <2>3. Beats(j, c, b, n) /\ Beats(k, d, n, b)
    BY <1>1, <2>1, <2>2 DEF Leads
  <2>4. Keeps(j, c, k, d, b, n)
    BY <2>2, PinKeeps
  <2>5. c \in Amounts /\ d \in Amounts
    BY CostsAreAmounts
  <2>6. Beats(k, d, b, n)
    BY <2>2, <2>3, <2>4, <2>5, BeatsAgain
  <2> QED BY <1>1, <2>2, <2>3, <2>5, <2>6, BeatsIsTotal
<1> QED BY <1>2, <1>3

-----------------------------------------------------------------------------
(* A frontier that becomes dearer.                                          *)
LEMMA MoreOfADifference ==
  ASSUME NEW y \in Int, NEW o \in Nat, NEW s \in Nat \ {0}, NEW r \in Nat, s <= r
  PROVE  /\ o < y * s => o < y * r
         /\ o <= y * s => o <= y * r
<1>1. CASE y >= 0
  <2>1. y * s <= y * r
    BY <1>1, ProductsKeepOrder
  <2>2. y * r \in Int /\ y * s \in Int
    OBVIOUS
  <2> QED BY <2>1, <2>2
<1>2. CASE y < 0
  <2>1. y * s < 0 * s /\ 0 * s = 0 /\ y * s \in Int
    BY <1>2, TimesKeepsStrict
  <2> QED BY <2>1
<1> QED BY <1>1, <1>2

LEMMA FrontierHolds ==
  ASSUME SomeIsPaid, NEW j \in Market, NEW k \in Market, j.fleet = k.fleet, j.quota = k.quota,
         j.trust = k.trust, j.alpha = k.alpha, j.ready = k.ready, j.pin = k.pin,
         \A t \in TierName :
           LET old == resolveTierCostPer1M(j, t)  new == resolveTierCostPer1M(k, t) IN
           IF t = "frontier-cloud" THEN 0 < old /\ old < new ELSE old = new,
         Select(j).best \in Cheap
  PROVE  Select(k).best \in Cheap
<1> DEFINE f == "frontier-cloud"  c == DirectCosts(j)  d == DirectCosts(k)  b == Select(j).best
           P2 == Parts * Parts  s == VirtualCostFactor(j.quota, PinActive(j, f))
           old == resolveTierCostPer1M(j, f)  new == resolveTierCostPer1M(k, f)
<1>1. c \in Amounts /\ d \in Amounts
  BY CostsAreAmounts
<1>2. Own(k) = Own(j) /\ Frontier(k) = Frontier(j) /\ Own(j) \in Nat /\ Frontier(j) \in Nat /\ P2 \in Nat
  BY WeightsAreNatural, PartsAssumption, NaturalProduct DEF Own, Frontier, Risk
<1>3. f \in TierName /\ b \in TierName /\ b # f
  BY DEF TierName, Cheap
<1>4. \A t \in TierName : PinActive(k, t) = PinActive(j, t)
  BY DEF PinActive, Pinned
<1>5. s \in Nat \ {0}
  <2>1. j.quota \in 0 .. Window
    BY DEF Market
  <2>2. PinActive(j, f) = TRUE \/ PinActive(j, f) = FALSE
    BY DEF PinActive, Pinned
  <2> QED BY <2>1, <2>2, FactorIsPositive, Zenon
<1>6. old \in Nat /\ new \in Nat /\ 0 < old /\ old <= new
  BY <1>3, TierPriceIsNatural
<1>7. c[f] = old * s /\ d[f] = new * s
  BY <1>3, <1>4, Zenon DEF DirectCosts, directCost
<1>8. d[b] = c[b]
  <2>1. resolveTierCostPer1M(k, b) = resolveTierCostPer1M(j, b)
    BY <1>3
  <2> QED BY <1>3, <1>4, <2>1, Zenon DEF DirectCosts, directCost
<1>9. /\ Expected(j, c, b) = Own(j) * c[b] + Frontier(j) * c[f]
      /\ Expected(k, d, b) = Own(j) * c[b] + Frontier(j) * d[f]
      /\ Expected(j, c, f) = P2 * c[f] /\ Expected(k, d, f) = P2 * d[f]
  BY <1>1, <1>2, <1>8, CheapExpected, FrontierExpected DEF Expected
<1>10. c[b] \in Nat /\ c[f] \in Nat /\ d[f] \in Nat
  BY <1>1, <1>3 DEF Amounts
<1> HIDE DEF c, d, s, old, new, P2
<1>11. c[f] # 0 /\ c[f] <= d[f]
  <2>1. 0 * s < old * s /\ 0 * s = 0
    BY <1>5, <1>6, TimesKeepsStrict
  <2>2. old * s <= new * s
    BY <1>5, <1>6, TimesKeepsOrder
  <2> QED BY <1>7, <2>1, <2>2
<1> DEFINE y == P2 - Frontier(j)  o == Own(j) * c[b]
<1>12. y \in Int /\ o \in Nat
  BY <1>2, <1>10, NaturalProduct
<1>13. ASSUME NEW x \in Nat PROVE y * x = P2 * x - Frontier(j) * x /\ P2 * x \in Nat /\ Frontier(j) * x \in Nat
  BY <1>2, NaturalProduct
<1> HIDE DEF y
<1>14. /\ (o < y * c[f] => o < y * d[f])
       /\ (o <= y * c[f] => o <= y * d[f])
  BY <1>10, <1>11, <1>12, MoreOfADifference
<1>15. Keeps(j, c, k, d, b, f)
  <2>1. /\ Expected(j, c, b) = o + Frontier(j) * c[f]
        /\ Expected(k, d, b) = o + Frontier(j) * d[f]
    BY <1>9
  <2> HIDE DEF o
  <2> QED BY <1>9, <1>10, <1>12, <1>13, <1>14, <2>1 DEF Keeps
<1> QED BY <1>15, FrontierStaysBehind DEF c, d

-----------------------------------------------------------------------------
(* The choice of a turn is Select of what the turn finds.                   *)
ChoiceInv == market \in Market /\ tierCosts = DirectCosts(market) /\ choice = Select(market)

LEMMA ChoiceInvHolds == ChoiceSpec => []ChoiceInv
<1>1. ChoiceInit => ChoiceInv
  <2> SUFFICES ASSUME ChoiceInit PROVE ChoiceInv
    OBVIOUS
  <2>1. PICK g \in ChoiceFleets, prices \in PriceLists :
          market = [fleet |-> g, prices |-> prices, quota |-> Window, trust |-> 0, alpha |-> 0,
                    ready |-> FALSE, pin |-> NoModel]
    BY DEF ChoiceInit
  <2>2. g \in SUBSET Models /\ prices \in PriceList /\ Window \in Nat /\ Parts \in Nat
    BY FleetsAssumption, PricesAssumption, PartsAssumption
  <2>3. market \in Market
    BY <2>1, <2>2 DEF Market
  <2>4. tierCosts = DirectCosts(market)
    BY DEF ChoiceInit, DirectCosts
  <2> QED BY <2>3, <2>4 DEF ChoiceInit, ChoiceInv, Select
<1>2. ChoiceInv /\ [ChoiceNext]_choiceVars => ChoiceInv'
  <2> SUFFICES ASSUME ChoiceInv, [ChoiceNext]_choiceVars PROVE ChoiceInv'
    OBVIOUS
  <2>1. ASSUME NEW k \in Market, Choose(k) PROVE ChoiceInv'
    BY <2>1 DEF Choose, ChoiceInv, DirectCosts, Select
  <2>2. CASE FleetDiffers
    <3>1. PICK g \in ChoiceFleets : Choose([market EXCEPT !.fleet = g])
      BY <2>2 DEF FleetDiffers
    <3>2. [market EXCEPT !.fleet = g] \in Market
      BY FleetsAssumption DEF ChoiceInv, Market
    <3> QED BY <2>1, <3>1, <3>2
  <2>3. CASE PricesDiffer
    <3>1. PICK prices \in PriceLists : Choose([market EXCEPT !.prices = prices])
      BY <2>3 DEF PricesDiffer
    <3>2. [market EXCEPT !.prices = prices] \in Market
      BY PricesAssumption DEF ChoiceInv, Market
    <3> QED BY <2>1, <3>1, <3>2
  <2>4. CASE QuotaDiffers
    <3>1. PICK q \in 0 .. Window : Choose([market EXCEPT !.quota = q])
      BY <2>4 DEF QuotaDiffers
    <3>2. [market EXCEPT !.quota = q] \in Market
      BY DEF ChoiceInv, Market
    <3> QED BY <2>1, <3>1, <3>2
  <2>5. CASE PromptDiffers
    <3>1. PICK p \in 0 .. Parts : Choose([market EXCEPT !.trust = p])
      BY <2>5 DEF PromptDiffers
    <3>2. [market EXCEPT !.trust = p] \in Market
      BY DEF ChoiceInv, Market
    <3> QED BY <2>1, <3>1, <3>2
  <2>6. CASE AlphaDiffers
    <3>1. PICK a \in 0 .. Parts : Choose([market EXCEPT !.alpha = a])
      BY <2>6 DEF AlphaDiffers
    <3>2. [market EXCEPT !.alpha = a] \in Market
      BY DEF ChoiceInv, Market
    <3> QED BY <2>1, <3>1, <3>2
  <2>7. CASE ReadyDiffers
    <3>1. Choose([market EXCEPT !.ready = ~market.ready])
      BY <2>7 DEF ReadyDiffers
    <3>2. [market EXCEPT !.ready = ~market.ready] \in Market
      BY DEF ChoiceInv, Market
    <3> QED BY <2>1, <3>1, <3>2
  <2>8. CASE PinDiffers
    <3>1. PICK m \in Models \cup {NoModel} : Choose([market EXCEPT !.pin = m])
      BY <2>8 DEF PinDiffers
    <3>2. [market EXCEPT !.pin = m] \in Market
      BY DEF ChoiceInv, Market
    <3> QED BY <2>1, <3>1, <3>2
  <2>9. CASE UNCHANGED choiceVars
    BY <2>9 DEF ChoiceInv, choiceVars, DirectCosts, Select
  <2> QED BY <2>2, <2>3, <2>4, <2>5, <2>6, <2>7, <2>8, <2>9 DEF ChoiceNext
<1> QED BY <1>1, <1>2, PTL DEF ChoiceSpec

(* What Only says, field by field.                                          *)
LEMMA OnlyMeans ==
  ASSUME market \in Market, NEW changed, Only(changed)
  PROVE  /\ "fleet" \notin changed => market'.fleet = market.fleet
         /\ "prices" \notin changed => market'.prices = market.prices
         /\ "quota" \notin changed => market'.quota = market.quota
         /\ "trust" \notin changed => market'.trust = market.trust
         /\ "alpha" \notin changed => market'.alpha = market.alpha
         /\ "ready" \notin changed => market'.ready = market.ready
         /\ "pin" \notin changed => market'.pin = market.pin
<1>1. DOMAIN market = {"fleet", "prices", "quota", "trust", "alpha", "ready", "pin"}
  BY DEF Market
<1> QED BY <1>1 DEF Only

(* A tier moves only where what the turn finds explains it: more trust or a *)
(* higher alpha does not take a turn to the frontier, a draining window only *)
(* opens the gate, a ready local tier and a pin attract, a dearer frontier  *)
(* does not.                                                                *)
THEOREM TierMovesAreExplained ==
  ASSUME SomeIsPaid
  PROVE  ChoiceSpec => TierMovesExplained
<1> DEFINE A ==
      /\ Only({"trust", "alpha"}) /\ market'.trust >= market.trust /\ market'.alpha >= market.alpha
           => TrustKeepsCheap
      /\ Only({"quota"}) /\ market'.quota < market.quota /\ market.pin = NoModel => DrainOpensGate
      /\ Only({"ready"}) /\ market'.ready => choice'.best \in {choice.best, "zero-tier"}
      /\ Only({"pin"}) /\ market.pin = NoModel /\ market'.pin \in Models
           => choice'.best \in {choice.best, Profile[market'.pin].tier}
      /\ Only({"prices"}) /\ FrontierDearer /\ choice.best \in Cheap => choice'.best \in Cheap
<1>1. ChoiceInv /\ ChoiceInv' => A
  <2> SUFFICES ASSUME ChoiceInv, ChoiceInv' PROVE A
    OBVIOUS
  <2>1. market \in Market /\ market' \in Market /\ choice = Select(market) /\ choice' = Select(market')
    BY DEF ChoiceInv, Select, selectTierByExpectedCost
  <2>2. ASSUME Only({"trust", "alpha"}), market'.trust >= market.trust, market'.alpha >= market.alpha
        PROVE  TrustKeepsCheap
    <3>1. market.trust <= market'.trust /\ market.alpha <= market'.alpha
      BY <2>1, <2>2 DEF Market
    <3>2. /\ market.fleet = market'.fleet /\ market.prices = market'.prices /\ market.quota = market'.quota
          /\ market.ready = market'.ready /\ market.pin = market'.pin
      BY <2>1, <2>2, OnlyMeans
    <3> QED BY <2>1, <3>1, <3>2, TrustHolds DEF TrustKeepsCheap
  <2>3. ASSUME Only({"quota"}), market'.quota < market.quota, market.pin = NoModel
        PROVE  DrainOpensGate
    <3>1. /\ market.fleet = market'.fleet /\ market.prices = market'.prices /\ market.trust = market'.trust
          /\ market.alpha = market'.alpha /\ market.ready = market'.ready /\ market'.pin = NoModel
      BY <2>1, <2>3, OnlyMeans
    <3> QED BY <2>1, <2>3, <3>1, DrainHolds DEF DrainOpensGate
  <2>4. ASSUME Only({"ready"}), market'.ready
        PROVE  choice'.best \in {choice.best, "zero-tier"}
    <3>. Only({"ready"})
      BY <2>4, Zenon
    <3>1. /\ market.fleet = market'.fleet /\ market.prices = market'.prices /\ market.quota = market'.quota
          /\ market.trust = market'.trust /\ market.alpha = market'.alpha /\ market.pin = market'.pin
      BY <2>1, OnlyMeans
    <3> QED BY <2>1, <2>4, <3>1, ReadyHolds
  <2>5. ASSUME Only({"pin"}), market.pin = NoModel, market'.pin \in Models
        PROVE  choice'.best \in {choice.best, Profile[market'.pin].tier}
    <3>1. /\ market.fleet = market'.fleet /\ market.prices = market'.prices /\ market.quota = market'.quota
          /\ market.trust = market'.trust /\ market.alpha = market'.alpha /\ market.ready = market'.ready
      BY <2>1, <2>5, OnlyMeans
    <3> QED BY <2>1, <2>5, <3>1, PinHolds
  <2>6. ASSUME Only({"prices"}), FrontierDearer, choice.best \in Cheap
        PROVE  choice'.best \in Cheap
    <3>1. /\ market.fleet = market'.fleet /\ market.quota = market'.quota /\ market.trust = market'.trust
          /\ market.alpha = market'.alpha /\ market.ready = market'.ready /\ market.pin = market'.pin
      BY <2>1, <2>6, OnlyMeans
    <3> QED BY <2>1, <2>6, <3>1, FrontierHolds DEF FrontierDearer
  <2> QED BY <2>2, <2>3, <2>4, <2>5, <2>6
<1>2. [][A]_choiceVars <=> TierMovesExplained
  BY DEF TierMovesExplained
<1> HIDE DEF A
<1> QED BY <1>1, <1>2, ChoiceInvHolds, PTL

-----------------------------------------------------------------------------
(* Pooling adjacent violators. *)

Rates  == [sum : Nat, weight : Nat]
Blocks == [min : Scores, max : Scores, rate : [sum : Nat, weight : Nat \ {0}]]
Points == 0 .. Top + 1

(* How many labels, or how many successes, there are before a score.        *)
Counts(C, share) == C[0] = 0 /\ \A x \in Scores : C[x + 1] = C[x] + share[x]
SumOf    == [x \in Scores |-> labels[x].sum]
WeightOf == [x \in Scores |-> labels[x].weight]
Curve(S, W) == Counts(S, SumOf) /\ Counts(W, WeightOf)

(* The line through a block's beginning that rises by its rate is not above *)
(* a point of the curve.                                                    *)
Below(b, S, W, z) == b.rate.sum * (W[z] - W[b.min]) <= (S[z] - S[b.min]) * b.rate.weight

FitType ==
  /\ labels \in [Scores -> Rates]
  /\ \A x \in Scores : labels[x].sum <= labels[x].weight
  /\ blocks \in Seq(Blocks)

Upto == IF blocks = <<>> THEN 0 ELSE blocks[Len(blocks)].max + 1
Waiting == pairs = {p \in PooledPairs : Upto <= p.min}
Placed ==
  \A x \in LabeledScores : x < Upto => \E n \in DOMAIN blocks : blocks[n].min <= x /\ x <= blocks[n].max

InOrder ==
  \A n \in DOMAIN blocks :
    /\ blocks[n].min <= blocks[n].max
    /\ blocks[n].min \in LabeledScores
    /\ n > 1 => blocks[n - 1].max < blocks[n].min

(* No score between two blocks has a label.                                 *)
Level(S, W, a, b) == \A z \in a .. b : S[z] = S[a] /\ W[z] = W[a]

(* A block has the labels of its range, and none of its beginnings has a    *)
(* lower rate.                                                              *)
Measured(b, S, W) ==
  /\ b.rate.sum = S[b.max + 1] - S[b.min]
  /\ b.rate.weight = W[b.max + 1] - W[b.min]
  /\ \A z \in b.min .. b.max + 1 : Below(b, S, W, z)

Shape(S, W) ==
  \A n \in DOMAIN blocks :
    /\ Measured(blocks[n], S, W)
    /\ n > 1 => Level(S, W, blocks[n - 1].max + 1, blocks[n].min)
    /\ n < Len(blocks) => \A z \in 0 .. blocks[Len(blocks)].min : Below(blocks[n], S, W, z)

Rising ==
  \A m, n \in DOMAIN blocks : m < n /\ n < Len(blocks) => AtMost(blocks[m].rate, blocks[n].rate)

FitInv ==
  /\ FitType
  /\ Waiting
  /\ Placed
  /\ InOrder
  /\ Rising
  /\ \A S, W \in [Points -> Nat] : Curve(S, W) => Shape(S, W)
-----------------------------------------------------------------------------
(* A positive factor can be taken away again.                               *)
LEMMA TimesReflectsOrder ==
  ASSUME NEW a \in Int, NEW b \in Int, NEW c \in Nat \ {0}, a * c <= b * c
  PROVE  a <= b
<1> SUFFICES ASSUME b < a PROVE FALSE
  OBVIOUS
<1>1. (a - b) * c > 0
  OBVIOUS
<1>2. (a - b) * c = a * c - b * c
  OBVIOUS
<1>3. a * c \in Int /\ b * c \in Int
  OBVIOUS
<1> QED BY <1>1, <1>2, <1>3

(* What rises at least as fast as a rate rises at least as fast as a lower  *)
(* one.                                                                     *)
LEMMA LowerRate ==
  ASSUME NEW s \in Nat, NEW w \in Nat \ {0}, NEW t \in Nat, NEW v \in Nat \ {0}, s * v <= t * w,
         NEW rise \in Int, NEW run \in Nat, t * run <= rise * v
  PROVE  s * run <= rise * w
<1>1. s * v * run <= t * w * run
  BY TimesKeepsOrder, s * v \in Int, t * w \in Int
<1>2. t * run * w <= rise * v * w
  BY TimesKeepsOrder, t * run \in Int, rise * v \in Int
<1>3. s * v * run = s * run * v /\ t * w * run = t * run * w /\ rise * v * w = rise * w * v
  OBVIOUS
<1>4. s * run * v \in Int /\ t * run * w \in Int /\ rise * w * v \in Int
  OBVIOUS
<1>5. s * run * v <= rise * w * v
  BY <1>1, <1>2, <1>3, <1>4
<1> QED BY <1>5, TimesReflectsOrder, s * run \in Int, rise * w \in Int

LEMMA HigherRate ==
  ASSUME NEW s \in Nat, NEW w \in Nat \ {0}, NEW t \in Nat, NEW v \in Nat \ {0}, s * v <= t * w,
         NEW rise \in Int, NEW run \in Nat, rise * w <= s * run
  PROVE  rise * v <= t * run
<1>1. s * v * run <= t * w * run
  BY TimesKeepsOrder, s * v \in Int, t * w \in Int
<1>2. rise * w * v <= s * run * v
  BY TimesKeepsOrder, rise * w \in Int, s * run \in Int
<1>3. s * v * run = s * run * v /\ t * w * run = t * run * w /\ rise * w * v = rise * v * w
  OBVIOUS
<1>4. s * run * v \in Int /\ t * run * w \in Int /\ rise * v * w \in Int
  OBVIOUS
<1>5. rise * v * w <= t * run * w
  BY <1>1, <1>2, <1>3, <1>4
<1> QED BY <1>5, TimesReflectsOrder, rise * v \in Int, t * run \in Int

(* The rate of two blocks, the first of the higher rate, is not above that  *)
(* of the first, nor above that of the first and a beginning of the second. *)
LEMMA PooledRate ==
  ASSUME NEW s \in Nat, NEW w \in Nat \ {0}, NEW t \in Nat, NEW v \in Nat \ {0}, t * w <= s * v
  PROVE  /\ (s + t) * w <= s * (w + v)
         /\ \A rise \in Int, run \in Nat :
              run <= v /\ t * run <= rise * v => (s + t) * (w + run) <= (s + rise) * (w + v)
<1>1. (s + t) * w = s * w + t * w /\ s * (w + v) = s * w + s * v
  OBVIOUS
<1>2. s * w \in Int /\ t * w \in Int /\ s * v \in Int
  OBVIOUS
<1>3. (s + t) * w <= s * (w + v)
  BY <1>1, <1>2
<1>4. ASSUME NEW rise \in Int, NEW run \in Nat, run <= v, t * run <= rise * v
      PROVE  (s + t) * (w + run) <= (s + rise) * (w + v)
  <2>1. t * w * (v - run) <= s * v * (v - run)
    BY <1>4, TimesKeepsOrder, t * w \in Int, s * v \in Int, v - run \in Nat
  <2>2. t * run * w <= rise * v * w
    BY <1>4, TimesKeepsOrder, t * run \in Int, rise * v \in Int
  <2>3. /\ t * w * (v - run) = t * w * v - t * w * run
        /\ s * v * (v - run) = s * v * v - s * v * run
    OBVIOUS
  <2>4. t * run * w = t * w * run
    OBVIOUS
  <2>5. /\ t * w * v \in Int /\ t * w * run \in Int /\ s * v * v \in Int /\ s * v * run \in Int
        /\ rise * v * w \in Int
    OBVIOUS
  <2>6. t * w * v + s * v * run <= s * v * v + rise * v * w
    BY <2>1, <2>2, <2>3, <2>4, <2>5
  <2>7. /\ (t * w + s * run) * v = t * w * v + s * v * run
        /\ (s * v + rise * w) * v = s * v * v + rise * v * w
    OBVIOUS
  <2>8. t * w + s * run <= s * v + rise * w
    BY <2>6, <2>7, TimesReflectsOrder, t * w + s * run \in Int, s * v + rise * w \in Int
  <2>9. /\ (s + t) * (w + run) = s * w + s * run + t * w + t * run
        /\ (s + rise) * (w + v) = s * w + s * v + rise * w + rise * v
    OBVIOUS
  <2>10. /\ s * w \in Int /\ s * run \in Int /\ t * w \in Int /\ t * run \in Int
         /\ s * v \in Int /\ rise * w \in Int /\ rise * v \in Int
    OBVIOUS
  <2> QED BY <1>4, <2>8, <2>9, <2>10
<1> QED BY <1>3, <1>4

LEMMA AtMostTransitive ==
  ASSUME NEW a \in [sum : Nat, weight : Nat \ {0}], NEW b \in [sum : Nat, weight : Nat \ {0}],
         NEW c \in [sum : Nat, weight : Nat \ {0}], AtMost(a, b), AtMost(b, c)
  PROVE  AtMost(a, c)
BY LowerRate DEF AtMost

-----------------------------------------------------------------------------
LEMMA PointsBetween ==
  ASSUME NEW a \in Nat, NEW b \in Nat, b <= Top + 1, NEW z \in a .. b
  PROVE  z \in Points /\ z \in Nat /\ a <= z /\ z <= b
BY BoundsAssumption DEF Points

(* Without labels the curve stays level, and weight never falls.            *)
LEMMA NoLabelsLevel ==
  ASSUME FitType, NEW S \in [Points -> Nat], NEW W \in [Points -> Nat], Curve(S, W),
         NEW a \in Points, NEW b \in Points, \A x \in LabeledScores : ~(a <= x /\ x < b)
  PROVE  Level(S, W, a, b)
<1> DEFINE Off == {z \in a .. b : ~(S[z] = S[a] /\ W[z] = W[a])}
<1> SUFFICES ASSUME Off # {} PROVE FALSE
  BY DEF Level
<1>1. Off \subseteq Nat
  BY BoundsAssumption DEF Points
<1>2. PICK z \in Off : \A y \in Off : <<y, z>> \notin OpToRel(<, Nat)
  BY <1>1, NatLessThanWellFounded, WFMin
<1>3. \A y \in Off : ~(y < z)
  BY <1>1, <1>2, Zenon DEF OpToRel
<1>4. z # a /\ z - 1 \in a .. b /\ z - 1 \in Scores /\ z - 1 \notin Off
  BY <1>1, <1>3, BoundsAssumption DEF Points, Scores
<1>5. z - 1 \notin LabeledScores
  <2>1. a \in Nat /\ b \in Nat /\ z \in a .. b
    BY BoundsAssumption DEF Points
  <2> QED BY <1>4, <2>1
<1>6. labels[z - 1].weight = 0 /\ labels[z - 1].sum = 0
  BY <1>4, <1>5 DEF LabeledScores, FitType, Rates
<1>7. S[(z - 1) + 1] = S[z - 1] + labels[z - 1].sum /\ W[(z - 1) + 1] = W[z - 1] + labels[z - 1].weight
  BY <1>4 DEF Curve, Counts, SumOf, WeightOf
<1>8. (z - 1) + 1 = z /\ z - 1 \in Points
  BY <1>1, <1>4, BoundsAssumption DEF Scores, Points
<1> QED BY <1>4, <1>6, <1>7, <1>8

LEMMA WeightRises ==
  ASSUME FitType, NEW S \in [Points -> Nat], NEW W \in [Points -> Nat], Curve(S, W),
         NEW a \in Points, NEW b \in Points, a <= b
  PROVE  W[a] <= W[b]
<1> DEFINE Off == {z \in a .. b : ~(W[a] <= W[z])}
<1> SUFFICES ASSUME Off # {} PROVE FALSE
  BY BoundsAssumption DEF Points
<1>1. Off \subseteq Nat
  BY BoundsAssumption DEF Points
<1>2. PICK z \in Off : \A y \in Off : <<y, z>> \notin OpToRel(<, Nat)
  BY <1>1, NatLessThanWellFounded, WFMin
<1>3. \A y \in Off : ~(y < z)
  BY <1>1, <1>2, Zenon DEF OpToRel
<1>4. z # a /\ z - 1 \in a .. b /\ z - 1 \in Scores /\ z - 1 \notin Off
  BY <1>1, <1>3, BoundsAssumption DEF Points, Scores
<1>6. labels[z - 1].weight \in Nat
  BY <1>4 DEF FitType, Rates
<1>7. W[(z - 1) + 1] = W[z - 1] + labels[z - 1].weight
  BY <1>4 DEF Curve, Counts, WeightOf
<1>8. (z - 1) + 1 = z /\ z - 1 \in Points /\ z \in Points
  BY <1>1, <1>4, BoundsAssumption DEF Scores, Points
<1> QED BY <1>4, <1>6, <1>7, <1>8
-----------------------------------------------------------------------------
(* Two stretches that rise fast enough do so together.                      *)
LEMMA RisesTogether ==
  ASSUME NEW s \in Int, NEW w \in Int, NEW p \in Int, NEW q \in Int, NEW r \in Int,
         NEW a \in Int, NEW b \in Int, NEW c \in Int,
         s * (q - p) <= (b - a) * w, s * (r - q) <= (c - b) * w
  PROVE  s * (r - p) <= (c - a) * w
<1>1. s * (r - p) = s * (q - p) + s * (r - q) /\ (c - a) * w = (b - a) * w + (c - b) * w
  OBVIOUS
<1>2. s * (q - p) \in Int /\ s * (r - q) \in Int /\ (b - a) * w \in Int /\ (c - b) * w \in Int
  OBVIOUS
<1> QED BY <1>1, <1>2

(* What is left of a line's rise rises no faster than the line, once what   *)
(* came before rose at least as fast.                                       *)
LEMMA RestRisesLess ==
  ASSUME NEW s \in Int, NEW w \in Int, NEW rise \in Int, NEW run \in Int,
         s * (w - run) <= (s - rise) * w
  PROVE  rise * w <= s * run
<1>1. s * (w - run) = s * w - s * run /\ (s - rise) * w = s * w - rise * w
  OBVIOUS
<1>2. s * w \in Int /\ s * run \in Int /\ rise * w \in Int
  OBVIOUS
<1> QED BY <1>1, <1>2

LEMMA BlockParts ==
  ASSUME FitType, NEW n \in DOMAIN blocks
  PROVE  /\ n \in 1 .. Len(blocks) /\ Len(blocks) \in Nat
         /\ blocks[n] \in Blocks
         /\ blocks[n].min \in Scores /\ blocks[n].max \in Scores
         /\ blocks[n].min \in Points /\ blocks[n].max + 1 \in Points
         /\ blocks[n].rate \in [sum : Nat, weight : Nat \ {0}]
         /\ blocks[n].rate.sum \in Nat /\ blocks[n].rate.weight \in Nat \ {0}
<1>1. blocks \in Seq(Blocks)
  BY DEF FitType
<1>2. n \in 1 .. Len(blocks) /\ Len(blocks) \in Nat /\ blocks[n] \in Blocks
  BY <1>1
<1> QED BY <1>2, BoundsAssumption DEF Blocks, Scores, Points

(* Once the last two blocks are in order, all are, and no block's line is   *)
(* above a point up to the end of the last.                                 *)
LEMMA AllRise ==
  ASSUME FitInv, ~Violated, NEW m \in DOMAIN blocks, NEW n \in DOMAIN blocks, m < n
  PROVE  AtMost(blocks[m].rate, blocks[n].rate)
<1>1. FitType /\ Rising
  BY DEF FitInv
<1>2. /\ m \in 1 .. Len(blocks) /\ n \in 1 .. Len(blocks) /\ Len(blocks) \in Nat
      /\ blocks[m].rate \in [sum : Nat, weight : Nat \ {0}]
      /\ blocks[n].rate \in [sum : Nat, weight : Nat \ {0}]
  BY <1>1, BlockParts
<1>3. CASE n < Len(blocks)
  BY <1>1, <1>3 DEF Rising
<1>4. CASE n = Len(blocks)
  <2>1. n - 1 \in DOMAIN blocks /\ m <= n - 1
    BY <1>1, <1>2 DEF FitType
  <2>2. AtMost(blocks[n - 1].rate, blocks[n].rate)
    BY <1>2, <1>4, <2>1 DEF Violated
  <2>3. CASE m = n - 1
    BY <2>2, <2>3
  <2>4. CASE m < n - 1
    <3>1. AtMost(blocks[m].rate, blocks[n - 1].rate)
      BY <1>1, <1>2, <1>4, <2>1, <2>4 DEF Rising
    <3>2. blocks[n - 1].rate \in [sum : Nat, weight : Nat \ {0}]
      BY <1>1, <2>1, BlockParts
    <3> QED BY <1>2, <2>2, <3>1, <3>2, AtMostTransitive
  <2> QED BY <1>2, <2>1, <2>3, <2>4
<1> QED BY <1>2, <1>3, <1>4

LEMMA AllBelow ==
  ASSUME FitInv, ~Violated, NEW S \in [Points -> Nat], NEW W \in [Points -> Nat], Curve(S, W),
         NEW n \in DOMAIN blocks, NEW z \in 0 .. Upto
  PROVE  Below(blocks[n], S, W, z)
<1> DEFINE L == Len(blocks)  b == blocks[L]  d == blocks[n]
<1>1. FitType /\ Rising /\ Placed /\ InOrder /\ Shape(S, W)
  BY DEF FitInv
<1>2. n \in 1 .. L /\ L \in Nat /\ L \in DOMAIN blocks /\ blocks # <<>>
  BY <1>1 DEF FitType
<1>3. Upto = b.max + 1
  BY <1>2 DEF Upto
<1>4. /\ d.min \in Points /\ d.rate.sum \in Nat /\ d.rate.weight \in Nat \ {0}
      /\ b.min \in Points /\ b.max + 1 \in Points /\ b.rate.sum \in Nat /\ b.rate.weight \in Nat \ {0}
  BY <1>1, <1>2, BlockParts
<1>5. b.min <= b.max /\ z \in Points /\ Points \subseteq Nat
  <2>1. b.min <= b.max
    BY <1>1, <1>2 DEF InOrder
  <2>2. Points \subseteq Nat /\ \A e \in Points : 0 .. e \subseteq Points
    BY BoundsAssumption DEF Points
  <2> QED BY <1>3, <1>4, <2>1, <2>2
<1>6. /\ S[z] \in Nat /\ W[z] \in Nat /\ S[b.min] \in Nat /\ W[b.min] \in Nat
      /\ S[d.min] \in Nat /\ W[d.min] \in Nat
      /\ z \in Nat /\ b.min \in Nat /\ d.min \in Nat /\ b.max \in Nat
  <2>1. b.max \in Nat
    BY <1>1, <1>2, BlockParts, BoundsAssumption DEF Scores
  <2> QED BY <1>4, <1>5, <2>1
<1>7. Measured(b, S, W)
  BY <1>1, <1>2 DEF Shape
<1> HIDE DEF L, b, d
<1>8. ASSUME n # L
      PROVE  Below(d, S, W, z)
  <2>1. n < L
    BY <1>2, <1>8
  <2>2. \A y \in 0 .. b.min : Below(d, S, W, y)
    BY <1>1, <2>1 DEF Shape, L, b, d
  <2>3. CASE z <= b.min
    BY <1>6, <2>2, <2>3
  <2>4. CASE z > b.min
    <3>1. Below(b, S, W, z)
      BY <1>3, <1>6, <1>7, <2>4 DEF Measured
    <3>2. W[z] - W[b.min] \in Nat
      BY <1>1, <1>4, <1>5, <1>6, <2>4, WeightRises
    <3>3. d.rate.sum * b.rate.weight <= b.rate.sum * d.rate.weight
      BY <1>2, <2>1, AllRise DEF AtMost, b, d
    <3>4. d.rate.sum * (W[z] - W[b.min]) <= (S[z] - S[b.min]) * d.rate.weight
      <4>1. S[z] - S[b.min] \in Int
        BY <1>6
      <4>2. b.rate.sum * (W[z] - W[b.min]) <= (S[z] - S[b.min]) * b.rate.weight
        BY <3>1 DEF Below
      <4> HIDE DEF Below
      <4> QED BY <1>4, <3>2, <3>3, <4>1, <4>2, LowerRate
    <3>5. d.rate.sum * (W[b.min] - W[d.min]) <= (S[b.min] - S[d.min]) * d.rate.weight
      BY <1>6, <2>2 DEF Below
    <3>6. d.rate.sum * (W[z] - W[d.min]) <= (S[z] - S[d.min]) * d.rate.weight
      BY <1>4, <1>6, <3>4, <3>5, RisesTogether
    <3> QED BY <3>6 DEF Below
  <2> QED BY <1>6, <2>3, <2>4
<1>9. ASSUME n = L
      PROVE  Below(b, S, W, z)
  <2>1. CASE z >= b.min
    BY <1>3, <1>6, <1>7, <2>1 DEF Measured
  <2>2. CASE z < b.min /\ L = 1
    <3>1. \A x \in LabeledScores : ~(0 <= x /\ x < b.min)
      <4> SUFFICES ASSUME NEW x \in LabeledScores, x < b.min PROVE FALSE
        OBVIOUS
      <4>1. x \in Int /\ x < Upto
        BY <1>3, <1>5, <1>6, BoundsAssumption DEF LabeledScores, Scores
      <4>2. PICK i \in DOMAIN blocks : blocks[i].min <= x
        BY <1>1, <4>1 DEF Placed
      <4>3. i = 1
        BY <1>1, <2>2, BlockParts DEF L
      <4> QED BY <1>6, <2>2, <4>1, <4>2, <4>3 DEF b
    <3>2. 0 \in Points
      BY BoundsAssumption DEF Points
    <3>3. Level(S, W, 0, b.min)
      BY <1>1, <1>4, <3>1, <3>2, NoLabelsLevel
    <3>4. S[z] = S[b.min] /\ W[z] = W[b.min]
      BY <1>6, <2>2, <3>3 DEF Level
    <3>5. W[z] - W[b.min] = 0 /\ S[z] - S[b.min] = 0
      BY <1>6, <3>4
    <3>6. b.rate.sum * 0 <= 0 * b.rate.weight
      BY <1>4
    <3> QED BY <3>5, <3>6 DEF Below
  <2>3. CASE z < b.min /\ L > 1
    <3> DEFINE c == blocks[L - 1]
    <3> HIDE DEF c
    <3>1. L - 1 \in DOMAIN blocks /\ L - 1 < L
      BY <1>1, <1>2, <2>3 DEF FitType, L
    <3>2. /\ c.min \in Points /\ c.max + 1 \in Points /\ c.max \in Points
          /\ c.max \in Nat /\ c.rate.sum \in Nat /\ c.rate.weight \in Nat \ {0}
      <4>1. /\ c.min \in Points /\ c.max + 1 \in Points /\ c.max \in Scores
            /\ c.rate.sum \in Nat /\ c.rate.weight \in Nat \ {0}
        BY <1>1, <3>1, BlockParts DEF c
      <4> QED BY <4>1, BoundsAssumption DEF Points, Scores
    <3>3. c.max < b.min /\ Level(S, W, c.max + 1, b.min)
      BY <1>1, <1>2, <2>3 DEF InOrder, Shape, b, c
    <3>4. S[b.min] = S[c.max + 1] /\ W[b.min] = W[c.max + 1]
      BY <1>6, <3>2, <3>3 DEF Level
    <3>5. c.rate.sum = S[b.min] - S[c.min] /\ c.rate.weight = W[b.min] - W[c.min]
      BY <1>1, <3>1, <3>4 DEF Shape, Measured, c
    <3>6. c.rate.sum * (W[z] - W[c.min]) <= (S[z] - S[c.min]) * c.rate.weight
      <4>1. \A y \in 0 .. b.min : Below(c, S, W, y)
        BY <1>1, <3>1 DEF Shape, L, b, c
      <4> QED BY <1>6, <2>3, <4>1 DEF Below
    <3>7. W[c.min] \in Nat /\ S[c.min] \in Nat
      BY <3>2
    <3>8. W[b.min] - W[z] \in Nat /\ S[b.min] - S[z] \in Int
      BY <1>1, <1>4, <1>5, <1>6, <2>3, WeightRises
    <3>9. /\ W[z] - W[c.min] = c.rate.weight - (W[b.min] - W[z])
          /\ S[z] - S[c.min] = c.rate.sum - (S[b.min] - S[z])
      BY <1>6, <3>5, <3>7
    <3>10. (S[b.min] - S[z]) * c.rate.weight <= c.rate.sum * (W[b.min] - W[z])
      BY <3>2, <3>6, <3>8, <3>9, RestRisesLess
    <3>11. c.rate.sum * b.rate.weight <= b.rate.sum * c.rate.weight
      BY <1>2, <3>1, AllRise DEF AtMost, b, c
    <3>12. (S[b.min] - S[z]) * b.rate.weight <= b.rate.sum * (W[b.min] - W[z])
      <4> DEFINE rise == S[b.min] - S[z]  run == W[b.min] - W[z]
      <4> HIDE DEF rise, run
      <4>1. rise \in Int /\ run \in Nat /\ rise * c.rate.weight <= c.rate.sum * run
        BY <3>8, <3>10 DEF rise, run
      <4>2. rise * b.rate.weight <= b.rate.sum * run
        BY <1>4, <3>2, <3>11, <4>1, HigherRate
      <4> QED BY <4>2 DEF rise, run
    <3>13. b.rate.sum * (W[z] - W[b.min]) <= (S[z] - S[b.min]) * b.rate.weight
      <4>1. W[z] - W[b.min] = - (W[b.min] - W[z]) /\ S[z] - S[b.min] = - (S[b.min] - S[z])
        BY <1>6
      <4>2. ASSUME NEW s \in Int, NEW w \in Int, NEW x \in Int, NEW y \in Int, x * w <= s * y
            PROVE  s * (- y) <= (- x) * w
        BY <4>2
      <4> QED BY <1>4, <3>8, <3>12, <4>1, <4>2
    <3> QED BY <3>13 DEF Below
  <2> QED BY <1>2, <1>6, <2>1, <2>2, <2>3
<1> QED BY <1>8, <1>9 DEF b, d
-----------------------------------------------------------------------------
(* Before the first pair is pushed there is nothing to say of blocks.       *)
NoBlocks ==
  /\ labels \in [Scores -> Rates] /\ \A x \in Scores : labels[x].sum <= labels[x].weight
  /\ blocks = <<>> /\ pairs = PooledPairs

LEMMA NoBlocksYet == NoBlocks => FitInv
<1> SUFFICES ASSUME NoBlocks PROVE FitInv
  OBVIOUS
<1>. /\ labels \in [Scores -> Rates] /\ \A x \in Scores : labels[x].sum <= labels[x].weight
     /\ blocks = <<>> /\ pairs = PooledPairs
  BY DEF NoBlocks
<1>1. DOMAIN blocks = {} /\ blocks \in Seq(Blocks)
  OBVIOUS
<1>2. Upto = 0
  BY DEF Upto
<1>3. \A p \in PooledPairs : p.min \in Nat
  BY BoundsAssumption DEF PooledPairs, Pair, LabeledScores, Scores
<1>4. Waiting
  BY <1>2, <1>3 DEF Waiting
<1>5. Placed
  BY <1>2, BoundsAssumption DEF Placed, LabeledScores, Scores
<1> QED BY <1>1, <1>4, <1>5 DEF FitInv, FitType, InOrder, Rising, Shape

LEMMA FitInitInv == FitInit => FitInv
<1> SUFFICES ASSUME FitInit PROVE FitInv
  OBVIOUS
<1>1. labels \in [Scores -> Rates] /\ \A x \in Scores : labels[x].sum = 0 /\ labels[x].weight = 0
  BY DEF FitInit, Rate, Rates
<1>2. pairs = PooledPairs
  BY <1>1 DEF FitInit, PooledPairs, LabeledScores
<1>3. NoBlocks
  BY <1>1, <1>2 DEF FitInit, NoBlocks
<1> QED BY <1>3, NoBlocksYet

LEMMA NextBegins == (NoBlocks' => FitInv') /\ (FitInit' => FitInv')
BY NoBlocksYet, FitInitInv, PTL

LEMMA FitKeeps == FitInv /\ Fit => FitInv'
<1> SUFFICES ASSUME Fit PROVE FitInv'
  OBVIOUS
<1>1. labels' \in [Scores -> Rates]
  <2>1. \A s, w \in 0 .. MaxWeight : Rate(s, w) \in Rates
    BY BoundsAssumption DEF Rate, Rates
  <2> QED BY <2>1 DEF Fit
<1>2. blocks' = <<>> /\ pairs' = PooledPairs' /\ \A x \in Scores : labels'[x].sum <= labels'[x].weight
  BY DEF Fit, FitInit
<1>3. NoBlocks'
  BY <1>1, <1>2 DEF NoBlocks
<1> QED BY <1>3, NextBegins

LEMMA EmitKeeps == FitInv /\ Emit => FitInv'
<1> SUFFICES ASSUME Emit PROVE FitInv'
  OBVIOUS
<1>1. FitInit'
  BY DEF Emit, Fitted, FitInit
<1> QED BY <1>1, NextBegins

-----------------------------------------------------------------------------
(* The pair that is pushed begins after the blocks, and nothing labeled is  *)
(* between.                                                                 *)
LEMMA NextPair ==
  ASSUME FitInv, NEW p \in pairs, \A q \in pairs : p.min <= q.min
  PROVE  /\ p.min \in LabeledScores /\ p.max = p.min /\ p \in Blocks
         /\ p.rate.sum = labels[p.min].sum /\ p.rate.weight = labels[p.min].weight
         /\ Upto \in Points /\ Upto <= p.min
         /\ \A x \in LabeledScores : ~(Upto <= x /\ x < p.min)
         /\ \A q \in pairs : q.min = p.min => q = p
<1>1. FitType /\ Waiting
  BY DEF FitInv
<1>2. PICK x \in LabeledScores : p = Pair(x, labels[x].sum, labels[x].weight) /\ Upto <= p.min
  BY <1>1 DEF Waiting, PooledPairs
<1>3. p.min = x /\ p.max = x /\ p.rate = Rate(labels[x].sum, labels[x].weight)
  BY <1>2 DEF Pair
<1>4. x \in Scores /\ labels[x].sum \in Nat /\ labels[x].weight \in Nat \ {0}
  BY <1>1 DEF LabeledScores, FitType, Rates
<1>5. p.rate.sum = labels[x].sum /\ p.rate.weight = labels[x].weight /\ p \in Blocks
  BY <1>2, <1>4 DEF Pair, Rate, Blocks
<1>6. Upto \in Points
  <2>1. CASE blocks = <<>>
    BY <2>1, BoundsAssumption DEF Upto, Points
  <2>2. CASE blocks # <<>>
    <3>1. Len(blocks) \in DOMAIN blocks
      BY <1>1, <2>2 DEF FitType
    <3> QED BY <1>1, <2>2, <3>1, BlockParts DEF Upto
  <2> QED BY <2>1, <2>2
<1>7. ASSUME NEW y \in LabeledScores, Upto <= y
      PROVE  ~(y < x)
  <2>1. Pair(y, labels[y].sum, labels[y].weight) \in pairs
    BY <1>1, <1>7 DEF Waiting, PooledPairs, Pair
  <2>2. x <= y
    BY <1>3, <2>1 DEF Pair
  <2> QED BY <1>4, <2>2, BoundsAssumption DEF LabeledScores, Scores
<1>8. ASSUME NEW q \in pairs, q.min = p.min
      PROVE  q = p
  <2>1. PICK y \in LabeledScores : q = Pair(y, labels[y].sum, labels[y].weight)
    BY <1>1 DEF Waiting, PooledPairs
  <2>2. y = x
    BY <1>3, <1>8, <2>1 DEF Pair
  <2> QED BY <1>2, <2>1, <2>2
<1> QED BY <1>2, <1>3, <1>5, <1>6, <1>7, <1>8

LEMMA PushKeeps == FitInv /\ Push => FitInv'
<1> SUFFICES ASSUME FitInv, Push PROVE FitInv'
  OBVIOUS
<1>1. PICK p \in pairs : /\ \A q \in pairs : p.min <= q.min
                         /\ blocks' = Append(blocks, p) /\ pairs' = pairs \ {p}
  BY DEF Push
<1>2. ~Violated /\ labels' = labels
  BY DEF Push
<1> DEFINE L == Len(blocks)
<1>3. FitType /\ Waiting /\ Placed /\ InOrder
  BY DEF FitInv
<1>4. /\ p.min \in LabeledScores /\ p.max = p.min /\ p \in Blocks
      /\ p.rate.sum = labels[p.min].sum /\ p.rate.weight = labels[p.min].weight
      /\ Upto \in Points /\ Upto <= p.min
      /\ \A x \in LabeledScores : ~(Upto <= x /\ x < p.min)
      /\ \A q \in pairs : q.min = p.min => q = p
  BY <1>1, NextPair
<1>5. /\ L \in Nat /\ DOMAIN blocks = 1 .. L /\ Len(blocks') = L + 1 /\ DOMAIN blocks' = 1 .. L + 1
      /\ blocks' \in Seq(Blocks) /\ blocks'[L + 1] = p /\ \A n \in 1 .. L : blocks'[n] = blocks[n]
  BY <1>1, <1>3, <1>4 DEF FitType
<1>6. /\ LabeledScores' = LabeledScores /\ PooledPairs' = PooledPairs
      /\ \A S, W : Curve(S, W)' <=> Curve(S, W)
  BY <1>2 DEF LabeledScores, PooledPairs, Curve, Counts, SumOf, WeightOf
<1>7. p.min \in Nat /\ p.min \in Scores /\ Upto \in Nat /\ Upto' = p.min + 1
  <2>1. blocks' # <<>>
    BY <1>5
  <2> QED BY <1>4, <1>5, <2>1, BoundsAssumption DEF LabeledScores, Scores, Points, Upto
<1>8. L # 0 => Upto = blocks[L].max + 1
  BY <1>5 DEF Upto
<1>9. FitType'
  BY <1>2, <1>3, <1>5 DEF FitType
<1>10. Waiting'
  <2>1. \A q \in pairs \ {p} : p.min + 1 <= q.min
    <3> SUFFICES ASSUME NEW q \in pairs \ {p} PROVE p.min + 1 <= q.min
      OBVIOUS
    <3>1. q.min \in Nat /\ q.min # p.min /\ p.min <= q.min
      BY <1>1, <1>3, <1>4, BoundsAssumption DEF Waiting, PooledPairs, Pair, LabeledScores, Scores
    <3> QED BY <1>7, <3>1
  <2>2. \A q \in PooledPairs : q.min \in Nat
    BY BoundsAssumption DEF PooledPairs, Pair, LabeledScores, Scores
  <2>3. \A q \in PooledPairs : p.min + 1 <= q.min => q \in pairs \ {p}
    BY <1>3, <1>4, <1>7, <2>2 DEF Waiting
  <2>4. pairs \ {p} \subseteq PooledPairs
    BY <1>3 DEF Waiting
  <2> QED BY <1>1, <1>6, <1>7, <2>1, <2>3, <2>4 DEF Waiting
<1>11. Placed'
  <2> SUFFICES ASSUME NEW x \in LabeledScores, x < p.min + 1
               PROVE  \E n \in 1 .. L + 1 : blocks'[n].min <= x /\ x <= blocks'[n].max
    BY <1>5, <1>6, <1>7 DEF Placed
  <2>1. x \in Nat
    BY BoundsAssumption DEF LabeledScores, Scores
  <2>2. CASE x = p.min
    BY <1>4, <1>5, <1>7, <2>2
  <2>3. CASE x < p.min
    <3>1. x < Upto
      BY <1>4, <1>7, <2>1, <2>3
    <3>2. PICK n \in 1 .. L : blocks[n].min <= x /\ x <= blocks[n].max
      BY <1>3, <1>5, <3>1 DEF Placed
    <3> QED BY <1>5, <3>2
  <2> QED BY <1>7, <2>1, <2>2, <2>3
<1>12. InOrder'
  <2> SUFFICES ASSUME NEW n \in 1 .. L + 1
               PROVE  /\ blocks'[n].min <= blocks'[n].max
                      /\ blocks'[n].min \in LabeledScores
                      /\ n > 1 => blocks'[n - 1].max < blocks'[n].min
    BY <1>5, <1>6 DEF InOrder
  <2>1. CASE n \in 1 .. L
    <3>1. n > 1 => n - 1 \in 1 .. L
      BY <1>5, <2>1
    <3> QED BY <1>3, <1>5, <2>1, <3>1 DEF InOrder
  <2>2. CASE n = L + 1
    <3>1. n > 1 => blocks[L].max < p.min
      <4> SUFFICES ASSUME n > 1 PROVE blocks[L].max < p.min
        OBVIOUS
      <4>1. L \in DOMAIN blocks /\ Upto = blocks[L].max + 1
        BY <1>5, <1>8, <2>2
      <4>2. blocks[L].max \in Nat
        BY <1>3, <4>1, BlockParts, BoundsAssumption DEF Scores
      <4> QED BY <1>4, <1>7, <4>1, <4>2
    <3>2. n > 1 => blocks'[n - 1] = blocks[L]
      BY <1>5, <2>2
    <3> QED BY <1>4, <1>5, <1>7, <2>2, <3>1, <3>2
  <2> QED BY <1>5, <2>1, <2>2
<1>13. Rising'
  <2> SUFFICES ASSUME NEW m \in 1 .. L + 1, NEW n \in 1 .. L + 1, m < n, n < L + 1
               PROVE  AtMost(blocks'[m].rate, blocks'[n].rate)
    BY <1>5 DEF Rising
  <2>1. m \in DOMAIN blocks /\ n \in DOMAIN blocks /\ blocks'[m] = blocks[m] /\ blocks'[n] = blocks[n]
    BY <1>5
  <2> QED BY <1>2, <2>1, AllRise
<1>14. ASSUME NEW S \in [Points -> Nat], NEW W \in [Points -> Nat], Curve(S, W)
       PROVE  Shape(S, W)'
  <2>1. Shape(S, W)
    BY <1>14 DEF FitInv
  <2>2. p.min \in Points /\ p.min + 1 \in Points
    BY <1>7, BoundsAssumption DEF Points, Scores
  <2>3. Level(S, W, Upto, p.min)
    BY <1>3, <1>4, <1>14, <2>2, NoLabelsLevel
  <2>4. Measured(p, S, W)
    <3>1. S[p.min + 1] = S[p.min] + labels[p.min].sum /\ W[p.min + 1] = W[p.min] + labels[p.min].weight
      BY <1>7, <1>14 DEF Curve, Counts, SumOf, WeightOf
    <3>2. /\ S[p.min] \in Nat /\ W[p.min] \in Nat /\ S[p.min + 1] \in Nat /\ W[p.min + 1] \in Nat
          /\ labels[p.min].sum \in Nat /\ labels[p.min].weight \in Nat
      BY <1>3, <1>7, <2>2 DEF FitType, Rates
    <3>3. p.rate.sum = S[p.min + 1] - S[p.min] /\ p.rate.weight = W[p.min + 1] - W[p.min]
      BY <1>4, <3>1, <3>2
    <3>4. Below(p, S, W, p.min)
      <4>1. W[p.min] - W[p.min] = 0 /\ S[p.min] - S[p.min] = 0
        BY <3>2
      <4>2. p.rate.sum * 0 <= 0 * p.rate.weight
        BY <1>4, <3>2
      <4> QED BY <4>1, <4>2 DEF Below
    <3>5. Below(p, S, W, p.min + 1)
      <4>1. p.rate.sum * p.rate.weight <= p.rate.sum * p.rate.weight
        BY <1>4, <3>2
      <4> QED BY <3>3, <4>1 DEF Below
    <3>6. \A z \in p.min .. p.max + 1 : z = p.min \/ z = p.min + 1
      BY <1>4, <1>7
    <3> QED BY <1>4, <3>3, <3>4, <3>5, <3>6 DEF Measured
  <2> SUFFICES ASSUME NEW n \in 1 .. L + 1
               PROVE  /\ Measured(blocks'[n], S, W)
                      /\ n > 1 => Level(S, W, blocks'[n - 1].max + 1, blocks'[n].min)
                      /\ n < L + 1 => \A z \in 0 .. p.min : Below(blocks'[n], S, W, z)
    BY <1>5 DEF Shape
  <2>5. CASE n = L + 1
    <3>1. n > 1 => blocks'[n - 1].max + 1 = Upto
      BY <1>5, <1>8, <2>5
    <3> QED BY <1>5, <2>3, <2>4, <2>5, <3>1
  <2>6. CASE n \in 1 .. L
    <3>1. blocks'[n] = blocks[n] /\ n \in DOMAIN blocks /\ (n > 1 => blocks'[n - 1] = blocks[n - 1])
      BY <1>5, <2>6
    <3>2. Measured(blocks[n], S, W) /\ (n > 1 => Level(S, W, blocks[n - 1].max + 1, blocks[n].min))
      BY <2>1, <3>1 DEF Shape
    <3>3. ASSUME NEW z \in 0 .. p.min
          PROVE  Below(blocks[n], S, W, z)
      <4>1. CASE z <= Upto
        BY <1>2, <1>7, <1>14, <3>1, <4>1, AllBelow
      <4>2. CASE z > Upto
        <5>1. S[z] = S[Upto] /\ W[z] = W[Upto]
          BY <1>7, <2>3, <4>2 DEF Level
        <5>2. Below(blocks[n], S, W, Upto)
          BY <1>2, <1>7, <1>14, <3>1, AllBelow
        <5> QED BY <5>1, <5>2 DEF Below
      <4> QED BY <1>7, <4>1, <4>2
    <3> QED BY <3>1, <3>2, <3>3
  <2> QED BY <1>5, <2>5, <2>6
<1> QED BY <1>6, <1>9, <1>10, <1>11, <1>12, <1>13, <1>14 DEF FitInv
-----------------------------------------------------------------------------
(* The union of the last two blocks, the first of the higher rate, is a     *)
(* block of its range.                                                      *)
LEMMA OneBlock ==
  ASSUME NEW b \in Blocks
  PROVE  /\ b.min \in Points /\ b.max + 1 \in Points /\ b.max + 1 <= Top + 1
         /\ b.min \in Nat /\ b.max \in Nat
         /\ b.rate.sum \in Nat /\ b.rate.weight \in Nat \ {0}
<1>1. b.min \in Scores /\ b.max \in Scores /\ b.rate \in [sum : Nat, weight : Nat \ {0}]
  BY DEF Blocks
<1>2. b.rate.sum \in Nat /\ b.rate.weight \in Nat \ {0}
  BY <1>1
<1> QED BY <1>1, <1>2, BoundsAssumption DEF Scores, Points

LEMMA MergedIsMeasured ==
  ASSUME NEW S \in [Points -> Nat], NEW W \in [Points -> Nat],
         FitType, Curve(S, W), NEW b \in Blocks, NEW c \in Blocks,
         b.min <= b.max, b.max < c.min, c.min <= c.max, ~AtMost(b.rate, c.rate),
         Measured(b, S, W), Measured(c, S, W), Level(S, W, b.max + 1, c.min),
         NEW d \in Blocks, d.min = b.min, d.max = c.max,
         d.rate.sum = b.rate.sum + c.rate.sum, d.rate.weight = b.rate.weight + c.rate.weight
  PROVE  Measured(d, S, W)
<1>1. /\ b.min \in Points /\ b.max + 1 \in Points /\ c.min \in Points /\ c.max + 1 \in Points
      /\ b.min \in Nat /\ b.max \in Nat /\ c.min \in Nat /\ c.max \in Nat
      /\ b.rate.sum \in Nat /\ b.rate.weight \in Nat \ {0}
      /\ c.rate.sum \in Nat /\ c.rate.weight \in Nat \ {0}
      /\ b.max + 1 <= Top + 1 /\ c.max + 1 <= Top + 1
  BY OneBlock
<1> DEFINE s == b.rate.sum  w == b.rate.weight  t == c.rate.sum  v == c.rate.weight
<1>2. /\ S[b.min] \in Nat /\ W[b.min] \in Nat /\ S[b.max + 1] \in Nat /\ W[b.max + 1] \in Nat
      /\ S[c.min] \in Nat /\ W[c.min] \in Nat /\ S[c.max + 1] \in Nat /\ W[c.max + 1] \in Nat
  BY <1>1
<1>3. S[c.min] = S[b.max + 1] /\ W[c.min] = W[b.max + 1]
  BY <1>1 DEF Level
<1>4. /\ s = S[b.max + 1] - S[b.min] /\ w = W[b.max + 1] - W[b.min]
      /\ t = S[c.max + 1] - S[c.min] /\ v = W[c.max + 1] - W[c.min]
  BY DEF Measured
<1>5. d.rate.sum = S[d.max + 1] - S[d.min] /\ d.rate.weight = W[d.max + 1] - W[d.min]
  BY <1>2, <1>3, <1>4
<1>6. s \in Nat /\ w \in Nat \ {0} /\ t \in Nat /\ v \in Nat \ {0} /\ t * w <= s * v
  <2>1. ~(s * v <= t * w)
    BY DEF AtMost
  <2>2. s * v \in Int /\ t * w \in Int
    BY <1>1
  <2> QED BY <1>1, <2>1, <2>2
<1>7. d.rate.sum = s + t /\ d.rate.weight = w + v
  OBVIOUS
<1> HIDE DEF s, w, t, v
<1>8. /\ (s + t) * w <= s * (w + v)
      /\ \A rise \in Int, run \in Nat :
           run <= v /\ t * run <= rise * v => (s + t) * (w + run) <= (s + rise) * (w + v)
  BY <1>6, PooledRate
<1>9. s + t \in Nat /\ w + v \in Nat \ {0}
  BY <1>6
<1>10. ASSUME NEW z \in b.min .. b.max + 1
       PROVE  (s + t) * (W[z] - W[b.min]) <= (S[z] - S[b.min]) * (w + v)
  <2> DEFINE rise == S[z] - S[b.min]  run == W[z] - W[b.min]
  <2>1. z \in Points /\ b.min <= z
    <3>1. b.min \in Nat /\ b.max + 1 \in Nat /\ b.max + 1 <= Top + 1
      BY <1>1
    <3> QED BY <3>1, PointsBetween
  <2>3. W[b.min] <= W[z]
    BY <1>1, <2>1, WeightRises
  <2>4. S[z] \in Nat /\ W[z] \in Nat
    BY <2>1
  <2>5. rise \in Int /\ run \in Nat
    BY <1>2, <2>3, <2>4
  <2>6. s * run <= rise * w
    BY DEF Measured, Below, s, w
  <2> HIDE DEF rise, run
  <2>7. (s + t) * run <= rise * (w + v)
    BY <1>6, <1>8, <1>9, <2>5, <2>6, LowerRate
  <2> QED BY <2>7 DEF rise, run
<1>11. ASSUME NEW z \in c.min .. c.max + 1
       PROVE  (s + t) * (W[z] - W[b.min]) <= (S[z] - S[b.min]) * (w + v)
  <2> DEFINE rise == S[z] - S[c.min]  run == W[z] - W[c.min]
  <2>1. z \in Points /\ z \in Nat /\ c.min <= z /\ z <= c.max + 1
    <3>1. c.min \in Nat /\ c.max + 1 \in Nat /\ c.max + 1 <= Top + 1
      BY <1>1
    <3> QED BY <3>1, PointsBetween
  <2>2. W[c.min] <= W[z] /\ W[z] <= W[c.max + 1]
    BY <1>1, <2>1, WeightRises
  <2>3. S[z] \in Nat /\ W[z] \in Nat
    BY <2>1
  <2>4. rise \in Int /\ run \in Nat /\ run <= v
    BY <1>2, <1>4, <2>2, <2>3
  <2>5. t * run <= rise * v
    BY DEF Measured, Below, t, v
  <2>6. W[z] - W[b.min] = w + run /\ S[z] - S[b.min] = s + rise
    BY <1>2, <1>3, <1>4, <2>3
  <2> HIDE DEF rise, run
  <2> QED BY <1>8, <2>4, <2>5, <2>6
<1>12. ASSUME NEW z \in d.min .. d.max + 1
       PROVE  (s + t) * (W[z] - W[b.min]) <= (S[z] - S[b.min]) * (w + v)
  <2>1. CASE z <= b.max + 1
    BY <1>1, <1>10, <2>1
  <2>2. CASE z >= c.min
    BY <1>1, <1>11, <2>2
  <2>3. CASE b.max + 1 < z /\ z < c.min
    <3>1. S[z] = S[b.max + 1] /\ W[z] = W[b.max + 1]
      BY <1>1, <2>3 DEF Level
    <3>2. b.max + 1 \in b.min .. b.max + 1
      BY <1>1
    <3> QED BY <1>10, <3>1, <3>2
  <2> QED BY <1>1, <2>1, <2>2, <2>3
<1> QED BY <1>5, <1>7, <1>12 DEF Measured, Below

LEMMA MergeKeeps == FitInv /\ Merge => FitInv'
<1> SUFFICES ASSUME FitInv, Merge PROVE FitInv'
  OBVIOUS
<1> DEFINE L == Len(blocks)  b == blocks[L - 1]  c == blocks[L]
           d == [min |-> b.min, max |-> c.max,
                 rate |-> Rate(b.rate.sum + c.rate.sum, b.rate.weight + c.rate.weight)]
           kept == SubSeq(blocks, 1, L - 2)
<1>1. FitType /\ Waiting /\ Placed /\ InOrder /\ Rising
  BY DEF FitInv
<1>2. blocks \in Seq(Blocks) /\ L \in Nat /\ DOMAIN blocks = 1 .. L /\ L >= 2
  BY <1>1 DEF FitType, Merge, Violated
<1>3. ~AtMost(b.rate, c.rate)
  BY DEF Merge, Violated
<1>4. blocks' = Append(kept, d) /\ labels' = labels /\ pairs' = pairs
  BY DEF Merge
<1>5. L - 1 \in 1 .. L /\ L \in 1 .. L /\ b \in Blocks /\ c \in Blocks
  BY <1>2
<1>6. d \in Blocks /\ d.min = b.min /\ d.max = c.max
      /\ d.rate.sum = b.rate.sum + c.rate.sum /\ d.rate.weight = b.rate.weight + c.rate.weight
  BY <1>5 DEF Blocks, Rate
<1> HIDE DEF d
<1>7. kept \in Seq(Blocks) /\ Len(kept) = L - 2 /\ \A n \in 1 .. L - 2 : kept[n] = blocks[n]
  BY <1>2
<1> HIDE DEF kept
<1>8. /\ blocks' \in Seq(Blocks) /\ Len(blocks') = L - 1 /\ DOMAIN blocks' = 1 .. L - 1
      /\ blocks'[L - 1] = d /\ \A n \in 1 .. L - 2 : blocks'[n] = blocks[n]
  <2>1. /\ blocks' \in Seq(Blocks) /\ Len(blocks') = Len(kept) + 1
        /\ \A n \in 1 .. Len(kept) : blocks'[n] = kept[n]
        /\ blocks'[Len(kept) + 1] = d
    BY <1>4, <1>6, <1>7, AppendProperties
  <2>2. L - 2 \in Nat /\ (L - 2) + 1 = L - 1
    BY <1>2
  <2>3. DOMAIN blocks' = 1 .. Len(blocks')
    BY <2>1
  <2> QED BY <1>7, <2>1, <2>2, <2>3
<1>9. /\ LabeledScores' = LabeledScores /\ PooledPairs' = PooledPairs
      /\ \A S, W : Curve(S, W)' <=> Curve(S, W)
  BY <1>4 DEF LabeledScores, PooledPairs, Curve, Counts, SumOf, WeightOf
<1>10. Upto' = Upto
  <2>1. blocks # <<>> /\ blocks' # <<>>
    BY <1>2, <1>8
  <2> QED BY <1>6, <1>8, <2>1 DEF Upto
<1>11. /\ b.min <= b.max /\ b.max < c.min /\ c.min <= c.max /\ b.min \in LabeledScores
       /\ b.min \in Nat /\ b.max \in Nat /\ c.min \in Nat /\ c.max \in Nat
  <2>1. /\ b.min <= b.max /\ b.min \in LabeledScores
        /\ c.min <= c.max /\ b.max < c.min
    BY <1>1, <1>2, <1>5 DEF InOrder
  <2>2. b.min \in Nat /\ b.max \in Nat /\ c.min \in Nat /\ c.max \in Nat
    BY <1>5, BoundsAssumption DEF Blocks, Scores
  <2> QED BY <2>1, <2>2
<1> HIDE DEF L, b, c
<1>12. FitType' /\ Waiting'
  BY <1>1, <1>4, <1>8, <1>9, <1>10 DEF FitType, Waiting
<1>13. Placed'
  <2> SUFFICES ASSUME NEW x \in LabeledScores, x < Upto
               PROVE  \E n \in 1 .. L - 1 : blocks'[n].min <= x /\ x <= blocks'[n].max
    BY <1>8, <1>9, <1>10 DEF Placed
  <2>1. PICK n \in 1 .. L : blocks[n].min <= x /\ x <= blocks[n].max
    BY <1>1, <1>2 DEF Placed
  <2>2. x \in Nat
    BY BoundsAssumption DEF LabeledScores, Scores
  <2>3. CASE n \in 1 .. L - 2
    BY <1>2, <1>8, <2>1, <2>3
  <2>4. CASE n = L - 1
    <3>1. d.min <= x /\ x <= d.max
      BY <1>6, <1>11, <2>1, <2>2, <2>4 DEF b
    <3> QED BY <1>2, <1>8, <3>1
  <2>5. CASE n = L
    <3>1. d.min <= x /\ x <= d.max
      BY <1>6, <1>11, <2>1, <2>2, <2>5 DEF c
    <3> QED BY <1>2, <1>8, <3>1
  <2> QED BY <1>2, <2>3, <2>4, <2>5
<1>14. InOrder'
  <2> SUFFICES ASSUME NEW n \in 1 .. L - 1
               PROVE  /\ blocks'[n].min <= blocks'[n].max
                      /\ blocks'[n].min \in LabeledScores
                      /\ n > 1 => blocks'[n - 1].max < blocks'[n].min
    BY <1>8, <1>9 DEF InOrder
  <2>1. /\ n \in 1 .. L /\ (n > 1 => n - 1 \in 1 .. L - 2)
        /\ (n > 1 => blocks[n - 1].max < blocks[n].min)
        /\ blocks[n].min <= blocks[n].max /\ blocks[n].min \in LabeledScores
    BY <1>1, <1>2 DEF InOrder
  <2>2. CASE n \in 1 .. L - 2
    BY <1>8, <2>1, <2>2
  <2>3. CASE n = L - 1
    <3>1. d.min <= d.max /\ d.min \in LabeledScores
      BY <1>6, <1>11
    <3>2. d.min = blocks[n].min
      BY <1>6, <2>3 DEF b
    <3> QED BY <1>8, <2>1, <2>3, <3>1, <3>2
  <2> QED BY <1>2, <2>2, <2>3
<1>15. Rising'
  <2> SUFFICES ASSUME NEW m \in 1 .. L - 1, NEW n \in 1 .. L - 1, m < n, n < L - 1
               PROVE  AtMost(blocks'[m].rate, blocks'[n].rate)
    BY <1>8 DEF Rising
  <2>1. m \in DOMAIN blocks /\ n \in DOMAIN blocks /\ n < L /\ blocks'[m] = blocks[m] /\ blocks'[n] = blocks[n]
    BY <1>2, <1>8
  <2> QED BY <1>1, <2>1 DEF Rising, L
<1>16. ASSUME NEW S \in [Points -> Nat], NEW W \in [Points -> Nat], Curve(S, W)
       PROVE  Shape(S, W)'
  <2>1. Shape(S, W)
    BY <1>16 DEF FitInv
  <2>2. /\ Measured(b, S, W) /\ Measured(c, S, W)
        /\ Level(S, W, b.max + 1, c.min)
    BY <1>2, <1>5, <2>1 DEF Shape, b, c
  <2>3. Measured(d, S, W)
    BY <1>1, <1>3, <1>5, <1>6, <1>11, <1>16, <2>2, MergedIsMeasured DEF b, c
  <2> SUFFICES ASSUME NEW n \in 1 .. L - 1
               PROVE  /\ Measured(blocks'[n], S, W)
                      /\ n > 1 => Level(S, W, blocks'[n - 1].max + 1, blocks'[n].min)
                      /\ n < L - 1 => \A z \in 0 .. d.min : Below(blocks'[n], S, W, z)
    BY <1>8 DEF Shape
  <2>4. n \in DOMAIN blocks /\ n < Len(blocks)
    BY <1>2 DEF L
  <2>5. /\ Measured(blocks[n], S, W)
        /\ n > 1 => Level(S, W, blocks[n - 1].max + 1, blocks[n].min)
        /\ \A z \in 0 .. c.min : Below(blocks[n], S, W, z)
    BY <2>1, <2>4 DEF Shape, c, L
  <2>6. n > 1 => n - 1 \in 1 .. L - 2
    BY <1>2
  <2>7. CASE n \in 1 .. L - 2
    <3>1. \A z \in 0 .. d.min : z \in 0 .. c.min
      BY <1>6, <1>11
    <3> QED BY <1>8, <2>5, <2>6, <2>7, <3>1
  <2>8. CASE n = L - 1
    <3>1. d.min = blocks[n].min
      BY <1>6, <2>8 DEF b
    <3> QED BY <1>8, <2>3, <2>5, <2>6, <2>8, <3>1
  <2> QED BY <1>2, <2>7, <2>8
<1> QED BY <1>9, <1>12, <1>13, <1>14, <1>15, <1>16 DEF FitInv

LEMMA FitInvHolds == FitSpec => []FitInv
<1>1. FitInv /\ [FitNext]_ivars => FitInv'
  <2> SUFFICES ASSUME FitInv, [FitNext]_ivars PROVE FitInv'
    OBVIOUS
  <2>1. CASE Fit
    BY <2>1, FitKeeps
  <2>2. CASE Push
    BY <2>2, PushKeeps
  <2>3. CASE Merge
    BY <2>3, MergeKeeps
  <2>4. CASE Emit
    BY <2>4, EmitKeeps
  <2>5. CASE UNCHANGED ivars
    <3>1. labels' = labels /\ pairs' = pairs /\ blocks' = blocks
      BY <2>5 DEF ivars
    <3>2. \A S, W : (Curve(S, W)' <=> Curve(S, W)) /\ (Shape(S, W)' <=> Shape(S, W))
      BY <3>1 DEF Curve, Counts, SumOf, WeightOf, Shape
    <3>3. LabeledScores' = LabeledScores /\ PooledPairs' = PooledPairs /\ Upto' = Upto
      BY <3>1 DEF LabeledScores, PooledPairs, Upto
    <3> QED BY <3>1, <3>2, <3>3 DEF FitInv, FitType, Waiting, Placed, InOrder, Rising
  <2> QED BY <2>1, <2>2, <2>3, <2>4, <2>5 DEF FitNext
<1> QED BY <1>1, FitInitInv, PTL DEF FitSpec
-----------------------------------------------------------------------------
(* Whatever the labels, there are their counts.                             *)
LEMMA CountsExist ==
  ASSUME NEW share \in [Scores -> Nat]
  PROVE  \E C \in [Points -> Nat] : Counts(C, share)
<1> DEFINE Counted(n) ==
      \E f \in [0 .. n -> Nat] : f[0] = 0 /\ \A x \in 0 .. n - 1 : f[x + 1] = f[x] + share[x]
           Missing == {n \in Points : ~Counted(n)}
<1>0. Top \in Nat
  BY BoundsAssumption
<1>1. ASSUME Missing # {} PROVE FALSE
  <2>1. Missing \subseteq Nat
    BY <1>0 DEF Points
  <2>2. PICK n \in Missing : \A m \in Missing : <<m, n>> \notin OpToRel(<, Nat)
    BY <1>1, <2>1, NatLessThanWellFounded, WFMin
  <2>3. \A m \in Missing : ~(m < n)
    BY <2>1, <2>2, Zenon DEF OpToRel
  <2>4. ~Counted(n) /\ n \in 0 .. Top + 1 /\ n \in Nat
    BY <1>0 DEF Points
  <2>5. Counted(0)
    <3>1. [i \in 0 .. 0 |-> 0] \in [0 .. 0 -> Nat] /\ [i \in 0 .. 0 |-> 0][0] = 0 /\ 0 .. 0 - 1 = {}
      OBVIOUS
    <3> QED BY <3>1
  <2>6. n # 0 /\ n - 1 \in Points /\ n - 1 < n
    <3>1. n # 0
      <4> HIDE DEF Counted
      <4> QED BY <2>4, <2>5
    <3> QED BY <1>0, <2>4, <3>1 DEF Points
  <2>7. Counted(n - 1)
    BY <2>3, <2>6
  <2>8. PICK f \in [0 .. n - 1 -> Nat] :
          f[0] = 0 /\ \A x \in 0 .. n - 2 : f[x + 1] = f[x] + share[x]
    <3>1. (n - 1) - 1 = n - 2
      BY <2>4
    <3> QED BY <2>7, <3>1
  <2> DEFINE g == [i \in 0 .. n |-> IF i = n THEN f[n - 1] + share[n - 1] ELSE f[i]]
  <2>9. n - 1 \in 0 .. n - 1 /\ share[n - 1] \in Nat
    BY <1>0, <2>4, <2>6 DEF Scores
  <2>10. g \in [0 .. n -> Nat]
    BY <2>4, <2>8, <2>9
  <2>11. g[0] = 0
    BY <2>4, <2>6, <2>8
  <2>12. ASSUME NEW x \in 0 .. n - 1
         PROVE  g[x + 1] = g[x] + share[x]
    <3>1. x \in 0 .. n /\ x + 1 \in 0 .. n /\ x # n
      BY <2>4
    <3>2. g[x] = f[x]
      BY <3>1
    <3>3. CASE x = n - 1
      <4>1. x + 1 = n
        BY <2>4, <3>3
      <4> QED BY <3>1, <3>2, <3>3, <4>1
    <3>4. CASE x # n - 1
      <4>1. x \in 0 .. n - 2 /\ x + 1 # n
        BY <2>4, <3>4
      <4> QED BY <2>8, <3>1, <3>2, <4>1
    <3> QED BY <3>3, <3>4
  <2>13. Counted(n)
    <3> HIDE DEF g
    <3> QED BY <2>10, <2>11, <2>12
  <2> QED BY <2>4, <2>13
<1>2. Top + 1 \in Points
  BY <1>0 DEF Points
<1>3. Counted(Top + 1)
  BY <1>1, <1>2
<1>4. PICK C \in [0 .. Top + 1 -> Nat] :
        C[0] = 0 /\ \A x \in 0 .. (Top + 1) - 1 : C[x + 1] = C[x] + share[x]
  BY <1>3
<1>5. (Top + 1) - 1 = Top
  BY <1>0
<1> QED BY <1>4, <1>5 DEF Counts, Points, Scores

-----------------------------------------------------------------------------
(* The rate of the labels from one score to another.                        *)
Over(S, W, a, b) == Rate(S[b + 1] - S[a], W[b + 1] - W[a])

(* Once all pairs are in blocks, every labeled score is in a block whose    *)
(* rate is the regression's at it: not above that of any range from the     *)
(* block's beginning to at or after the score, not below that of any range  *)
(* from at or before the score to the block's end.                          *)
LEMMA BlocksAreRegression ==
  ASSUME FitInv, Fitted, NEW S \in [Points -> Nat], NEW W \in [Points -> Nat], Curve(S, W),
         NEW x \in LabeledScores
  PROVE  \E n \in DOMAIN blocks :
           /\ blocks[n].min <= x /\ x <= blocks[n].max
           /\ blocks[n].min \in LabeledScores
           /\ \A y \in x .. Top : AtMost(blocks[n].rate, Over(S, W, blocks[n].min, y))
           /\ \A a \in 0 .. x : AtMost(Over(S, W, a, blocks[n].max), blocks[n].rate)
<1>0. FitType /\ Placed /\ InOrder
  BY DEF FitInv
<1>1. pairs = {} /\ ~Violated /\ Waiting /\ Shape(S, W)
  BY DEF Fitted, FitInv
<1>2. \A y \in LabeledScores : y < Upto
  <2> SUFFICES ASSUME NEW y \in LabeledScores PROVE y < Upto
    OBVIOUS
  <2>1. Pair(y, labels[y].sum, labels[y].weight) \in PooledPairs
    BY DEF PooledPairs
  <2>2. ~(Upto <= Pair(y, labels[y].sum, labels[y].weight).min)
    BY <1>1, <2>1 DEF Waiting
  <2>3. ~(Upto <= y)
    BY <2>2 DEF Pair
  <2>4. y \in Nat
    BY BoundsAssumption DEF LabeledScores, Scores
  <2>5. Upto \in Nat
    <3>1. blocks # <<>> => Len(blocks) \in DOMAIN blocks
      BY <1>0 DEF FitType
    <3> QED BY <1>0, <3>1, BlockParts, BoundsAssumption DEF Upto, Points
  <2> QED BY <2>3, <2>4, <2>5
<1>3. PICK n \in DOMAIN blocks : blocks[n].min <= x /\ x <= blocks[n].max
  BY <1>0, <1>2 DEF Placed
<1> DEFINE b == blocks[n]
<1>4. b \in Blocks /\ b.min <= b.max /\ b.min \in LabeledScores /\ Measured(b, S, W)
  BY <1>0, <1>1, <1>3, BlockParts DEF InOrder, Shape
<1>5. x \in Nat /\ x <= Top /\ Top \in Nat
  BY BoundsAssumption DEF LabeledScores, Scores
<1>6. /\ Upto \in Nat /\ Upto <= Top + 1
      /\ \A z \in Points : z > Upto => S[z] = S[Upto] /\ W[z] = W[Upto]
  <2>1. Len(blocks) \in DOMAIN blocks /\ blocks # <<>>
    BY <1>0, <1>3 DEF FitType
  <2>2. Upto = blocks[Len(blocks)].max + 1 /\ blocks[Len(blocks)] \in Blocks
    BY <1>0, <2>1, BlockParts DEF Upto
  <2>3. Upto \in Points /\ Upto \in Nat /\ Upto <= Top + 1
    <3>1. /\ blocks[Len(blocks)].max + 1 \in Points /\ blocks[Len(blocks)].max \in Nat
          /\ blocks[Len(blocks)].max + 1 <= Top + 1
      BY <2>2, OneBlock
    <3> QED BY <2>2, <3>1
  <2>4. ASSUME NEW z \in Points, z > Upto
        PROVE  S[z] = S[Upto] /\ W[z] = W[Upto]
    <3>1. \A y \in LabeledScores : ~(Upto <= y /\ y < z)
      <4>1. \A y \in LabeledScores : y \in Nat
        BY BoundsAssumption DEF LabeledScores, Scores
      <4> QED BY <1>2, <2>3, <4>1
    <3>2. Level(S, W, Upto, z)
      BY <1>0, <2>3, <3>1, NoLabelsLevel
    <3>3. z \in Upto .. z
      BY <2>3, <2>4, <1>5 DEF Points
    <3> QED BY <3>2, <3>3 DEF Level
  <2> QED BY <2>3, <2>4
<1>7. ASSUME NEW z \in Points
      PROVE  Below(b, S, W, z)
  <2>1. z \in Nat
    BY <1>5 DEF Points
  <2>2. CASE z <= Upto
    BY <1>1, <1>6, <2>1, <2>2, AllBelow
  <2>3. CASE z > Upto
    <3>1. Below(b, S, W, Upto)
      BY <1>1, <1>6, AllBelow
    <3> QED BY <1>6, <2>3, <3>1 DEF Below
  <2> QED BY <1>6, <2>1, <2>2, <2>3
<1>8. /\ b.min \in Points /\ b.min \in Nat /\ b.max \in Nat /\ b.max + 1 \in Points
      /\ b.rate.sum \in Nat /\ b.rate.weight \in Nat \ {0}
  BY <1>4, OneBlock
<1>9. ASSUME NEW y \in x .. Top
       PROVE  AtMost(b.rate, Over(S, W, b.min, y))
  <2>1. y + 1 \in Points
    BY <1>5 DEF Points
  <2> QED BY <1>7, <2>1 DEF Below, AtMost, Over, Rate
<1>10. ASSUME NEW a \in 0 .. x
       PROVE  AtMost(Over(S, W, a, b.max), b.rate)
  <2> DEFINE rise == S[b.max + 1] - S[a]  run == W[b.max + 1] - W[a]
  <2>1. a \in Points
    BY <1>5 DEF Points
  <2>2. b.rate.sum * (W[a] - W[b.min]) <= (S[a] - S[b.min]) * b.rate.weight
    BY <1>7, <2>1 DEF Below
  <2>3. /\ S[a] \in Nat /\ W[a] \in Nat /\ S[b.min] \in Nat /\ W[b.min] \in Nat
        /\ S[b.max + 1] \in Nat /\ W[b.max + 1] \in Nat
    BY <1>8, <2>1
  <2>4. b.rate.sum = S[b.max + 1] - S[b.min] /\ b.rate.weight = W[b.max + 1] - W[b.min]
    BY <1>4 DEF Measured
  <2>5. W[a] - W[b.min] = b.rate.weight - run /\ S[a] - S[b.min] = b.rate.sum - rise
    BY <2>3, <2>4
  <2>6. rise \in Int /\ run \in Int
    BY <2>3
  <2> HIDE DEF rise, run
  <2>7. rise * b.rate.weight <= b.rate.sum * run
    BY <1>8, <2>2, <2>5, <2>6, RestRisesLess
  <2>8. Over(S, W, a, b.max).sum = rise /\ Over(S, W, a, b.max).weight = run
    BY DEF Over, Rate, rise, run
  <2> QED BY <2>7, <2>8 DEF AtMost
<1> QED BY <1>3, <1>4, <1>9, <1>10

-----------------------------------------------------------------------------
(* The knots of the blocks. *)

Knot == [x : Scores, y : [sum : Nat, weight : Nat \ {0}]]

Ends(m) == {blocks[m].min, blocks[m].max}

(* Knots have the ends and the rates of the first n blocks, in order.       *)
Knotted(n, knots) ==
  /\ knots \in Seq(Knot)
  /\ \A i \in DOMAIN knots : \E m \in 1 .. n : knots[i].x \in Ends(m) /\ knots[i].y = blocks[m].rate
  /\ \A m \in 1 .. n : \A x \in Ends(m) : \E i \in DOMAIN knots : knots[i].x = x
  /\ \A i, j \in DOMAIN knots : i < j => knots[i].x < knots[j].x

(* Every block is one or two of the knots, and none of the others is within *)
(* its range; knots ascend, and so do their rates.                          *)
Told(knots) ==
  /\ knots \in Seq(Knot)
  /\ \A i, j \in DOMAIN knots : i < j => knots[i].x < knots[j].x /\ AtMost(knots[i].y, knots[j].y)
  /\ \A m \in DOMAIN blocks :
       /\ \A x \in Ends(m) : \E i \in DOMAIN knots : knots[i].x = x
       /\ \A i \in DOMAIN knots :
            blocks[m].min <= knots[i].x /\ knots[i].x <= blocks[m].max => knots[i].y = blocks[m].rate

(* An earlier block ends before a later one begins.                         *)
LEMMA BlocksApart ==
  ASSUME FitInv, NEW m \in DOMAIN blocks, NEW n \in DOMAIN blocks, m < n
  PROVE  blocks[m].max < blocks[n].min
<1> DEFINE Off == {k \in 1 .. Len(blocks) : m < k /\ ~(blocks[m].max < blocks[k].min)}
<1>1. FitType /\ InOrder
  BY DEF FitInv
<1>2. m \in 1 .. Len(blocks) /\ n \in 1 .. Len(blocks) /\ Len(blocks) \in Nat
  BY <1>1, BlockParts
<1> SUFFICES ASSUME Off # {} PROVE FALSE
  BY <1>2
<1>3. Off \subseteq Nat
  OBVIOUS
<1>4. PICK k \in Off : \A j \in Off : <<j, k>> \notin OpToRel(<, Nat)
  BY <1>3, NatLessThanWellFounded, WFMin
<1>5. \A j \in Off : ~(j < k)
  BY <1>3, <1>4, Zenon DEF OpToRel
<1>6. /\ k \in DOMAIN blocks /\ k - 1 \in 1 .. Len(blocks) /\ k - 1 \in DOMAIN blocks /\ k - 1 < k /\ k > 1
      /\ k - 1 \in Nat /\ m <= k - 1
  BY <1>1, <1>2 DEF FitType
<1>7. blocks[k - 1].max < blocks[k].min
  BY <1>1, <1>6 DEF InOrder
<1>8. /\ blocks[m].max \in Nat /\ blocks[k].min \in Nat /\ blocks[k - 1].max \in Nat /\ blocks[k - 1].min \in Nat
      /\ blocks[k - 1].min <= blocks[k - 1].max
  BY <1>1, <1>6, BlockParts, OneBlock DEF InOrder
<1>9. CASE m = k - 1
  BY <1>7, <1>9
<1>10. CASE m < k - 1
  <2>1. blocks[m].max < blocks[k - 1].min
    BY <1>5, <1>6, <1>10
  <2> QED BY <1>7, <1>8, <2>1
<1> QED BY <1>2, <1>6, <1>9, <1>10

(* The recursive function that emits the knots is one.                      *)
LEMMA KnotsRecur ==
  ASSUME Len(blocks) \in Nat
  PROVE  KnotsUpTo = [n \in 0 .. Len(blocks) |->
                        IF n = 0 THEN <<>> ELSE PushBlock(KnotsUpTo[n - 1], blocks[n])]
<1> DEFINE Recurs(f, k) == f = [n \in 0 .. k |-> IF n = 0 THEN <<>> ELSE PushBlock(f[n - 1], blocks[n])]
           Missing == {k \in 0 .. Len(blocks) : ~\E f : Recurs(f, k)}
<1>1. Missing = {}
  <2> SUFFICES ASSUME Missing # {} PROVE FALSE
    OBVIOUS
  <2>1. Missing \subseteq Nat
    OBVIOUS
  <2>2. PICK k \in Missing : \A j \in Missing : <<j, k>> \notin OpToRel(<, Nat)
    BY <2>1, NatLessThanWellFounded, WFMin
  <2>3. \A j \in Missing : ~(j < k)
    BY <2>1, <2>2, Zenon DEF OpToRel
  <2>4. k \in 0 .. Len(blocks) /\ k \in Nat /\ ~\E f : Recurs(f, k)
    BY <2>1
  <2>5. k # 0
    <3>1. Recurs([n \in 0 .. 0 |-> <<>>], 0)
      OBVIOUS
    <3> HIDE DEF Recurs
    <3> QED BY <2>4, <3>1
  <2>6. k - 1 \in 0 .. Len(blocks) /\ k - 1 < k
    BY <2>4, <2>5
  <2>7. PICK f : Recurs(f, k - 1)
    BY <2>3, <2>6
  <2> DEFINE g == [n \in 0 .. k |-> IF n = k THEN PushBlock(f[k - 1], blocks[k]) ELSE f[n]]
  <2>8. ASSUME NEW n \in 0 .. k
        PROVE  g[n] = IF n = 0 THEN <<>> ELSE PushBlock(g[n - 1], blocks[n])
    <3>1. CASE n = k
      <4>1. k - 1 \in 0 .. k /\ k - 1 # k
        BY <2>4, <2>5
      <4> QED BY <2>5, <3>1, <4>1
    <3>2. CASE n = 0
      <4>1. 0 \in 0 .. k - 1
        BY <2>4, <2>5
      <4> QED BY <2>5, <2>7, <3>2, <4>1
    <3>3. CASE n # k /\ n # 0
      <4>1. n \in 0 .. k - 1 /\ n - 1 \in 0 .. k /\ n - 1 # k
        BY <2>4, <3>3
      <4>2. f[n] = PushBlock(f[n - 1], blocks[n])
        BY <2>7, <3>3, <4>1
      <4> QED BY <3>3, <4>1, <4>2
    <3> QED BY <3>1, <3>2, <3>3
  <2>9. Recurs(g, k)
    <3>1. g = [n \in 0 .. k |-> g[n]]
      OBVIOUS
    <3> HIDE DEF g
    <3> QED BY <2>8, <3>1
  <2> HIDE DEF g, Recurs
  <2> QED BY <2>4, <2>9
<1>2. PICK f : Recurs(f, Len(blocks))
  BY <1>1
<1>3. KnotsUpTo = CHOOSE g : Recurs(g, Len(blocks))
  BY DEF KnotsUpTo
<1>4. Recurs(CHOOSE g : Recurs(g, Len(blocks)), Len(blocks))
  <2> HIDE DEF Recurs
  <2> QED BY <1>2
<1> QED BY <1>3, <1>4

LEMMA KnotParts ==
  ASSUME NEW knots \in Seq(Knot), NEW i \in DOMAIN knots
  PROVE  /\ i \in 1 .. Len(knots) /\ Len(knots) \in Nat
         /\ knots[i] \in Knot /\ knots[i].x \in Scores /\ knots[i].x \in Nat
         /\ knots[i].y \in [sum : Nat, weight : Nat \ {0}]
<1>1. i \in 1 .. Len(knots) /\ Len(knots) \in Nat /\ knots[i] \in Knot
  OBVIOUS
<1> QED BY <1>1, BoundsAssumption DEF Knot, Scores

LEMMA KnotAppended ==
  ASSUME NEW knots \in Seq(Knot), NEW knot \in Knot
  PROVE  /\ Append(knots, knot) \in Seq(Knot) /\ Len(Append(knots, knot)) = Len(knots) + 1
         /\ DOMAIN Append(knots, knot) = 1 .. Len(knots) + 1 /\ DOMAIN knots = 1 .. Len(knots) /\ Len(knots) \in Nat
         /\ \A i \in DOMAIN knots : Append(knots, knot)[i] = knots[i]
         /\ Append(knots, knot)[Len(knots) + 1] = knot
OBVIOUS

(* A knot of a greater score comes last; none is merged.                    *)
LEMMA KnotPushed ==
  ASSUME NEW knots \in Seq(Knot), NEW x \in Scores, NEW y, \A i \in DOMAIN knots : knots[i].x < x
  PROVE  pushKnot(knots, x, y) = Append(knots, [x |-> x, y |-> y])
<1>1. ASSUME knots # <<>> PROVE Last(knots).x # x
  <2>1. Len(knots) \in DOMAIN knots
    BY <1>1
  <2>2. knots[Len(knots)].x < x /\ knots[Len(knots)].x \in Nat /\ x \in Nat
    BY <2>1, KnotParts, BoundsAssumption DEF Scores
  <2> QED BY <2>2 DEF Last
<1> QED BY <1>1 DEF pushKnot

LEMMA BlockIsKnotted ==
  ASSUME FitInv, NEW n \in DOMAIN blocks, NEW knots, Knotted(n - 1, knots)
  PROVE  Knotted(n, PushBlock(knots, blocks[n]))
<1> DEFINE b == blocks[n]  first == pushKnot(knots, b.min, b.rate)  L == Len(knots)
           second == pushKnot(first, b.max, b.rate)
<1>1. FitType /\ InOrder
  BY DEF FitInv
<1>2. /\ n \in 1 .. Len(blocks) /\ b.min \in Scores /\ b.max \in Scores /\ b.rate \in [sum : Nat, weight : Nat \ {0}]
      /\ b.min <= b.max /\ b.min \in Nat /\ b.max \in Nat /\ n \in Nat /\ Len(blocks) \in Nat
  BY <1>1, BlockParts, BoundsAssumption DEF InOrder, Scores
<1>3. /\ knots \in Seq(Knot)
      /\ \A i \in DOMAIN knots : \E m \in 1 .. n - 1 : knots[i].x \in Ends(m) /\ knots[i].y = blocks[m].rate
      /\ \A m \in 1 .. n - 1 : \A x \in Ends(m) : \E i \in DOMAIN knots : knots[i].x = x
      /\ \A i, j \in DOMAIN knots : i < j => knots[i].x < knots[j].x
  BY DEF Knotted
<1>4. ASSUME NEW i \in DOMAIN knots
      PROVE  knots[i].x < b.min
  <2>1. PICK m \in 1 .. n - 1 : knots[i].x \in Ends(m)
    BY <1>3
  <2>2. m \in DOMAIN blocks /\ m < n
    BY <1>1, <1>2 DEF FitType
  <2>3. blocks[m].max < b.min
    BY <2>2, BlocksApart
  <2>4. blocks[m].min <= blocks[m].max /\ blocks[m].min \in Nat /\ blocks[m].max \in Nat
    BY <1>1, <2>2, BlockParts, BoundsAssumption DEF InOrder, Scores
  <2> QED BY <1>2, <2>1, <2>3, <2>4 DEF Ends
<1>5. /\ first \in Seq(Knot) /\ DOMAIN first = 1 .. L + 1 /\ DOMAIN knots = 1 .. L /\ L \in Nat
      /\ \A i \in DOMAIN knots : first[i] = knots[i]
      /\ first[L + 1] = [x |-> b.min, y |-> b.rate]
  <2>1. \A i \in DOMAIN knots : knots[i].x < b.min
    BY <1>4
  <2>2. first = Append(knots, [x |-> b.min, y |-> b.rate])
    BY <1>2, <1>3, <2>1, KnotPushed
  <2>3. [x |-> b.min, y |-> b.rate] \in Knot
    BY <1>2 DEF Knot
  <2> QED BY <1>3, <2>2, <2>3, KnotAppended
<1> HIDE DEF first
<1>8. \A i, j \in DOMAIN first : i < j => first[i].x < first[j].x
  <2> SUFFICES ASSUME NEW i \in DOMAIN first, NEW j \in DOMAIN first, i < j
               PROVE  first[i].x < first[j].x
    OBVIOUS
  <2>1. i \in DOMAIN knots /\ first[i] = knots[i]
    BY <1>5
  <2>2. CASE j = L + 1
    BY <1>4, <1>5, <2>1, <2>2
  <2>3. CASE j # L + 1
    <3>1. j \in DOMAIN knots /\ first[j] = knots[j]
      BY <1>5, <2>3
    <3> QED BY <1>3, <2>1, <3>1
  <2> QED BY <2>2, <2>3
<1>6. CASE b.max = b.min
  <2>1. PushBlock(knots, b) = first
    BY <1>6 DEF PushBlock, first
  <2>2. ASSUME NEW i \in DOMAIN first
        PROVE  \E m \in 1 .. n : first[i].x \in Ends(m) /\ first[i].y = blocks[m].rate
    <3>1. CASE i \in 1 .. L
      <4>1. PICK m \in 1 .. n - 1 : knots[i].x \in Ends(m) /\ knots[i].y = blocks[m].rate
        BY <1>3, <1>5, <3>1
      <4>2. m \in 1 .. n
        BY <1>2
      <4> QED BY <1>5, <3>1, <4>1, <4>2
    <3>2. CASE i = L + 1
      <4>1. first[i].x \in Ends(n) /\ first[i].y = b.rate /\ n \in 1 .. n
        BY <1>2, <1>5, <3>2 DEF Ends
      <4> QED BY <4>1
    <3> QED BY <1>5, <3>1, <3>2
  <2>3. ASSUME NEW m \in 1 .. n, NEW x \in Ends(m)
        PROVE  \E i \in DOMAIN first : first[i].x = x
    <3>1. CASE m \in 1 .. n - 1
      <4>1. PICK i \in DOMAIN knots : knots[i].x = x
        BY <1>3, <3>1
      <4> QED BY <1>5, <4>1
    <3>2. CASE m = n
      <4>1. x = b.min
        BY <1>6, <3>2 DEF Ends
      <4>2. L + 1 \in DOMAIN first
        BY <1>5
      <4> QED BY <1>5, <4>1, <4>2
    <3> QED BY <1>2, <3>1, <3>2
  <2>4. \A i, j \in DOMAIN first : i < j => first[i].x < first[j].x
    BY <1>8
  <2> QED BY <1>5, <2>1, <2>2, <2>3, <2>4 DEF Knotted
<1>7. CASE b.max # b.min
  <2>1. PushBlock(knots, b) = second
    BY <1>7 DEF PushBlock, first
  <2>2. \A i \in DOMAIN first : first[i].x < b.max
    <3>1. \A i \in DOMAIN knots : knots[i].x \in Nat
      BY <1>3, KnotParts
    <3> QED BY <1>2, <1>4, <1>5, <1>7, <3>1
  <2>3. Len(first) = L + 1
    BY <1>5
  <2>4. /\ second \in Seq(Knot) /\ DOMAIN second = 1 .. L + 2
        /\ \A i \in DOMAIN first : second[i] = first[i]
        /\ second[L + 2] = [x |-> b.max, y |-> b.rate]
    <3>1. (L + 1) + 1 = L + 2
      BY <1>5
    <3>2. second = Append(first, [x |-> b.max, y |-> b.rate])
      BY <1>2, <1>5, <2>2, KnotPushed
    <3>3. [x |-> b.max, y |-> b.rate] \in Knot
      BY <1>2 DEF Knot
    <3> QED BY <1>5, <2>3, <3>1, <3>2, <3>3, KnotAppended
  <2> HIDE DEF second
  <2>5. /\ \A i \in DOMAIN knots : second[i] = knots[i]
        /\ second[L + 1] = [x |-> b.min, y |-> b.rate]
    BY <1>5, <2>4
  <2>6. ASSUME NEW i \in DOMAIN second
        PROVE  \E m \in 1 .. n : second[i].x \in Ends(m) /\ second[i].y = blocks[m].rate
    <3>1. CASE i \in 1 .. L
      <4>1. PICK m \in 1 .. n - 1 : knots[i].x \in Ends(m) /\ knots[i].y = blocks[m].rate
        BY <1>3, <1>5, <3>1
      <4>2. m \in 1 .. n
        BY <1>2
      <4> QED BY <1>5, <2>5, <3>1, <4>1, <4>2
    <3>2. CASE i \in {L + 1, L + 2}
      <4>1. second[i].x \in Ends(n) /\ second[i].y = b.rate /\ n \in 1 .. n
        BY <1>2, <2>4, <2>5, <3>2 DEF Ends
      <4> QED BY <4>1
    <3> QED BY <1>5, <2>4, <3>1, <3>2
  <2>7. ASSUME NEW m \in 1 .. n, NEW x \in Ends(m)
        PROVE  \E i \in DOMAIN second : second[i].x = x
    <3>1. CASE m \in 1 .. n - 1
      <4>1. PICK i \in DOMAIN knots : knots[i].x = x
        BY <1>3, <3>1
      <4>2. i \in DOMAIN second
        BY <1>5, <2>4
      <4> QED BY <2>5, <4>1, <4>2
    <3>2. CASE m = n
      <4>1. x \in {b.min, b.max}
        BY <3>2 DEF Ends
      <4>2. L + 1 \in DOMAIN second /\ L + 2 \in DOMAIN second
        BY <1>5, <2>4
      <4> QED BY <2>4, <2>5, <4>1, <4>2
    <3> QED BY <1>2, <3>1, <3>2
  <2>8. \A i, j \in DOMAIN second : i < j => second[i].x < second[j].x
    <3> SUFFICES ASSUME NEW i \in DOMAIN second, NEW j \in DOMAIN second, i < j
                 PROVE  second[i].x < second[j].x
      OBVIOUS
    <3>1. i \in DOMAIN first /\ second[i] = first[i]
      BY <1>5, <2>4
    <3>2. CASE j = L + 2
      BY <2>2, <2>4, <3>1, <3>2
    <3>3. CASE j # L + 2
      <4>1. j \in DOMAIN first /\ second[j] = first[j]
        BY <1>5, <2>4, <3>3
      <4> QED BY <1>8, <3>1, <4>1
    <3> QED BY <3>2, <3>3
  <2> QED BY <2>1, <2>4, <2>6, <2>7, <2>8 DEF Knotted
<1> QED BY <1>6, <1>7

LEMMA KnotsAreKnotted == FitInv => Knotted(Len(blocks), Knots)
<1> SUFFICES ASSUME FitInv PROVE Knotted(Len(blocks), Knots)
  OBVIOUS
<1> DEFINE Off == {n \in 0 .. Len(blocks) : ~Knotted(n, KnotsUpTo[n])}
<1>1. blocks \in Seq(Blocks) /\ Len(blocks) \in Nat /\ DOMAIN blocks = 1 .. Len(blocks)
  BY DEF FitInv, FitType
<1>2. \A n \in 0 .. Len(blocks) :
        KnotsUpTo[n] = IF n = 0 THEN <<>> ELSE PushBlock(KnotsUpTo[n - 1], blocks[n])
  BY <1>1, KnotsRecur
<1>3. Off = {}
  <2> SUFFICES ASSUME Off # {} PROVE FALSE
    OBVIOUS
  <2>1. Off \subseteq Nat
    OBVIOUS
  <2>2. PICK n \in Off : \A j \in Off : <<j, n>> \notin OpToRel(<, Nat)
    BY <2>1, NatLessThanWellFounded, WFMin
  <2>3. \A j \in Off : ~(j < n)
    BY <2>1, <2>2, Zenon DEF OpToRel
  <2>4. n \in 0 .. Len(blocks) /\ ~Knotted(n, KnotsUpTo[n])
    BY <2>1
  <2>5. CASE n = 0
    <3>1. 1 .. 0 = {} /\ KnotsUpTo[0] = <<>>
      BY <1>2, <2>4, <2>5
    <3>2. Knotted(0, <<>>)
      BY <3>1 DEF Knotted
    <3> QED BY <2>4, <2>5, <3>1, <3>2
  <2>6. CASE n # 0
    <3>1. n - 1 \in 0 .. Len(blocks) /\ n - 1 < n /\ n \in DOMAIN blocks
      BY <1>1, <2>4, <2>6
    <3>2. Knotted(n - 1, KnotsUpTo[n - 1])
      BY <2>3, <3>1
    <3> QED BY <1>2, <2>4, <2>6, <3>1, <3>2, BlockIsKnotted
  <2> QED BY <2>5, <2>6
<1> QED BY <1>1, <1>3 DEF Knots

LEMMA EqualRates ==
  ASSUME NEW rate \in [sum : Nat, weight : Nat \ {0}]
  PROVE  AtMost(rate, rate)
<1>1. rate.sum * rate.weight \in Int
  OBVIOUS
<1> QED BY <1>1 DEF AtMost

LEMMA KnotsAreTold ==
  ASSUME FitInv, ~Violated, blocks # <<>>
  PROVE  Told(Knots) /\ Knots # <<>>
<1> DEFINE L == Len(blocks)
<1>1. FitType /\ InOrder /\ L \in Nat /\ DOMAIN blocks = 1 .. L /\ L > 0
  BY DEF FitInv, FitType
<1>2. Knotted(L, Knots)
  BY KnotsAreKnotted
<1> DEFINE knots == Knots
<1> HIDE DEF knots
<1>3. /\ knots \in Seq(Knot)
      /\ \A i \in DOMAIN knots : \E m \in 1 .. L : knots[i].x \in Ends(m) /\ knots[i].y = blocks[m].rate
      /\ \A m \in 1 .. L : \A x \in Ends(m) : \E i \in DOMAIN knots : knots[i].x = x
      /\ \A i, j \in DOMAIN knots : i < j => knots[i].x < knots[j].x
  BY <1>2 DEF Knotted, knots
<1>4. ASSUME NEW m \in 1 .. L
      PROVE  /\ blocks[m].min <= blocks[m].max /\ blocks[m].min \in Nat /\ blocks[m].max \in Nat
             /\ blocks[m].rate \in [sum : Nat, weight : Nat \ {0}]
  BY <1>1, BlockParts, BoundsAssumption DEF InOrder, Scores
<1>5. ASSUME NEW i \in DOMAIN knots, NEW j \in DOMAIN knots, i < j
      PROVE  AtMost(knots[i].y, knots[j].y)
  <2>1. PICK m \in 1 .. L : knots[i].x \in Ends(m) /\ knots[i].y = blocks[m].rate
    BY <1>3
  <2>2. PICK n \in 1 .. L : knots[j].x \in Ends(n) /\ knots[j].y = blocks[n].rate
    BY <1>3
  <2>3. knots[i].x < knots[j].x
    BY <1>3, <1>5
  <2>4. CASE m = n
    BY <1>4, <2>1, <2>2, <2>4, EqualRates
  <2>5. CASE m < n
    BY <1>1, <2>1, <2>2, <2>5, AllRise
  <2>6. CASE n < m
    <3>1. blocks[n].max < blocks[m].min
      BY <1>1, <2>6, BlocksApart
    <3>2. knots[j].x <= blocks[n].max /\ blocks[m].min <= knots[i].x /\ knots[i].x \in Nat /\ knots[j].x \in Nat
      BY <1>4, <2>1, <2>2 DEF Ends
    <3> QED BY <1>4, <2>3, <3>1, <3>2
  <2> QED BY <2>4, <2>5, <2>6
<1>6. ASSUME NEW m \in 1 .. L, NEW i \in DOMAIN knots, blocks[m].min <= knots[i].x, knots[i].x <= blocks[m].max
      PROVE  knots[i].y = blocks[m].rate
  <2>1. PICK n \in 1 .. L : knots[i].x \in Ends(n) /\ knots[i].y = blocks[n].rate
    BY <1>3
  <2>2. blocks[n].min <= knots[i].x /\ knots[i].x <= blocks[n].max /\ knots[i].x \in Nat
    BY <1>4, <2>1 DEF Ends
  <2>3. ~(m < n)
    <3>1. m < n => blocks[m].max < blocks[n].min
      BY <1>1, BlocksApart
    <3> QED BY <1>4, <1>6, <2>2, <3>1
  <2>4. ~(n < m)
    <3>1. n < m => blocks[n].max < blocks[m].min
      BY <1>1, BlocksApart
    <3> QED BY <1>4, <1>6, <2>2, <3>1
  <2>5. m = n
    BY <2>3, <2>4
  <2> QED BY <2>1, <2>5
<1>7. Told(knots)
  BY <1>1, <1>3, <1>5, <1>6 DEF Told
<1>8. knots # <<>>
  <2>1. 1 \in 1 .. L /\ blocks[1].min \in Ends(1)
    BY <1>1 DEF Ends
  <2>2. PICK i \in DOMAIN knots : knots[i].x = blocks[1].min
    BY <1>3, <2>1
  <2> QED BY <2>2
<1> QED BY <1>7, <1>8 DEF knots

-----------------------------------------------------------------------------
LEMMA FirstHeld ==
  ASSUME FitType, NEW knots \in Seq(Knot), Told(knots), knots # <<>>, Head(knots).x > 0
  PROVE  LET held == <<[x |-> 0, y |-> Head(knots).y]>> \o knots
         IN  Told(held) /\ held # <<>> /\ Last(held) = Last(knots)
<1> DEFINE first == [x |-> 0, y |-> Head(knots).y]  held == <<first>> \o knots  L == Len(knots)
<1>1. L \in Nat /\ L > 0 /\ DOMAIN knots = 1 .. L /\ 1 \in DOMAIN knots /\ Head(knots) = knots[1]
  OBVIOUS
<1>2. first \in Knot
  <2>1. Head(knots).y \in [sum : Nat, weight : Nat \ {0}] /\ 0 \in Scores
    BY <1>1, KnotParts, BoundsAssumption DEF Scores
  <2> QED BY <2>1 DEF Knot
<1>3. /\ held \in Seq(Knot) /\ Len(held) = L + 1 /\ DOMAIN held = 1 .. L + 1 /\ held[1] = first
      /\ \A i \in 2 .. L + 1 : held[i] = knots[i - 1] /\ i - 1 \in 1 .. L
  <2> HIDE DEF first
  <2>1. <<first>> \in Seq(Knot) /\ Len(<<first>>) = 1
    BY <1>2
  <2> QED BY <1>1, <2>1
<1>4. Last(held) = Last(knots)
  <2>1. held[L + 1] = knots[L]
    BY <1>1, <1>3
  <2> QED BY <1>3, <2>1 DEF Last
<1> HIDE DEF held
<1>5. \A i, j \in DOMAIN knots : i < j => knots[i].x < knots[j].x /\ AtMost(knots[i].y, knots[j].y)
  BY DEF Told
<1>6. ASSUME NEW i \in DOMAIN held, NEW j \in DOMAIN held, i < j
      PROVE  held[i].x < held[j].x /\ AtMost(held[i].y, held[j].y)
  <2>1. j \in 2 .. L + 1 /\ held[j] = knots[j - 1] /\ j - 1 \in DOMAIN knots
    BY <1>1, <1>3, <1>6
  <2>2. CASE i = 1
    <3>1. held[i].x = 0 /\ held[i].y = knots[1].y
      BY <1>1, <1>3, <2>2
    <3>2. CASE j - 1 = 1
      BY <1>1, <2>1, <3>1, <3>2, KnotParts, EqualRates
    <3>3. CASE j - 1 # 1
      <4>1. 1 < j - 1
        BY <1>1, <2>1, <3>3
      <4>2. knots[1].x < knots[j - 1].x /\ AtMost(knots[1].y, knots[j - 1].y)
        BY <1>1, <1>5, <2>1, <4>1
      <4>3. knots[1].x > 0
        BY <1>1
      <4>4. knots[1].x \in Nat /\ knots[j - 1].x \in Nat
        BY <1>1, <2>1, KnotParts
      <4> QED BY <2>1, <3>1, <4>2, <4>3, <4>4
    <3> QED BY <3>2, <3>3
  <2>3. CASE i # 1
    <3>1. held[i] = knots[i - 1] /\ i - 1 \in DOMAIN knots /\ i - 1 < j - 1
      BY <1>1, <1>3, <1>6, <2>1, <2>3
    <3> QED BY <1>5, <2>1, <3>1
  <2> QED BY <2>2, <2>3
<1>7. ASSUME NEW m \in DOMAIN blocks, NEW x \in Ends(m)
      PROVE  \E i \in DOMAIN held : held[i].x = x
  <2>1. PICK i \in DOMAIN knots : knots[i].x = x
    BY DEF Told
  <2>2. i + 1 \in 2 .. L + 1 /\ (i + 1) - 1 = i /\ i + 1 \in DOMAIN held
    BY <1>1, <1>3
  <2>3. held[i + 1] = knots[i]
    BY <1>3, <2>2
  <2> QED BY <2>1, <2>2, <2>3
<1>8. ASSUME NEW m \in DOMAIN blocks, NEW i \in DOMAIN held, blocks[m].min <= held[i].x, held[i].x <= blocks[m].max
      PROVE  held[i].y = blocks[m].rate
  <2>1. CASE i = 1
    <3>1. blocks[m].min = 0
      <4>1. blocks[m].min \in Nat
        BY BlockParts, BoundsAssumption DEF Scores
      <4> QED BY <1>3, <1>8, <2>1, <4>1
    <3>2. PICK j \in DOMAIN knots : knots[j].x = 0
      BY <3>1 DEF Told, Ends
    <3> QED BY <1>1, <1>5, <3>2, KnotParts
  <2>2. CASE i # 1
    <3>1. held[i] = knots[i - 1] /\ i - 1 \in DOMAIN knots
      BY <1>1, <1>3, <2>2
    <3> QED BY <1>8, <3>1 DEF Told
  <2> QED BY <2>1, <2>2
<1>9. Told(held)
  BY <1>3, <1>6, <1>7, <1>8 DEF Told
<1> QED BY <1>3, <1>4, <1>9 DEF held

LEMMA LastHeld ==
  ASSUME FitType, NEW knots \in Seq(Knot), Told(knots), knots # <<>>, Last(knots).x < Top
  PROVE  Told(knots \o <<[x |-> Top, y |-> Last(knots).y]>>)
<1> DEFINE last == [x |-> Top, y |-> Last(knots).y]  held == knots \o <<last>>  L == Len(knots)
<1>1. L \in Nat /\ L > 0 /\ DOMAIN knots = 1 .. L /\ L \in DOMAIN knots
  OBVIOUS
<1>2. Last(knots) = knots[L]
  BY DEF Last
<1>3. last \in Knot
  <2>1. Last(knots).y \in [sum : Nat, weight : Nat \ {0}] /\ Top \in Scores
    BY <1>1, <1>2, KnotParts, BoundsAssumption DEF Scores
  <2> QED BY <2>1 DEF Knot
<1>4. /\ held \in Seq(Knot) /\ DOMAIN held = 1 .. L + 1 /\ held[L + 1] = last
      /\ \A i \in 1 .. L : held[i] = knots[i]
  <2> HIDE DEF last
  <2>1. held = Append(knots, last)
    BY <1>3
  <2> HIDE DEF held
  <2> QED BY <1>3, <2>1, KnotAppended
<1> HIDE DEF held
<1>5. \A i, j \in DOMAIN knots : i < j => knots[i].x < knots[j].x /\ AtMost(knots[i].y, knots[j].y)
  BY DEF Told
<1>6. \A i \in DOMAIN knots : knots[i].x <= knots[L].x /\ knots[i].x \in Nat
  <2> SUFFICES ASSUME NEW i \in DOMAIN knots PROVE knots[i].x <= knots[L].x /\ knots[i].x \in Nat
    OBVIOUS
  <2>1. i = L \/ i < L
    BY <1>1
  <2>2. knots[i].x \in Nat /\ knots[L].x \in Nat
    BY <1>1, KnotParts
  <2>3. i < L => knots[i].x < knots[L].x
    BY <1>1, <1>5
  <2> QED BY <2>1, <2>2, <2>3
<1>7. ASSUME NEW i \in DOMAIN held, NEW j \in DOMAIN held, i < j
      PROVE  held[i].x < held[j].x /\ AtMost(held[i].y, held[j].y)
  <2>1. i \in DOMAIN knots /\ held[i] = knots[i]
    BY <1>1, <1>4, <1>7
  <2>2. CASE j = L + 1
    <3>1. held[j].x = Top /\ held[j].y = knots[L].y /\ knots[L].x < Top /\ Top \in Nat
      BY <1>2, <1>4, <2>2, BoundsAssumption
    <3>2. held[i].x < held[j].x
      BY <1>1, <1>6, <2>1, <3>1
    <3>3. CASE i = L
      BY <1>1, <2>1, <3>1, <3>2, <3>3, KnotParts, EqualRates
    <3>4. CASE i # L
      <4>1. i < L
        BY <1>1, <2>1, <3>4
      <4> QED BY <1>1, <1>5, <2>1, <3>1, <3>2, <4>1
    <3> QED BY <3>3, <3>4
  <2>3. CASE j # L + 1
    <3>1. j \in DOMAIN knots /\ held[j] = knots[j]
      BY <1>1, <1>4, <2>3
    <3> QED BY <1>5, <1>7, <2>1, <3>1
  <2> QED BY <2>2, <2>3
<1>8. ASSUME NEW m \in DOMAIN blocks, NEW x \in Ends(m)
      PROVE  \E i \in DOMAIN held : held[i].x = x
  <2>1. PICK i \in DOMAIN knots : knots[i].x = x
    BY DEF Told
  <2>2. i \in DOMAIN held /\ held[i] = knots[i]
    BY <1>1, <1>4
  <2> QED BY <2>1, <2>2
<1>9. ASSUME NEW m \in DOMAIN blocks, NEW i \in DOMAIN held, blocks[m].min <= held[i].x, held[i].x <= blocks[m].max
      PROVE  held[i].y = blocks[m].rate
  <2>1. CASE i = L + 1
    <3>1. blocks[m].max = Top
      <4>1. blocks[m].max \in Nat /\ blocks[m].max <= Top /\ Top \in Nat
        BY BlockParts, BoundsAssumption DEF Scores
      <4> QED BY <1>4, <1>9, <2>1, <4>1
    <3>2. PICK j \in DOMAIN knots : knots[j].x = Top
      BY <3>1 DEF Told, Ends
    <3> QED BY <1>1, <1>2, <1>6, <3>2, BoundsAssumption
  <2>2. CASE i # L + 1
    <3>1. held[i] = knots[i] /\ i \in DOMAIN knots
      BY <1>1, <1>4, <2>2
    <3> QED BY <1>9, <3>1 DEF Told
  <2> QED BY <2>1, <2>2
<1>10. Told(held)
  BY <1>4, <1>7, <1>8, <1>9 DEF Told
<1> QED BY <1>10 DEF held

LEMMA EndsAreTold ==
  ASSUME FitType, NEW knots, Told(knots), knots # <<>>
  PROVE  Told(WithEnds(knots))
<1>1. knots \in Seq(Knot)
  BY DEF Told
<1> DEFINE front == (IF Head(knots).x > 0 THEN <<[x |-> 0, y |-> Head(knots).y]>> ELSE <<>>) \o knots
           back == IF Last(knots).x < Top THEN <<[x |-> Top, y |-> Last(knots).y]>> ELSE <<>>
<1>2. Told(front) /\ front # <<>> /\ Last(front) = Last(knots)
  <2>1. CASE Head(knots).x > 0
    BY <1>1, <2>1, FirstHeld
  <2>2. CASE ~(Head(knots).x > 0)
    <3>1. <<>> \o knots = knots
      BY <1>1
    <3> QED BY <2>2, <3>1
  <2> QED BY <2>1, <2>2
<1> HIDE DEF front
<1>3. front \in Seq(Knot)
  BY <1>2 DEF Told
<1>4. Told(front \o back)
  <2>1. CASE Last(knots).x < Top
    <3>1. Told(front \o <<[x |-> Top, y |-> Last(front).y]>>)
      BY <1>2, <1>3, <2>1, LastHeld
    <3>2. back = <<[x |-> Top, y |-> Last(front).y]>>
      BY <1>2, <2>1
    <3> QED BY <3>1, <3>2
  <2>2. CASE ~(Last(knots).x < Top)
    <3>1. front \o <<>> = front
      BY <1>3
    <3> QED BY <1>2, <2>2, <3>1
  <2> QED BY <2>1, <2>2
<1> QED BY <1>4 DEF WithEnds, front

(* Where rates rise already, none is raised.                                *)
LEMMA NothingRaised ==
  ASSUME NEW ends, Told(ends)
  PROVE  \A n \in DOMAIN ends : Raised(ends)[n] = ends[n].y
<1> DEFINE Raises(h) ==
      h = [n \in DOMAIN ends |-> IF n = 1 \/ AtMost(h[n - 1], ends[n].y) THEN ends[n].y ELSE h[n - 1]]
           ys == [n \in DOMAIN ends |-> ends[n].y]
<1>1. /\ ends \in Seq(Knot) /\ DOMAIN ends = 1 .. Len(ends) /\ Len(ends) \in Nat
      /\ \A i, j \in DOMAIN ends : i < j => AtMost(ends[i].y, ends[j].y)
  BY DEF Told
<1>2. ASSUME NEW n \in DOMAIN ends, n # 1
      PROVE  n - 1 \in DOMAIN ends /\ AtMost(ends[n - 1].y, ends[n].y)
  BY <1>1, <1>2
<1>3. Raises(ys)
  BY <1>2
<1>4. Raised(ends) = CHOOSE h : Raises(h)
  BY DEF Raised
<1>5. Raises(Raised(ends))
  <2>1. Raises(CHOOSE h : Raises(h))
    <3> HIDE DEF Raises
    <3> QED BY <1>3
  <2> HIDE DEF Raises
  <2> QED BY <1>4, <2>1
<1> DEFINE Off == {n \in DOMAIN ends : Raised(ends)[n] # ends[n].y}
<1>6. ASSUME Off # {} PROVE FALSE
  <2>1. Off \subseteq Nat
    BY <1>1
  <2>2. PICK n \in Off : \A j \in Off : <<j, n>> \notin OpToRel(<, Nat)
    BY <1>6, <2>1, NatLessThanWellFounded, WFMin
  <2>3. \A j \in Off : ~(j < n)
    BY <2>1, <2>2, Zenon DEF OpToRel
  <2>4. n \in DOMAIN ends /\ Raised(ends)[n] # ends[n].y
    OBVIOUS
  <2>5. Raised(ends)[n] =
          IF n = 1 \/ AtMost(Raised(ends)[n - 1], ends[n].y) THEN ends[n].y ELSE Raised(ends)[n - 1]
    BY <1>5, <2>4
  <2>6. n # 1 /\ n - 1 \in DOMAIN ends /\ n - 1 < n
    BY <1>1, <2>4, <2>5
  <2>7. Raised(ends)[n - 1] = ends[n - 1].y
    BY <2>3, <2>6
  <2> QED BY <1>2, <2>4, <2>5, <2>6, <2>7
<1> QED BY <1>6

LEMMA NormalizedIsTold ==
  ASSUME FitType, NEW knots, Told(knots), knots # <<>>
  PROVE  Told(normalizeKnots(knots))
<1> DEFINE ends == WithEnds(knots)  knotted == normalizeKnots(knots)
<1>1. Told(ends)
  BY EndsAreTold
<1>2. knotted = [n \in DOMAIN ends |-> [x |-> ends[n].x, y |-> Raised(ends)[n]]]
  BY DEF normalizeKnots
<1> HIDE DEF ends, knotted
<1>3. ends \in Seq(Knot)
  BY <1>1 DEF Told
<1>4. ASSUME NEW n \in DOMAIN ends
      PROVE  ends[n] = [x |-> ends[n].x, y |-> Raised(ends)[n]]
  <2>1. Raised(ends)[n] = ends[n].y
    BY <1>1, NothingRaised
  <2>2. ends[n] = [x |-> ends[n].x, y |-> ends[n].y]
    BY <1>3, KnotParts DEF Knot
  <2> QED BY <2>1, <2>2
<1>5. ends = [n \in DOMAIN ends |-> ends[n]]
  BY <1>3
<1>6. knotted = ends
  BY <1>2, <1>4, <1>5
<1> QED BY <1>1, <1>6 DEF knotted

(* A score within a block looks up the block's rate.                        *)
LEMMA BlockLooksUp ==
  ASSUME FitType, NEW knots, Told(knots), NEW m \in DOMAIN blocks,
         NEW x \in Nat, blocks[m].min <= x, x <= blocks[m].max
  PROVE  applyIsotonicLookup(x, knots) = blocks[m].rate
<1> DEFINE Left == {n \in DOMAIN knots : knots[n].x <= x}  L == Len(knots)
           LastLeft(n) == knots[n].x <= x /\ \A i \in DOMAIN knots : knots[i].x <= x => i <= n
           After == {L - n : n \in Left}
<1>1. knots \in Seq(Knot) /\ L \in Nat /\ DOMAIN knots = 1 .. L
  BY DEF Told
<1>2. PICK i \in DOMAIN knots : knots[i].x = blocks[m].min
  BY DEF Told, Ends
<1>3. i \in Left
  BY <1>2
<1>4. \E n \in DOMAIN knots : LastLeft(n)
  <2>1. After \subseteq Nat /\ After # {}
    BY <1>1, <1>3
  <2>2. PICK d \in After : \A e \in After : <<e, d>> \notin OpToRel(<, Nat)
    BY <2>1, NatLessThanWellFounded, WFMin
  <2>3. \A e \in After : ~(e < d)
    BY <2>1, <2>2, Zenon DEF OpToRel
  <2>4. PICK n \in Left : d = L - n
    OBVIOUS
  <2>5. ASSUME NEW j \in DOMAIN knots, knots[j].x <= x
        PROVE  j <= n
    <3>1. L - j \in After
      BY <2>5
    <3>2. ~(L - j < L - n)
      BY <2>3, <2>4, <3>1
    <3> QED BY <1>1, <3>2
  <2> QED BY <2>4, <2>5
<1> DEFINE n == LastAtMost(x, knots)
<1>5. n = CHOOSE k \in DOMAIN knots : LastLeft(k)
  BY DEF LastAtMost
<1>6. n \in DOMAIN knots /\ LastLeft(n)
  <2>1. /\ (CHOOSE k \in DOMAIN knots : LastLeft(k)) \in DOMAIN knots
        /\ LastLeft(CHOOSE k \in DOMAIN knots : LastLeft(k))
    <3> HIDE DEF LastLeft
    <3> QED BY <1>4
  <2> HIDE DEF LastLeft, n
  <2> QED BY <1>5, <2>1
<1> HIDE DEF n
<1>7. blocks[m].min <= knots[n].x
  <2>1. blocks[m].min \in Nat /\ knots[n].x \in Nat /\ knots[i].x \in Nat
    BY <1>1, <1>2, <1>6, BlockParts, KnotParts, BoundsAssumption DEF Scores
  <2>2. i <= n /\ i \in Nat /\ n \in Nat
    BY <1>1, <1>2, <1>3, <1>6
  <2>3. i < n => knots[i].x < knots[n].x
    BY <1>2, <1>6 DEF Told
  <2> QED BY <1>2, <2>1, <2>2, <2>3
<1>8. knots[n].x <= blocks[m].max
  <2>1. blocks[m].max \in Nat /\ knots[n].x \in Nat
    BY <1>1, <1>6, BlockParts, KnotParts, BoundsAssumption DEF Scores
  <2> QED BY <1>6, <2>1
<1>9. knots[n].y = blocks[m].rate
  BY <1>6, <1>7, <1>8 DEF Told
<1> QED BY <1>9 DEF applyIsotonicLookup, n

-----------------------------------------------------------------------------
(* The labels below a score are the curve's.                                *)
LEMMA LabelsCounted ==
  ASSUME FitType, NEW S \in [Points -> Nat], NEW W \in [Points -> Nat], Curve(S, W)
  PROVE  \A z \in Points : LabelsBelow[z] = Rate(S[z], W[z])
<1> DEFINE Recurs(f) ==
      f = [x \in 0 .. Top + 1 |->
             IF x = 0 THEN Rate(0, 0)
             ELSE Rate(f[x - 1].sum + labels[x - 1].sum, f[x - 1].weight + labels[x - 1].weight)]
           counted == [x \in 0 .. Top + 1 |-> Rate(S[x], W[x])]
<1>1. Points = 0 .. Top + 1 /\ Top \in Nat
  BY BoundsAssumption DEF Points
<1>2. S[0] = 0 /\ W[0] = 0
  BY DEF Curve, Counts
<1>3. ASSUME NEW x \in 1 .. Top + 1
      PROVE  /\ x - 1 \in 0 .. Top + 1
             /\ S[x] = S[x - 1] + labels[x - 1].sum /\ W[x] = W[x - 1] + labels[x - 1].weight
  <2>1. x - 1 \in Scores /\ (x - 1) + 1 = x
    BY <1>1 DEF Scores
  <2> QED BY <1>1, <2>1 DEF Curve, Counts, SumOf, WeightOf, Scores
<1>4. ASSUME NEW x \in 0 .. Top + 1, NEW f, x # 0 => f[x - 1] = Rate(S[x - 1], W[x - 1])
      PROVE  Rate(S[x], W[x]) =
               IF x = 0 THEN Rate(0, 0)
               ELSE Rate(f[x - 1].sum + labels[x - 1].sum, f[x - 1].weight + labels[x - 1].weight)
  <2>1. CASE x = 0
    BY <1>2, <2>1
  <2>2. CASE x # 0
    <3>1. f[x - 1].sum = S[x - 1] /\ f[x - 1].weight = W[x - 1]
      BY <1>4, <2>2 DEF Rate
    <3>2. x \in 1 .. Top + 1
      BY <1>1, <2>2
    <3>3. S[x] = S[x - 1] + labels[x - 1].sum /\ W[x] = W[x - 1] + labels[x - 1].weight
      BY <1>3, <3>2
    <3> QED BY <2>2, <3>1, <3>3
  <2> QED BY <2>1, <2>2
<1>5. Recurs(counted)
  <2>1. ASSUME NEW x \in 0 .. Top + 1, x # 0 PROVE counted[x - 1] = Rate(S[x - 1], W[x - 1])
    BY <1>1, <2>1
  <2> HIDE DEF counted
  <2>2. \A x \in 0 .. Top + 1 :
          Rate(S[x], W[x]) =
            IF x = 0 THEN Rate(0, 0)
            ELSE Rate(counted[x - 1].sum + labels[x - 1].sum, counted[x - 1].weight + labels[x - 1].weight)
    BY <1>4, <2>1
  <2>3. counted = [x \in 0 .. Top + 1 |-> Rate(S[x], W[x])]
    BY DEF counted
  <2> QED BY <2>2, <2>3
<1>6. Recurs(LabelsBelow)
  <2>1. LabelsBelow = CHOOSE f : Recurs(f)
    BY DEF LabelsBelow
  <2>2. Recurs(CHOOSE f : Recurs(f))
    <3> HIDE DEF Recurs
    <3> QED BY <1>5
  <2> HIDE DEF Recurs
  <2> QED BY <2>1, <2>2
<1> DEFINE Off == {z \in Points : LabelsBelow[z] # Rate(S[z], W[z])}
<1>7. ASSUME Off # {} PROVE FALSE
  <2>1. Off \subseteq Nat
    BY <1>1
  <2>2. PICK z \in Off : \A y \in Off : <<y, z>> \notin OpToRel(<, Nat)
    BY <1>7, <2>1, NatLessThanWellFounded, WFMin
  <2>3. \A y \in Off : ~(y < z)
    BY <2>1, <2>2, Zenon DEF OpToRel
  <2>4. z \in 0 .. Top + 1 /\ z \in Nat /\ LabelsBelow[z] # Rate(S[z], W[z])
    BY <1>1
  <2>5. z # 0 => LabelsBelow[z - 1] = Rate(S[z - 1], W[z - 1])
    <3> SUFFICES ASSUME z # 0 PROVE LabelsBelow[z - 1] = Rate(S[z - 1], W[z - 1])
      OBVIOUS
    <3>1. z - 1 \in Points /\ z - 1 < z
      BY <1>1, <2>4
    <3> QED BY <2>3, <3>1
  <2> DEFINE f == LabelsBelow
  <2>6. f[z] = IF z = 0 THEN Rate(0, 0)
               ELSE Rate(f[z - 1].sum + labels[z - 1].sum, f[z - 1].weight + labels[z - 1].weight)
    BY <1>6, <2>4
  <2>7. z # 0 => f[z - 1] = Rate(S[z - 1], W[z - 1])
    BY <2>5
  <2> HIDE DEF f
  <2>8. f[z] = Rate(S[z], W[z])
    BY <1>4, <2>4, <2>6, <2>7
  <2> QED BY <2>4, <2>8 DEF f
<1> QED BY <1>7

(* Whatever the labels, every labeled score looks up the rate that isotonic *)
(* regression gives it: pooling, merging backwards after every push, knots  *)
(* of one score, held ends, raised knots and the lookup neither lose labels *)
(* nor shift them (fitIsotonicPAV, applyIsotonicLookup).                    *)
THEOREM CalibrationFindsTheRegression == FitSpec => []CalibrationIsIsotonic
<1>1. FitInv => CalibrationIsIsotonic
  <2> SUFFICES ASSUME FitInv, Fitted, NEW x \in Scores, labels[x].weight > 0
               PROVE  RegressionIs(applyIsotonicLookup(x, normalizeKnots(Knots)), x)
    BY DEF CalibrationIsIsotonic
  <2>1. FitType /\ x \in LabeledScores /\ x \in Nat /\ Top \in Nat /\ x <= Top
    BY BoundsAssumption DEF FitInv, LabeledScores, Scores
  <2>2. SumOf \in [Scores -> Nat] /\ WeightOf \in [Scores -> Nat]
    BY <2>1 DEF FitType, SumOf, WeightOf, Rates
  <2>3. PICK S \in [Points -> Nat], W \in [Points -> Nat] : Curve(S, W)
    BY <2>2, CountsExist DEF Curve
  <2>4. PICK n \in DOMAIN blocks :
          /\ blocks[n].min <= x /\ x <= blocks[n].max
          /\ blocks[n].min \in LabeledScores
          /\ \A y \in x .. Top : AtMost(blocks[n].rate, Over(S, W, blocks[n].min, y))
          /\ \A a \in 0 .. x : AtMost(Over(S, W, a, blocks[n].max), blocks[n].rate)
    BY <2>1, <2>3, BlocksAreRegression
  <2>5. blocks # <<>> /\ ~Violated
    BY <2>1, <2>4 DEF Fitted, FitType
  <2>6. Told(normalizeKnots(Knots))
    BY <2>1, <2>5, KnotsAreTold, NormalizedIsTold
  <2>7. applyIsotonicLookup(x, normalizeKnots(Knots)) = blocks[n].rate
    BY <2>1, <2>4, <2>6, BlockLooksUp
  <2>8. ASSUME NEW a \in 0 .. x, NEW b \in x .. Top
        PROVE  RateOver(a, b) = Over(S, W, a, b)
    <3>1. a \in Points /\ b + 1 \in Points
      BY <2>1 DEF Points
    <3>2. LabelsBelow[a] = Rate(S[a], W[a]) /\ LabelsBelow[b + 1] = Rate(S[b + 1], W[b + 1])
      BY <2>1, <2>3, <3>1, LabelsCounted
    <3> QED BY <3>2 DEF RateOver, Over, Rate
  <2>9. /\ blocks[n].max \in x .. Top /\ blocks[n].min \in 0 .. x
        /\ labels[blocks[n].min].weight > 0
    BY <2>1, <2>4, BlockParts DEF Scores, LabeledScores
  <2> DEFINE rate == blocks[n].rate
  <2>10. \A a \in 0 .. x : AtMost(RateOver(a, blocks[n].max), rate)
    BY <2>4, <2>8, <2>9
  <2>11. \A b \in x .. Top : AtMost(rate, RateOver(blocks[n].min, b))
    BY <2>4, <2>8, <2>9
  <2> HIDE DEF rate
  <2>12. RegressionIs(rate, x)
    BY <2>9, <2>10, <2>11 DEF RegressionIs
  <2> QED BY <2>7, <2>12 DEF rate
<1> QED BY <1>1, FitInvHolds, PTL
=============================================================================

----------------------------- MODULE IsotonicFit -----------------------------
(***************************************************************************)
(* fitIsotonicPAV and applyIsotonicLookup (scripts/lib/isotonic-            *)
(* calibrator.ts): labeled scores are pooled into blocks until the rates of *)
(* success no longer fall, the blocks' ends become knots, and a score looks *)
(* its rate up there.                                                       *)
(*                                                                          *)
(* A score x is x / Top; a rate is a pair of a sum and a weight, which two   *)
(* doubles divided compare like.                                            *)
(***************************************************************************)
EXTENDS Naturals, Sequences, SequencesExt

CONSTANTS Top,       \* scores are 0 .. Top
          MaxWeight  \* labels per score

ASSUME BoundsAssumption == {Top, MaxWeight} \subseteq Nat

VARIABLES labels,  \* for every score how many labels it has and how many of them are successes
          pairs,   \* the weighted scores that are not yet in a block
          blocks   \* the blocks so far, in order

ivars == <<labels, pairs, blocks>>

Scores == 0 .. Top
Rate(sum, weight) == [sum |-> sum, weight |-> weight]
AtMost(a, b) == a.sum * b.weight <= b.sum * a.weight
Mean(a, b) == Rate(a.sum * b.weight + b.sum * a.weight, 2 * a.weight * b.weight)

-----------------------------------------------------------------------------
LabeledScores == {x \in Scores : labels[x].weight > 0}

Pair(x, sum, weight) == [min |-> x, max |-> x, rate |-> Rate(sum, weight)]

(* Mutant: the failures and the successes of one score stay apart. *)
SortedPairs ==
    LET Apart(x) == {Pair(x, 0, labels[x].weight - labels[x].sum), Pair(x, labels[x].sum, labels[x].sum)}
    IN  {p \in UNION {Apart(x) : x \in LabeledScores} : p.rate.weight > 0}

(* poolIdenticalScores: one pair for every score. *)
PooledPairs == {Pair(x, labels[x].sum, labels[x].weight) : x \in LabeledScores}

FitInit == labels = [x \in Scores |-> Rate(0, 0)] /\ pairs = {} /\ blocks = <<>>

(* fitIsotonicPAV is called with the samples of a fit. *)
Fit ==
    /\ FitInit
    /\ labels' \in [Scores -> {Rate(s, w) : s \in 0 .. MaxWeight, w \in 0 .. MaxWeight}]
    /\ \A x \in Scores : labels'[x].sum <= labels'[x].weight
    /\ pairs' = PooledPairs'
    /\ pairs' # {}
    /\ UNCHANGED blocks

Violated == Len(blocks) >= 2 /\ ~AtMost(blocks[Len(blocks) - 1].rate, blocks[Len(blocks)].rate)

Push ==
    /\ ~Violated
    /\ \E p \in pairs :
         /\ \A q \in pairs : p.min <= q.min
         /\ blocks' = Append(blocks, p)
         /\ pairs' = pairs \ {p}
    /\ UNCHANGED labels

Merge ==
    /\ Violated
    /\ LET previous == blocks[Len(blocks) - 1]
           current == blocks[Len(blocks)]
       IN  blocks' = Append(SubSeq(blocks, 1, Len(blocks) - 2),
                            [min |-> previous.min, max |-> current.max,
                             rate |-> Rate(previous.rate.sum + current.rate.sum,
                                           previous.rate.weight + current.rate.weight)])
    /\ UNCHANGED <<labels, pairs>>

(* All pairs are in blocks: the knots are emitted and the fit is over. *)
Fitted == pairs = {} /\ ~Violated
Emit == Fitted /\ blocks # <<>> /\ labels' = [x \in Scores |-> Rate(0, 0)] /\ blocks' = <<>> /\ UNCHANGED pairs

FitNext == Fit \/ Push \/ Merge \/ Emit

FitSpec == FitInit /\ [][FitNext]_ivars

-----------------------------------------------------------------------------
(* The knots. *)

(* pushKnot: knots of one score are merged by the simple mean. *)
pushKnot(knots, x, y) ==
    IF knots # <<>> /\ Last(knots).x = x
    THEN [knots EXCEPT ![Len(knots)].y = Mean(@, y)]
    ELSE Append(knots, [x |-> x, y |-> y])

PushBlock(knots, block) ==
    LET first == pushKnot(knots, block.min, block.rate)
    IN  IF block.max # block.min THEN pushKnot(first, block.max, block.rate) ELSE first

KnotsUpTo[n \in 0 .. Len(blocks)] ==
    IF n = 0 THEN <<>> ELSE PushBlock(KnotsUpTo[n - 1], blocks[n])

Knots == KnotsUpTo[Len(blocks)]

(* normalizeKnots: the ends are held, and no knot is below the one before. *)
WithEnds(knots) ==
    (IF Head(knots).x > 0 THEN <<[x |-> 0, y |-> Head(knots).y]>> ELSE <<>>) \o knots
    \o (IF Last(knots).x < Top THEN <<[x |-> Top, y |-> Last(knots).y]>> ELSE <<>>)

Raised(ends) ==
    LET y[n \in DOMAIN ends] == IF n = 1 \/ AtMost(y[n - 1], ends[n].y) THEN ends[n].y ELSE y[n - 1]
    IN  y

normalizeKnots(knots) ==
    LET ends == WithEnds(knots)
    IN  [n \in DOMAIN ends |-> [x |-> ends[n].x, y |-> Raised(ends)[n]]]

(* applyIsotonicLookup: the last knot at or below the score. *)
LastAtMost(score, knots) ==
    CHOOSE n \in DOMAIN knots :
        knots[n].x <= score /\ \A m \in DOMAIN knots : knots[m].x <= score => m <= n

applyIsotonicLookup(score, knots) == knots[LastAtMost(score, knots)].y

-----------------------------------------------------------------------------
(* What is labeled below a score, and from one score to another. *)
LabelsBelow[x \in 0 .. Top + 1] ==
    IF x = 0 THEN Rate(0, 0)
    ELSE Rate(LabelsBelow[x - 1].sum + labels[x - 1].sum, LabelsBelow[x - 1].weight + labels[x - 1].weight)

RateOver(a, b) ==
    Rate(LabelsBelow[b + 1].sum - LabelsBelow[a].sum, LabelsBelow[b + 1].weight - LabelsBelow[a].weight)

(* The isotonic regression of the labels at a score, by its closed form: of *)
(* the rates over all ranges that end at or after the score the least, and  *)
(* of those the greatest over all beginnings at or before it.  No beginning *)
(* has a least rate above the regression, and one has none below it.        *)
RegressionIs(rate, x) ==
    LET begins == {a \in 0 .. x : labels[a].weight > 0}
    IN  /\ \A a \in begins : \E b \in x .. Top : AtMost(RateOver(a, b), rate)
        /\ \E a \in begins : \A b \in x .. Top : AtMost(rate, RateOver(a, b))

(* Whatever the labels, a labeled score looks up exactly the rate that       *)
(* isotonic regression gives it: pooling, merging backwards, knots of one    *)
(* score, held ends and raised knots together neither lose nor shift labels. *)
CalibrationIsIsotonic ==
    Fitted => \A x \in Scores :
        labels[x].weight > 0 => RegressionIs(applyIsotonicLookup(x, normalizeKnots(Knots)), x)
=============================================================================

----------------------------- MODULE OptionScoring -----------------------------
(***************************************************************************)
(* Which of the eligible outcomes of an orchestration becomes the option:    *)
(* scoreEligibleEvaluations, compareScoredEvaluations and the way back from  *)
(* the winner to its stored evaluation. Scores are exact fractions           *)
(* <<numerator, denominator>> here; the rounding of the program's floats is  *)
(* left out.                                                                *)
(***************************************************************************)
EXTENDS Integers, Sequences, FiniteSetsExt

CONSTANTS
    Outcome,        \* what an evaluation may come to
    MaxOutcomes     \* outcomes of one orchestration (bound)

Unknown == -1       \* a signal that is missing
Signal == Nat \cup {Unknown}

ScoringAssumption ==
    /\ MaxOutcomes \in Nat
    /\ \A o \in Outcome :
          /\ o.eligible \in BOOLEAN
          /\ o.price \in Signal /\ o.eta \in Signal /\ o.availability \in Signal
          /\ o.priority \in Nat /\ o.provider \in Nat

VARIABLES
    outcomes,       \* the outcomes, in the order of the providers
    scored          \* the scored rows of the eligible ones

vars == <<outcomes, scored>>

SCORE_WEIGHTS == [price |-> 40, eta |-> 25, availability |-> 20, priority |-> 10]
Factor == DOMAIN SCORE_WEIGHTS

\* The n-th of a set of positions.
Nth(positions, n) ==
    CHOOSE i \in positions : Cardinality({j \in positions : j < i}) = n - 1

Eligible(s) == {i \in DOMAIN s : s[i].eligible}

\* buildScorableEligibleEvaluations: the eligible outcomes, each with its place
\* among all.
Scorable(s) ==
    [k \in 1 .. Cardinality(Eligible(s)) |->
        [outcomeIndex |-> Nth(Eligible(s), k), signals |-> s[Nth(Eligible(s), k)]]]
-----------------------------------------------------------------------------
(* Scores.                                                                 *)

\* Of 0..100, the least value best: a fraction of max - min.
relativeInverseScore(value, min, max) ==
    IF max = min THEN <<100, 1>> ELSE <<(max - value) * 100, max - min>>

\* What the rows have of a factor, where it is known.
Known(E, f) == {E[k].signals[f] : k \in {j \in DOMAIN E : E[j].signals[f] # Unknown}}

\* computePriceScores, computeEtaScores, computePriorityScores.
Relative(E, k, f) ==
    relativeInverseScore(E[k].signals[f], Min(Known(E, f)), Max(Known(E, f)))

\* Ten drivers are enough; available without a number is 80. A number of drivers is
\* written 0.., "available" alone 99.
computeAvailabilityScore(drivers) ==
    IF drivers = 99 THEN <<80, 1>>
    ELSE <<Min({drivers, 10}) * 10, 1>>

FactorScore(E, k, f) ==
    IF f = "availability" THEN computeAvailabilityScore(E[k].signals.availability)
    ELSE Relative(E, k, f)

Applicable(E, k) == {f \in Factor : E[k].signals[f] # Unknown}

Plus(a, b) == <<a[1] * b[2] + b[1] * a[2], a[2] * b[2]>>

Weight(E, k, f) == IF f \in Applicable(E, k) THEN SCORE_WEIGHTS[f] ELSE 0

\* weight * score of one factor; one that is not known adds nothing.
Part(E, k, f) ==
    IF f \in Applicable(E, k)
      THEN <<SCORE_WEIGHTS[f] * FactorScore(E, k, f)[1], FactorScore(E, k, f)[2]>>
      ELSE <<0, 1>>

\* rawWeightedScore, applicableWeightSum.
Weighted(E, k) ==
    Plus(Plus(Part(E, k, "price"), Part(E, k, "eta")),
         Plus(Part(E, k, "availability"), Part(E, k, "priority")))
WeightSum(E, k) ==
    Weight(E, k, "price") + Weight(E, k, "eta")
        + Weight(E, k, "availability") + Weight(E, k, "priority")

\* The weighted mean of the factors that are known.
Score(E, k) ==
    IF WeightSum(E, k) = 0 THEN <<0, 1>>
    ELSE <<Weighted(E, k)[1], Weighted(E, k)[2] * WeightSum(E, k)>>

\* scoreEligibleEvaluations.
Scored(s) ==
    LET E == Scorable(s) IN
    [k \in DOMAIN E |-> [outcomeIndex |-> E[k].outcomeIndex, signals |-> E[k].signals,
                        score |-> Score(E, k)]]

Less(a, b) == a[1] * b[2] < b[1] * a[2]
-----------------------------------------------------------------------------
(* The order.                                                              *)

\* An unknown price or time is infinite.
Before(a, b) == a # b /\ a # Unknown /\ (b = Unknown \/ a < b)

\* compareScoredEvaluations(a, b) < 0: the higher score, then price, time, priority
\* and the code of the provider, which is its number. The moment of arrival, which stands
\* in for unknown minutes, is null in the quotes of all adapters, and is left out.
Precedes(E, i, j) ==
    LET a == E[i].signals  b == E[j].signals IN
    \/ Less(E[j].score, E[i].score)
    \/ /\ ~Less(E[i].score, E[j].score)
       /\ \/ Before(a.price, b.price)
          \/ /\ a.price = b.price
             /\ \/ Before(a.eta, b.eta)
                \/ /\ a.eta = b.eta
                   /\ \/ a.priority < b.priority
                      \/ a.priority = b.priority /\ a.provider < b.provider

\* The first of the sorted: Array.prototype.sort is stable.
Winner(E) ==
    CHOOSE i \in DOMAIN E :
        \A j \in DOMAIN E \ {i} : ~Precedes(E, j, i) /\ (Precedes(E, i, j) \/ i < j)

\* Mutated form: the place among the eligible ones.
StoredEvaluation_Rank(E, k) == k

\* resolveOutcomeIndexForWinner, resolvePersistedEvaluationForWinner: the outcomes
\* are stored in their order, and the winner knows its place. The search by quote
\* behind it is never reached.
StoredEvaluation(E, k) == E[k].outcomeIndex
-----------------------------------------------------------------------------
Init == outcomes = <<>> /\ scored = Scored(outcomes)

\* One more evaluation has settled.
Settle ==
    /\ Len(outcomes) < MaxOutcomes
    /\ \E o \in Outcome : outcomes' = Append(outcomes, o)
    /\ scored' = Scored(outcomes')

Next == Settle

Spec == Init /\ [][Next]_vars

\* The rows are always those of the outcomes so far.
IInv == outcomes \in Seq(Outcome) /\ scored = Scored(outcomes)
-----------------------------------------------------------------------------
(* Properties.                                                             *)

\* No option wins that another one beats: dearer, slower or of lower priority than
\* one of which as much is known, and better than it in nothing.
AsMuchKnown(a, b) == \A f \in Factor : (a[f] = Unknown) = (b[f] = Unknown)
Drivers(o) == computeAvailabilityScore(o.availability)[1]
Beats(a, b) ==
    /\ AsMuchKnown(a, b)
    /\ a.price <= b.price /\ a.eta <= b.eta /\ a.priority <= b.priority
    /\ a.availability = Unknown \/ Drivers(a) >= Drivers(b)
    /\ a.price < b.price \/ a.eta < b.eta \/ a.priority < b.priority
WinnerIsNotBeaten ==
    scored # <<>> =>
      LET winner == Winner(scored) IN
      \A k \in DOMAIN scored : ~Beats(scored[k].signals, scored[winner].signals)

\* The comparison that Array.sort is given is a strict order, so that the result
\* does not depend on how the engine sorts.
ComparisonIsAnOrder ==
    LET before(i, j) == Precedes(scored, i, j) IN
    \A i, j, k \in DOMAIN scored :
      /\ ~(before(i, j) /\ before(j, i))
      /\ before(i, j) /\ before(j, k) => before(i, k)
      /\ ~before(i, j) /\ ~before(j, k) => ~before(i, k)

\* The option that is stored is the winner with its own price, although a provider
\* may have answered with several rates and others with none.
OptionIsTheWinners ==
    scored # <<>> =>
      LET winner == Winner(scored) IN
      outcomes[StoredEvaluation(scored, winner)] = scored[winner].signals

\* Scores stay within 0..100, and who is the best of all in all that is known of it
\* has 100, whatever is missing.
ScoreIsAMean ==
    \A k \in DOMAIN scored :
      LET score == scored[k].score IN
      /\ 0 <= score[1] /\ score[1] <= 100 * score[2]
      /\ (\A f \in Applicable(scored, k) :
             LET fs == FactorScore(scored, k, f) IN fs[1] = 100 * fs[2])
         => score[1] = 100 * score[2]
=============================================================================

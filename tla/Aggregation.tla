---------------------------- MODULE Aggregation ----------------------------
(***************************************************************************)
(* AggregationService.build: the charts of a run, from the rows of the     *)
(* join of its matches, documents and results.  A row is a document and a  *)
(* result; averages are exact fractions.                                   *)
(***************************************************************************)
EXTENDS Phrases, FiniteSets

CONSTANTS
    Docs, Subreddits, SubredditOf,
    Days, DayOf,      \* days are numbers
    TextOf,           \* the words of each document
    Labels,           \* SENTIMENT_DISPLAY_ORDER
    RollingWindow,    \* 3 days
    MaxSpikes         \* 5 spikes

ASSUME AggregationAssumption ==
    /\ IsFiniteSet(Docs)
    /\ SubredditOf \in [Docs -> Subreddits] /\ DayOf \in [Docs -> Days]
    /\ TextOf \in [Docs -> Seq(STRING)]
    /\ Days \subseteq Nat /\ RollingWindow \in Nat \ {0} /\ MaxSpikes \in Nat

NoCharts == [total |-> -1]

-----------------------------------------------------------------------------
(* Fractions.                                                              *)

Fraction(n, d) == [num |-> n, den |-> d]
Plus(a, b) == Fraction(a.num * b.den + b.num * a.den, a.den * b.den)
Minus(a, b) == Fraction(a.num * b.den - b.num * a.den, a.den * b.den)
Over(a, n) == Fraction(a.num, a.den * n)
Equal(a, b) == a.num * b.den = b.num * a.den
(* Mutant: only rises count.                                               *)
Signed(a) == a

(* abs.                                                                    *)
Magnitude(a) == Fraction(IF a.num < 0 THEN -a.num ELSE a.num, a.den)
AtLeast(a, b) == a.num * b.den >= b.num * a.den
Mean(fs) == Over(FoldFunction(Plus, Fraction(0, 1), fs), Len(fs))

-----------------------------------------------------------------------------
(* The rows, day by day.                                                   *)

Scores(rows) == SumFunction([r \in rows |-> r.score])
OfDay(rows, d) == {r \in rows : DayOf[r.doc] = d}
DaysOf(rows) == Ascending[{DayOf[r.doc] : r \in rows}]
DailyAverage(rows, d) == Fraction(Scores(OfDay(rows, d)), Cardinality(OfDay(rows, d)))

(* _build_rolling_timeline: the mean of the averages in the window.        *)
Rolling(rows) ==
    FoldLeft(LAMBDA acc, d :
               LET longer == Append(acc.window, DailyAverage(rows, d))
                   window == IF Len(longer) > RollingWindow THEN Tail(longer) ELSE longer
               IN  [window |-> window,
                    items |-> Append(acc.items, [date |-> d, average |-> Mean(window)])],
             [window |-> <<>>, items |-> <<>>], DaysOf(rows)).items

(* _build_spike_events: a day with more rows than the mean by one or more, *)
(* and at least two, or an average that has moved by 0.75 since the day    *)
(* before that has rows.                                                   *)
Spikes(rows) ==
    LET days == DaysOf(rows)
        Next(acc, d) ==
            LET average == DailyAverage(rows, d)
                count == Cardinality(OfDay(rows, d))
                change == IF acc.previous = <<>> THEN Fraction(0, 1)
                          ELSE Minus(average, acc.previous[1])
                busy == count >= 2
                        /\ AtLeast(Fraction(count - 1, 1), Fraction(Cardinality(rows), Len(days)))
            IN  [previous |-> <<average>>,
                 items |-> IF busy \/ AtLeast(Magnitude(change), Fraction(3, 4))
                           THEN Append(acc.items, d) ELSE acc.items]
    IN  First(FoldLeft(Next, [previous |-> <<>>, items |-> <<>>], days).items, MaxSpikes)

-----------------------------------------------------------------------------
(* The charts.                                                             *)

(* _build_phrase_breakdown: the commonest terms of the documents of each   *)
(* label, in the order of the labels.                                      *)
PhraseBreakdown(rows, context) ==
    LET Of(l) == {r \in rows : r.label = l}
        Terms(l) == FoldSet(LAMBDA r, acc : acc \o TermsOf(r.evidence, TextOf[r.doc], context),
                            <<>>, Of(l))
    IN  [l \in {k \in ToSet(Labels) : Terms(k) # <<>>} |-> MostCommon(Terms(l), MaxTerms)]

(* Counter and defaultdict: one entry per key that occurs.                 *)
CountBy(rows, key) ==
    FoldSet(LAMBDA r, acc :
              [k \in DOMAIN acc \cup {key[r]} |->
                 (IF k \in DOMAIN acc THEN acc[k] ELSE 0) + (IF k = key[r] THEN 1 ELSE 0)],
            <<>>, rows)

Build(rows, context) ==
    LET low == Quantify(rows, LAMBDA r : r.low) IN
    [total |-> Cardinality(rows), scores |-> Scores(rows),
     low |-> low, high |-> Cardinality(rows) - low,
     distribution |-> CountBy(rows, [r \in rows |-> r.label]),
     volume |-> CountBy(rows, [r \in rows |-> DayOf[r.doc]]),
     subreddits |-> CountBy(rows, [r \in rows |-> <<SubredditOf[r.doc], r.label>>]),
     heatmap |-> CountBy(rows, [r \in rows |-> <<DayOf[r.doc], SubredditOf[r.doc]>>]),
     rolling |-> Rolling(rows), spikes |-> Spikes(rows),
     phrases |-> PhraseBreakdown(rows, context)]

=============================================================================

----------------------------- MODULE Providers -----------------------------
(***************************************************************************)
(* What the sentiment providers make of a text: the heuristic of the mock  *)
(* provider, the labels of XLM-RoBERTa, the answers of OpenAI.  A verdict  *)
(* has a label, a score, whether its confidence is below 0.6 (as the       *)
(* charts count it) and its evidence phrases.                              *)
(***************************************************************************)
EXTENDS Phrases

CONSTANTS PositiveWords, NegativeWords
    \* the lexicon of the mock provider for each language; a language without
    \* one has that of English

LabelOf == [s \in -2..2 |->
    CASE s = -2 -> "very_negative" [] s = -1 -> "negative" [] s = 0 -> "neutral"
      [] s = 1 -> "positive" [] s = 2 -> "very_positive"]

Verdict(score, low, evidence) ==
    [label |-> LabelOf[score], score |-> score, low |-> low, evidence |-> evidence]

(* MockSentimentProvider.classify: the hits of each side, as the lexicon   *)
(* of the language of the run has them, weigh against each other, and the  *)
(* first three distinct ones are the evidence.                             *)
MockVerdict(text, language) ==
    LET good == PositiveWords[language]
        bad == NegativeWords[language] \ good
        hits == Select(text, LAMBDA w : w \in good \cup bad)
        net == Quantify(DOMAIN hits, LAMBDA i : hits[i] \in good)
               - Quantify(DOMAIN hits, LAMBDA i : hits[i] \in bad)
        score == IF net > 2 THEN 2 ELSE IF net < -2 THEN -2 ELSE net
        shown == First(Distinct(hits), 3)
    IN  Verdict(score, score \in -1..1, [i \in DOMAIN shown |-> <<shown[i]>>])

(* XLMRobertaSentimentProvider: the top label is a strong one when its     *)
(* probability is above 0.85; an unknown label is neutral.                 *)
XlmVerdict(top, probability) ==
    LET side == CASE top = "positive" -> 1 [] top = "negative" -> -1 [] OTHER -> 0
    IN  Verdict(IF probability = "strong" THEN 2 * side ELSE side, probability = "low", <<>>)

(* OpenAISentimentProvider: label and score as the model says, with a      *)
(* confidence that may be a number, a word or missing, and at most three   *)
(* phrases; an answer of another form raises.                              *)
OpenAIVerdict(label, score, confidence, phrases) ==
    [label |-> label, score |-> score,
     low |-> confidence \in {"very_low", "low", "medium", "moderate"},
     evidence |-> First(phrases, 3)]

=============================================================================

------------------------------ MODULE Phrases ------------------------------
(***************************************************************************)
(* The terms the charts show for a document: those of the evidence phrases *)
(* of its result, or else its own keywords (AggregationService,            *)
(* SentimentService).  A text and a phrase are sequences of words, in      *)
(* lower case and without punctuation, so that quotes that differ in these *)
(* alone are one; a phrase may begin or end within a word of the text.     *)
(***************************************************************************)
EXTENDS Selections

CONSTANTS
    LongWords,   \* words of four letters and more (TOKEN_PATTERN)
    TinyWords,   \* words of fewer than three letters
    Heads, Tails, Middles, \* pairs of a fragment and the word it is cut from
    StopWords,   \* the stop words of each language, global ones included
    MaxPhrases,  \* 3 evidence phrases per result
    MaxTokens,   \* 4 words per displayed phrase
    MaxBigrams, MaxKeywords, MaxTerms  \* 4, 8 and 5: lengths of the ranked lists

ASSUME PhrasesAssumption ==
    /\ Heads \cup Tails \cup Middles \subseteq STRING \X STRING
    /\ {MaxPhrases, MaxTokens, MaxBigrams, MaxKeywords, MaxTerms} \subseteq Nat

First(s, n) == SubSeq(s, 1, IF Len(s) < n THEN Len(s) ELSE n)

(* Counter.most_common(n): ties in the order of their first occurrence.    *)
MostCommon(s, n) ==
    LET Count(x) == Quantify(DOMAIN s, LAMBDA i : s[i] = x)
        Before(i, j) == Count(s[i]) > Count(s[j]) \/ (Count(s[i]) = Count(s[j]) /\ i < j)
        at == Sorted(Firsts(s), {p \in Firsts(s) \X Firsts(s) : Before(p[1], p[2])})
    IN  First([k \in DOMAIN at |-> s[at[k]]], n)

(* A word, or what the word begins with, ends with, or has inside.         *)
IsHead(x, word) == x = word \/ <<x, word>> \in Heads
IsTail(x, word) == x = word \/ <<x, word>> \in Tails
IsPart(x, word) == IsHead(x, word) \/ IsTail(x, word) \/ <<x, word>> \in Middles

(* The text contains the phrase, as a string, from its i-th word on.       *)
QuotedAt(text, p, i) ==
    LET n == Len(p) IN
    /\ i + n - 1 \in DOMAIN text
    /\ n = 1 => IsPart(p[1], text[i])
    /\ n > 1 => /\ IsTail(p[1], text[i]) /\ IsHead(p[n], text[i + n - 1])
                /\ \A k \in 2..(n - 1) : p[k] = text[i + k - 1]

(* _normalize_evidence_phrases: quotes of the text, each once.             *)
Evidence(phrases, text) ==
    LET IsQuote(p) == /\ p # <<>> /\ (Len(p) = 1 => p[1] \notin TinyWords)
                      /\ \E i \in DOMAIN text : QuotedAt(text, p, i)
    IN  First(Distinct(Select(phrases, IsQuote)), MaxPhrases)

(* _get_query_context, from the query's term as typed and the language of  *)
(* the run: stop words, and the long words of the query.                   *)
Context(query, language) ==
    [stop |-> StopWords[language],
     excluded |-> ToSet(Select(query, LAMBDA w : w \in LongWords \ StopWords[language]))]

(* The words that say something about a text.                              *)
Telling(s, context) == Select(s, LAMBDA w : w \notin context.stop \cup context.excluded)

(* _extract_evidence_terms.                                                *)
EvidenceTerms(phrases, context) ==
    LET short == [i \in DOMAIN phrases |-> First(Telling(phrases[i], context), MaxTokens)]
    IN  First(Distinct(Select(short, LAMBDA p : p # <<>>)), MaxTerms)

(* _extract_keywords: the commonest pairs of neighbours, then the words.   *)
Keywords(text, context) ==
    LET tokens == Telling(Select(text, LAMBDA w : w \in LongWords), context)
        pairs == [i \in 1..(Len(tokens) - 1) |-> <<tokens[i], tokens[i + 1]>>]
        bigrams == Select(pairs, LAMBDA p : p[1] # p[2])
        words == [i \in DOMAIN tokens |-> <<tokens[i]>>]
    IN  First(MostCommon(bigrams, MaxBigrams) \o MostCommon(words, MaxKeywords), MaxKeywords)

(* The terms build counts for a document.                                  *)
TermsOf(phrases, text, context) ==
    IF EvidenceTerms(phrases, context) = <<>> THEN Keywords(text, context)
    ELSE EvidenceTerms(phrases, context)

=============================================================================

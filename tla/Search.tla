------------------------------- MODULE Search -------------------------------
(***************************************************************************)
(* SearchService: which texts match a term.  A text is a sequence of       *)
(* symbols: letters in several forms (case, accents), punctuation and      *)
(* blanks.                                                                 *)
(***************************************************************************)
EXTENDS Selections

CONSTANTS
    Symbols, Blank,
    Letters,   \* the symbols \w matches, in their simplified form
    Simple     \* the simplified form of each symbol: lower case, no accent

ASSUME SearchAssumption ==
    /\ Blank \in Symbols \ Letters /\ Letters \subseteq Symbols
    /\ Simple \in [Symbols -> Symbols] /\ Simple[Blank] = Blank

Subsequences(t) == {SubSeq(t, i, j) : i \in 1..Len(t), j \in 1..Len(t)}

(* simplify_text: one blank between words, none at the ends.  A symbol has *)
(* one simple form; a ligature or a mark, which NFKD makes several or none *)
(* of, is a symbol the model does without.                                 *)
Simplify(t) ==
    LET Keep(i) ==
            \/ t[i] # Blank
            \/ i > 1 /\ t[i - 1] # Blank /\ \E j \in i..Len(t) : t[j] # Blank
        kept == Ascending[{i \in DOMAIN t : Keep(i)}]
    IN  [i \in DOMAIN kept |-> Simple[t[kept[i]]]]

(* The maximal pieces of a text that consist of the symbols of S: its      *)
(* words (re.findall) and its tokens (split at the blanks).                *)
Pieces(t, S) ==
    {SubSeq(t, q[1], q[2]) : q \in
        {p \in (1..Len(t)) \X (1..Len(t)) :
            /\ p[1] <= p[2] /\ \A k \in p[1]..p[2] : t[k] \in S
            /\ (p[1] = 1 \/ t[p[1] - 1] \notin S) /\ (p[2] = Len(t) \/ t[p[2] + 1] \notin S)}}

HasPhrase(t, term) == Simplify(term) \in Subsequences(Simplify(t)) \cup {<<>>}

(* Every word of a term of several words is in the text, in any order.     *)
HasTokens(t, term) ==
    LET tokens == Pieces(Simplify(term), Symbols \ {Blank})
    IN  Blank \in ToSet(Simplify(term)) /\ tokens \subseteq Pieces(Simplify(t), Letters)

(* match_text.                                                             *)
Matches(t, term) == Simplify(t) # <<>> /\ (HasPhrase(t, term) \/ HasTokens(t, term))

(* The text of a document of a post, from its title and its body.          *)
FullText(title, body) ==
    IF title = <<>> \/ body = <<>> THEN title \o body ELSE title \o <<Blank>> \o body

=============================================================================

---------------------------- MODULE MCSentiment ----------------------------
(* An instance of Sentiment for TLC. *)
EXTENDS Sentiment

(* One run with all documents or all but the last, one with two of them.   *)
Batches == [r \in Runs |-> IF r = "r1" THEN {Docs} ELSE {{5}}]

(* The API has one OpenAI model; or one of the other providers.            *)
OpenAI == Identity("openai", "m1")
Mock == Identity("mock", "v3")
TheIdentities == {[r \in Runs |-> OpenAI], [r \in Runs |-> Mock],
                  [r \in Runs |-> IF r = "r1" THEN Mock ELSE Identity("xlm_roberta", "v1")]}
Outputs == {<<"positive", "strong">>, <<"negative", "medium">>, <<"neutral", "low">>}

(* Three documents of the last day, two of another subreddit.              *)
OnDay == [d \in Docs |-> IF d = 1 THEN 1 ELSE IF d = 2 THEN 2 ELSE 4]
InSubreddit == [d \in Docs |-> IF d \in {2, 3} THEN "cook" ELSE "food"]
Texts == [d \in Docs |->
    IF d = 1 THEN <<"pizza", "great", "of", "great", "crust">>
    ELSE IF d = 2 THEN <<"pizza">> ELSE <<"great", "crust", "the", "pizza">>]
LabelOrder == <<"very_positive", "positive", "neutral", "negative", "very_negative">>
Queries == [r \in Runs |-> <<"pizza", "of">>]

(* The runs have different languages.                                      *)
Languages == [r \in Runs |-> IF r = "r1" THEN "en" ELSE "hu"]
Praise == [l \in {"en", "hu"} |-> IF l = "en" THEN {"great"} ELSE {"pizza", "crust"}]
Blame == [l \in {"en", "hu"} |-> IF l = "en" THEN {"crust"} ELSE {}]
Stops == [l \in {"en", "hu"} |-> IF l = "en" THEN {"the", "of"} ELSE {"of"}]

(* The second answer quotes parts of words: of two, of one, and of one     *)
(* that is not in every text.                                              *)
Beginnings == {<<"cru", "crust">>}
Endings == {<<"eat", "great">>}
Insides == {<<"izz", "pizza">>}
TwoAnswers == {
    OpenAIVerdict("positive", 1, "high", <<<<"great", "crust">>, <<"crust", "pizza">>>>),
    OpenAIVerdict("negative", -1, "low", <<<<"pizza">>, <<"eat", "cru">>, <<"izz">>>>)}
=============================================================================

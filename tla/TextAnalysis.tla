---------------------------- MODULE TextAnalysis ----------------------------
(***************************************************************************)
(* The text tier of KhShield (src/src/shield_core/text): the Arabizi       *)
(* normaliser and the semantic model.  A text is a sequence of characters. *)
(* Weights are counted in units of 1/127; the score is the sigmoid of the  *)
(* mean weight of a matched token, so it is at least one half when the sum *)
(* of the weights is not negative, and at least the threshold when the     *)
(* mean is at least the threshold's logit, which stands for it here.       *)
(***************************************************************************)
EXTENDS Integers, Sequences, FiniteSets

CONSTANTS
    Characters,
    ARABIZI_MULTI_MAP,   \* from one or two characters
    ARABIZI_SINGLE_MAP,  \* from a letter, in both cases
    Spaces, Puncts       \* the characters of isspace and ispunct

\* What the tables substitute are letters of the other script.
ASSUME TextAssumption ==
    /\ Spaces \cap Puncts = {}
    /\ ARABIZI_MULTI_MAP \in
          [DOMAIN ARABIZI_MULTI_MAP -> Characters \ DOMAIN ARABIZI_SINGLE_MAP]
    /\ ARABIZI_SINGLE_MAP \in
          [DOMAIN ARABIZI_SINGLE_MAP -> Characters \ DOMAIN ARABIZI_SINGLE_MAP]

\* What stands at i: a pair of characters first, then a digit, then a letter; the
\* rest is kept.
Substituted(text, i) ==
    LET pair == SubSeq(text, i, i + 1)
    IN  IF i < Len(text) /\ pair \in DOMAIN ARABIZI_MULTI_MAP
        THEN [char |-> ARABIZI_MULTI_MAP[pair], width |-> 2]
        ELSE [width |-> 1,
              char  |-> IF <<text[i]>> \in DOMAIN ARABIZI_MULTI_MAP
                        THEN ARABIZI_MULTI_MAP[<<text[i]>>]
                        ELSE IF text[i] \in DOMAIN ARABIZI_SINGLE_MAP
                        THEN ARABIZI_SINGLE_MAP[text[i]] ELSE text[i]]

\* The loop: after Len(text) turns it is behind the end.
Normalised(text) ==
    LET turn[n \in 0..Len(text)] ==
            IF n = 0 THEN [at |-> 1, result |-> <<>>]
            ELSE IF turn[n - 1].at > Len(text) THEN turn[n - 1]
            ELSE LET sub == Substituted(text, turn[n - 1].at)
                 IN  [at     |-> turn[n - 1].at + sub.width,
                      result |-> Append(turn[n - 1].result, sub.char)]
    IN  turn[Len(text)].result

\* A piece that ends before end, if it is not empty.
Cut(text, r, end) ==
    IF end > r.start THEN Append(r.tokens, SubSeq(text, r.start, end - 1)) ELSE r.tokens

\* The pieces between separators.
Split(text, separators) ==
    LET turn[i \in 0..Len(text)] ==
            IF i = 0 THEN [start |-> 1, tokens |-> <<>>]
            ELSE IF text[i] \in separators
            THEN [start |-> i + 1, tokens |-> Cut(text, turn[i - 1], i)]
            ELSE turn[i - 1]
    IN  Cut(text, turn[Len(text)], Len(text) + 1)
-----------------------------------------------------------------------------
(***************************************************************************)
(* SAMInferenceEngine.  A file is [magic, threshold, dim, vocab_size,      *)
(* entries]; an entry is a word and its weights, or has no word when its   *)
(* length field is out of bounds; there are fewer entries than vocab_size  *)
(* when the file is cut off.                                               *)
(***************************************************************************)
NoModel == [loaded |-> FALSE, threshold |-> 0, dim |-> 0,
            vocabulary |-> [w \in {} |-> <<>>]]

Readable(file, i) == i <= Len(file.entries) /\ file.entries[i].word # <<>>

\* As many weights are read for a word as the header has dimensions.
IsFile(file) ==
    /\ file.threshold \in Int /\ file.dim \in Nat /\ file.vocab_size \in Nat
    /\ file.entries \in Seq([word : Seq(Characters), weights : Seq(Int)])
    /\ \A i \in 1..file.vocab_size :
          Readable(file, i) => Len(file.entries[i].weights) = file.dim

WordsOf(file) == {file.entries[i].word : i \in 1..file.vocab_size}

FirstOf(file, word) ==
    CHOOSE i \in 1..file.vocab_size :
        /\ file.entries[i].word = word
        /\ \A k \in 1..(i - 1) : file.entries[k].word # word

\* emplace keeps the entry of a word that was there before.
Read(vocabulary, file) ==
    [w \in DOMAIN vocabulary \cup WordsOf(file) |->
        IF w \in DOMAIN vocabulary THEN vocabulary[w]
        ELSE file.entries[FirstOf(file, w)].weights]

LoadedInto(model, vocabulary, file) ==
    IF ~file.magic THEN [model EXCEPT !.loaded = FALSE, !.vocabulary = vocabulary]
    ELSE LET whole == \A i \in 1..file.vocab_size : Readable(file, i)
         IN  [loaded |-> whole, threshold |-> file.threshold, dim |-> file.dim,
              vocabulary |-> IF whole THEN Read(vocabulary, file)
                             ELSE NoModel.vocabulary]

LoadedOver(model, file) == LoadedInto(model, model.vocabulary, file)  \* fault

\* load_model: what was loaded before is gone whatever the file is.
Loaded(model, file) == LoadedInto(model, NoModel.vocabulary, file)

\* The sum of the first n.
Total(numbers, n) ==
    LET sum[i \in 0..n] == IF i = 0 THEN 0 ELSE sum[i - 1] + numbers[i]
    IN  sum[n]

\* evaluate: whether there is a score of half or more, and the category.
Evaluated(model, text) ==
    LET tokens  == Split(text, Spaces \cup Puncts)
        matched == {i \in DOMAIN tokens : tokens[i] \in DOMAIN model.vocabulary}
        weight  == [i \in DOMAIN tokens |->
                      IF i \in matched THEN Total(model.vocabulary[tokens[i]], model.dim) ELSE 0]
        sum     == Total(weight, Len(tokens))
    IN  IF matched = {} THEN [half |-> FALSE, category |-> "NONE"]
        ELSE [half |-> sum >= 0,
              category |-> IF sum >= model.threshold * Cardinality(matched)
                           THEN "PROFANITY_SEMANTIC" ELSE "NONE"]
=============================================================================

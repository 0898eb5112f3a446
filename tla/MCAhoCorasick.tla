--------------------------- MODULE MCAhoCorasick ----------------------------
(* Small instances of AhoCorasick for TLC. *)
EXTENDS AhoCorasick

CONSTANTS w1, w2

Symmetric == Permutations({w1, w2})

\* Keywords that end in, begin with and contain one another.
SomeWords == {<<"a">>, <<"b", "b">>, <<"a", "b", "b", "a">>}
ThreeWords == <<<<"b", "a">>, <<>>, <<"a", "b">>>>
Twice == <<<<"b">>, <<"b">>>>
SomeLists == {<<>>, ThreeWords, Twice}

\* What is found in a text is also found in every longer one.
AllTexts == [1..5 -> {"a", "b"}] \cup {<<>>}

\* Well-formed files of two categories, cut off and malformed ones.
WellFormed == {Written(<<ThreeWords, Twice>>), Written(<<Twice, <<>>>>)}
SomeFiles ==
    WellFormed
    \cup {SubSeq(Written(<<ThreeWords, Twice>>), 1, 6) \o <<[token |-> "cut", value |-> <<>>]>>,
          Tail(Written(<<ThreeWords, Twice>>)),
          <<>>,
          <<Mark("{"), String(<<"k">>), Mark(":"), Mark("["), Mark(","),
            String(<<"a">>), Mark(":"), String(<<"b">>)>>}
=============================================================================

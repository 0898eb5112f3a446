------------------------------ MODULE MCShield ------------------------------
(* Small instances of Shield for TLC. *)
EXTENDS Shield, TLC

\* The capitals are Arabic letters; x is one of the letters the normaliser keeps.
Multi  == <<"3">> :> "E" @@ <<"3", "'">> :> "G"
Single == "a" :> "A"

Letters == {"a", "x", "3", "'", ",", " ", "A", "E", "G"}

SomeKeywords == {<<"A", "x">>, <<"a">>, <<"G">>}
SomeLists == {<<>>, <<<<"E">>, <<"x", " ", "G">>>>}

\* Texts in both scripts, with a pair at the end and before a blank.
SomeTexts == {<<>>, <<"a", "x", "3">>, <<"x", " ", "3", "'">>, <<"x", ",", "3", "'">>,
              <<" ">>, <<"a", "3", "'", "a", " ", "x">>}

Entry(word, weights) == [word |-> word, weights |-> weights]
File(threshold, dim, vocab_size, entries) ==
    [kind |-> "file", magic |-> TRUE, threshold |-> threshold, dim |-> dim,
     vocab_size |-> vocab_size, entries |-> entries]

\* Thresholds above and below one half, other dimensions, a word twice, a file
\* cut off in the middle, one with a malformed length, one that is none.
SomeFiles == {
    File(1, 2, 3, <<Entry(<<"x">>, <<1, -1>>), Entry(<<"G">>, <<2, 1>>), Entry(<<"x">>, <<3, 3>>)>>),
    File(-1, 1, 2, <<Entry(<<"x">>, <<-1>>), Entry(<<"A", "G", "A">>, <<-2>>)>>),
    File(0, 3, 2, <<Entry(<<"x">>, <<1, 1, 1>>)>>),
    File(2, 1, 2, <<Entry(<<"G">>, <<4>>), Entry(<<>>, <<>>)>>),
    [File(0, 0, 0, <<>>) EXCEPT !.magic = FALSE]}

Frames == SUBSET ((0..2) \X (0..2))
Image(skin, channels) == [kind |-> "image", skin |-> skin, channels |-> channels]

\* Below, between and above the two exposures.
SomeImages == {Image((0..2) \X {0}, c) : c \in {1, 3}}
              \cup {Image((0..1) \X {0}, 3), Image((0..2) \X {0, 1}, 4)}

AllMasks == [kind : {"mask"}, skin : Frames, channels : {3}, min_pixel_area : {1, 3}]
            \cup [kind : {"mask"}, skin : {(0..2) \X {0}}, channels : {1}, min_pixel_area : {1}]

\* Rates whose lags are few and many, a recording shorter than a second, and the
\* limit of one invalid sample in a hundred.
SomeRecordings ==
    [kind : {"audio"}, size : {0, 99, 6000, 44200}, rate : {0, 300, 1706, 3000, 44100},
     invalid : {0}]
    \cup [kind : {"audio"}, size : {6000}, rate : {3000}, invalid : {60, 61, 6000}]
=============================================================================

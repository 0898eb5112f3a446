----------------------------- MODULE MCSession ------------------------------
(* Small instances of Session for TLC. *)
EXTENDS Session

Str(key, value) == [key |-> key, kind |-> "string", value |-> value]
Num(key, digits) == [key |-> key, kind |-> "number", value |-> digits]
Action(name) == Str("action", <<name>>)
File(name)   == Str("file_path", <<name>>)

Sizes == <<"six">> :> 6 @@ <<"eight">> :> 8 @@ <<"huge">> :> 20
Elsewhere == {<<"outside">>}

\* Escapes at the end of a value, a brace inside one, a value that equals a name and
\* one that ends like one, a name twice, numbers at the limits of their widths, files
\* of each kind, fields in any order.
SomeObjects == {
    <<Str("text", <<"a", Quote, Slash>>), Action("analyze_text")>>,
    <<Str("note", <<"}">>), Action("analyze_text"), Str("text", <<"a">>)>>,
    <<Str("note", <<"text">>), Action("analyze_text"), Str("text", <<>>)>>,
    <<Str("note", <<"a", Quote, "text">>), Action("analyze_text"), Str("text", <<"a">>)>>,
    <<Str("text", <<Slash>>), Str("text", <<"a">>), Action("analyze_text")>>,
    <<Action("analyze_text")>>,
    <<Action("other"), File("six")>>,
    <<Action("analyze_image"), File("gone")>>,
    <<File("outside"), Action("analyze_audio")>>,
    <<File("eight"), Num("width", <<"4">>), Num("height", <<"2">>), Action("analyze_image")>>,
    <<Action("analyze_image"), File("six"), Num("height", <<"1", "6">>), Num("width", <<"1", "6">>)>>,
    <<Action("compress_image"), File("eight"), Num("width", <<"2">>), Num("height", <<"2">>)>>,
    <<File("eight"), Action("analyze_audio"), Num("sample_rate", <<"6", "4">>)>>,
    <<File("eight"), Action("analyze_audio"), Num("sample_rate", <<"2", "5", "6">>)>>,
    <<Num("sample_rate", <<"8">>), Num("channels", <<"2">>), File("six"), Action("compress_audio")>>,
    <<Num("sample_rate", <<"8">>), Num("channels", <<"2">>), File("eight"), Action("compress_audio")>>}

\* Streams without a brace, below and at the limit; one that never was an object.
SomeStreams == {<<>>, [i \in 1..24 |-> "a"], [i \in 1..50 |-> "a"], <<Brace, Brace>>}
=============================================================================

------------------------------- MODULE Router -------------------------------
(***************************************************************************)
(* What the daemon makes of a request: the field reader JsonObject,        *)
(* read_file and route_request (src/server_daemon/main_daemon.cpp).  A     *)
(* request is a sequence of tokens: a quote, a backslash, the punctuation  *)
(* of JSON, a space, a digit, or a word without any of these.  A           *)
(* std::optional is the set of its values: empty, or one element.          *)
(***************************************************************************)
EXTENDS Integers, Sequences, SequencesExt, FiniteSetsExt

CONSTANTS
    MaxSize,           \* largest size_t
    Max32,             \* largest uint32_t
    Max16,             \* largest uint16_t
    kBlockSize,
    kMaxAudioChannels,
    kMaxFileBytes,
    FileSize,          \* sizes of the files inside TEMP_PROCESSING_DIR, by name
    Outside            \* names that resolve outside of it

ASSUME RouterAssumption ==
    /\ {MaxSize, Max32, Max16, kBlockSize, kMaxAudioChannels, kMaxFileBytes} \subseteq Nat
    /\ Max16 * Max16 <= MaxSize /\ Max32 <= MaxSize

Quote == "\""
Slash == "\\"
Digits == <<"0", "1", "2", "3", "4", "5", "6", "7", "8", "9">>
-----------------------------------------------------------------------------
(***************************************************************************)
(* JsonObject.                                                             *)
(***************************************************************************)
First(S) == IF S = {} THEN {} ELSE {Min(S)}

\* std::string_view::find from position p, 0 for npos.
Find(s, needle, p) ==
    LET at == {i \in p..(Len(s) - Len(needle) + 1) :
                  SubSeq(s, i, i + Len(needle) - 1) = needle}
    IN  IF at = {} THEN 0 ELSE Min(at)

\* skip_space, from the position after the colon.
AfterSpaces(s, p) == Min({i \in p..(Len(s) + 1) : i = Len(s) + 1 \/ s[i] # " "})

\* Where the value of a field starts: after the first colon that follows the
\* first occurrence of its quoted name, wherever in the object that is.
ValueAt(s, key) ==
    LET k == Find(s, <<Quote, key, Quote>>, 1)
        c == IF k = 0 THEN 0 ELSE Find(s, <<":">>, k + 3)
    IN  {i \in IF c = 0 THEN {} ELSE {AfterSpaces(s, c + 1)} : i <= Len(s)}

EscapedNaive(s, p) ==  \* fault: a backslash escapes whatever precedes it
    [i \in p..Len(s) |-> i > p /\ s[i - 1] = Slash]

\* Whether the token at i of a string that begins at p follows a backslash
\* that is not itself escaped.
Escaped(s, p) ==
    LET e[i \in p..Len(s)] == i > p /\ s[i - 1] = Slash /\ ~e[i - 1] IN e

Unescape == [c \in {Quote, Slash, "/", "b", "f", "n", "r", "t"} |->
                IF c \in {Quote, Slash, "/"} THEN c ELSE "\\" \o c]

\* The result, from the string's first token to the one before q.
Content(s, p, q, escaped) ==
    FlattenSeq([j \in 1..(q - p) |->
        IF escaped[p + j - 1] THEN <<Unescape[s[p + j - 1]]>>
        ELSE IF s[p + j - 1] = Slash THEN <<>> ELSE <<s[p + j - 1]>>])

\* The string ends at the first quote that is not escaped.
StringFrom(s, p, escaped) ==
    {Content(s, p, q, escaped) :
        q \in {q \in First({i \in p..Len(s) : s[i] = Quote /\ ~escaped[i]}) :
                  \A i \in p..(q - 1) : escaped[i] => s[i] \in DOMAIN Unescape}}

StringValue(s, key) ==
    UNION {StringFrom(s, i + 1, Escaped(s, i + 1)) :
              i \in {i \in ValueAt(s, key) : s[i] = Quote}}

DigitsFrom(s, i) ==
    SubSeq(s, i, Max({j \in i..Len(s) : \A k \in i..j : s[k] \in ToSet(Digits)}))

DigitValue(d) == CHOOSE n \in 0..9 : Digits[n + 1] = d

Decimal(ds) == FoldLeft(LAMBDA n, d : 10 * n + DigitValue(d), 0, ds)

\* The digits are added up until the sum no longer fits in a size_t.
SizeValue(s, key) ==
    {Decimal(DigitsFrom(s, i)) : i \in {i \in ValueAt(s, key) :
         StringValue(s, key) = {} /\ s[i] \in ToSet(Digits)}} \cap 0..MaxSize
-----------------------------------------------------------------------------
(***************************************************************************)
(* read_file.                                                              *)
(***************************************************************************)
\* The possible contents, as sizes: none when the name resolves outside, the
\* file is missing or too large; and a file may vanish or shrink between
\* file_size and read.
ReadFile(name) ==
    {{}} \cup IF name \in DOMAIN FileSize \ Outside
              THEN {{FileSize[name]} \cap 0..kMaxFileBytes} ELSE {}
-----------------------------------------------------------------------------
(***************************************************************************)
(* route_request: the answer, the engine's operation that was called and   *)
(* the numbers passed to it, with the size of the file they describe.      *)
(***************************************************************************)
Result(answer, call, passed, size) ==
    [answer |-> answer, call |-> call, passed |-> passed, size |-> size]

Refused == Result("error", "none", <<>>, 0)

Shield(call, passed, size) == {Result("shield", call, passed, size)}

\* An encoder may fail (compressed is not aligned or too small) and is reported.
Comp(call, passed, size) ==
    {Result(answer, call, passed, size) : answer \in {"comp", "error"}}

OrRefused(results) == IF results = {} THEN {Refused} ELSE results

As32(n) == n % (Max32 + 1)

\* The product, a size_t, is computed after the factors have been bounded.
FitsProductFirst(w, h, size) ==  \* fault
    w # 0 /\ h # 0 /\ size >= (w * h) % (MaxSize + 1)

Fits(w, h, size) ==
    w \in 1..Max16 /\ h \in 1..Max16 /\ size >= (w * h) % (MaxSize + 1)

AnalyzeImage(s, size) ==
    UNION {Shield("analyze_image", p, size) :
        p \in {d \in SizeValue(s, "width") \X SizeValue(s, "height") :
                  Fits(d[1], d[2], size)}}

CompressImage(s, size) ==
    LET given   == SizeValue(s, "quality_factor")
        quality == IF given = {} THEN {50} ELSE given
    IN  UNION {Comp("compress_image", p, size) :
            p \in {d \in SizeValue(s, "width") \X SizeValue(s, "height") \X quality :
                      /\ Fits(d[1], d[2], size)
                      /\ d[1] % kBlockSize = 0 /\ d[2] % kBlockSize = 0
                      /\ d[3] \in 1..100}}

AnalyzeAudio(s, size) ==
    UNION {Shield("analyze_audio", <<As32(rate), size \div 2>>, size) :
              rate \in {r \in SizeValue(s, "sample_rate") : r # 0 /\ size % 2 = 0}}

CompressAudio(s, size) ==
    UNION {Comp("compress_audio", <<As32(p[1]), p[2], size \div (2 * p[2])>>, size) :
        p \in {d \in SizeValue(s, "sample_rate") \X SizeValue(s, "channels") :
                  /\ d[1] # 0
                  /\ d[2] \in 1..kMaxAudioChannels
                  /\ size % (2 * d[2]) = 0
                  /\ size \div (2 * d[2]) <= Max32}}

OnFile(s, action, size) ==
    CASE action = <<"analyze_image">>  -> AnalyzeImage(s, size)
      [] action = <<"compress_image">> -> CompressImage(s, size)
      [] action = <<"analyze_audio">>  -> AnalyzeAudio(s, size)
      [] action = <<"compress_audio">> -> CompressAudio(s, size)
      [] OTHER -> {}

\* What is done with a file's contents, or with none.
OnContent(s, action, content) ==
    OrRefused(UNION {OnFile(s, a, size) : a \in action, size \in content})

\* The answers a request may get: a field that is missing or empty refuses it, the
\* action's first; the file is read before the action is known to be one.
Route(s) ==
    LET action == StringValue(s, "action") \ {<<>>}
        name   == StringValue(s, "file_path") \ {<<>>}
    IN  IF action = {<<"analyze_text">>}
        THEN OrRefused(UNION {Shield("analyze_text", <<>>, 0) : t \in StringValue(s, "text")})
        ELSE IF action = {} \/ name = {} THEN {Refused}
        ELSE UNION {OnContent(s, action, content) : content \in UNION {ReadFile(n) : n \in name}}
-----------------------------------------------------------------------------
(***************************************************************************)
(* The responses, as the braces they write.                                *)
(***************************************************************************)
ResponseTo(answer) ==
    CASE answer = "error"  -> <<"{", "}">>
      [] answer = "comp"   -> <<"{", "{", "}", "}">>
      [] answer = "shield" -> <<"{", "{", "{", "}", "{", "}", "{", "}", "}">>
=============================================================================

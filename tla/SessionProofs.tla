---------------------------- MODULE SessionProofs ---------------------------
(***************************************************************************)
(* Proofs about Session: for any limit, any size of the buffer, any        *)
(* messages and any cut of them into reads, what is accumulated is the     *)
(* whole object, and only what is beyond the limit is called too large;    *)
(* what the engines are called with was checked; the response is sent in   *)
(* order; the lookups find the fields that the client wrote.               *)
(***************************************************************************)
EXTENDS Session, SequenceTheorems, FiniteSetTheorems, WellFoundedInduction,
        NaturalsInduction, TLAPS

TypeOK ==
    /\ message \in Messages
    /\ {unsent, wire, request} \subseteq Seq(Tokens)
    /\ peer \in {"open", "half", "gone"}
    /\ pc \in {"read", "respond", "write", "closed", "cut", "killed"}
    /\ request_complete \in BOOLEAN

\* No token is lost, doubled or moved between the client and the request.
Split == message = request \o (wire \o unsent)

\* The loop goes on only below the limit, and without a brace.
InLoop == pc = "read" => ~request_complete /\ Len(request) < Limit

\* Why the loop was left.
Left == pc # "read" => \/ request_complete
                       \/ Len(request) >= Limit
                       \/ peer # "open" /\ wire = <<>>

\* The verdict and its reason.
Judged ==
    /\ verdict # "none" => pc \notin {"read", "respond"}
    /\ verdict = "routed" => request_complete \/ Len(request) < Limit
    /\ verdict = "large"  => ~request_complete /\ Len(request) >= Limit

IInv ==
    /\ TypeOK
    /\ Split
    /\ peer = "half" => unsent = <<>>
    /\ request_complete <=> Contains(request, Brace)
    /\ Len(request) < Limit + Chunk
    /\ InLoop
    /\ Left
    /\ Judged

\* A sequence cut in two and put together again.
LEMMA CutSeq ==
  ASSUME NEW S, NEW s \in Seq(S), NEW n \in 0..Len(s)
  PROVE  /\ SubSeq(s, 1, n) \in Seq(S)
         /\ SubSeq(s, n + 1, Len(s)) \in Seq(S)
         /\ Len(SubSeq(s, 1, n)) = n
         /\ s = SubSeq(s, 1, n) \o SubSeq(s, n + 1, Len(s))
  <1>0. Len(s) \in Nat
    BY LenProperties
  <1>1. \A i \in 1..Len(s) : s[i] \in S
    BY ElementOfSeq
  <1>2. SubSeq(s, 1, n) \in Seq(S) /\ Len(SubSeq(s, 1, n)) = n
    BY <1>0, <1>1, SubSeqProperties
  <1>3. SubSeq(s, n + 1, Len(s)) \in Seq(S)
    BY <1>0, <1>1, SubSeqProperties
  <1>4. s = SubSeq(s, 1, n) \o SubSeq(s, n + 1, Len(s))
    <2>1. 1 \in 1..Len(s) + 1 /\ n \in 1 - 1..Len(s) /\ Len(s) \in n..Len(s)
      BY <1>0
    <2>2. SubSeq(s, 1, n) \o SubSeq(s, n + 1, Len(s)) = SubSeq(s, 1, Len(s))
      BY <2>1, ConcatAdjacentSubSeq
    <2> QED BY <2>2, SubSeqFull
  <1> QED BY <1>2, <1>3, <1>4

\* A connection starts with nothing read.
LEMMA InitSound == Init => IInv
  <1> SUFFICES ASSUME Init PROVE IInv
    OBVIOUS
  <1>1. <<>> \in Seq(Tokens) /\ Len(<<>>) = 0
    BY EmptySeq
  <1>2. message \in Seq(Tokens)
    BY MessagesAssumption DEF Init
  <1>3. TypeOK
    BY <1>1, <1>2 DEF Init, TypeOK
  <1>4. Split
    BY <1>1, <1>2, ConcatEmptySeq DEF Init, Split
  <1>5. ~Contains(request, Brace)
    BY <1>1 DEF Init, Contains
  <1> QED
    BY <1>1, <1>3, <1>4, <1>5, SessionAssumption
       DEF Init, IInv, InLoop, Left, Judged

\* What the client sends goes to the end of the wire.
LEMMA ClientSendKeeps ==
  ASSUME IInv, NEW n \in 1..Len(unsent), ClientSend(n) PROVE IInv'
  <1> DEFINE part == SubSeq(unsent, 1, n)
             rest == SubSeq(unsent, n + 1, Len(unsent))
  <1>1. /\ unsent \in Seq(Tokens) /\ wire \in Seq(Tokens)
        /\ Len(unsent) \in Nat /\ n \in 0..Len(unsent)
    BY LenProperties DEF IInv, TypeOK
  <1>2. /\ part \in Seq(Tokens) /\ rest \in Seq(Tokens)
        /\ unsent = part \o rest
    BY <1>1, CutSeq
  <1>3. wire' = wire \o part /\ unsent' = rest
    BY DEF ClientSend
  <1> HIDE DEF part, rest
  <1>4. wire' \in Seq(Tokens) /\ wire' \o unsent' = wire \o unsent
    <2>1. wire \o part \in Seq(Tokens)
      BY <1>1, <1>2, ConcatProperties
    <2>2. (wire \o part) \o rest = wire \o (part \o rest)
      BY <1>1, <1>2, ConcatAssociative
    <2> QED BY <1>2, <1>3, <2>1, <2>2
  <1>5. TypeOK'
    BY <1>2, <1>3, <1>4 DEF IInv, TypeOK, ClientSend
  <1>6. Split'
    BY <1>4 DEF IInv, Split, ClientSend
  <1> QED
    BY <1>5, <1>6 DEF IInv, InLoop, Left, Judged, Contains, ClientSend, answerVars

\* The client's end changes nothing that was sent.
LEMMA ClientEndKeeps ==
  ASSUME IInv, ClientFinish \/ ClientVanish PROVE IInv'
  <1>1. CASE ClientFinish
    BY <1>1 DEF IInv, TypeOK, Split, InLoop, Left, Judged, Contains, ClientFinish,
                answerVars
  <1>2. CASE ClientVanish
    BY <1>2 DEF IInv, TypeOK, Split, InLoop, Left, Judged, Contains, ClientVanish,
                answerVars
  <1> QED BY <1>1, <1>2

\* A read appends the wire's next tokens, below the limit when it begins.
LEMMA ReadChunkKeeps ==
  ASSUME IInv, NEW n \in 1..Chunk, ReadChunk(n) PROVE IInv'
  <1> DEFINE part == SubSeq(wire, 1, n)
             rest == SubSeq(wire, n + 1, Len(wire))
  <1>0. pc = "read" /\ n <= Len(wire)
    BY DEF ReadChunk, Accept, Reading
  <1>1. /\ wire \in Seq(Tokens) /\ request \in Seq(Tokens) /\ unsent \in Seq(Tokens)
        /\ Len(wire) \in Nat /\ Len(request) \in Nat /\ n \in 0..Len(wire)
    BY <1>0, LenProperties, SessionAssumption DEF IInv, TypeOK
  <1>2. /\ part \in Seq(Tokens) /\ rest \in Seq(Tokens)
        /\ Len(part) = n /\ wire = part \o rest
    BY <1>1, CutSeq
  <1>3. request' = request \o part /\ wire' = rest /\ unsent' = unsent
    BY DEF ReadChunk, Accept, clientVars
  <1> HIDE DEF part, rest
  <1>4. request' \in Seq(Tokens) /\ Len(request') = Len(request) + n
    BY <1>1, <1>2, <1>3, ConcatProperties
  <1>5. request' \o (wire' \o unsent') = request \o (wire \o unsent)
    <2>1. rest \o unsent \in Seq(Tokens)
      BY <1>1, <1>2, ConcatProperties
    <2>0. {part, rest, unsent, request} \subseteq Seq(Tokens)
      BY <1>1, <1>2
    <2>2. (part \o rest) \o unsent = part \o (rest \o unsent)
      BY <2>0, ConcatAssociative, SMTT(30)
    <2>3. (request \o part) \o (rest \o unsent)
            = request \o (part \o (rest \o unsent))
      <3> DEFINE onward == rest \o unsent
      <3>1. onward \in Seq(Tokens)
        BY <2>1
      <3> HIDE DEF onward
      <3>2. request \in Seq(Tokens) /\ part \in Seq(Tokens)
        BY <1>1, <1>2
      <3>3. (request \o part) \o onward = request \o (part \o onward)
        BY <3>1, <3>2, ConcatAssociative, SMTT(30)
      <3> QED BY <3>3 DEF onward
    <2> QED BY <1>2, <1>3, <2>2, <2>3
  <1>6. TypeOK'
    BY <1>2, <1>3, <1>4 DEF IInv, TypeOK, ReadChunk, Accept, clientVars, Got, Contains
  <1>7. Split'
    BY <1>5 DEF IInv, Split, ReadChunk, Accept, clientVars
  <1>8. request_complete' <=> Contains(request', Brace)
    BY DEF ReadChunk, Accept, Got
  <1>9. Len(request') < Limit + Chunk
    BY <1>0, <1>1, <1>4, SessionAssumption DEF IInv, InLoop
  <1>10. InLoop' /\ Left'
    <2>1. Len(request') \in Nat /\ Limit \in Nat
      BY <1>1, <1>4, SessionAssumption
    <2>2. request' = Got(n)
      BY DEF ReadChunk, Accept, Got
    <2>3. pc' = IF request_complete' \/ Len(request') >= Limit THEN "respond" ELSE "read"
      BY <2>2 DEF ReadChunk, Accept
    <2>4. request_complete' \in BOOLEAN
      BY <1>6 DEF TypeOK
    <2> QED BY <2>1, <2>3, <2>4 DEF InLoop, Left
  <1>11. Judged'
    BY <1>0 DEF IInv, Judged, ReadChunk, Accept, answerVars
  <1> QED
    BY <1>6, <1>7, <1>8, <1>9, <1>10, <1>11 DEF IInv, ReadChunk, Accept, clientVars

\* The end of the stream leaves the request as it is.
LEMMA ReadEndKeeps == ASSUME IInv, ReadEnd PROVE IInv'
  BY DEF IInv, TypeOK, Split, InLoop, Left, Judged, Contains, ReadEnd, ReadEndIf,
         Reading, clientVars, answerVars

\* The verdict goes by the length and the completeness of the request.
LEMMA RespondKeeps == ASSUME IInv, Respond PROVE IInv'
  <1>1. PICK v, r : v \in {"empty", "large", "routed"} /\ RespondWith(v, r)
    BY DEF Respond, Routed
  <1>2. /\ verdict' = "routed" => request_complete \/ Len(request) < Limit
        /\ verdict' = "large" => ~request_complete /\ Len(request) >= Limit
    <2>1. Len(request) \in Nat /\ Limit \in Nat
      BY LenProperties, SessionAssumption DEF IInv, TypeOK
    <2>2. CASE request = <<>> /\ RespondWith("empty", Refused)
      BY <2>2 DEF RespondWith
    <2>3. CASE request # <<>> /\ ~request_complete /\ Len(request) >= Limit
               /\ RespondWith("large", Refused)
      BY <2>3 DEF RespondWith
    <2>4. CASE request # <<>> /\ ~(~request_complete /\ Len(request) >= Limit) /\ Routed
      BY <2>1, <2>4 DEF Routed, RespondWith, IInv, TypeOK
    <2> QED BY <2>2, <2>3, <2>4 DEF Respond
  <1>3. Judged'
    BY <1>1, <1>2 DEF RespondWith, Judged
  <1> QED
    BY <1>1, <1>3 DEF IInv, TypeOK, Split, InLoop, Left, Contains, RespondWith,
                      clientVars

\* What is written leaves the request and its verdict as they are.
LEMMA WriteKeeps == ASSUME IInv, NEW n, Write(n) PROVE IInv'
  BY DEF IInv, TypeOK, Split, InLoop, Left, Judged, Contains, Write, WriteFrom,
         clientVars, answerVars

LEMMA WriteFailKeeps == ASSUME IInv, WriteFail PROVE IInv'
  BY DEF IInv, TypeOK, Split, InLoop, Left, Judged, Contains, WriteFail, clientVars,
         answerVars

\* The invariant of handle_client's loop and of what follows it.
THEOREM Inductive == Spec => []IInv
  <1>1. IInv /\ [Next]_vars => IInv'
    <2> SUFFICES ASSUME IInv, [Next]_vars PROVE IInv'
      OBVIOUS
    <2>1. CASE \E n \in 1..Len(unsent) : ClientSend(n)
      BY <2>1, ClientSendKeeps
    <2>2. CASE ClientFinish \/ ClientVanish
      BY <2>2, ClientEndKeeps
    <2>3. CASE \E n \in 1..Chunk : ReadChunk(n)
      BY <2>3, ReadChunkKeeps
    <2>4. CASE ReadEnd
      BY <2>4, ReadEndKeeps
    <2>5. CASE Respond
      BY <2>5, RespondKeeps
    <2>6. CASE \E n \in 1..Len(Response) : Write(n)
      BY <2>6, WriteKeeps
    <2>7. CASE WriteFail
      BY <2>7, WriteFailKeeps
    <2>8. CASE UNCHANGED vars
      BY <2>8 DEF IInv, TypeOK, Split, InLoop, Left, Judged, Contains, vars, answerVars
    <2> QED
      BY <2>1, <2>2, <2>3, <2>4, <2>5, <2>6, <2>7, <2>8 DEF Next, Server, Client
  <1> QED BY <1>1, InitSound, PTL DEF Spec

\* An object whose only brace ends it is routed whole (handle_client, lines 374-393),
\* for every limit, buffer, message and cut of the stream.
THEOREM WholeObjectHolds == Spec => []WholeObject
  <1>1. IInv => WholeObject
    <2> SUFFICES ASSUME IInv, verdict = "routed", peer = "gone" => unsent = <<>>,
                        \A i \in DOMAIN message : message[i] = Brace <=> i = Len(message)
                 PROVE  request = message
      BY DEF WholeObject
    <2>1. /\ request \in Seq(Tokens) /\ wire \o unsent \in Seq(Tokens)
          /\ wire \in Seq(Tokens) /\ unsent \in Seq(Tokens)
          /\ message = request \o (wire \o unsent)
      BY ConcatProperties DEF IInv, TypeOK, Split
    <2>2. /\ Len(request) \in Nat /\ Len(wire \o unsent) \in Nat
          /\ message \in Seq(Tokens) /\ DOMAIN message = 1..Len(message)
          /\ Len(message) = Len(request) + Len(wire \o unsent)
          /\ \A i \in 1..Len(request) : message[i] = request[i]
      BY <2>1, ConcatProperties, LenProperties
    <2>3. CASE request_complete
      <3>1. PICK i \in 1..Len(request) : request[i] = Brace
        BY <2>3 DEF IInv, Contains
      <3>2. Len(wire \o unsent) = 0
        BY <2>2, <3>1
      <3> QED BY <2>1, <3>2, EmptySeq, ConcatEmptySeq
    <2>4. CASE ~request_complete
      <3>1. wire = <<>> /\ peer # "open"
        BY <2>2, <2>4, SessionAssumption DEF IInv, TypeOK, Judged, Left
      <3>2. unsent = <<>>
        BY <3>1 DEF IInv, TypeOK
      <3> QED BY <2>1, <3>1, <3>2, ConcatEmptySeq
    <2> QED BY <2>3, <2>4 DEF IInv, TypeOK
  <1> QED BY <1>1, Inductive, PTL

\* Only an object beyond the limit is called too large (lines 374-391), for every
\* limit and buffer.
THEOREM TooLargeIsTooLargeHolds == Spec => []TooLargeIsTooLarge
  <1>1. IInv => TooLargeIsTooLarge
    <2> SUFFICES ASSUME IInv, verdict = "large", Last(message) = Brace
                 PROVE  Len(message) > Limit
      BY DEF TooLargeIsTooLarge
    <2>1. /\ request \in Seq(Tokens) /\ wire \o unsent \in Seq(Tokens)
          /\ message = request \o (wire \o unsent)
      BY ConcatProperties DEF IInv, TypeOK, Split
    <2>2. /\ Len(request) \in Nat /\ Len(wire \o unsent) \in Nat
          /\ Len(message) = Len(request) + Len(wire \o unsent)
          /\ \A i \in 1..Len(request) : message[i] = request[i]
      BY <2>1, ConcatProperties, LenProperties
    <2>3. Len(request) >= Limit /\ ~Contains(request, Brace)
      BY DEF IInv, Judged
    <2>4. Len(message) # Len(request)
      BY <2>2, <2>3, SessionAssumption DEF Contains, Last
    <2> QED BY <2>2, <2>3, <2>4, SessionAssumption
  <1> QED BY <1>1, Inductive, PTL
-----------------------------------------------------------------------------
(***************************************************************************)
(* What route_request passes on, for any widths of the integers.           *)
(***************************************************************************)
Checked(r, s) ==
    LET n == r.passed
    IN  CASE r.call \in {"analyze_image", "compress_image"} ->
               n[1] * n[2] \in 1..r.size
          [] r.call \in {"analyze_audio", "compress_audio"} ->
               /\ \E rate \in SizeValue(s, "sample_rate") :
                     rate > 0 /\ (rate <= Max32 => n[1] = rate)
               /\ r.call = "compress_audio" => n[2] * n[3] * 2 = r.size
          [] OTHER -> TRUE

\* A result is an error, that of a text, or one on a file that was read.
LEMMA RouteCases ==
  ASSUME NEW s, NEW r \in Route(s)
  PROVE  \/ r = Refused
         \/ r.call = "analyze_text"
         \/ \E a : \E size \in Nat : r \in OnFile(s, a, size)
  <1> DEFINE action   == StringValue(s, "action") \ {<<>>}
             name     == StringValue(s, "file_path") \ {<<>>}
             contents == UNION {ReadFile(n) : n \in name}
             ofText   == UNION {Shield("analyze_text", <<>>, 0) : t \in StringValue(s, "text")}
             ofFile   == UNION {OnContent(s, action, content) : content \in contents}
             isText   == action = {<<"analyze_text">>}
             isBad    == action = {} \/ name = {}
  <1>1. Route(s) = IF isText THEN OrRefused(ofText) ELSE IF isBad THEN {Refused} ELSE ofFile
    BY DEF Route
  <1>2. r \in OrRefused(ofText) \/ r = Refused \/ r \in ofFile
    <2> HIDE DEF isText, isBad, ofText, ofFile
    <2> QED BY <1>1
  <1>3. CASE r \in OrRefused(ofText)
    <2>1. \A x \in ofText : x.call = "analyze_text"
      BY DEF Shield, Result
    <2> HIDE DEF ofText
    <2> QED BY <1>3, <2>1 DEF OrRefused
  <1>4. CASE r \in ofFile
    <2>1. \A content \in contents : content \subseteq Nat
      BY DEF ReadFile
    <2>2. PICK content \in contents : r \in OnContent(s, action, content)
      <3> HIDE DEF contents, action
      <3> QED BY <1>4
    <2> HIDE DEF contents, action
    <2>3. content \subseteq Nat
      BY <2>1, <2>2
    <2>4. \/ r = Refused
          \/ r \in UNION {OnFile(s, a, size) : a \in action, size \in content}
      BY <2>2 DEF OnContent, OrRefused
    <2>5. CASE r \in UNION {OnFile(s, a, size) : a \in action, size \in content}
      <3>1. PICK a \in action, size \in content : r \in OnFile(s, a, size)
        BY <2>5
      <3> QED BY <2>3, <3>1
    <2> QED BY <2>4, <2>5
  <1> QED BY <1>2, <1>3, <1>4

\* Within the bounds on its factors the product of an image's sides is exact.
LEMMA FitsExact ==
  ASSUME NEW w, NEW h, NEW size \in Nat, Fits(w, h, size)
  PROVE  w * h \in 1..size
  <1>1. w \in 1..Max16 /\ h \in 1..Max16 /\ Max16 \in Nat /\ MaxSize \in Nat
    BY RouterAssumption DEF Fits
  <1>2. w * h \in Nat \ {0} /\ w * h <= Max16 * Max16
    <2>1. w * h <= w * Max16
      BY <1>1
    <2>2. w * Max16 <= Max16 * Max16
      BY <1>1
    <2>3. w * h >= 1
      BY <1>1
    <2> QED BY <1>1, <2>1, <2>2, <2>3
  <1>3. w * h < MaxSize + 1
    <2>1. Max16 * Max16 <= MaxSize /\ Max16 * Max16 \in Nat
      BY <1>1, RouterAssumption
    <2> QED BY <1>1, <1>2, <2>1
  <1>4. (w * h) % (MaxSize + 1) = w * h
    <2> DEFINE p == w * h
    <2>1. p \in Nat /\ p < MaxSize + 1
      BY <1>2, <1>3
    <2> HIDE DEF p
    <2>2. p % (MaxSize + 1) = p
      BY <1>1, <2>1
    <2> QED BY <2>2 DEF p
  <1> QED BY <1>2, <1>4 DEF Fits

\* The rate that arrives is the object's own, unless that has more than 32 bits.
LEMMA RateKept ==
  ASSUME NEW s, NEW rate \in SizeValue(s, "sample_rate"), rate # 0
  PROVE  rate > 0 /\ (rate <= Max32 => As32(rate) = rate)
  <1>1. rate \in Nat /\ Max32 \in Nat
    BY RouterAssumption DEF SizeValue
  <1> QED BY <1>1 DEF As32

\* Whole frames of 16-bit samples.
LEMMA FramesExact ==
  ASSUME NEW channels \in Nat \ {0}, NEW size \in Nat, size % (2 * channels) = 0
  PROVE  channels * (size \div (2 * channels)) * 2 = size
  <1> DEFINE k == 2 * channels
  <1>1. k \in Nat /\ k > 0 /\ size % k = 0
    OBVIOUS
  <1>2. \E q \in Nat : size = k * q /\ q = size \div k
    <2> HIDE DEF k
    <2> QED BY <1>1
  <1>3. PICK q \in Nat : size = k * q /\ q = size \div k
    BY <1>2
  <1>4. channels * q * 2 = k * q
    OBVIOUS
  <1> QED BY <1>3, <1>4

\* What each handler passes on has been checked as it arrives.
LEMMA HandlersChecked ==
  ASSUME NEW s, NEW a, NEW size \in Nat, NEW r \in OnFile(s, a, size)
  PROVE  Checked(r, s)
  <1>1. CASE r \in AnalyzeImage(s, size)
    <2>1. PICK p \in SizeValue(s, "width") \X SizeValue(s, "height") :
              Fits(p[1], p[2], size) /\ r \in Shield("analyze_image", p, size)
      BY <1>1 DEF AnalyzeImage
    <2>2. p[1] * p[2] \in 1..size
      BY <2>1, FitsExact
    <2>3. r.call = "analyze_image" /\ r.passed = p /\ r.size = size
      BY <2>1 DEF Shield, Result
    <2> QED BY <2>2, <2>3 DEF Checked
  <1>2. CASE r \in CompressImage(s, size)
    <2>1. PICK p : Fits(p[1], p[2], size) /\ r \in Comp("compress_image", p, size)
      BY <1>2 DEF CompressImage
    <2>2. p[1] * p[2] \in 1..size
      BY <2>1, FitsExact
    <2>3. r.call = "compress_image" /\ r.passed = p /\ r.size = size
      BY <2>1 DEF Comp, Result
    <2> QED BY <2>2, <2>3 DEF Checked
  <1>3. CASE r \in AnalyzeAudio(s, size)
    <2>1. PICK rate \in SizeValue(s, "sample_rate") :
              rate # 0 /\ r \in Shield("analyze_audio", <<As32(rate), size \div 2>>, size)
      BY <1>3 DEF AnalyzeAudio
    <2>2. r.call = "analyze_audio" /\ r.passed[1] = As32(rate)
      BY <2>1 DEF Shield, Result
    <2> QED BY <2>1, <2>2, RateKept DEF Checked
  <1>4. CASE r \in CompressAudio(s, size)
    <2>1. PICK p \in SizeValue(s, "sample_rate") \X SizeValue(s, "channels") :
              /\ p[1] # 0 /\ p[2] \in 1..kMaxAudioChannels /\ size % (2 * p[2]) = 0
              /\ r \in Comp("compress_audio",
                           <<As32(p[1]), p[2], size \div (2 * p[2])>>, size)
      BY <1>4 DEF CompressAudio
    <2>2. /\ r.call = "compress_audio" /\ r.size = size
          /\ r.passed = <<As32(p[1]), p[2], size \div (2 * p[2])>>
      BY <2>1 DEF Comp, Result
    <2>3. p[2] \in Nat \ {0}
      BY <2>1, RouterAssumption
    <2>4. p[2] * (size \div (2 * p[2])) * 2 = size
      BY <2>1, <2>3, FramesExact
    <2>5. p[1] > 0 /\ (p[1] <= Max32 => As32(p[1]) = p[1])
      BY <2>1, RateKept
    <2> QED BY <2>1, <2>2, <2>4, <2>5 DEF Checked
  <1> QED BY <1>1, <1>2, <1>3, <1>4 DEF OnFile

\* The result is what route_request made of the request as it still is.
FromRequest == result = Refused \/ (pc # "read" /\ pc # "respond" /\ result \in Route(request))

\* An image's pixels are all in its file although their number is a product that may
\* wrap, PCM frames fill theirs, and a rate that fits in 32 bits arrives as it was given
\* and not 0 (lines 279-363), for every width of size_t, uint32_t and uint16_t, every
\* request, file and interleaving; nothing is said of a larger rate.
THEOREM PassedAsCheckedHolds == Spec => []PassedAsChecked
  <1>1. Init => FromRequest
    BY DEF Init, FromRequest
  <1>2. FromRequest /\ [Next]_vars => FromRequest'
    <2> SUFFICES ASSUME FromRequest, [Next]_vars PROVE FromRequest'
      OBVIOUS
    <2>1. CASE Client \/ ClientVanish
      BY <2>1 DEF FromRequest, Client, ClientSend, ClientFinish, ClientVanish, answerVars
    <2>2. CASE (\E n \in 1..Chunk : ReadChunk(n)) \/ ReadEnd
      BY <2>2 DEF FromRequest, ReadChunk, Accept, ReadEnd, ReadEndIf, Reading, answerVars
    <2>3. CASE Respond
      BY <2>3 DEF FromRequest, Respond, Routed, RespondWith
    <2>4. CASE \E n \in 1..Len(Response) : Write(n)
      BY <2>4 DEF FromRequest, Write, WriteFrom, answerVars
    <2>5. CASE WriteFail
      BY <2>5 DEF FromRequest, WriteFail, answerVars
    <2>6. CASE UNCHANGED vars
      BY <2>6 DEF FromRequest, vars, answerVars
    <2> QED BY <2>1, <2>2, <2>3, <2>4, <2>5, <2>6 DEF Next, Server
  <1>3. FromRequest => PassedAsChecked
    <2> SUFFICES ASSUME FromRequest PROVE Checked(result, request)
      BY DEF Checked, PassedAsChecked
    <2>1. CASE result = Refused \/ result.call = "analyze_text"
      BY <2>1 DEF Checked, Refused, Result
    <2>2. CASE \E a : \E size \in Nat : result \in OnFile(request, a, size)
      BY <2>2, HandlersChecked
    <2> QED BY <2>1, <2>2, RouteCases DEF FromRequest
  <1> QED BY <1>1, <1>2, <1>3, PTL DEF Spec
-----------------------------------------------------------------------------
(***************************************************************************)
(* What safe_write sends.                                                  *)
(***************************************************************************)
\* Every outcome of route_request is answered with one of three responses.
LEMMA AnswerKnown ==
  ASSUME NEW s, NEW r \in Route(s)
  PROVE  r.answer \in {"error", "comp", "shield"}
  <1> DEFINE action   == StringValue(s, "action") \ {<<>>}
             name     == StringValue(s, "file_path") \ {<<>>}
             contents == UNION {ReadFile(n) : n \in name}
             ofText   == UNION {Shield("analyze_text", <<>>, 0) : t \in StringValue(s, "text")}
             ofFile   == UNION {OnContent(s, action, content) : content \in contents}
             known    == {"error", "comp", "shield"}
             isText   == action = {<<"analyze_text">>}
             isBad    == action = {} \/ name = {}
  <1>1. Route(s) = IF isText THEN OrRefused(ofText) ELSE IF isBad THEN {Refused} ELSE ofFile
    BY DEF Route
  <1>2. Refused.answer \in known
    BY DEF Refused, Result
  <1>3. \A x \in ofText : x.answer \in known
    BY DEF Shield, Result
  <1>4. \A a, size : \A x \in OnFile(s, a, size) : x.answer \in known
    BY DEF OnFile, AnalyzeImage, CompressImage, AnalyzeAudio, CompressAudio,
           Shield, Comp, Result
  <1>5. \A content : \A x \in OnContent(s, action, content) : x.answer \in known
    <2> HIDE DEF known, action
    <2> QED BY <1>2, <1>4 DEF OnContent, OrRefused
  <1>6. \A x \in ofFile : x.answer \in known
    <2> HIDE DEF known, action, contents
    <2> QED BY <1>5
  <1> HIDE DEF known, isText, isBad, ofText, ofFile
  <1>7. r.answer \in known
    BY <1>1, <1>2, <1>3, <1>6 DEF OrRefused
  <1> QED BY <1>7 DEF known

BraceTokens == {"{", "}"}

\* A response is a sequence of braces, and not empty.
LEMMA ResponseType ==
  ASSUME NEW answer \in {"error", "comp", "shield"}
  PROVE  ResponseTo(answer) \in Seq(BraceTokens) /\ Len(ResponseTo(answer)) > 0
  <1>1. CASE answer = "error"
    BY <1>1 DEF ResponseTo, BraceTokens
  <1>2. CASE answer = "comp"
    BY <1>2 DEF ResponseTo, BraceTokens
  <1>3. CASE answer = "shield"
    BY <1>3 DEF ResponseTo, BraceTokens
  <1> QED BY <1>1, <1>2, <1>3

\* What has been written is the response up to the offset, which reaches its end
\* when the connection is closed; before a response is chosen nothing is written.
Sent ==
    /\ result.answer \in {"error", "comp", "shield"}
    /\ offset \in 0..Len(Response)
    /\ received = SubSeq(Response, 1, offset)
    /\ pc \in {"read", "respond"} => offset = 0
    /\ pc = "closed" => offset = Len(Response)

\* A write adds the next part of the response.
LEMMA WriteSent == ASSUME Sent, NEW n \in 1..Len(Response), Write(n) PROVE Sent'
  <1> DEFINE R == Response
  <1>1. /\ R \in Seq(BraceTokens) /\ Len(R) \in Nat
        /\ offset \in 0..Len(R) /\ received = SubSeq(R, 1, offset)
        /\ n \in 1..Len(R)
    BY ResponseType, LenProperties DEF Sent, Response
  <1>2. R' = R /\ result' = result /\ pc = "write" /\ offset + n <= Len(R)
    BY DEF Write, WriteFrom, answerVars, Response
  <1> HIDE DEF R
  <1>3. CASE peer = "gone"
    BY <1>1, <1>2, <1>3 DEF Write, WriteFrom, Sent, R
  <1>4. CASE peer # "gone"
    <2>1. /\ received' = received \o SubSeq(R, offset + 1, offset + n)
          /\ offset' = offset + n
          /\ pc' = IF offset + n = Len(R) THEN "closed" ELSE "write"
      BY <1>4 DEF Write, WriteFrom, R
    <2>2. SubSeq(R, 1, offset) \o SubSeq(R, offset + 1, offset + n) = SubSeq(R, 1, offset + n)
      <3>1. 1 \in 1..Len(R) + 1 /\ offset \in 1 - 1..Len(R) /\ offset + n \in offset..Len(R)
        BY <1>1, <1>2
      <3> QED BY <1>1, <3>1, ConcatAdjacentSubSeq
    <2>3. Response' = R
      BY <1>2 DEF R
    <2>5. offset + n \in 0..Len(R)
      BY <1>1, <1>2
    <2>6. pc' # "read" /\ pc' # "respond"
      BY <2>1
    <2>4. received' = SubSeq(R, 1, offset + n)
      BY <1>1, <2>1, <2>2
    <2> QED BY <1>2, <2>1, <2>3, <2>4, <2>5, <2>6 DEF Sent
  <1> QED BY <1>3, <1>4

\* The response is chosen once, before anything is written.
LEMMA RespondSent == ASSUME Sent, Respond PROVE Sent'
  <1>1. PICK v, r : RespondWith(v, r) /\ (r = Refused \/ r \in Route(request))
    BY DEF Respond, Routed
  <1>2. r.answer \in {"error", "comp", "shield"}
    BY <1>1, AnswerKnown DEF Refused, Result
  <1>3. /\ result' = r /\ pc' = "write" /\ offset' = offset /\ received' = received
        /\ offset = 0
    BY <1>1 DEF RespondWith, Sent
  <1>4. ResponseTo(r.answer) \in Seq(BraceTokens) /\ Len(ResponseTo(r.answer)) \in Nat
    BY <1>2, ResponseType, LenProperties
  <1>5. received = <<>> /\ SubSeq(ResponseTo(r.answer), 1, 0) = <<>>
    BY <1>3, SubSeqEmpty DEF Sent
  <1>6. /\ Response' = ResponseTo(r.answer) /\ 0 \in 0..Len(ResponseTo(r.answer))
        /\ received' = SubSeq(ResponseTo(r.answer), 1, 0) /\ offset' = 0
    <2>1. Response' = ResponseTo(r.answer)
      BY <1>3 DEF Response
    <2>2. received' = SubSeq(ResponseTo(r.answer), 1, 0) /\ offset' = 0
      BY <1>3, <1>5
    <2>3. 0 \in 0..Len(ResponseTo(r.answer))
      BY <1>4
    <2> QED BY <2>1, <2>2, <2>3
  <1> QED BY <1>2, <1>3, <1>6 DEF Sent

\* What is sent is the beginning of the one response chosen.
LEMMA SentAlways == Spec => []Sent
  <1>1. Init => Sent
    <2> SUFFICES ASSUME Init PROVE Sent
      OBVIOUS
    <2>1. result.answer = "error"
      BY DEF Init, Refused, Result
    <2>2. Len(Response) \in Nat
      BY <2>1, ResponseType, LenProperties DEF Response
    <2>3. SubSeq(Response, 1, 0) = <<>>
      BY SubSeqEmpty
    <2> QED BY <2>1, <2>2, <2>3 DEF Init, Sent
  <1>2. Sent /\ [Next]_vars => Sent'
    <2> SUFFICES ASSUME Sent, [Next]_vars PROVE Sent'
      OBVIOUS
    <2>1. CASE Client \/ ClientVanish
      BY <2>1 DEF Sent, Response, Client, ClientSend, ClientFinish, ClientVanish, answerVars
    <2>2. CASE (\E n \in 1..Chunk : ReadChunk(n)) \/ ReadEnd
      BY <2>2 DEF Sent, Response, ReadChunk, Accept, ReadEnd, ReadEndIf, Reading, answerVars
    <2>3. CASE Respond
      BY <2>3, RespondSent
    <2>4. CASE \E n \in 1..Len(Response) : Write(n)
      BY <2>4, WriteSent
    <2>5. CASE WriteFail
      BY <2>5 DEF Sent, Response, WriteFail, answerVars
    <2>6. CASE UNCHANGED vars
      BY <2>6 DEF Sent, Response, vars, answerVars
    <2> QED BY <2>1, <2>2, <2>3, <2>4, <2>5, <2>6 DEF Next, Server
  <1> QED BY <1>1, <1>2, PTL DEF Spec

\* What is written is the beginning of the response, nothing of it twice or out of
\* place, and before the worker closes it without a failed write all of it (safe_write,
\* lines 237-254), for any partial writes.
THEOREM ResponseInOrderHolds == Spec => []ResponseInOrder
  <1>1. Sent => ResponseInOrder
    <2> SUFFICES ASSUME Sent PROVE ResponseInOrder
      OBVIOUS
    <2> DEFINE R == Response
    <2>1. /\ R \in Seq(BraceTokens) /\ Len(R) \in Nat /\ offset \in 0..Len(R)
          /\ received = SubSeq(R, 1, offset)
      BY ResponseType, LenProperties DEF Sent, Response
    <2> HIDE DEF R
    <2>2. received \in Seq(BraceTokens) /\ Len(received) = offset
      BY <2>1, CutSeq
    <2>3. IsPrefix(received, R)
      <3>1. SubSeq(received, 1, Len(received)) = received
        BY <2>2, SubSeqFull
      <3> QED BY <2>1, <2>2, <3>1 DEF IsPrefix
    <2>4. pc = "closed" => received = R
      BY <2>1, SubSeqFull DEF Sent, R
    <2> QED BY <2>3, <2>4 DEF ResponseInOrder, R
  <1> QED BY <1>1, SentAlways, PTL
-----------------------------------------------------------------------------
(***************************************************************************)
(* What the lookups find in an object.  The lookups work on positions, so  *)
(* the proof says where everything is: a flattened sequence is laid out    *)
(* part by part, a text's characters begin where no backslash is open, an  *)
(* object's fields lie one behind the other, and a name between quotes is  *)
(* that of a field.  The helpers first: recursion over the naturals.       *)
(***************************************************************************)
\* A set of naturals has a least element.
LEMMA Least ==
  ASSUME NEW T \in SUBSET Nat, T # {}
  PROVE  \E m \in T : \A k \in T : m <= k
  <1> DEFINE R == {p \in Nat \X Nat : p[1] < p[2]}
  <1>1. IsWellFoundedOn(R, Nat)
    BY NatLessThanWellFounded DEF OpToRel
  <1>2. \A k, m \in Nat : <<k, m>> \notin R => m <= k
    OBVIOUS
  <1> HIDE DEF R
  <1>3. PICK m \in T : \A k \in T : <<k, m>> \notin R
    BY <1>1, WFMin
  <1> QED BY <1>2, <1>3, Zenon

\* Induction, as a set of naturals that is closed under the successor.
LEMMA Induct ==
  ASSUME NEW T, 0 \in T, \A k \in Nat : k \in T => k + 1 \in T
  PROVE  \A n \in Nat : n \in T
  <1> DEFINE Bad == Nat \ T
  <1> SUFFICES ASSUME Bad # {} PROVE FALSE
    OBVIOUS
  <1>1. Bad \in SUBSET Nat
    OBVIOUS
  <1>2. PICK m \in Bad : \A k \in Bad : m <= k
    <2> HIDE DEF Bad
    <2> QED BY <1>1, Least
  <1>3. m # 0 /\ m - 1 \in Nat /\ m - 1 \notin Bad
    BY <1>1, <1>2
  <1> QED BY <1>3

\* A base and a step within a set.
Recursion(S, base, step) == base \in S /\ step \in [S \X Nat -> S]

\* g is what base and step give, up to n.
Solves(S, base, step, n, g) ==
    g \in [0..n -> S] /\ g[0] = base /\ \A i \in 1..n : g[i] = step[<<g[i - 1], i>>]

\* A function that is given step by step exists.
LEMMA RecursionIs ==
  ASSUME NEW S, NEW base, NEW step, Recursion(S, base, step), NEW n \in Nat
  PROVE  \E g : Solves(S, base, step, n, g)
  <1> DEFINE Is(g, k) == g[0] = base /\ \A i \in 1..k : g[i] = step[<<g[i - 1], i>>]
             T == {k \in Nat : \E g \in [0..k -> S] : Is(g, k)}
  <1> USE DEF Recursion
  <1>1. 0 \in T
    <2>1. [i \in 0..0 |-> base] \in [0..0 -> S] /\ Is([i \in 0..0 |-> base], 0)
      OBVIOUS
    <2> QED BY <2>1
  <1>2. ASSUME NEW k \in Nat, k \in T PROVE k + 1 \in T
    <2>1. PICK g \in [0..k -> S] : Is(g, k)
      BY <1>2
    <2>2. PICK new \in S : new = step[<<g[k], k + 1>>]
      OBVIOUS
    <2>3. PICK h : h = [i \in 0..(k + 1) |-> IF i = k + 1 THEN new ELSE g[i]]
      OBVIOUS
    <2>4. h[k + 1] = new /\ \A i \in 0..k : h[i] = g[i]
      BY <2>3
    <2>5. h \in [0..(k + 1) -> S]
      <3> SUFFICES ASSUME NEW i \in 0..(k + 1) PROVE h[i] \in S
        BY <2>3
      <3>1. i = k + 1 \/ i \in 0..k
        OBVIOUS
      <3> QED BY <2>4, <3>1
    <2>6. ASSUME NEW i \in 1..(k + 1) PROVE h[i] = step[<<h[i - 1], i>>]
      <3>1. CASE i = k + 1
        <4>1. h[i - 1] = g[k]
          BY <2>4, <3>1
        <4> QED BY <2>2, <2>4, <3>1, <4>1
      <3>2. CASE i # k + 1
        <4>1. i \in 1..k /\ i - 1 \in 0..k /\ i \in 0..k
          BY <3>2
        <4> QED BY <2>1, <2>4, <4>1
      <3> QED BY <3>1, <3>2
    <2>7. Is(h, k + 1)
      BY <2>1, <2>4, <2>6
    <2> HIDE DEF Is
    <2> QED BY <2>5, <2>7
  <1> HIDE DEF T
  <1>3. n \in T
    BY <1>1, <1>2, Induct
  <1>4. PICK g \in [0..n -> S] : Is(g, n)
    BY <1>3 DEF T
  <1>5. Solves(S, base, step, n, g)
    BY <1>4 DEF Solves
  <1> QED BY <1>5

\* FlattenSeq, part by part.
Parts(S, n, f, g) ==
    /\ g \in [0..n -> Seq(S)] /\ g[0] = <<>>
    /\ \A i \in 1..n : g[i] = g[i - 1] \o f[i]
    /\ FlattenSeq(f) = g[n]

\* FlattenSeq is the concatenation of its parts, one after the other.
LEMMA FlattenIs ==
  ASSUME NEW S, NEW n \in Nat, NEW f \in [1..n -> Seq(S)]
  PROVE  \E g : Parts(S, n, f, g)
  <1>1. f \in Seq(Seq(S)) /\ Len(f) = n
    BY LenProperties, SeqDef
  <1>2. <<>> \in Seq(S)
    OBVIOUS
  <1>3. CASE n = 0
    <2>1. PICK g : g = [i \in 0..0 |-> <<>>]
      OBVIOUS
    <2>2. g \in [0..n -> Seq(S)] /\ g[0] = <<>> /\ \A i \in 1..n : g[i] = g[i - 1] \o f[i]
      BY <1>2, <1>3, <2>1
    <2>3. f = <<>>
      BY <1>1, <1>3, EmptySeq
    <2>4. FlattenSeq(f) = <<>>
      BY <1>1, <1>3, <2>3 DEF FlattenSeq
    <2> QED BY <1>3, <2>2, <2>4 DEF Parts
  <1>4. CASE n # 0
    <2> DEFINE step == [p \in Seq(S) \X Nat |-> IF p[2] \in 1..n THEN p[1] \o f[p[2]] ELSE p[1]]
    <2>1. Recursion(Seq(S), <<>>, step)
      <3>1. ASSUME NEW a \in Seq(S), NEW i \in Nat PROVE step[<<a, i>>] \in Seq(S)
        <4>1. step[<<a, i>>] = IF i \in 1..n THEN a \o f[i] ELSE a
          OBVIOUS
        <4>2. CASE i \in 1..n
          <5>1. f[i] \in Seq(S)
            BY <4>2
          <5>2. a \o f[i] \in Seq(S)
            BY <5>1, ConcatProperties
          <5> QED BY <4>1, <4>2, <5>2
        <4>3. CASE i \notin 1..n
          BY <4>1, <4>3
        <4> QED BY <4>2, <4>3
      <3>2. \A p \in Seq(S) \X Nat : step[p] \in Seq(S)
        <4>1. \A p \in Seq(S) \X Nat : p[1] \in Seq(S) /\ p[2] \in Nat /\ p = <<p[1], p[2]>>
          OBVIOUS
        <4> HIDE DEF step
        <4> QED BY <3>1, <4>1
      <3>3. step \in [Seq(S) \X Nat -> Seq(S)]
        BY <3>2
      <3> HIDE DEF step
      <3> QED BY <1>2, <3>3 DEF Recursion
    <2>2. PICK g : Solves(Seq(S), <<>>, step, n, g)
      <3> HIDE DEF step
      <3> QED BY <2>1, RecursionIs
    <2>3. g \in [0..n -> Seq(S)] /\ g[0] = <<>>
      BY <2>2 DEF Solves
    <2>4. \A i \in 1..n : g[i] = g[i - 1] \o f[i]
      <3>1. ASSUME NEW i \in 1..n PROVE g[i] = g[i - 1] \o f[i]
        <4>1. g[i] = step[<<g[i - 1], i>>]
          <5> HIDE DEF step
          <5> QED BY <2>2 DEF Solves
        <4>2. g[i - 1] \in Seq(S) /\ i \in Nat \ {0}
          BY <2>3
        <4> QED BY <4>1, <4>2
      <3> QED BY <3>1
    <2> HIDE DEF step
    <2> DEFINE body(h) == [i \in 1..n |-> IF i = 1 THEN f[i] ELSE h[i - 1] \o f[i]]
    <2>5. PICK flatten : flatten = CHOOSE h : h = body(h)
      OBVIOUS
    <2>6. \E h : h = body(h)
      <3>1. PICK h : h = [i \in 1..n |-> g[i]]
        OBVIOUS
      <3>2. \A i \in 1..n : h[i] = IF i = 1 THEN f[i] ELSE h[i - 1] \o f[i]
        <4> SUFFICES ASSUME NEW i \in 1..n PROVE h[i] = IF i = 1 THEN f[i] ELSE h[i - 1] \o f[i]
          OBVIOUS
        <4>1. h[i] = g[i - 1] \o f[i]
          BY <2>4, <3>1
        <4>2. CASE i = 1
          <5>1. g[i - 1] = <<>> /\ f[i] \in Seq(S)
            BY <2>3, <4>2
          <5> QED BY <4>1, <4>2, <5>1, ConcatEmptySeq
        <4>3. CASE i # 1
          <5>1. i - 1 \in 1..n
            BY <4>3
          <5> QED BY <3>1, <4>1, <4>3, <5>1
        <4> QED BY <4>2, <4>3
      <3>3. h = body(h)
        BY <3>1, <3>2
      <3> QED BY <3>3
    <2>7. flatten = body(flatten)
      <3> HIDE DEF body
      <3> QED BY <2>5, <2>6, Zenon
    <2>8. \A i \in 1..n : flatten[i] = IF i = 1 THEN f[i] ELSE flatten[i - 1] \o f[i]
      BY <2>7
    <2> DEFINE T == {k \in Nat : k + 1 <= n => flatten[k + 1] = g[k + 1]}
    <2>9. 0 \in T
      <3>1. 1 \in 1..n
        BY <1>4
      <3>2. f[1] \in Seq(S) /\ g[1] = g[0] \o f[1]
        <4>1. 1 - 1 = 0
          OBVIOUS
        <4> QED BY <2>4, <3>1, <4>1
      <3>3. flatten[1] = f[1] /\ g[1] = f[1]
        BY <2>3, <2>8, <3>1, <3>2, ConcatEmptySeq
      <3> QED BY <3>3
    <2>10. ASSUME NEW k \in Nat, k \in T PROVE k + 1 \in T
      <3> SUFFICES ASSUME (k + 1) + 1 <= n PROVE flatten[(k + 1) + 1] = g[(k + 1) + 1]
        OBVIOUS
      <3>1. PICK i \in 1..n : i = (k + 1) + 1 /\ i - 1 = k + 1 /\ i # 1
        <4>1. (k + 1) + 1 \in 1..n /\ ((k + 1) + 1) - 1 = k + 1
          OBVIOUS
        <4> QED BY <4>1
      <3>2. flatten[i - 1] = g[i - 1]
        BY <2>10, <3>1
      <3>3. flatten[i] = flatten[i - 1] \o f[i]
        BY <2>8, <3>1
      <3>4. g[i] = g[i - 1] \o f[i]
        BY <2>4
      <3> QED BY <3>1, <3>2, <3>3, <3>4
    <2>11. \A k \in Nat : k \in T
      <3> HIDE DEF T
      <3> QED BY <2>9, <2>10, Induct
    <2>12. flatten[n] = g[n]
      <3>1. PICK k \in Nat : n = k + 1
        <4>1. n - 1 \in Nat /\ n = (n - 1) + 1
          BY <1>4
        <4> QED BY <4>1
      <3> QED BY <2>11, <3>1
    <2>13. FlattenSeq(f) = flatten[n]
      BY <1>1, <1>4, <2>5, Zenon DEF FlattenSeq
    <2> QED BY <2>3, <2>4, <2>12, <2>13 DEF Parts
  <1> QED BY <1>3, <1>4

\* Where the parts of a flattened sequence lie: the i-th behind position at[i - 1].
Laid(S, n, f, s, at) ==
    /\ s \in Seq(S) /\ at \in [0..n -> Nat] /\ at[0] = 0 /\ Len(s) = at[n]
    /\ \A i \in 1..n : at[i] = at[i - 1] + Len(f[i]) /\ at[i] <= at[n]
    /\ \A i \in 1..n : \A j \in 1..Len(f[i]) : s[at[i - 1] + j] = f[i][j]
    /\ \A x \in 1..at[n] : \E i \in 1..n : \E j \in 1..Len(f[i]) : x = at[i - 1] + j

\* Every part of a flattened sequence is found at its offset, and nothing else is there.
LEMMA FlattenLaid ==
  ASSUME NEW S, NEW n \in Nat, NEW f \in [1..n -> Seq(S)]
  PROVE  \E at : Laid(S, n, f, FlattenSeq(f), at)
  <1>1. PICK g : Parts(S, n, f, g)
    BY FlattenIs
  <1>2. g \in [0..n -> Seq(S)] /\ g[0] = <<>> /\ \A i \in 1..n : g[i] = g[i - 1] \o f[i]
    BY <1>1 DEF Parts
  <1>3. \A i \in 0..n : g[i] \in Seq(S) /\ Len(g[i]) \in Nat
    BY <1>2, LenProperties
  <1>4. \A i \in 1..n : f[i] \in Seq(S) /\ Len(f[i]) \in Nat
    BY LenProperties
  <1>5. ASSUME NEW i \in 1..n
        PROVE  /\ Len(g[i]) = Len(g[i - 1]) + Len(f[i])
               /\ \A j \in 1..Len(g[i - 1]) : g[i][j] = g[i - 1][j]
               /\ \A j \in 1..Len(f[i]) : g[i][Len(g[i - 1]) + j] = f[i][j]
    <2>1. PICK a \in Seq(S), b \in Seq(S), p \in Nat, q \in Nat :
              a = g[i - 1] /\ b = f[i] /\ p = Len(a) /\ q = Len(b)
      <3>1. i - 1 \in 0..n
        OBVIOUS
      <3> QED BY <1>3, <1>4, <3>1
    <2>2. PICK c : c = a \o b
      OBVIOUS
    <2>3. /\ Len(c) = p + q
          /\ \A j \in 1..(p + q) : c[j] = IF j <= p THEN a[j] ELSE b[j - p]
      BY <2>1, <2>2, ConcatProperties
    <2>4. g[i] = c
      BY <1>2, <2>1, <2>2
    <2>5. \A j \in 1..p : j \in 1..(p + q) /\ c[j] = a[j]
      BY <2>3
    <2>6. \A j \in 1..q : c[p + j] = b[j]
      <3>1. ASSUME NEW j \in 1..q PROVE c[p + j] = b[j]
        <4>1. p + j \in 1..(p + q) /\ ~(p + j <= p) /\ (p + j) - p = j
          OBVIOUS
        <4> QED BY <2>3, <4>1
      <3> QED BY <3>1
    <2> QED BY <2>1, <2>3, <2>4, <2>5, <2>6
  <1>6. PICK at \in [0..n -> Nat] : \A i \in 0..n : at[i] = Len(g[i])
    <2>1. [i \in 0..n |-> Len(g[i])] \in [0..n -> Nat]
      BY <1>3
    <2> QED BY <2>1
  <1>7. at[0] = 0
    BY <1>2, <1>6
  <1>8. \A i \in 1..n : at[i] = at[i - 1] + Len(f[i])
    <2>1. \A i \in 1..n : i \in 0..n /\ i - 1 \in 0..n
      OBVIOUS
    <2> QED BY <1>5, <1>6, <2>1
  \* From any part on, what is there stays.
  <1> DEFINE Stays(i, k) == at[i] <= at[k] /\ \A j \in 1..at[i] : g[k][j] = g[i][j]
             T == {k \in Nat : \A i \in 0..n : i + k <= n => Stays(i, i + k)}
  <1>9. 0 \in T
    <2>1. \A i \in 0..n : i + 0 = i
      OBVIOUS
    <2>2. \A i \in 0..n : Stays(i, i)
      BY <1>6
    <2> HIDE DEF Stays
    <2> QED BY <2>1, <2>2
  <1>10. ASSUME NEW k \in Nat, k \in T PROVE k + 1 \in T
    <2> SUFFICES ASSUME NEW i \in 0..n, i + (k + 1) <= n
                 PROVE  Stays(i, i + (k + 1))
      <3> HIDE DEF Stays
      <3> QED OBVIOUS
    <2>1. PICK m \in 1..n : m = i + (k + 1) /\ m - 1 = i + k /\ m - 1 \in 0..n
      <3>1. i + (k + 1) \in 1..n /\ (i + (k + 1)) - 1 = i + k /\ i + k \in 0..n
        OBVIOUS
      <3> QED BY <3>1
    <2>2. at[i] <= at[m - 1] /\ \A j \in 1..at[i] : g[m - 1][j] = g[i][j]
      <3>1. Stays(i, m - 1)
        <4> HIDE DEF Stays
        <4> QED BY <1>10, <2>1
      <3> QED BY <3>1
    <2>3. PICK l \in Nat : l = Len(f[m]) /\ at[m] = at[m - 1] + l
      BY <1>4, <1>8
    <2>4. PICK x \in Nat, y \in Nat, z \in Nat : x = at[i] /\ y = at[m - 1] /\ z = at[m] /\ x <= y /\ z = y + l
      <3>1. at[i] \in Nat /\ at[m - 1] \in Nat /\ at[m] \in Nat
        BY <2>1
      <3> QED BY <2>2, <2>3, <3>1
    <2>5. \A j \in 1..y : g[m][j] = g[m - 1][j]
      BY <1>5, <1>6, <2>1, <2>4
    <2>6. \A j \in 1..x : j \in 1..y
      BY <2>4
    <2> QED BY <2>1, <2>2, <2>4, <2>5, <2>6
  <1>11. \A k \in Nat : k \in T
    <2> HIDE DEF T
    <2> QED BY <1>9, <1>10, Induct
  <1>12. \A i \in 0..n : at[i] <= at[n] /\ \A j \in 1..at[i] : g[n][j] = g[i][j]
    <2>1. \A i \in 0..n : n - i \in Nat /\ i + (n - i) = n
      OBVIOUS
    <2>2. ASSUME NEW i \in 0..n PROVE Stays(i, n)
      <3>1. PICK k \in Nat : i + k = n
        BY <2>1
      <3>2. k \in T
        <4> HIDE DEF T
        <4> QED BY <1>11
      <3>3. Stays(i, i + k)
        <4> HIDE DEF Stays
        <4> QED BY <3>1, <3>2
      <3> QED BY <3>1, <3>3
    <2> QED BY <2>2
  <1>13. ASSUME NEW i \in 1..n, NEW j \in 1..Len(f[i]) PROVE g[n][at[i - 1] + j] = f[i][j]
    <2>1. g[i][at[i - 1] + j] = f[i][j]
      <3>1. i - 1 \in 0..n
        OBVIOUS
      <3>2. g[i][Len(g[i - 1]) + j] = f[i][j]
        BY <1>5
      <3>3. at[i - 1] = Len(g[i - 1])
        BY <1>6, <3>1
      <3> QED BY <3>2, <3>3
    <2>2. at[i - 1] + j \in 1..at[i] /\ i \in 0..n
      <3>1. PICK l \in Nat, x \in Nat : l = Len(f[i]) /\ x = at[i - 1] /\ at[i] = x + l
        <4>1. i - 1 \in 0..n
          OBVIOUS
        <4> QED BY <1>4, <1>6, <1>8, <4>1
      <3> QED BY <3>1
    <2> QED BY <1>12, <2>1, <2>2
  <1> DEFINE U == {k \in Nat : k <= n =>
                      \A x \in 1..at[k] : \E i \in 1..n : \E j \in 1..Len(f[i]) : x = at[i - 1] + j}
  <1>14. 0 \in U
    BY <1>7
  <1>15. ASSUME NEW k \in Nat, k \in U PROVE k + 1 \in U
    <2> SUFFICES ASSUME k + 1 <= n, NEW x \in 1..at[k + 1]
                 PROVE  \E i \in 1..n : \E j \in 1..Len(f[i]) : x = at[i - 1] + j
      OBVIOUS
    <2>1. PICK i \in 1..n : i = k + 1 /\ i - 1 = k /\ k \in 0..n
      <3>1. k + 1 \in 1..n /\ (k + 1) - 1 = k /\ k \in 0..n
        OBVIOUS
      <3> QED BY <3>1
    <2>2. PICK l \in Nat, a \in Nat : l = Len(f[i]) /\ a = at[k] /\ at[i] = a + l
      BY <1>4, <1>8, <2>1
    <2>3. CASE x <= a
      BY <1>15, <2>1, <2>2, <2>3
    <2>4. CASE ~(x <= a)
      <3>1. PICK j \in 1..l : x = a + j
        <4>1. x - a \in 1..l /\ x = a + (x - a)
          BY <2>1, <2>2, <2>4
        <4> QED BY <4>1
      <3> QED BY <2>1, <2>2, <3>1
    <2> QED BY <2>3, <2>4
  <1>16. \A k \in Nat : k \in U
    <2> HIDE DEF U
    <2> QED BY <1>14, <1>15, Induct
  <1>17. \A x \in 1..at[n] : \E i \in 1..n : \E j \in 1..Len(f[i]) : x = at[i - 1] + j
    BY <1>16
  <1>18. FlattenSeq(f) = g[n] /\ g[n] \in Seq(S) /\ Len(g[n]) = at[n]
    BY <1>1, <1>3, <1>6 DEF Parts
  <1>19. Laid(S, n, f, g[n], at)
    <2>1. \A i \in 1..n : at[i] <= at[n]
      BY <1>12
    <2>2. \A i \in 1..n : \A j \in 1..Len(f[i]) : g[n][at[i - 1] + j] = f[i][j]
      BY <1>13
    <2> HIDE DEF T, U
    <2> QED BY <1>6, <1>7, <1>8, <1>17, <1>18, <2>1, <2>2 DEF Laid
  <1> QED BY <1>18, <1>19

\* Which tokens of a string are escaped.
LEMMA EscapedIs ==
  ASSUME NEW S, NEW s \in Seq(S), NEW p \in Nat \ {0}, p <= Len(s) + 1
  PROVE  \E E \in SUBSET (p..Len(s)) :
            /\ \A i \in p..Len(s) : Escaped(s, p)[i] <=> i \in E
            /\ \A i \in p..Len(s) : i \in E <=> i > p /\ s[i - 1] = Slash /\ i - 1 \notin E
  <1>1. PICK l \in Nat : l = Len(s) /\ p <= l + 1
    BY LenProperties
  <1> DEFINE step == [a \in {0, 1} \X Nat |-> IF s[(p + a[2]) - 1] = Slash /\ a[1] = 0 THEN 1 ELSE 0]
  <1>2. Recursion({0, 1}, 0, step)
    BY DEF Recursion
  <1>3. PICK g : Solves({0, 1}, 0, step, l, g)
    <2> HIDE DEF step
    <2> QED BY <1>2, RecursionIs
  <1>4. g \in [0..l -> {0, 1}] /\ g[0] = 0
    BY <1>3 DEF Solves
  <1>5. \A i \in 1..l : g[i] = IF s[(p + i) - 1] = Slash /\ g[i - 1] = 0 THEN 1 ELSE 0
    <2> SUFFICES ASSUME NEW i \in 1..l
                 PROVE  g[i] = IF s[(p + i) - 1] = Slash /\ g[i - 1] = 0 THEN 1 ELSE 0
      OBVIOUS
    <2>1. g[i] = step[<<g[i - 1], i>>]
      <3> HIDE DEF step
      <3> QED BY <1>3 DEF Solves
    <2>2. g[i - 1] \in {0, 1} /\ i \in Nat
      BY <1>4
    <2> QED BY <2>1, <2>2
  <1> HIDE DEF step
  <1>6. PICK E : E = {i \in p..l : g[i - p] = 1}
    OBVIOUS
  <1>7. \A i \in p..l : i \in E <=> i > p /\ s[i - 1] = Slash /\ i - 1 \notin E
    <2> SUFFICES ASSUME NEW i \in p..l PROVE i \in E <=> i > p /\ s[i - 1] = Slash /\ i - 1 \notin E
      OBVIOUS
    <2>1. CASE i = p
      BY <1>4, <1>6, <2>1
    <2>2. CASE i # p
      <3>1. PICK j \in 1..l : j = i - p /\ j - 1 = (i - 1) - p /\ (p + j) - 1 = i - 1
        <4>1. i - p \in 1..l /\ (i - p) - 1 = (i - 1) - p /\ (p + (i - p)) - 1 = i - 1
          BY <2>2
        <4> QED BY <4>1
      <3>2. g[i - p] = IF s[i - 1] = Slash /\ g[(i - 1) - p] = 0 THEN 1 ELSE 0
        BY <1>5, <3>1
      <3>3. g[(i - 1) - p] \in {0, 1} /\ i - 1 \in p..l /\ i > p
        BY <1>4, <2>2, <3>1
      <3> QED BY <1>6, <3>2, <3>3
    <2> QED BY <2>1, <2>2
  <1> DEFINE body(e) == [i \in p..l |-> i > p /\ s[i - 1] = Slash /\ ~e[i - 1]]
  <1>8. PICK e : e = CHOOSE h : h = body(h)
    OBVIOUS
  <1>9. \E h : h = body(h)
    <2>1. PICK h : h = [i \in p..l |-> i \in E]
      OBVIOUS
    <2>2. \A i \in p..l : (i > p /\ s[i - 1] = Slash /\ ~h[i - 1]) <=> i \in E
      <3>1. \A i \in p..l : i > p => i - 1 \in p..l
        OBVIOUS
      <3>2. \A i \in p..l : h[i] <=> i \in E
        BY <2>1, Zenon
      <3> QED BY <1>7, <3>1, <3>2, Zenon
    <2>3. \A i \in p..l : (i > p /\ s[i - 1] = Slash /\ ~h[i - 1]) = (i \in E)
      <3>1. ASSUME NEW i \in p..l PROVE (i > p /\ s[i - 1] = Slash /\ ~h[i - 1]) = (i \in E)
        <4>1. (i > p /\ s[i - 1] = Slash /\ ~h[i - 1]) <=> i \in E
          BY <2>2, Zenon
        <4> QED BY <4>1
      <3> QED BY <3>1, Zenon
    <2>4. body(h) = [i \in p..l |-> i \in E]
      BY <2>3, Zenon
    <2> QED BY <2>1, <2>4, Zenon
  <1>10. e = body(e)
    <2> HIDE DEF body
    <2> QED BY <1>8, <1>9, Zenon
  <1>11. Escaped(s, p) = e
    BY <1>1, <1>8, Zenon DEF Escaped
  <1>12. \A i \in p..l : e[i] <=> i > p /\ s[i - 1] = Slash /\ ~e[i - 1]
    <2>1. \A i \in p..l : body(e)[i] = (i > p /\ s[i - 1] = Slash /\ ~e[i - 1])
      BY Zenon
    <2> QED BY <1>10, <2>1, Zenon
  <1> DEFINE T == {k \in Nat : p + k <= l => (e[p + k] <=> p + k \in E)}
  <1>13. 0 \in T
    <2>1. p + 0 = p /\ ~(p > p)
      OBVIOUS
    <2>2. p <= l => p \in p..l
      OBVIOUS
    <2>3. p <= l => (e[p] <=> p \in E)
      BY <1>7, <1>12, <2>1, <2>2, Zenon
    <2>4. p + 0 <= l => (e[p + 0] <=> p + 0 \in E)
      BY <2>1, <2>3, Zenon
    <2> QED BY <2>4, Zenon, 0 \in Nat
  <1>14. ASSUME NEW k \in Nat, k \in T PROVE k + 1 \in T
    <2>1. PICK i : i = p + (k + 1) /\ i - 1 = p + k /\ i > p
      OBVIOUS
    <2>2. i <= l => i \in p..l /\ p + k <= l
      BY <2>1
    <2>3. i <= l => (e[i - 1] <=> i - 1 \in E)
      BY <1>14, <2>1, <2>2, Zenon
    <2>4. i <= l => (e[i] <=> i \in E)
      BY <1>7, <1>12, <2>1, <2>2, <2>3, Zenon
    <2>5. k + 1 \in Nat
      OBVIOUS
    <2> QED BY <2>1, <2>4, <2>5, Zenon
  <1>15. \A k \in Nat : k \in T
    <2> HIDE DEF T
    <2> QED BY <1>13, <1>14, Induct
  <1>16. \A i \in p..l : e[i] <=> i \in E
    <2> SUFFICES ASSUME NEW i \in p..l PROVE e[i] <=> i \in E
      OBVIOUS
    <2>1. PICK k \in Nat : p + k = i /\ i <= l
      <3>1. i - p \in Nat /\ p + (i - p) = i
        OBVIOUS
      <3> QED BY <3>1
    <2>2. p + k <= l => (e[p + k] <=> p + k \in E)
      BY <1>15, Zenon
    <2> QED BY <2>1, <2>2, Zenon
  <1>17. E \in SUBSET (p..l)
    BY <1>6
  <1> QED BY <1>1, <1>7, <1>11, <1>16, <1>17, Zenon

Marks == {Quote, Slash}

\* Names of the punctuation, opaque to the provers.
Open  == "{"
Colon == ":"
Comma == ","
Space == " "

Punctuation == {Open, Brace, Colon, Comma, Space}

\* Everything a client writes.
Alphabet == STRING \cup Marks \cup Punctuation \cup ToSet(Digits)

\* A text in a sequence, behind position p: the i-th token behind at[i - 1].
Spelled(v, s, p, at) ==
    /\ at \in [0..Len(v) -> Nat] /\ at[0] = p
    /\ \A i \in 1..Len(v) : at[i] = at[i - 1] + (IF v[i] \in Marks THEN 2 ELSE 1) /\ at[i] <= at[Len(v)]
    /\ \A i \in 1..Len(v) : v[i] \in Marks => s[at[i - 1] + 1] = Slash /\ s[at[i - 1] + 2] = v[i]
    /\ \A i \in 1..Len(v) : v[i] \notin Marks => s[at[i - 1] + 1] = v[i]
    /\ p <= at[Len(v)]
    /\ \A x \in (p + 1)..at[Len(v)] : \E i \in 1..Len(v) : at[i - 1] < x /\ x <= at[i]

EscapedText(v) == FlattenSeq([i \in DOMAIN v |-> EscapedToken(v[i])])

\* A sequence in another, behind position p.
Behind(t, s, p) == \A x \in 1..Len(t) : s[p + x] = t[x]

\* The escaped tokens of a text are laid out character by character.
LEMMA SpelledIs ==
  ASSUME NEW v \in Seq(Alphabet), NEW s, NEW p \in Nat, Behind(EscapedText(v), s, p)
  PROVE  /\ EscapedText(v) \in Seq(Alphabet)
         /\ \E at : Spelled(v, s, p, at) /\ at[Len(v)] = p + Len(EscapedText(v))
  <1>1. PICK m \in Nat : m = Len(v) /\ DOMAIN v = 1..m /\ \A i \in 1..m : v[i] \in Alphabet
    BY LenProperties, ElementOfSeq
  <1>2. PICK f : f = [i \in 1..m |-> EscapedToken(v[i])]
    OBVIOUS
  <1>3. ASSUME NEW i \in 1..m
        PROVE  /\ f[i] \in Seq(Alphabet) /\ Len(f[i]) = IF v[i] \in Marks THEN 2 ELSE 1
               /\ v[i] \in Marks => f[i][1] = Slash /\ f[i][2] = v[i]
               /\ v[i] \notin Marks => f[i][1] = v[i]
    <2>1. v[i] \in Alphabet /\ Slash \in Alphabet
      BY <1>1 DEF Alphabet, Marks
    <2>2. /\ <<Slash, v[i]>> \in Seq(Alphabet) /\ Len(<<Slash, v[i]>>) = 2
          /\ <<Slash, v[i]>>[1] = Slash /\ <<Slash, v[i]>>[2] = v[i]
      BY <2>1
    <2>3. <<v[i]>> \in Seq(Alphabet) /\ Len(<<v[i]>>) = 1 /\ <<v[i]>>[1] = v[i]
      BY <2>1
    <2>4. f[i] = IF v[i] \in Marks THEN <<Slash, v[i]>> ELSE <<v[i]>>
      BY <1>2 DEF EscapedToken, Marks
    <2> QED BY <2>2, <2>3, <2>4
  <1>4. f \in [1..m -> Seq(Alphabet)]
    BY <1>2, <1>3
  <1>5. PICK enc : enc = EscapedText(v) /\ enc = FlattenSeq(f)
    BY <1>1, <1>2 DEF EscapedText
  <1>6. PICK off : Laid(Alphabet, m, f, enc, off)
    BY <1>4, <1>5, FlattenLaid
  <1>7. /\ enc \in Seq(Alphabet) /\ off \in [0..m -> Nat] /\ off[0] = 0 /\ Len(enc) = off[m]
        /\ \A i \in 1..m : off[i] = off[i - 1] + Len(f[i]) /\ off[i] <= off[m]
        /\ \A i \in 1..m : \A j \in 1..Len(f[i]) : enc[off[i - 1] + j] = f[i][j]
        /\ \A x \in 1..off[m] : \E i \in 1..m : \E j \in 1..Len(f[i]) : x = off[i - 1] + j
    BY <1>6 DEF Laid
  <1>8. PICK at \in [0..m -> Nat] : \A i \in 0..m : at[i] = p + off[i]
    <2>1. [i \in 0..m |-> p + off[i]] \in [0..m -> Nat]
      BY <1>7
    <2> QED BY <2>1
  <1>9. at[0] = p /\ at[m] = p + off[m] /\ p <= at[m]
    BY <1>7, <1>8
  <1>10. ASSUME NEW i \in 1..m
         PROVE  /\ at[i] = at[i - 1] + (IF v[i] \in Marks THEN 2 ELSE 1) /\ at[i] <= at[m]
                /\ v[i] \in Marks => s[at[i - 1] + 1] = Slash /\ s[at[i - 1] + 2] = v[i]
                /\ v[i] \notin Marks => s[at[i - 1] + 1] = v[i]
    <2>1. i - 1 \in 0..m /\ i \in 0..m /\ m \in 0..m
      OBVIOUS
    <2>2. PICK a \in Nat, b \in Nat, l \in Nat, z \in Nat :
              a = off[i - 1] /\ b = off[i] /\ l = Len(f[i]) /\ z = off[m] /\ b = a + l /\ b <= z
      <3>1. off[i - 1] \in Nat /\ off[i] \in Nat /\ off[m] \in Nat
        BY <1>7, <2>1
      <3>2. Len(f[i]) \in Nat
        BY <1>3
      <3>3. off[i] = off[i - 1] + Len(f[i]) /\ off[i] <= off[m]
        BY <1>7
      <3> QED BY <3>1, <3>2, <3>3, Zenon
    <2>3. at[i - 1] = p + a /\ at[i] = p + b /\ at[m] = p + z
      BY <1>8, <2>1, <2>2
    <2>4. l = (IF v[i] \in Marks THEN 2 ELSE 1)
      BY <1>3, <2>2, Zenon
    <2>5. \A j \in 1..l : s[(p + a) + j] = f[i][j]
      <3>1. ASSUME NEW j \in 1..l PROVE s[(p + a) + j] = f[i][j]
        <4>1. a + j \in 1..z /\ p + (a + j) = (p + a) + j
          <5>1. b = a + l /\ b <= z
            BY <2>2
          <5>2. a + j <= z
            BY <5>1
          <5>3. p + (a + j) = (p + a) + j
            OBVIOUS
          <5>4. 1 <= a + j
            OBVIOUS
          <5> QED BY <5>2, <5>3, <5>4
        <4>2. enc[a + j] = f[i][j]
          BY <1>7, <2>2
        <4>3. s[p + (a + j)] = enc[a + j]
          BY <1>5, <1>7, <2>2, <4>1 DEF Behind
        <4> QED BY <4>1, <4>2, <4>3
      <3> QED BY <3>1
    <2>6. at[i] = at[i - 1] + l /\ at[i] <= at[m]
      <3>1. b = a + l /\ b <= z
        BY <2>2
      <3>2. p + b = (p + a) + l /\ p + b <= p + z
        BY <3>1
      <3> QED BY <2>3, <3>2
    <2>7. v[i] \in Marks => s[at[i - 1] + 1] = Slash /\ s[at[i - 1] + 2] = v[i]
      <3>1. v[i] \in Marks => 1 \in 1..l /\ 2 \in 1..l
        BY <2>4
      <3> QED BY <1>3, <2>3, <2>5, <3>1
    <2>8. v[i] \notin Marks => s[at[i - 1] + 1] = v[i]
      <3>1. 1 \in 1..l
        BY <2>4
      <3> QED BY <1>3, <2>3, <2>5, <3>1
    <2> QED BY <2>4, <2>6, <2>7, <2>8
  <1>11. ASSUME NEW x \in (p + 1)..at[m] PROVE \E i \in 1..m : at[i - 1] < x /\ x <= at[i]
    <2>1. PICK y \in 1..off[m] : y = x - p
      <3>1. x - p \in 1..off[m]
        BY <1>7, <1>9
      <3> QED BY <3>1
    <2>2. PICK i \in 1..m : \E j \in 1..Len(f[i]) : y = off[i - 1] + j
      BY <1>7
    <2>3. PICK j \in 1..Len(f[i]) : y = off[i - 1] + j
      BY <2>2
    <2>4. i - 1 \in 0..m /\ i \in 0..m /\ Len(f[i]) \in Nat
      BY <1>3
    <2>5. PICK a \in Nat, l \in Nat : a = off[i - 1] /\ l = Len(f[i]) /\ off[i] = a + l
      BY <1>7, <2>4
    <2>6. at[i - 1] = p + a /\ at[i] = p + (a + l)
      BY <1>8, <2>4, <2>5
    <2>7. x = p + y /\ y = a + j /\ j \in 1..l
      <3>1. PICK z \in Nat : z = off[m] /\ at[m] = p + z
        <4>1. off[m] \in Nat
          BY <1>7
        <4> QED BY <1>9, <4>1
      <3>2. x \in (p + 1)..(p + z) /\ y = x - p
        BY <2>1, <3>1
      <3>3. x = p + y
        BY <3>2
      <3>4. y = a + j /\ j \in 1..l
        BY <2>3, <2>5
      <3> QED BY <3>3, <3>4
    <2>8. at[i - 1] < x /\ x <= at[i]
      BY <2>6, <2>7
    <2> QED BY <2>8
  <1>12. Spelled(v, s, p, at)
    BY <1>1, <1>8, <1>9, <1>10, <1>11 DEF Spelled
  <1> QED BY <1>1, <1>5, <1>7, <1>9, <1>12


Prefix(r, s) == Len(r) <= Len(s) /\ \A i \in 1..Len(r) : r[i] = s[i]

EscapedSet(r, p, E) ==
    /\ E \in SUBSET (p..Len(r))
    /\ \A i \in p..Len(r) : i \in E <=> i > p /\ r[i - 1] = Slash /\ i - 1 \notin E

\* A text of an object, its closing quote at q, of which r has been read.
Given(v, s, r, p, at, q) ==
    /\ v \in Seq(Alphabet) /\ s \in Seq(Alphabet) /\ r \in Seq(Alphabet)
    /\ p \in Nat \ {0} /\ p <= Len(r) /\ Prefix(r, s)
    /\ Spelled(v, s, p, at) /\ q = at[Len(v)] + 1 /\ q <= Len(s) /\ s[q] = Quote

\* The two tokens that are escaped are not one.
LEMMA MarksDiffer == Quote # Slash
  BY DEF Quote, Slash

\* The first token of a character is not escaped.
LEMMA HeadsFree ==
  ASSUME NEW v, NEW s, NEW r, NEW p, NEW at, NEW q, Given(v, s, r, p, at, q),
         NEW E, EscapedSet(r, p + 1, E)
  PROVE  \A k \in 0..Len(v) : at[k] >= p /\ (at[k] + 1 <= Len(r) => at[k] + 1 \notin E)
  <1>1. PICK m \in Nat, l \in Nat : m = Len(v) /\ l = Len(r)
    BY LenProperties DEF Given
  <1>2. /\ at \in [0..m -> Nat] /\ at[0] = p /\ p \in Nat
        /\ \A i \in 1..m : at[i] = at[i - 1] + (IF v[i] \in Marks THEN 2 ELSE 1)
        /\ \A i \in 1..m : v[i] \in Marks => s[at[i - 1] + 1] = Slash
        /\ \A i \in 1..m : v[i] \notin Marks => s[at[i - 1] + 1] = v[i]
    BY <1>1, Zenon DEF Given, Spelled
  <1>3. \A i \in (p + 1)..l : i \in E <=> i > p + 1 /\ r[i - 1] = Slash /\ i - 1 \notin E
    BY <1>1 DEF EscapedSet
  <1>4. \A i \in 1..l : r[i] = s[i]
    BY <1>1 DEF Given, Prefix
  <1>0. \A k \in 0..m : at[k] \in Nat
    BY <1>2
  <1> DEFINE T == {k \in Nat : k <= m => at[k] >= p /\ (at[k] + 1 <= l => at[k] + 1 \notin E)}
  <1>5. 0 \in T
    <2>1. p + 1 <= l => p + 1 \notin E
      BY <1>2, <1>3
    <2> QED BY <1>2, <2>1
  <1>6. ASSUME NEW k \in Nat, k \in T PROVE k + 1 \in T
    <2> SUFFICES ASSUME k + 1 <= m
                 PROVE  at[k + 1] >= p /\ (at[k + 1] + 1 <= l => at[k + 1] + 1 \notin E)
      OBVIOUS
    <2>1. PICK i \in 1..m : i = k + 1 /\ i - 1 = k /\ k \in 0..m /\ i \in 0..m
      <3>1. k + 1 \in 1..m /\ (k + 1) - 1 = k /\ k \in 0..m /\ k + 1 \in 0..m
        OBVIOUS
      <3> QED BY <3>1
    <2>2. PICK a \in Nat, b \in Nat : a = at[k] /\ b = at[i]
      BY <1>0, <2>1
    <2>3. b = a + (IF v[i] \in Marks THEN 2 ELSE 1)
      BY <1>2, <2>1, <2>2
    <2>4. a >= p /\ (a + 1 <= l => a + 1 \notin E)
      BY <1>6, <2>1, <2>2
    <2>5. b >= p
      BY <1>2, <2>3, <2>4
    <2>6. ASSUME b + 1 <= l PROVE b + 1 \notin E
      <3>1. CASE v[i] \in Marks
        <4>1. b = a + 2 /\ a + 1 \notin E
          BY <2>3, <2>4, <2>6, <3>1
        <4>2. s[a + 1] = Slash
          BY <1>2, <2>1, <2>2, <3>1
        <4>3. r[a + 1] = Slash
          <5>1. a + 1 \in 1..l
            BY <2>6, <4>1
          <5> QED BY <1>4, <4>2, <5>1
        <4>4. a + 2 \in (p + 1)..l /\ a + 2 > p + 1 /\ (a + 2) - 1 = a + 1
          BY <1>2, <2>4, <2>6, <4>1
        <4>5. a + 2 \in E
          BY <1>3, <4>1, <4>3, <4>4
        <4>6. b + 1 \in (p + 1)..l /\ (b + 1) - 1 = a + 2
          BY <1>2, <2>5, <2>6, <4>1
        <4> QED BY <1>3, <4>5, <4>6
      <3>2. CASE v[i] \notin Marks
        <4>1. b = a + 1
          BY <2>3, <3>2
        <4>2. s[b] = v[i] /\ v[i] # Slash
          BY <1>2, <2>1, <2>2, <3>2, <4>1 DEF Marks
        <4>3. r[b] # Slash
          <5>1. b \in 1..l
            BY <2>6, <4>1
          <5> QED BY <1>4, <4>2, <5>1
        <4>4. b + 1 \in (p + 1)..l /\ (b + 1) - 1 = b
          BY <1>2, <2>5, <2>6
        <4> QED BY <1>3, <4>3, <4>4
      <3> QED BY <3>1, <3>2
    <2> QED BY <2>1, <2>2, <2>5, <2>6
  <1>7. \A k \in Nat : k \in T
    <2> HIDE DEF T
    <2> QED BY <1>5, <1>6, Induct
  <1>8. \A k \in 0..m : at[k] >= p /\ (at[k] + 1 <= l => at[k] + 1 \notin E)
    BY <1>7
  <1> QED BY <1>1, <1>8

\* What each token of the text is, and whether it is escaped.
LEMMA TokensOf ==
  ASSUME NEW v, NEW s, NEW r, NEW p, NEW at, NEW q, Given(v, s, r, p, at, q),
         NEW E, EscapedSet(r, p + 1, E),
         NEW i \in 1..Len(v)
  PROVE  /\ at[i - 1] + 1 <= Len(r) =>
               /\ at[i - 1] + 1 \notin E
               /\ r[at[i - 1] + 1] = IF v[i] \in Marks THEN Slash ELSE v[i]
         /\ v[i] \in Marks /\ at[i - 1] + 2 <= Len(r) =>
               at[i - 1] + 2 \in E /\ r[at[i - 1] + 2] = v[i]
  <1>1. PICK m \in Nat, l \in Nat : m = Len(v) /\ l = Len(r) /\ i \in 1..m
    BY LenProperties DEF Given
  <1>2. /\ at \in [0..m -> Nat] /\ p \in Nat
        /\ v[i] \in Marks => s[at[i - 1] + 1] = Slash /\ s[at[i - 1] + 2] = v[i]
        /\ v[i] \notin Marks => s[at[i - 1] + 1] = v[i]
    BY <1>1, Zenon DEF Given, Spelled
  <1>3. \A x \in (p + 1)..l : x \in E <=> x > p + 1 /\ r[x - 1] = Slash /\ x - 1 \notin E
    BY <1>1 DEF EscapedSet
  <1>4. \A x \in 1..l : r[x] = s[x]
    BY <1>1 DEF Given, Prefix
  <1>5. i - 1 \in 0..m /\ i - 1 \in 0..Len(v)
    BY <1>1
  <1>6. PICK a \in Nat : a = at[i - 1]
    BY <1>2, <1>5
  <1>7. a >= p /\ (a + 1 <= l => a + 1 \notin E)
    BY <1>1, <1>5, <1>6, HeadsFree
  <1>8. p <= a
    BY <1>2, <1>7
  <1>9. a + 1 <= l => r[a + 1] = IF v[i] \in Marks THEN Slash ELSE v[i]
    <2>1. a + 1 <= l => a + 1 \in 1..l
      OBVIOUS
    <2> QED BY <1>2, <1>4, <1>6, <2>1
  <1>10. v[i] \in Marks /\ a + 2 <= l => a + 2 \in E /\ r[a + 2] = v[i]
    <2> SUFFICES ASSUME v[i] \in Marks, a + 2 <= l PROVE a + 2 \in E /\ r[a + 2] = v[i]
      OBVIOUS
    <2>1. a + 2 \in (p + 1)..l /\ a + 2 > p + 1 /\ (a + 2) - 1 = a + 1 /\ a + 1 <= l /\ a + 2 \in 1..l
      BY <1>2, <1>8
    <2> QED BY <1>2, <1>3, <1>4, <1>6, <1>7, <1>9, <2>1
  <1> QED BY <1>1, <1>6, <1>7, <1>9, <1>10

\* Escaped, as a set of positions.
LEMMA EscapedIsSet ==
  ASSUME NEW S, NEW s \in Seq(S), NEW p \in Nat \ {0}, p <= Len(s) + 1
  PROVE  \E E : EscapedSet(s, p, E) /\ \A i \in p..Len(s) : Escaped(s, p)[i] <=> i \in E
  BY EscapedIs, Zenon DEF EscapedSet

\* In a text every quote is escaped, and only marks are.
LEMMA QuotesInside ==
  ASSUME NEW v, NEW s, NEW r, NEW p, NEW at, NEW q, Given(v, s, r, p, at, q),
         NEW E, EscapedSet(r, p + 1, E),
         NEW x \in (p + 1)..Len(r), x < q
  PROVE  (r[x] = Quote => x \in E) /\ (x \in E => r[x] \in Marks)
  <1>1. PICK m \in Nat, l \in Nat : m = Len(v) /\ l = Len(r)
    BY LenProperties DEF Given
  <1>2. /\ at \in [0..m -> Nat] /\ p \in Nat /\ q = at[m] + 1
        /\ \A i \in 1..m : at[i] = at[i - 1] + (IF v[i] \in Marks THEN 2 ELSE 1)
        /\ \A y \in (p + 1)..at[m] : \E i \in 1..m : at[i - 1] < y /\ y <= at[i]
    BY <1>1, Zenon DEF Given, Spelled
  <1>3. PICK z \in Nat : z = at[m] /\ x \in (p + 1)..z
    <2>1. at[m] \in Nat /\ x \in Int /\ p + 1 <= x
      BY <1>1, <1>2
    <2> QED BY <1>2, <2>1
  <1>4. PICK i \in 1..m : at[i - 1] < x /\ x <= at[i]
    BY <1>2, <1>3
  <1>5. PICK a \in Nat : a = at[i - 1] /\ at[i] = a + (IF v[i] \in Marks THEN 2 ELSE 1)
    <2>1. i - 1 \in 0..m
      OBVIOUS
    <2> QED BY <1>2, <2>1
  <1>6. i \in 1..Len(v) /\ x <= Len(r)
    BY <1>1
  <1>7. x = a + 1 \/ (x = a + 2 /\ v[i] \in Marks)
    BY <1>3, <1>4, <1>5
  <1>8. CASE x = a + 1
    <2>1. x \notin E /\ r[x] = IF v[i] \in Marks THEN Slash ELSE v[i]
      BY <1>5, <1>6, <1>8, TokensOf
    <2> QED BY <2>1, MarksDiffer DEF Marks
  <1>9. CASE x = a + 2 /\ v[i] \in Marks
    <2>1. x \in E /\ r[x] = v[i]
      BY <1>5, <1>6, <1>9, TokensOf
    <2> QED BY <1>9, <2>1
  <1> QED BY <1>7, <1>8, <1>9

\* The closing quote is not escaped.
LEMMA ClosingQuote ==
  ASSUME NEW v, NEW s, NEW r, NEW p, NEW at, NEW q, Given(v, s, r, p, at, q),
         NEW E, EscapedSet(r, p + 1, E), q <= Len(r)
  PROVE  q \notin E /\ r[q] = Quote /\ q \in (p + 1)..Len(r)
  <1>1. PICK m \in Nat, l \in Nat : m = Len(v) /\ l = Len(r) /\ m \in 0..Len(v)
    BY LenProperties DEF Given
  <1>2. at \in [0..m -> Nat] /\ p \in Nat /\ q = at[m] + 1 /\ s[q] = Quote
    BY <1>1, Zenon DEF Given, Spelled
  <1>3. PICK z \in Nat : z = at[m] /\ q = z + 1
    BY <1>2
  <1>4. z >= p /\ z + 1 \notin E
    BY <1>1, <1>3, HeadsFree
  <1>5. q \in 1..l /\ q \in (p + 1)..l
    BY <1>1, <1>2, <1>3, <1>4
  <1>6. \A x \in 1..l : r[x] = s[x]
    BY <1>1 DEF Given, Prefix
  <1> QED BY <1>1, <1>2, <1>3, <1>4, <1>5, <1>6

\* The first tokens of a text.
Begins(t, v, k) == t \in Seq(Alphabet) /\ Len(t) = k /\ \A i \in 1..k : t[i] = v[i]

\* One character more of a text.
LEMMA BeginsNext ==
  ASSUME NEW v \in Seq(Alphabet), NEW k \in Nat, k + 1 <= Len(v), NEW t, Begins(t, v, k)
  PROVE  Begins(t \o <<v[k + 1]>>, v, k + 1)
  <1>1. k + 1 \in 1..Len(v)
    BY LenProperties
  <1>2. PICK c \in Alphabet : c = v[k + 1]
    BY <1>1, ElementOfSeq
  <1>3. <<c>> \in Seq(Alphabet) /\ Len(<<c>>) = 1 /\ <<c>>[1] = c
    OBVIOUS
  <1>4. t \in Seq(Alphabet) /\ Len(t) = k /\ \A i \in 1..k : t[i] = v[i]
    BY DEF Begins
  <1>5. PICK w : w = t \o <<c>>
    OBVIOUS
  <1>6. /\ w \in Seq(Alphabet) /\ Len(w) = k + 1
        /\ \A i \in 1..(k + 1) : w[i] = IF i <= k THEN t[i] ELSE <<c>>[i - k]
    BY <1>3, <1>4, <1>5, ConcatProperties
  <1>7. \A i \in 1..(k + 1) : w[i] = v[i]
    <2> SUFFICES ASSUME NEW i \in 1..(k + 1) PROVE w[i] = v[i]
      OBVIOUS
    <2>1. CASE i <= k
      BY <1>4, <1>6, <2>1
    <2>2. CASE ~(i <= k)
      <3>1. i = k + 1 /\ i - k = 1
        BY <2>2
      <3> QED BY <1>2, <1>3, <1>6, <2>2, <3>1
    <2> QED BY <2>1, <2>2
  <1> QED BY <1>2, <1>5, <1>6, <1>7 DEF Begins

\* What string_value makes of the tokens between the quotes.
Piece(r, E, x) == IF x \in E THEN <<Unescape[r[x]]>> ELSE IF r[x] = Slash THEN <<>> ELSE <<r[x]>>

\* What string_value makes of the one or two tokens of a character is that character
\* (lines 107-128).
LEMMA PiecesOf ==
  ASSUME NEW v, NEW s, NEW r, NEW p, NEW at, NEW q, Given(v, s, r, p, at, q),
         NEW E, EscapedSet(r, p + 1, E), q <= Len(r),
         NEW i \in 1..Len(v)
  PROVE  /\ v[i] \notin Marks => Piece(r, E, at[i - 1] + 1) = <<v[i]>>
         /\ v[i] \in Marks => /\ Piece(r, E, at[i - 1] + 1) = <<>>
                              /\ Piece(r, E, at[i - 1] + 2) = <<v[i]>>
  <1>1. PICK m \in Nat, l \in Nat : m = Len(v) /\ l = Len(r) /\ i \in 1..m
    BY LenProperties DEF Given
  <1>2. /\ at \in [0..m -> Nat] /\ q = at[m] + 1
        /\ at[i] = at[i - 1] + (IF v[i] \in Marks THEN 2 ELSE 1) /\ at[i] <= at[m]
    BY <1>1, Zenon DEF Given, Spelled
  <1>3. PICK a \in Nat, b \in Nat, z \in Nat :
            a = at[i - 1] /\ b = at[i] /\ z = at[m] /\ b <= z /\ z + 1 <= l
    <2>1. i - 1 \in 0..m /\ i \in 0..m /\ m \in 0..m
      BY <1>1
    <2> QED BY <1>1, <1>2, <2>1
  <1>4. b = a + (IF v[i] \in Marks THEN 2 ELSE 1)
    BY <1>2, <1>3
  <1>5. a + 1 <= l /\ (v[i] \in Marks => a + 2 <= l)
    <2>1. b <= z /\ z + 1 <= l
      BY <1>3
    <2> QED BY <1>4, <2>1
  <1>6. /\ a + 1 \notin E /\ r[a + 1] = IF v[i] \in Marks THEN Slash ELSE v[i]
        /\ v[i] \in Marks => a + 2 \in E /\ r[a + 2] = v[i]
    <2>1. a = at[i - 1] /\ l = Len(r) /\ i \in 1..Len(v)
      BY <1>1, <1>3
    <2>2. /\ a + 1 <= l => a + 1 \notin E /\ r[a + 1] = IF v[i] \in Marks THEN Slash ELSE v[i]
          /\ v[i] \in Marks /\ a + 2 <= l => a + 2 \in E /\ r[a + 2] = v[i]
      <3>1. /\ at[i - 1] + 1 <= Len(r) =>
                  /\ at[i - 1] + 1 \notin E
                  /\ r[at[i - 1] + 1] = IF v[i] \in Marks THEN Slash ELSE v[i]
            /\ v[i] \in Marks /\ at[i - 1] + 2 <= Len(r) =>
                  at[i - 1] + 2 \in E /\ r[at[i - 1] + 2] = v[i]
        BY TokensOf
      <3> QED BY <2>1, <3>1
    <2> QED BY <1>5, <2>2, Zenon
  <1>7. v[i] \in Marks => Unescape[v[i]] = v[i]
    BY DEF Unescape, Marks
  <1>8. v[i] \notin Marks => Piece(r, E, a + 1) = <<v[i]>>
    BY <1>6 DEF Piece, Marks
  <1>9. v[i] \in Marks => Piece(r, E, a + 1) = <<>> /\ Piece(r, E, a + 2) = <<v[i]>>
    BY <1>6, <1>7 DEF Piece
  <1> QED BY <1>3, <1>8, <1>9

\* Up to the closing quote string_value's result is the text (lines 106-128).
LEMMA ContentIs ==
  ASSUME NEW v, NEW s, NEW r, NEW p, NEW at, NEW q, Given(v, s, r, p, at, q),
         NEW E, EscapedSet(r, p + 1, E), q <= Len(r),
         \A i \in (p + 1)..Len(r) : Escaped(r, p + 1)[i] <=> i \in E
  PROVE  Content(r, p + 1, q, Escaped(r, p + 1)) = v
  <1>1. PICK m \in Nat, l \in Nat : m = Len(v) /\ l = Len(r)
    BY LenProperties DEF Given
  <1>2. /\ at \in [0..m -> Nat] /\ at[0] = p /\ p \in Nat /\ q = at[m] + 1
        /\ \A i \in 1..m : at[i] = at[i - 1] + (IF v[i] \in Marks THEN 2 ELSE 1) /\ at[i] <= at[m]
    BY <1>1, Zenon DEF Given, Spelled
  <1>3. PICK z \in Nat : z = at[m] /\ q = z + 1 /\ z + 1 <= l
    <2>1. at[m] \in Nat
      BY <1>2
    <2> QED BY <1>1, <1>2, <2>1
  <1>4. z >= p
    <2>1. m \in 0..Len(v)
      BY <1>1
    <2> QED BY <1>3, <2>1, HeadsFree
  <1>5. PICK n \in Nat : n = z - p /\ z = p + n
    <2>1. z - p \in Nat /\ z = p + (z - p)
      BY <1>2, <1>4
    <2> QED BY <2>1
  <1>6. PICK f : f = [j \in 1..n |-> Piece(r, E, p + j)]
    OBVIOUS
  <1>7. ASSUME NEW j \in 1..n PROVE p + j \in (p + 1)..l /\ p + j < q /\ p + j \in 1..l
    <2>1. z + 1 <= l /\ q = z + 1
      BY <1>3
    <2> QED BY <1>2, <1>5, <2>1
  <1>8. ASSUME NEW j \in 1..n PROVE f[j] \in Seq(Alphabet)
    <2>1. PICK x : x = p + j /\ x \in (p + 1)..Len(r) /\ x < q /\ x \in 1..Len(r)
      BY <1>1, <1>7
    <2>2. r[x] \in Alphabet
      BY <2>1, ElementOfSeq DEF Given
    <2>3. x \in E => r[x] \in Marks
      BY <2>1, QuotesInside
    <2>4. x \in E => Unescape[r[x]] = r[x]
      BY <2>3 DEF Unescape, Marks
    <2>5. <<r[x]>> \in Seq(Alphabet) /\ <<>> \in Seq(Alphabet)
      BY <2>2
    <2>6. Piece(r, E, x) \in Seq(Alphabet)
      BY <2>4, <2>5 DEF Piece
    <2> QED BY <1>6, <2>1, <2>6
  <1>9. f \in [1..n -> Seq(Alphabet)]
    BY <1>6, <1>8
  <1>10. Content(r, p + 1, q, Escaped(r, p + 1)) = FlattenSeq(f)
    <2>1. q - (p + 1) = n
      <3>1. q = z + 1
        BY <1>3
      <3> QED BY <1>2, <1>5, <3>1
    <2>2. \A j \in 1..n : (p + 1) + j - 1 = p + j
      BY <1>2
    <2>3. \A j \in 1..n :
              (IF Escaped(r, p + 1)[(p + 1) + j - 1] THEN <<Unescape[r[(p + 1) + j - 1]]>>
               ELSE IF r[(p + 1) + j - 1] = Slash THEN <<>> ELSE <<r[(p + 1) + j - 1]>>)
              = Piece(r, E, p + j)
      <3> SUFFICES ASSUME NEW j \in 1..n
                   PROVE  (IF Escaped(r, p + 1)[(p + 1) + j - 1] THEN <<Unescape[r[(p + 1) + j - 1]]>>
                           ELSE IF r[(p + 1) + j - 1] = Slash THEN <<>> ELSE <<r[(p + 1) + j - 1]>>)
                          = Piece(r, E, p + j)
        OBVIOUS
      <3>1. PICK x : x = p + j /\ x = (p + 1) + j - 1
        BY <2>2
      <3>2. Escaped(r, p + 1)[x] <=> x \in E
        BY <1>1, <1>7, <3>1
      <3>3. (IF Escaped(r, p + 1)[x] THEN <<Unescape[r[x]]>>
             ELSE IF r[x] = Slash THEN <<>> ELSE <<r[x]>>) = Piece(r, E, x)
        BY <3>2, Zenon DEF Piece
      <3> QED BY <3>1, <3>3, Zenon
    <2>4. Content(r, p + 1, q, Escaped(r, p + 1))
            = FlattenSeq([j \in 1..n |-> Piece(r, E, p + j)])
      BY <2>1, <2>3, Zenon DEF Content
    <2> QED BY <1>6, <2>4
  <1>11. PICK g : Parts(Alphabet, n, f, g)
    BY <1>9, FlattenIs
  <1>12. /\ g \in [0..n -> Seq(Alphabet)] /\ g[0] = <<>>
         /\ \A i \in 1..n : g[i] = g[i - 1] \o f[i]
    BY <1>11 DEF Parts
  <1>13. v \in Seq(Alphabet)
    BY DEF Given
  <1> DEFINE T == {k \in Nat : k <= m => \A d \in 0..n : at[k] = p + d => Begins(g[d], v, k)}
  <1>14. 0 \in T
    <2>1. Begins(<<>>, v, 0)
      BY DEF Begins
    <2>2. \A d \in 0..n : at[0] = p + d => d = 0
      BY <1>2
    <2> QED BY <1>12, <2>1, <2>2
  <1>15. ASSUME NEW k \in Nat, k \in T PROVE k + 1 \in T
    <2> SUFFICES ASSUME k + 1 <= m, NEW d \in 0..n, at[k + 1] = p + d
                 PROVE  Begins(g[d], v, k + 1)
      OBVIOUS
    <2>1. PICK i \in 1..Len(v) : i = k + 1 /\ i - 1 = k
      <3>1. k + 1 \in 1..m /\ (k + 1) - 1 = k
        OBVIOUS
      <3> QED BY <1>1, <3>1
    <2>2. k \in 0..m /\ k \in 0..Len(v) /\ k <= m
      BY <1>1
    <2>3. PICK a \in Nat : a = at[k]
      BY <1>2, <2>2
    <2>4. a >= p
      BY <2>2, <2>3, HeadsFree
    <2>5. p + d = a + (IF v[i] \in Marks THEN 2 ELSE 1)
      BY <1>1, <1>2, <2>1, <2>3
    <2>6. PICK c \in 0..n : a = p + c /\ d = c + (IF v[i] \in Marks THEN 2 ELSE 1)
      <3>1. a - p \in 0..n /\ a = p + (a - p) /\ d = (a - p) + (IF v[i] \in Marks THEN 2 ELSE 1)
        BY <1>2, <2>4, <2>5
      <3> QED BY <3>1
    <2>7. Begins(g[c], v, k)
      BY <1>15, <2>2, <2>3, <2>6
    <2>8. g[c] \in Seq(Alphabet)
      BY <1>12
    <2>9. /\ v[i] \notin Marks => Piece(r, E, a + 1) = <<v[i]>>
          /\ v[i] \in Marks => Piece(r, E, a + 1) = <<>> /\ Piece(r, E, a + 2) = <<v[i]>>
      BY <2>1, <2>3, PiecesOf
    <2>10. Begins(g[c] \o <<v[i]>>, v, k + 1)
      BY <1>1, <1>13, <2>1, <2>7, BeginsNext
    <2>11. CASE v[i] \notin Marks
      <3>1. d = c + 1 /\ d \in 1..n /\ d - 1 = c /\ p + d = a + 1
        BY <1>2, <2>6, <2>11
      <3>2. g[d] = g[c] \o f[d]
        BY <1>12, <3>1
      <3>3. f[d] = <<v[i]>>
        BY <1>6, <2>9, <2>11, <3>1
      <3> QED BY <2>10, <3>2, <3>3
    <2>12. CASE v[i] \in Marks
      <3>1. PICK e \in 1..n : e = c + 1 /\ e - 1 = c /\ p + e = a + 1
        <4>1. c + 1 \in 1..n /\ (c + 1) - 1 = c /\ p + (c + 1) = a + 1
          BY <1>2, <2>6, <2>12
        <4> QED BY <4>1
      <3>2. d \in 1..n /\ d - 1 = e /\ p + d = a + 2
        BY <1>2, <2>6, <2>12, <3>1
      <3>3. g[e] = g[c] \o f[e] /\ g[d] = g[e] \o f[d]
        BY <1>12, <3>1, <3>2
      <3>4. f[e] = <<>> /\ f[d] = <<v[i]>>
        BY <1>6, <2>9, <2>12, <3>1, <3>2
      <3>5. g[e] = g[c]
        BY <2>8, <3>3, <3>4, ConcatEmptySeq
      <3> QED BY <2>10, <3>3, <3>4, <3>5
    <2> QED BY <2>11, <2>12
  <1>16. \A k \in Nat : k \in T
    <2> HIDE DEF T
    <2> QED BY <1>14, <1>15, Induct
  <1>17. Begins(g[n], v, m)
    <2>1. n \in 0..n /\ m <= m /\ at[m] = p + n
      BY <1>3, <1>5
    <2> QED BY <1>16, <2>1
  <1>18. g[n] = v
    BY <1>1, <1>13, <1>17, SeqEqual DEF Begins
  <1> QED BY <1>10, <1>11, <1>18 DEF Parts

\* The least of a set of integers is its Min.
LEMMA MinIs ==
  ASSUME NEW S \in SUBSET Int, NEW x \in S, \A y \in S : x <= y
  PROVE  Min(S) = x /\ First(S) = {x}
  <1>1. \A z \in S : (\A y \in S : z <= y) => z = x
    OBVIOUS
  <1>2. Min(S) = x
    BY <1>1 DEF Min
  <1> QED BY <1>2 DEF First

\* What string_value reads in any part of an object that has the opening quote: the
\* value, as soon as the part has the closing quote too.
LEMMA ReadsBack ==
  ASSUME NEW v, NEW s, NEW r, NEW p, NEW at, NEW q, Given(v, s, r, p, at, q)
  PROVE  StringFrom(r, p + 1, Escaped(r, p + 1)) = IF q <= Len(r) THEN {v} ELSE {}
  <1>1. PICK l \in Nat : l = Len(r) /\ p \in Nat \ {0} /\ p <= l /\ r \in Seq(Alphabet)
    BY LenProperties DEF Given
  <1>2. PICK E : EscapedSet(r, p + 1, E) /\ \A i \in (p + 1)..l : Escaped(r, p + 1)[i] <=> i \in E
    <2>1. p + 1 \in Nat \ {0} /\ p + 1 <= l + 1
      BY <1>1
    <2> QED BY <1>1, <2>1, EscapedIsSet
  <1> DEFINE U == {i \in (p + 1)..Len(r) : r[i] = Quote /\ ~Escaped(r, p + 1)[i]}
             ok(x) == \A i \in (p + 1)..(x - 1) : Escaped(r, p + 1)[i] => r[i] \in DOMAIN Unescape
  <1>3. StringFrom(r, p + 1, Escaped(r, p + 1))
          = {Content(r, p + 1, x, Escaped(r, p + 1)) : x \in {x \in First(U) : ok(x)}}
    BY Zenon DEF StringFrom
  <1>4. \A x \in U : x \in (p + 1)..l /\ r[x] = Quote /\ x \notin E
    BY <1>1, <1>2
  <1>5. q \in Nat
    <2>1. Len(v) \in Nat
      BY LenProperties DEF Given
    <2>2. at \in [0..Len(v) -> Nat] /\ q = at[Len(v)] + 1
      BY DEF Given, Spelled
    <2> QED BY <2>1, <2>2
  <1>6. \A x \in U : q <= x
    <2> SUFFICES ASSUME NEW x \in U, x < q PROVE FALSE
      BY <1>1, <1>4, <1>5
    <2>1. x \in (p + 1)..Len(r) /\ r[x] = Quote /\ x \notin E
      BY <1>1, <1>4
    <2>2. EscapedSet(r, p + 1, E)
      BY <1>2
    <2> HIDE DEF U
    <2> QED BY <2>1, <2>2, QuotesInside
  <1>7. CASE q <= Len(r)
    <2>1. q \notin E /\ r[q] = Quote /\ q \in (p + 1)..l
      BY <1>1, <1>2, <1>7, ClosingQuote
    <2>2. q \in U
      BY <1>1, <1>2, <2>1
    <2>3. First(U) = {q}
      <3>1. U \in SUBSET Int
        BY <1>1
      <3> HIDE DEF U
      <3> QED BY <1>6, <2>2, <3>1, MinIs
    <2>4. ok(q)
      <3> SUFFICES ASSUME NEW i \in (p + 1)..(q - 1), Escaped(r, p + 1)[i] PROVE r[i] \in DOMAIN Unescape
        OBVIOUS
      <3>1. i \in (p + 1)..Len(r) /\ i < q /\ i \in (p + 1)..l
        BY <1>1, <2>1
      <3>2. i \in E
        BY <1>2, <3>1
      <3>3. r[i] \in Marks
        BY <1>2, <3>1, <3>2, QuotesInside
      <3> QED BY <3>3 DEF Marks, Unescape
    <2>5. Content(r, p + 1, q, Escaped(r, p + 1)) = v
      BY <1>1, <1>2, <1>7, ContentIs
    <2>6. {x \in First(U) : ok(x)} = {q}
      <3> HIDE DEF U, ok
      <3> QED BY <2>3, <2>4
    <2> HIDE DEF U, ok
    <2> QED BY <1>3, <1>7, <2>5, <2>6
  <1>8. CASE ~(q <= Len(r))
    <2>1. U = {}
      BY <1>1, <1>4, <1>5, <1>6, <1>8
    <2>2. {x \in First(U) : ok(x)} = {}
      <3> HIDE DEF U, ok
      <3> QED BY <2>1 DEF First
    <2> HIDE DEF U, ok
    <2> QED BY <1>3, <1>8, <2>2
  <1> QED BY <1>7, <1>8

\* A sequence over a set is one over a larger set.
LEMMA SeqWider ==
  ASSUME NEW A, NEW B, A \subseteq B, NEW t \in Seq(A)
  PROVE  t \in Seq(B)
  <1>1. Len(t) \in Nat /\ DOMAIN t = 1..Len(t) /\ \A i \in 1..Len(t) : t[i] \in B
    BY LenProperties, ElementOfSeq
  <1>2. t \in [1..Len(t) -> A]
    BY LenProperties
  <1>3. t \in [1..Len(t) -> B]
    BY <1>2
  <1> QED BY <1>1, <1>3, SeqDef

Joins(S, a, x, b, y, t) ==
    a \in Seq(S) /\ b \in Seq(S) /\ x = Len(a) /\ y = Len(b) /\ t = a \o b

\* Where the tokens of two joined sequences are.
LEMMA Joined ==
  ASSUME NEW S, NEW a, NEW x, NEW b, NEW y, NEW t, Joins(S, a, x, b, y, t)
  PROVE  /\ t \in Seq(S) /\ Len(t) = x + y
         /\ \A i \in 1..x : t[i] = a[i]
         /\ \A i \in 1..y : t[i + x] = b[i]
  <1>1. a \in Seq(S) /\ b \in Seq(S) /\ x = Len(a) /\ y = Len(b) /\ t = a \o b
    BY DEF Joins
  <1>2. x \in Nat /\ y \in Nat
    BY <1>1, LenProperties
  <1>3. /\ t \in Seq(S) /\ Len(t) = x + y
        /\ \A i \in 1..(x + y) : t[i] = IF i <= x THEN a[i] ELSE b[i - x]
    BY <1>1, ConcatProperties
  <1>4. \A i \in 1..x : t[i] = a[i]
    <2>1. \A i \in 1..x : i \in 1..(x + y) /\ i <= x
      BY <1>2
    <2> QED BY <1>3, <2>1
  <1>5. \A i \in 1..y : t[i + x] = b[i]
    <2>1. \A i \in 1..y : i + x \in 1..(x + y) /\ ~(i + x <= x) /\ (i + x) - x = i
      BY <1>2
    <2> QED BY <1>3, <2>1
  <1> QED BY <1>3, <1>4, <1>5

\* The tokens that a client writes.
LEMMA AlphabetHas ==
  /\ Marks \subseteq Alphabet /\ Punctuation \subseteq Alphabet
  /\ ToSet(Digits) \subseteq Alphabet /\ STRING \subseteq Alphabet /\ Words \subseteq Alphabet
  BY DEF Alphabet, Words

QuotedText(v) == <<Quote>> \o EscapedText(v) \o <<Quote>>

\* What follows the space of a field.
ValueTokens(field) ==
    IF field.kind = "number" THEN field.value
    ELSE QuotedText(field.value)

Enclosed(a, u, z) == <<a>> \o u \o <<z>>

Encloses(t, a, u, k, z) ==
    u \in Seq(Alphabet) /\ k = Len(u) /\ {a, z} \subseteq Alphabet /\ t = Enclosed(a, u, z)

\* Where the tokens of a sequence between two tokens are.
LEMMA EnclosedIs ==
  ASSUME NEW t, NEW a, NEW u, NEW k, NEW z, Encloses(t, a, u, k, z)
  PROVE  /\ t \in Seq(Alphabet) /\ Len(t) = k + 2 /\ t[1] = a /\ t[k + 2] = z
         /\ \A j \in 1..k : t[j + 1] = u[j]
  <1>0. u \in Seq(Alphabet) /\ k = Len(u) /\ a \in Alphabet /\ z \in Alphabet /\ t = Enclosed(a, u, z)
    BY DEF Encloses
  <1>1. k \in Nat
    BY <1>0, LenProperties
  <1>2. PICK first, last : first = <<a>> /\ last = <<z>>
    OBVIOUS
  <1>3. /\ first \in Seq(Alphabet) /\ Len(first) = 1 /\ first[1] = a
        /\ last \in Seq(Alphabet) /\ Len(last) = 1 /\ last[1] = z
    BY <1>0, <1>2
  <1>4. PICK w : w = first \o u
    OBVIOUS
  <1>5. w \in Seq(Alphabet) /\ Len(w) = 1 + k /\ w[1] = a /\ \A i \in 1..k : w[i + 1] = u[i]
    <2>0. PICK x, y : x = 1 /\ y = k
      OBVIOUS
    <2>1. Joins(Alphabet, first, x, u, y, w)
      BY <1>0, <1>3, <1>4, <2>0 DEF Joins
    <2>2. w \in Seq(Alphabet) /\ Len(w) = x + y
      BY <2>1, Joined
    <2>3. \A i \in 1..x : w[i] = first[i]
      BY <2>1, Joined
    <2>4. \A i \in 1..y : w[i + x] = u[i]
      BY <2>1, Joined
    <2> QED BY <1>3, <2>0, <2>2, <2>3, <2>4
  <1>6. t = w \o last
    BY <1>0, <1>2, <1>4 DEF Enclosed
  <1>7. /\ t \in Seq(Alphabet) /\ Len(t) = (1 + k) + 1 /\ t[1 + (1 + k)] = z
        /\ \A i \in 1..(1 + k) : t[i] = w[i]
    <2>0. PICK x, y : x = 1 + k /\ y = 1
      OBVIOUS
    <2>1. Joins(Alphabet, w, x, last, y, t)
      BY <1>3, <1>5, <1>6, <2>0 DEF Joins
    <2>2. t \in Seq(Alphabet) /\ Len(t) = x + y
      BY <2>1, Joined
    <2>3. \A i \in 1..x : t[i] = w[i]
      BY <2>1, Joined
    <2>4. \A i \in 1..y : t[i + x] = last[i]
      BY <2>1, Joined
    <2> QED BY <1>3, <2>0, <2>2, <2>3, <2>4
  <1>8. t[1] = a
    <2>1. 1 \in 1..(1 + k)
      BY <1>1
    <2> QED BY <1>5, <1>7, <2>1
  <1>9. t[k + 2] = z
    <2>1. 1 + (1 + k) = k + 2
      BY <1>1
    <2> QED BY <1>7, <2>1
  <1>10. ASSUME NEW j \in 1..k PROVE t[j + 1] = u[j]
    <2>1. j + 1 \in 1..(1 + k)
      BY <1>1
    <2> QED BY <1>5, <1>7, <2>1
  <1>11. (1 + k) + 1 = k + 2
    BY <1>1
  <1> QED BY <1>7, <1>8, <1>9, <1>10, <1>11

\* An escaped text is made of the client's tokens.
LEMMA EscapedTextIs ==
  ASSUME NEW v \in Seq(Alphabet)
  PROVE  EscapedText(v) \in Seq(Alphabet)
  <1>1. PICK u : u = EscapedText(v)
    OBVIOUS
  <1> DEFINE few == 1..Len(EscapedText(v))
  <1>2. \A x \in few : u[0 + x] = EscapedText(v)[x]
    <2>1. \A x \in few : 0 + x = x
      OBVIOUS
    <2> HIDE DEF few
    <2> QED BY <1>1, <2>1
  <1>3. Behind(EscapedText(v), u, 0)
    BY <1>2 DEF Behind
  <1> QED BY <1>3, SpelledIs

\* A text between its quotes.
LEMMA TextTokens ==
  ASSUME NEW v \in Seq(Alphabet), NEW t, t = QuotedText(v)
  PROVE  /\ EscapedText(v) \in Seq(Alphabet) /\ t \in Seq(Alphabet)
         /\ Len(t) = Len(EscapedText(v)) + 2 /\ t[1] = Quote /\ t[Len(EscapedText(v)) + 2] = Quote
         /\ \A j \in 1..Len(EscapedText(v)) : t[j + 1] = EscapedText(v)[j]
  <1>1. PICK u : u = EscapedText(v) /\ u \in Seq(Alphabet)
    BY EscapedTextIs
  <1>2. t = Enclosed(Quote, u, Quote)
    BY <1>1 DEF QuotedText, Enclosed
  <1>3. Quote \in Alphabet
    BY AlphabetHas DEF Marks
  <1>4. PICK a, k : a = Quote /\ k = Len(u)
    OBVIOUS
  <1>5. /\ t \in Seq(Alphabet) /\ Len(t) = k + 2 /\ t[1] = a /\ t[k + 2] = a
        /\ \A j \in 1..k : t[j + 1] = u[j]
    <2>1. Encloses(t, a, u, k, a)
      BY <1>1, <1>2, <1>3, <1>4 DEF Encloses
    <2>2. t \in Seq(Alphabet) /\ Len(t) = k + 2 /\ t[1] = a /\ t[k + 2] = a
      BY <2>1, EnclosedIs
    <2>3. \A j \in 1..k : t[j + 1] = u[j]
      BY <2>1, EnclosedIs
    <2> QED BY <2>2, <2>3
  <1> QED BY <1>1, <1>4, <1>5

Fields == Number \cup Text

\* What a field is made of.
LEMMA FieldIs ==
  ASSUME NEW field \in Fields
  PROVE  /\ field.key \in Words /\ field.value \in Seq(Alphabet)
         /\ \/ field.kind = "number" /\ field.value \in Seq(ToSet(Digits)) /\ field.value # <<>>
            \/ field.kind = "string"
  <1>1. CASE field \in Number
    <2>1. field.key \in Words /\ field.kind = "number" /\ field.value \in Seq(ToSet(Digits)) \ {<<>>}
      BY <1>1 DEF Number
    <2>2. field.value \in Seq(Alphabet)
      BY <2>1, AlphabetHas, SeqWider
    <2> QED BY <2>1, <2>2
  <1>2. CASE field \in Text
    <2>1. field.key \in Words /\ field.kind = "string" /\ field.value \in Seq(STRING)
      BY <1>2 DEF Text
    <2>2. field.value \in Seq(Alphabet)
      BY <2>1, AlphabetHas, SeqWider
    <2> QED BY <2>1, <2>2
  <1> QED BY <1>1, <1>2 DEF Fields

\* A value is written with at least one token.
LEMMA ValueTokensIs ==
  ASSUME NEW field \in Fields
  PROVE  /\ ValueTokens(field) \in Seq(Alphabet)
         /\ Len(ValueTokens(field)) \in Nat \ {0}
  <1>1. CASE field.kind = "number"
    <2>1. field.value \in Seq(Alphabet) /\ field.value # <<>>
      BY <1>1, FieldIs
    <2>2. Len(field.value) \in Nat \ {0}
      BY <2>1, LenProperties, EmptySeq
    <2> QED BY <1>1, <2>1, <2>2 DEF ValueTokens
  <1>2. CASE field.kind # "number"
    <2>1. PICK t : t = QuotedText(field.value)
      OBVIOUS
    <2>2. t \in Seq(Alphabet) /\ Len(t) = Len(EscapedText(field.value)) + 2 /\ EscapedText(field.value) \in Seq(Alphabet)
      BY <2>1, FieldIs, TextTokens
    <2>3. Len(EscapedText(field.value)) \in Nat
      BY <2>2, LenProperties
    <2> QED BY <1>2, <2>1, <2>2, <2>3 DEF ValueTokens
  <1> QED BY <1>1, <1>2

\* A field: its name between quotes, a colon, a space and its value.
LEMMA MemberIs ==
  ASSUME NEW field \in Fields
  PROVE  /\ Member(field) \in Seq(Alphabet)
         /\ Len(Member(field)) = Len(ValueTokens(field)) + 5
         /\ Member(field)[1] = Quote /\ Member(field)[2] = field.key /\ Member(field)[3] = Quote
         /\ Member(field)[4] = Colon /\ Member(field)[5] = Space
         /\ \A j \in 1..Len(ValueTokens(field)) : Member(field)[j + 5] = ValueTokens(field)[j]
  <1>1. PICK c \in Seq(Alphabet), k \in Nat : c = ValueTokens(field) /\ k = Len(c)
    BY ValueTokensIs, LenProperties
  <1>2. PICK a \in Alphabet, b \in Alphabet, d \in Alphabet, e \in Alphabet :
            a = Quote /\ b = field.key /\ d = Colon /\ e = Space
    <2>1. field.key \in Alphabet
      BY AlphabetHas, FieldIs
    <2>2. Quote \in Alphabet /\ Colon \in Alphabet /\ Space \in Alphabet
      BY AlphabetHas DEF Marks, Punctuation
    <2> QED BY <2>1, <2>2
  <1>3. PICK h : h = <<a, b, a, d, e>>
    OBVIOUS
  <1>4. h \in Seq(Alphabet) /\ Len(h) = 5 /\ h[1] = a /\ h[2] = b /\ h[3] = a /\ h[4] = d /\ h[5] = e
    BY <1>3
  <1>5. PICK t : t = h \o c
    OBVIOUS
  <1>6. /\ t \in Seq(Alphabet) /\ Len(t) = 5 + k
        /\ \A i \in 1..5 : t[i] = h[i]
        /\ \A i \in 1..k : t[i + 5] = c[i]
    <2>0. PICK x, y : x = 5 /\ y = k
      OBVIOUS
    <2>1. Joins(Alphabet, h, x, c, y, t)
      BY <1>1, <1>4, <1>5, <2>0 DEF Joins
    <2>2. t \in Seq(Alphabet) /\ Len(t) = x + y
      BY <2>1, Joined
    <2>3. \A i \in 1..x : t[i] = h[i]
      BY <2>1, Joined
    <2>4. \A i \in 1..y : t[i + x] = c[i]
      BY <2>1, Joined
    <2> QED BY <2>0, <2>2, <2>3, <2>4
  <1>7. Member(field) = t
    BY <1>1, <1>2, <1>3, <1>5, Zenon DEF Member, ValueTokens, EscapedText, QuotedText, Colon, Space
  <1>8. t[1] = a /\ t[2] = b /\ t[3] = a /\ t[4] = d /\ t[5] = e
    <2>1. 1 \in 1..5 /\ 2 \in 1..5 /\ 3 \in 1..5 /\ 4 \in 1..5 /\ 5 \in 1..5
      OBVIOUS
    <2> QED BY <1>4, <1>6, <2>1
  <1>9. \A j \in 1..k : t[j + 5] = c[j]
    BY <1>6
  <1>10. Len(t) = k + 5
    BY <1>6
  <1> QED BY <1>1, <1>2, <1>6, <1>7, <1>8, <1>9, <1>10

\* A field between b and e.
FieldIn(s, field, b, e) ==
    /\ b \in Nat \ {0} /\ e \in Nat /\ e = (b + 4) + Len(ValueTokens(field)) /\ e < Len(s)
    /\ s[b] = Quote /\ s[b + 1] = field.key /\ s[b + 2] = Quote /\ s[b + 3] = Colon /\ s[b + 4] = Space
    /\ Behind(ValueTokens(field), s, b + 4)
    /\ s[e + 1] \in {Comma, Brace}

Located(o, b, e, x) == \E i \in DOMAIN o : b[i] <= x /\ x <= e[i]

\* Where an object's fields are; the rest of it is punctuation.
Layout(s, o, b, e) ==
    /\ s \in Seq(Alphabet) /\ o \in Seq(Fields)
    /\ b \in [DOMAIN o -> Nat] /\ e \in [DOMAIN o -> Nat]
    /\ \A i \in DOMAIN o : FieldIn(s, o[i], b[i], e[i])
    /\ \A i, j \in DOMAIN o : i < j => e[i] < b[j]
    /\ \A x \in 1..Len(s) : s[x] \in {Open, Comma, Brace} \/ Located(o, b, e, x)

\* A member of the list between the braces: all but the first behind a comma.
Listed(o, i) == IF i = 1 THEN Member(o[i]) ELSE <<Comma>> \o Member(o[i])
Before(i) == IF i = 1 THEN 0 ELSE 1

Lists(o, i, t, d, c, k) ==
    /\ o \in Seq(Fields) /\ i \in 1..Len(o)
    /\ t = Listed(o, i) /\ d = Before(i) /\ c = ValueTokens(o[i]) /\ k = Len(c)

\* A member of the list, behind its comma if it is not the first.
LEMMA ListedIs ==
  ASSUME NEW o, NEW i, NEW t, NEW d, NEW c, NEW k, Lists(o, i, t, d, c, k)
  PROVE  /\ t \in Seq(Alphabet) /\ k \in Nat \ {0}
         /\ Len(t) = d + (k + 5)
         /\ i \in {1} \/ t[1] = Comma
         /\ t[d + 1] = Quote /\ t[d + 2] = o[i].key /\ t[d + 3] = Quote
         /\ t[d + 4] = Colon /\ t[d + 5] = Space
         /\ \A j \in 1..k : t[d + (j + 5)] = c[j]
  <1>a. /\ o \in Seq(Fields) /\ i \in 1..Len(o)
        /\ t = Listed(o, i) /\ d = Before(i) /\ c = ValueTokens(o[i]) /\ k = Len(c)
    BY DEF Lists
  <1>1. o[i] \in Fields
    BY <1>a, ElementOfSeq
  <1>0. PICK w : w = Member(o[i])
    OBVIOUS
  <1>2. k \in Nat \ {0}
    BY <1>a, <1>1, ValueTokensIs
  <1>3. /\ w \in Seq(Alphabet) /\ Len(w) = k + 5
        /\ w[1] = Quote /\ w[2] = o[i].key /\ w[3] = Quote /\ w[4] = Colon /\ w[5] = Space
        /\ \A j \in 1..k : w[j + 5] = c[j]
    BY <1>a, <1>0, <1>1, MemberIs
  <1>4. CASE i = 1
    <2>1. d = 0 /\ t = w
      BY <1>a, <1>0, <1>4 DEF Before, Listed
    <2>2. d + 1 = 1 /\ d + 2 = 2 /\ d + 3 = 3 /\ d + 4 = 4 /\ d + 5 = 5 /\ d + (k + 5) = k + 5 /\ d # 1
      BY <1>2, <2>1
    <2>3. \A j \in 1..k : w[d + (j + 5)] = c[j]
      <3>1. \A j \in 1..k : d + (j + 5) = j + 5
        BY <1>2, <2>1
      <3> QED BY <1>3, <3>1
    <2>4. w[d + 1] = Quote /\ w[d + 2] = o[i].key /\ w[d + 3] = Quote /\ w[d + 4] = Colon /\ w[d + 5] = Space
      BY <1>3, <2>2
    <2>5. Len(w) = d + (k + 5)
      BY <1>3, <2>2
    <2>6. i \in {1}
      BY <1>4
    <2> QED BY <1>2, <1>3, <2>1, <2>2, <2>3, <2>4, <2>5, <2>6, Zenon
  <1>5. CASE i # 1
    <2>1. d = 1 /\ t = <<Comma>> \o w
      BY <1>a, <1>0, <1>5 DEF Before, Listed
    <2>3. PICK comma : comma = <<Comma>> /\ comma \in Seq(Alphabet) /\ Len(comma) = 1 /\ comma[1] = Comma
      <3>1. PICK token \in Alphabet : token = Comma
        BY AlphabetHas DEF Punctuation
      <3>2. PICK t1 : t1 = <<token>>
        OBVIOUS
      <3>3. t1 \in Seq(Alphabet) /\ Len(t1) = 1 /\ t1[1] = token
        BY <3>2
      <3> QED BY <3>1, <3>2, <3>3
    <2>4. PICK x, y : x = 1 /\ y = k + 5
      OBVIOUS
    <2>5. Joins(Alphabet, comma, x, w, y, t)
      BY <1>3, <2>1, <2>3, <2>4 DEF Joins
    <2>6. t \in Seq(Alphabet) /\ Len(t) = x + y
      BY <2>5, Joined
    <2>7. \A j \in 1..x : t[j] = comma[j]
      BY <2>5, Joined
    <2>8. \A j \in 1..y : t[j + x] = w[j]
      BY <2>5, Joined
    <2>9. t[1] = Comma
      <3>1. 1 \in 1..x
        BY <2>4
      <3>2. t[1] = comma[1]
        BY <2>7, <3>1
      <3> QED BY <2>3, <3>2
    <2>10. \A j \in 1..(k + 5) : t[1 + j] = w[j]
      <3>1. \A j \in 1..(k + 5) : 1 + j = j + 1
        BY <1>2
      <3> QED BY <2>4, <2>8, <3>1
    <2>11. t[1 + 1] = w[1] /\ t[1 + 2] = w[2] /\ t[1 + 3] = w[3] /\ t[1 + 4] = w[4] /\ t[1 + 5] = w[5]
      BY <1>2, <2>10
    <2>12. \A j \in 1..k : t[1 + (j + 5)] = c[j]
      <3>1. \A j \in 1..k : j + 5 \in 1..(k + 5)
        BY <1>2
      <3> QED BY <1>3, <2>10, <3>1
    <2>13. Len(t) = 1 + (k + 5)
      BY <2>4, <2>6
    <2> QED BY <1>2, <1>3, <2>1, <2>6, <2>9, <2>11, <2>12, <2>13
  <1> QED BY <1>4, <1>5

\* Offsets do not decrease.
LEMMA OffsetsGrow ==
  ASSUME NEW n \in Nat, NEW at \in [0..n -> Nat], \A i \in 1..n : at[i - 1] <= at[i]
  PROVE  \A i, j \in 0..n : i <= j => at[i] <= at[j]
  <1> DEFINE T == {k \in Nat : \A i \in 0..n : i + k <= n => at[i] <= at[i + k]}
  <1>1. 0 \in T
    OBVIOUS
  <1>2. ASSUME NEW k \in Nat, k \in T PROVE k + 1 \in T
    <2> SUFFICES ASSUME NEW i \in 0..n, i + (k + 1) <= n PROVE at[i] <= at[i + (k + 1)]
      OBVIOUS
    <2>1. PICK m \in 1..n : m = i + (k + 1) /\ m - 1 = i + k
      <3>1. i + (k + 1) \in 1..n /\ (i + (k + 1)) - 1 = i + k
        OBVIOUS
      <3> QED BY <3>1
    <2>2. at[i] <= at[m - 1] /\ at[m - 1] <= at[m]
      BY <1>2, <2>1
    <2>3. at[i] \in Nat /\ at[m - 1] \in Nat /\ at[m] \in Nat
      OBVIOUS
    <2> QED BY <2>1, <2>2, <2>3
  <1>3. \A k \in Nat : k \in T
    <2> HIDE DEF T
    <2> QED BY <1>1, <1>2, Induct
  <1>4. ASSUME NEW i \in 0..n, NEW j \in 0..n, i <= j PROVE at[i] <= at[j]
    <2>1. PICK k \in Nat : i + k = j
      <3>1. j - i \in Nat /\ i + (j - i) = j
        BY <1>4
      <3> QED BY <3>1
    <2>2. k \in T
      <3> HIDE DEF T
      <3> QED BY <1>3
    <2>3. i + k <= n
      BY <2>1
    <2> QED BY <2>1, <2>2, <2>3
  <1> QED BY <1>4

\* What Laid says of the list of an object's members, with the braces around it.
PlacedAt(s, o, n, at) ==
    /\ s \in Seq(Alphabet) /\ at \in [0..n -> Nat]
    /\ Len(s) = at[n] + 2 /\ s[1] = Open /\ s[at[n] + 2] = Brace
    /\ \A i \in 1..n : at[i] = at[i - 1] + Len(Listed(o, i))
    /\ \A i, j \in 0..n : i <= j => at[i] <= at[j]
    /\ \A i \in 1..n : \A j \in 1..Len(Listed(o, i)) : s[at[i - 1] + (j + 1)] = Listed(o, i)[j]
    /\ \A x \in 1..at[n] : \E i \in 1..n : \E j \in 1..Len(Listed(o, i)) : x = at[i - 1] + j

\* Where the members of a written object are.
LEMMA Placed ==
  ASSUME NEW o \in Seq(Fields), NEW n \in Nat, n = Len(o)
  PROVE  \E at : PlacedAt(Written(o), o, n, at)
  <1>1. PICK f : f = [i \in 1..n |-> Listed(o, i)]
    OBVIOUS
  <1>2. \A i \in 1..n : f[i] \in Seq(Alphabet) /\ Len(f[i]) \in Nat
    <2> SUFFICES ASSUME NEW i \in 1..n PROVE f[i] \in Seq(Alphabet) /\ Len(f[i]) \in Nat
      OBVIOUS
    <2>1. f[i] = Listed(o, i)
      BY <1>1
    <2>2. Listed(o, i) \in Seq(Alphabet)
      <3>1. Lists(o, i, Listed(o, i), Before(i), ValueTokens(o[i]), Len(ValueTokens(o[i])))
        BY DEF Lists
      <3> QED BY <3>1, ListedIs
    <2> QED BY <2>1, <2>2, LenProperties
  <1>3. f \in [1..n -> Seq(Alphabet)]
    BY <1>1, <1>2
  <1>4. PICK mid : mid = FlattenSeq(f)
    OBVIOUS
  <1>5. PICK at : Laid(Alphabet, n, f, mid, at)
    BY <1>3, <1>4, FlattenLaid
  <1>6. /\ mid \in Seq(Alphabet) /\ at \in [0..n -> Nat] /\ at[0] = 0 /\ Len(mid) = at[n]
        /\ \A i \in 1..n : at[i] = at[i - 1] + Len(f[i]) /\ at[i] <= at[n]
        /\ \A i \in 1..n : \A j \in 1..Len(f[i]) : mid[at[i - 1] + j] = f[i][j]
        /\ \A x \in 1..at[n] : \E i \in 1..n : \E j \in 1..Len(f[i]) : x = at[i - 1] + j
    BY <1>5 DEF Laid
  <1>7. PICK s : s = Written(o)
    OBVIOUS
  <1>8. s = Enclosed(Open, mid, Brace)
    <2>1. DOMAIN o = 1..n
      BY LenProperties
    <2>2. FlattenSeq([i \in DOMAIN o |-> IF i = 1 THEN Member(o[i]) ELSE <<",">> \o Member(o[i])]) = mid
      BY <1>1, <1>4, <2>1, Zenon DEF Listed, Comma
    <2> QED BY <1>7, <2>2, Zenon DEF Written, Enclosed, Open
  <1>9. /\ s \in Seq(Alphabet) /\ Len(s) = at[n] + 2 /\ s[1] = Open /\ s[at[n] + 2] = Brace
        /\ \A x \in 1..at[n] : s[x + 1] = mid[x]
    <2>1. PICK a \in Alphabet, z \in Alphabet : a = Open /\ z = Brace
      BY AlphabetHas DEF Punctuation
    <2>2. s = Enclosed(a, mid, z)
      BY <1>8, <2>1
    <2>3. PICK k : k = at[n] /\ k = Len(mid)
      BY <1>6
    <2>4. Encloses(s, a, mid, k, z)
      BY <1>6, <2>2, <2>3 DEF Encloses
    <2>5. s \in Seq(Alphabet) /\ Len(s) = k + 2 /\ s[1] = a /\ s[k + 2] = z
      BY <2>4, EnclosedIs
    <2>6. \A x \in 1..k : s[x + 1] = mid[x]
      BY <2>4, EnclosedIs
    <2> QED BY <2>1, <2>3, <2>5, <2>6
  <1>10. \A i, j \in 0..n : i <= j => at[i] <= at[j]
    <2>1. \A i \in 1..n : at[i - 1] <= at[i]
      <3> SUFFICES ASSUME NEW i \in 1..n PROVE at[i - 1] <= at[i]
        OBVIOUS
      <3>0. i - 1 \in 0..n
        OBVIOUS
      <3>1. PICK a \in Nat, l \in Nat : a = at[i - 1] /\ l = Len(f[i])
        BY <1>2, <1>6, <3>0
      <3>2. at[i] = a + l
        BY <1>6, <3>1
      <3> QED BY <3>1, <3>2
    <2> QED BY <1>6, <2>1, OffsetsGrow
  <1>11. ASSUME NEW i \in 1..n, NEW j \in 1..Len(f[i]) PROVE s[at[i - 1] + (j + 1)] = f[i][j]
    <2>1. PICK a \in Nat, l \in Nat, z \in Nat : a = at[i - 1] /\ l = Len(f[i]) /\ z = at[n] /\ a + l <= z
      <3>1. i - 1 \in 0..n /\ n \in 0..n
        OBVIOUS
      <3>2. at[i - 1] \in Nat /\ at[n] \in Nat /\ Len(f[i]) \in Nat
        BY <1>2, <1>6, <3>1
      <3>3. at[i - 1] + Len(f[i]) <= at[n]
        BY <1>6
      <3> QED BY <3>2, <3>3
    <2>2. j \in 1..l /\ mid[a + j] = f[i][j]
      BY <1>6, <2>1
    <2>3. a + j \in 1..z /\ a + (j + 1) = (a + j) + 1
      <3>1. a + l <= z
        BY <2>1
      <3> QED BY <2>2, <3>1
    <2>4. s[(a + j) + 1] = mid[a + j]
      BY <1>9, <2>1, <2>3
    <2> QED BY <2>1, <2>2, <2>3, <2>4
  <1>12. \A i \in 1..n : f[i] = Listed(o, i)
    BY <1>1
  <1>13. /\ \A i \in 1..n : at[i] = at[i - 1] + Len(Listed(o, i))
         /\ \A i \in 1..n : \A j \in 1..Len(Listed(o, i)) : s[at[i - 1] + (j + 1)] = Listed(o, i)[j]
         /\ \A x \in 1..at[n] : \E i \in 1..n : \E j \in 1..Len(Listed(o, i)) : x = at[i - 1] + j
    <2>1. \A i \in 1..n : at[i] = at[i - 1] + Len(f[i])
      BY <1>6
    <2>2. \A i \in 1..n : \A j \in 1..Len(f[i]) : s[at[i - 1] + (j + 1)] = f[i][j]
      BY <1>11
    <2>3. \A x \in 1..at[n] : \E i \in 1..n : \E j \in 1..Len(f[i]) : x = at[i - 1] + j
      BY <1>6
    <2> QED BY <1>12, <2>1, <2>2, <2>3
  <1>14. PlacedAt(s, o, n, at)
    BY <1>6, <1>9, <1>10, <1>13, Zenon DEF PlacedAt
  <1> QED BY <1>7, <1>14

\* The i-th field of an object begins at b and ends at e.
Bounds(o, n, at, i, b, e) ==
    /\ o \in Seq(Fields) /\ n = Len(o) /\ i \in 1..n
    /\ b = (at[i - 1] + Before(i)) + 2 /\ e = at[i] + 1

\* A member's field within an object.
LEMMA FieldPlaced ==
  ASSUME NEW s, NEW o, NEW n \in Nat, NEW at, PlacedAt(s, o, n, at),
         NEW i, NEW b, NEW e, Bounds(o, n, at, i, b, e)
  PROVE  /\ FieldIn(s, o[i], b, e)
         /\ \A x \in 1..Len(Listed(o, i)) : s[at[i - 1] + (x + 1)] = Comma \/ b <= at[i - 1] + (x + 1)
  <1>0. i \in 1..n /\ o \in Seq(Fields) /\ n = Len(o) /\ i \in 1..Len(o)
    BY DEF Bounds
  <1>0b. b = (at[i - 1] + Before(i)) + 2 /\ e = at[i] + 1
    BY DEF Bounds
  <1>1. /\ at \in [0..n -> Nat] /\ Len(s) = at[n] + 2 /\ s[at[n] + 2] = Brace
        /\ \A j \in 1..n : at[j] = at[j - 1] + Len(Listed(o, j))
        /\ \A j, k \in 0..n : j <= k => at[j] <= at[k]
        /\ \A j \in 1..n : \A x \in 1..Len(Listed(o, j)) : s[at[j - 1] + (x + 1)] = Listed(o, j)[x]
    BY DEF PlacedAt
  <1>2. i \in 0..n /\ i - 1 \in 0..n /\ n \in 0..n /\ i <= n
    BY <1>0
  <1>3. PICK a \in Nat, z \in Nat : a = at[i - 1] /\ z = at[n]
    BY <1>1, <1>2
  <1>4. PICK d \in Nat : d = Before(i) /\ (d = 0 \/ d = 1) /\ (d = 0 => i = 1)
    BY <1>0 DEF Before
  <1>5. PICK c, w : c = ValueTokens(o[i]) /\ w = Listed(o, i)
    OBVIOUS
  <1>6. PICK y, d0 : y = Len(c) /\ d0 = d /\ Lists(o, i, w, d0, c, y)
    BY <1>0, <1>4, <1>5 DEF Lists
  <1>7. PICK k \in Nat \ {0} : k = Len(c) /\ k = y
    BY <1>6, ListedIs
  <1>8. /\ Len(w) = d + (k + 5)
        /\ d = 1 => w[1] = Comma
        /\ w[d + 1] = Quote /\ w[d + 2] = o[i].key /\ w[d + 3] = Quote
        /\ w[d + 4] = Colon /\ w[d + 5] = Space
        /\ \A j \in 1..k : w[d + (j + 5)] = c[j]
    <2>0. Lists(o, i, w, d0, c, y)
      BY <1>6
    <2>1. Len(w) = d0 + (y + 5)
      BY <2>0, ListedIs
    <2>4. d = 1 => w[1] = Comma
      <3>1. i \in {1} \/ w[1] = Comma
        BY <2>0, ListedIs
      <3> QED BY <3>1, <1>4 DEF Before
    <2>2. /\ w[d0 + 1] = Quote /\ w[d0 + 2] = o[i].key /\ w[d0 + 3] = Quote
          /\ w[d0 + 4] = Colon /\ w[d0 + 5] = Space
      BY <2>0, ListedIs
    <2>3. \A j \in 1..y : w[d0 + (j + 5)] = c[j]
      BY <2>0, ListedIs
    <2> QED BY <1>6, <1>7, <2>1, <2>2, <2>3, <2>4
  <1>9. PICK l \in Nat : l = Len(w) /\ l = d + (k + 5)
    <2>1. d + (k + 5) \in Nat
      OBVIOUS
    <2> QED BY <1>8, <2>1
  <1>10. \A x \in 1..l : s[a + (x + 1)] = w[x]
    BY <1>0, <1>1, <1>3, <1>5, <1>9
  <1>11. at[i] = a + l
    BY <1>0, <1>1, <1>3, <1>5, <1>9
  <1>12. a + l <= z
    <2>1. at[i] <= at[n]
      BY <1>1, <1>2
    <2> QED BY <1>3, <1>11, <2>1
  <1>13. b = (a + d) + 2 /\ e = (a + l) + 1
    BY <1>0b, <1>3, <1>4, <1>11
  <1>14. /\ b \in Nat \ {0} /\ e \in Nat /\ e = (b + 4) + k
    <2>1. l = d + (k + 5)
      BY <1>9
    <2> QED BY <1>13, <2>1
  <1>15. e < Len(s)
    <2>1. Len(s) = z + 2
      BY <1>1, <1>3
    <2> QED BY <1>12, <1>13, <2>1
  <1>16. \A x \in 1..(k + 5) : s[(b - 1) + x] = w[d + x]
    <2> SUFFICES ASSUME NEW x \in 1..(k + 5) PROVE s[(b - 1) + x] = w[d + x]
      OBVIOUS
    <2>1. l = d + (k + 5)
      BY <1>9
    <2>2. d + x \in 1..l /\ a + ((d + x) + 1) = (b - 1) + x
      BY <1>13, <2>1
    <2> QED BY <1>10, <2>2
  <1>17. /\ s[b] = Quote /\ s[b + 1] = o[i].key /\ s[b + 2] = Quote /\ s[b + 3] = Colon /\ s[b + 4] = Space
    <2>1. /\ 1 \in 1..(k + 5) /\ 2 \in 1..(k + 5) /\ 3 \in 1..(k + 5) /\ 4 \in 1..(k + 5) /\ 5 \in 1..(k + 5)
      OBVIOUS
    <2>2. /\ (b - 1) + 1 = b /\ (b - 1) + 2 = b + 1 /\ (b - 1) + 3 = b + 2
          /\ (b - 1) + 4 = b + 3 /\ (b - 1) + 5 = b + 4
      BY <1>14
    <2>3. /\ s[(b - 1) + 1] = w[d + 1] /\ s[(b - 1) + 2] = w[d + 2] /\ s[(b - 1) + 3] = w[d + 3]
          /\ s[(b - 1) + 4] = w[d + 4] /\ s[(b - 1) + 5] = w[d + 5]
      BY <1>16, <2>1
    <2> QED BY <1>8, <2>2, <2>3
  <1>18. Behind(c, s, b + 4)
    <2>1. \A j \in 1..k : s[(b + 4) + j] = c[j]
      <3> SUFFICES ASSUME NEW j \in 1..k PROVE s[(b + 4) + j] = c[j]
        OBVIOUS
      <3>0. PICK b1 \in Nat \ {0} : b1 = b
        BY <1>14
      <3>1. j + 5 \in 1..(k + 5) /\ (b1 - 1) + (j + 5) = (b1 + 4) + j
        OBVIOUS
      <3> QED BY <1>8, <1>16, <3>0, <3>1
    <2> QED BY <1>7, <2>1 DEF Behind
  <1>19. s[e + 1] \in {Comma, Brace}
    <2>1. CASE i = n
      <3>1. e + 1 = at[n] + 2
        <4>1. a + l = z
          BY <1>3, <1>11, <2>1
        <4>2. (a + l) + 1 + 1 = z + 2
          BY <4>1
        <4> QED BY <1>3, <1>13, <4>2
      <3> QED BY <1>1, <3>1
    <2>2. CASE i # n
      <3>1. PICK j \in 1..n : j = i + 1 /\ j - 1 = i /\ j # 1 /\ j \in 1..Len(o)
        <4>1. i + 1 \in 1..n /\ (i + 1) - 1 = i /\ i + 1 # 1
          BY <1>0, <2>2
        <4> QED BY <1>0, <4>1
      <3>2. PICK t, d1, m : t = Listed(o, j) /\ d1 = 1 /\ Lists(o, j, t, d1, ValueTokens(o[j]), m)
        BY <1>0, <3>1 DEF Lists, Before
      <3>3. Len(t) = d1 + (m + 5) /\ m \in Nat \ {0} /\ t[1] = Comma
        <4>1. Lists(o, j, t, d1, ValueTokens(o[j]), m)
          BY <3>2
        <4>2. Len(t) = d1 + (m + 5) /\ m \in Nat \ {0}
          BY <4>1, ListedIs
        <4>3. j \in {1} \/ t[1] = Comma
          BY <4>1, ListedIs
        <4> QED BY <3>1, <4>2, <4>3
      <3>4. 1 \in 1..Len(t)
        <4>1. PICK m1 \in Nat : m1 = m
          BY <3>3
        <4>2. Len(t) = 1 + (m1 + 5)
          BY <3>2, <3>3, <4>1
        <4> QED BY <4>2
      <3>5. 1 \in 1..Len(Listed(o, j)) /\ Listed(o, j)[1] = Comma
        BY <3>2, <3>3, <3>4
      <3>6. s[at[j - 1] + (1 + 1)] = Comma
        BY <1>1, <3>5
      <3>7. at[j - 1] + (1 + 1) = e + 1
        BY <1>11, <1>13, <3>1
      <3> QED BY <3>6, <3>7
    <2> QED BY <2>1, <2>2
  <1>20. ASSUME NEW x \in 1..l PROVE s[a + (x + 1)] = Comma \/ b <= a + (x + 1)
    <2>1. CASE x <= d
      <3>1. d = 1 /\ x = 1
        BY <1>4, <2>1
      <3>2. s[a + (x + 1)] = w[1]
        BY <1>10, <3>1
      <3> QED BY <1>8, <3>1, <3>2
    <2>2. CASE ~(x <= d)
      <3>1. (a + d) + 2 <= a + (x + 1)
        BY <2>2
      <3> QED BY <1>13, <3>1
    <2> QED BY <2>1, <2>2
  <1>21. FieldIn(s, o[i], b, e)
    BY <1>5, <1>7, <1>14, <1>15, <1>17, <1>18, <1>19 DEF FieldIn
  <1>22. \A x \in 1..Len(Listed(o, i)) : s[at[i - 1] + (x + 1)] = Comma \/ b <= at[i - 1] + (x + 1)
    BY <1>3, <1>5, <1>9, <1>20
  <1> QED BY <1>21, <1>22

\* Where the fields of any object are in what its client writes.
LEMMA LayoutIs ==
  ASSUME NEW o \in Seq(Fields)
  PROVE  \E b, e : Layout(Written(o), o, b, e)
  <1>1. PICK n \in Nat : n = Len(o) /\ DOMAIN o = 1..n
    BY LenProperties
  <1>2. PICK s : s = Written(o)
    OBVIOUS
  <1>3. PICK at : PlacedAt(s, o, n, at)
    BY <1>1, <1>2, Placed
  <1>4. /\ s \in Seq(Alphabet) /\ at \in [0..n -> Nat]
        /\ Len(s) = at[n] + 2 /\ s[1] = Open /\ s[at[n] + 2] = Brace
        /\ \A j, k \in 0..n : j <= k => at[j] <= at[k]
        /\ \A i \in 1..n : at[i] = at[i - 1] + Len(Listed(o, i))
        /\ \A x \in 1..at[n] : \E i \in 1..n : \E j \in 1..Len(Listed(o, i)) : x = at[i - 1] + j
    BY <1>3 DEF PlacedAt
  <1>5. PICK b, e : /\ b = [i \in 1..n |-> (at[i - 1] + Before(i)) + 2]
                    /\ e = [i \in 1..n |-> at[i] + 1]
    OBVIOUS
  <1>6. \A i \in 1..n : b[i] \in Nat /\ e[i] \in Nat
    <2> SUFFICES ASSUME NEW i \in 1..n PROVE b[i] \in Nat /\ e[i] \in Nat
      OBVIOUS
    <2>1. i - 1 \in 0..n /\ i \in 0..n
      OBVIOUS
    <2>2. at[i - 1] \in Nat /\ at[i] \in Nat
      BY <1>4, <2>1
    <2>3. PICK x \in Nat, y \in Nat, d \in Nat : x = at[i - 1] /\ y = at[i] /\ d = Before(i)
      <3>1. Before(i) \in Nat
        BY DEF Before
      <3> QED BY <2>2, <3>1
    <2>4. b[i] = (x + d) + 2 /\ e[i] = y + 1
      BY <1>5, <2>3
    <2> QED BY <2>4
  <1>7. \A i \in 1..n : Bounds(o, n, at, i, b[i], e[i])
    BY <1>1, <1>5 DEF Bounds
  <1>8. \A i \in 1..n : FieldIn(s, o[i], b[i], e[i])
    BY <1>3, <1>7, FieldPlaced
  <1>9. ASSUME NEW i \in 1..n, NEW j \in 1..n, i < j PROVE e[i] < b[j]
    <2>1. i \in 0..n /\ j - 1 \in 0..n /\ i <= j - 1
      BY <1>9
    <2>2. PICK x \in Nat, y \in Nat : x = at[i] /\ y = at[j - 1] /\ x <= y
      BY <1>4, <2>1
    <2>3. PICK d \in Nat : d = Before(j)
      BY DEF Before
    <2>4. e[i] = x + 1 /\ b[j] = (y + d) + 2
      BY <1>5, <2>2, <2>3
    <2>5. x <= y
      BY <2>2
    <2>6. x + 1 < (y + d) + 2
      BY <2>5
    <2> QED BY <2>4, <2>6
  <1>10. ASSUME NEW x \in 1..Len(s) PROVE s[x] \in {Open, Comma, Brace} \/ Located(o, b, e, x)
    <2>0. PICK z \in Nat : z = at[n] /\ Len(s) = z + 2
      <3>1. n \in 0..n
        OBVIOUS
      <3> QED BY <1>4, <3>1
    <2>1. x \in 1..(z + 2)
      BY <2>0
    <2>2. CASE x = 1
      BY <1>4, <2>2
    <2>3. CASE x = z + 2
      BY <1>4, <2>0, <2>3
    <2>4. CASE x # 1 /\ x # z + 2
      <3>1. PICK y \in 1..z : y = x - 1 /\ x = y + 1
        <4>1. x - 1 \in 1..z /\ x = (x - 1) + 1
          BY <2>1, <2>4
        <4> QED BY <4>1
      <3>2. PICK i \in 1..n : \E j \in 1..Len(Listed(o, i)) : y = at[i - 1] + j
        BY <1>4, <2>0
      <3>3. PICK j \in 1..Len(Listed(o, i)) : y = at[i - 1] + j
        BY <3>2
      <3>4. s[at[i - 1] + (j + 1)] = Comma \/ b[i] <= at[i - 1] + (j + 1)
        BY <1>3, <1>7, FieldPlaced
      <3>5. PICK a \in Nat, l \in Nat : a = at[i - 1] /\ l = Len(Listed(o, i)) /\ at[i] = a + l
        <4>1. i - 1 \in 0..n /\ i \in 0..n
          OBVIOUS
        <4>2. at[i - 1] \in Nat /\ at[i] \in Nat
          BY <1>4, <4>1
        <4>3. Listed(o, i) \in Seq(Alphabet)
          <5>1. Lists(o, i, Listed(o, i), Before(i), ValueTokens(o[i]), Len(ValueTokens(o[i])))
            BY <1>1 DEF Lists
          <5> QED BY <5>1, ListedIs
        <4>4. Len(Listed(o, i)) \in Nat
          BY <4>3, LenProperties
        <4> QED BY <1>4, <4>2, <4>4
      <3>6. y = a + j /\ j \in 1..l /\ at[i - 1] + (j + 1) = a + (j + 1)
        BY <3>3, <3>5
      <3>7. x = a + (j + 1) /\ x <= (a + l) + 1
        BY <3>1, <3>6
      <3>8. e[i] = (a + l) + 1
        BY <1>5, <3>5
      <3>9. s[x] = Comma \/ (b[i] <= x /\ x <= e[i])
        BY <3>4, <3>6, <3>7, <3>8
      <3> QED BY <1>1, <3>9 DEF Located
    <2> QED BY <2>2, <2>3, <2>4
  <1>11. b \in [1..n -> Nat] /\ e \in [1..n -> Nat]
    BY <1>5, <1>6
  <1>12. Layout(s, o, b, e)
    BY <1>1, <1>4, <1>8, <1>9, <1>10, <1>11, Zenon DEF Layout
  <1> QED BY <1>2, <1>12

\* The digits as a set.
LEMMA DigitsAre == ToSet(Digits) = {"0", "1", "2", "3", "4", "5", "6", "7", "8", "9"}
  BY DEF ToSet, Digits

\* The kinds of tokens are disjoint.
LEMMA TokensDiffer ==
  /\ Marks \cap Punctuation = {} /\ Marks \cap ToSet(Digits) = {} /\ Punctuation \cap ToSet(Digits) = {}
  /\ Space # Colon /\ Quote # Space /\ Words \cap (Marks \cup Punctuation \cup ToSet(Digits)) = {}
  /\ Quote \in Marks /\ Slash \in Marks /\ {Open, Colon, Comma, Space, Brace} \subseteq Punctuation
  <1>1. ToSet(Digits) = {"0", "1", "2", "3", "4", "5", "6", "7", "8", "9"}
    BY DigitsAre
  <1>2. Marks \cap Punctuation = {} /\ Space # Colon /\ Quote # Space
    BY DEF Marks, Punctuation, Quote, Slash, Brace, Open, Colon, Comma, Space
  <1>3. Marks \cap ToSet(Digits) = {}
    BY <1>1 DEF Marks, Quote, Slash
  <1>4. Punctuation \cap ToSet(Digits) = {}
    BY <1>1 DEF Punctuation, Brace, Open, Colon, Comma, Space
  <1>5. Words \cap (Marks \cup Punctuation \cup ToSet(Digits)) = {}
    BY DEF Words, Marks, Punctuation, Open, Colon, Comma, Space
  <1> QED BY <1>2, <1>3, <1>4, <1>5 DEF Marks, Punctuation

\* A text written between its quotes.
TextAt(s, v, p, at, q) ==
    /\ v \in Seq(Alphabet) /\ p \in Nat \ {0} /\ Spelled(v, s, p, at)
    /\ q = at[Len(v)] + 1 /\ s[p] = Quote /\ s[q] = Quote

\* A field's text within an object.
LEMMA TextIn ==
  ASSUME NEW s, NEW field \in Fields, NEW b, NEW e, FieldIn(s, field, b, e), field.kind = "string"
  PROVE  \E at : TextAt(s, field.value, b + 5, at, e)
  <1>1. PICK v \in Seq(Alphabet) : v = field.value
    BY FieldIs
  <1>2. PICK c : c = ValueTokens(field) /\ c = QuotedText(v)
    BY <1>1 DEF ValueTokens
  <1>3. PICK u \in Seq(Alphabet), k \in Nat : u = EscapedText(v) /\ k = Len(u)
    BY EscapedTextIs, LenProperties
  <1>4. Len(c) = k + 2 /\ c[1] = Quote /\ c[k + 2] = Quote /\ \A j \in 1..k : c[j + 1] = u[j]
    BY <1>2, <1>3, TextTokens
  <1>5. PICK b1 \in Nat \ {0} : b1 = b
    BY DEF FieldIn
  <1>6. e = (b1 + 4) + (k + 2) /\ \A j \in 1..(k + 2) : s[(b1 + 4) + j] = c[j]
    BY <1>2, <1>4, <1>5 DEF FieldIn, Behind
  <1>7. s[b1 + 5] = Quote
    <2>1. 1 \in 1..(k + 2) /\ (b1 + 4) + 1 = b1 + 5
      OBVIOUS
    <2> QED BY <1>4, <1>6, <2>1
  <1>8. s[e] = Quote
    <2>1. k + 2 \in 1..(k + 2)
      OBVIOUS
    <2> QED BY <1>4, <1>6, <2>1
  <1>9. Behind(u, s, b1 + 5)
    <2>1. \A j \in 1..k : s[(b1 + 5) + j] = u[j]
      <3> SUFFICES ASSUME NEW j \in 1..k PROVE s[(b1 + 5) + j] = u[j]
        OBVIOUS
      <3>1. j + 1 \in 1..(k + 2) /\ (b1 + 4) + (j + 1) = (b1 + 5) + j
        OBVIOUS
      <3> QED BY <1>4, <1>6, <3>1
    <2> QED BY <1>3, <2>1 DEF Behind
  <1>10. PICK at : Spelled(v, s, b1 + 5, at) /\ at[Len(v)] = (b1 + 5) + k
    <2>1. b1 + 5 \in Nat
      OBVIOUS
    <2> QED BY <1>3, <1>9, <2>1, SpelledIs
  <1>11. e = at[Len(v)] + 1 /\ b1 + 5 \in Nat \ {0}
    BY <1>6, <1>10
  <1>12. TextAt(s, v, b1 + 5, at, e)
    BY <1>7, <1>8, <1>10, <1>11 DEF TextAt
  <1> QED BY <1>1, <1>5, <1>12

\* A name between quotes, the first of them a quote of the text or the one that
\* opens it, ends the text.
LEMMA NoNameInside ==
  ASSUME NEW s, NEW v, NEW p, NEW at, NEW q, TextAt(s, v, p, at, q),
         NEW K, K \notin Marks, NEW k \in 0..Len(v), k = 0 \/ v[k] = Quote,
         s[at[k] + 1] = K, s[at[k] + 2] = Quote
  PROVE  LooksLike(v, K)
  <1>1. PICK m \in Nat : m = Len(v) /\ k \in 0..m
    BY LenProperties DEF TextAt
  <1>2. /\ v \in Seq(Alphabet) /\ at \in [0..m -> Nat] /\ s[at[m] + 1] = Quote
        /\ \A i \in 1..m : at[i] = at[i - 1] + (IF v[i] \in Marks THEN 2 ELSE 1)
        /\ \A i \in 1..m : v[i] \in Marks => s[at[i - 1] + 1] = Slash
        /\ \A i \in 1..m : v[i] \notin Marks => s[at[i - 1] + 1] = v[i]
    BY <1>1, Zenon DEF TextAt, Spelled
  <1>3. k # m
    BY <1>2 DEF Marks
  <1>4. PICK i \in 1..m : i = k + 1 /\ i - 1 = k
    <2>1. k + 1 \in 1..m /\ (k + 1) - 1 = k
      BY <1>1, <1>3
    <2> QED BY <2>1
  <1>5. v[i] = K /\ v[i] \notin Marks
    BY <1>2, <1>4 DEF Marks
  <1>6. PICK a \in Nat : a = at[k] /\ at[i] = a + 1
    <2>1. at[k] \in Nat
      BY <1>1, <1>2
    <2> QED BY <1>2, <1>4, <1>5, <2>1
  <1>7. s[at[i] + 1] = Quote
    <2>1. (a + 1) + 1 = a + 2
      OBVIOUS
    <2> QED BY <1>6, <2>1
  <1>8. i = m
    <2> SUFFICES ASSUME i # m PROVE FALSE
      OBVIOUS
    <2>1. PICK j \in 1..m : j - 1 = i
      <3>1. i + 1 \in 1..m /\ (i + 1) - 1 = i
        OBVIOUS
      <3> QED BY <3>1
    <2>2. s[at[i] + 1] = IF v[j] \in Marks THEN Slash ELSE v[j]
      BY <1>2, <2>1
    <2> QED BY <1>7, <2>2, MarksDiffer DEF Marks
  <1>9. v # <<>> /\ Last(v) = K
    <2>1. v # <<>>
      BY <1>1, <1>2, EmptySeq
    <2> QED BY <1>1, <1>5, <1>8, <2>1 DEF Last
  <1>10. m = 1 \/ v[m - 1] = Quote
    BY <1>4, <1>8
  <1> QED BY <1>1, <1>9, <1>10 DEF LooksLike

\* A quote between the quotes of a text is the second token of an escaped one.
LEMMA QuoteInText ==
  ASSUME NEW s, NEW v, NEW p, NEW at, NEW q, TextAt(s, v, p, at, q),
         NEW x \in Nat, p <= x, x <= q, s[x] = Quote
  PROVE  x = q \/ \E k \in 0..Len(v) : x = at[k] /\ (k = 0 \/ v[k] = Quote)
  <1>1. PICK m \in Nat : m = Len(v)
    BY LenProperties DEF TextAt
  <1>2. /\ at \in [0..m -> Nat] /\ at[0] = p /\ p \in Nat /\ q = at[m] + 1
        /\ \A i \in 1..m : at[i] = at[i - 1] + (IF v[i] \in Marks THEN 2 ELSE 1)
        /\ \A i \in 1..m : v[i] \in Marks => s[at[i - 1] + 1] = Slash /\ s[at[i - 1] + 2] = v[i]
        /\ \A i \in 1..m : v[i] \notin Marks => s[at[i - 1] + 1] = v[i]
        /\ \A y \in (p + 1)..at[m] : \E i \in 1..m : at[i - 1] < y /\ y <= at[i]
    BY <1>1, Zenon DEF TextAt, Spelled
  <1>3. CASE x = p
    <2>1. 0 \in 0..Len(v) /\ x = at[0]
      BY <1>1, <1>2, <1>3
    <2> QED BY <2>1
  <1>4. CASE x # p /\ x # q
    <2>1. x \in (p + 1)..at[m]
      <3>1. PICK z \in Nat : z = at[m] /\ q = z + 1
        <4>1. m \in 0..m
          OBVIOUS
        <4> QED BY <1>2, <4>1
      <3>2. x <= z + 1 /\ x # z + 1
        BY <1>4, <3>1
      <3>3. p + 1 <= x /\ x <= z
        BY <1>2, <1>4, <3>2
      <3> QED BY <1>2, <3>1, <3>3
    <2>2. PICK i \in 1..m : at[i - 1] < x /\ x <= at[i]
      BY <1>2, <2>1
    <2>3. PICK a \in Nat : a = at[i - 1] /\ at[i] = a + (IF v[i] \in Marks THEN 2 ELSE 1)
      <3>1. i - 1 \in 0..m
        OBVIOUS
      <3> QED BY <1>2, <3>1
    <2>4. x = a + 1 \/ (x = a + 2 /\ v[i] \in Marks)
      BY <2>2, <2>3
    <2>5. x # a + 1
      <3> SUFFICES ASSUME x = a + 1 PROVE FALSE
        OBVIOUS
      <3>1. s[a + 1] = IF v[i] \in Marks THEN Slash ELSE v[i]
        BY <1>2, <2>3
      <3> QED BY <3>1, MarksDiffer DEF Marks
    <2>6. x = at[i] /\ v[i] = Quote /\ i \in 0..Len(v)
      BY <1>1, <1>2, <2>3, <2>4, <2>5
    <2> QED BY <2>6
  <1> QED BY <1>3, <1>4

IsWord(c) == c \notin Marks \cup Punctuation \cup ToSet(Digits)

\* In an object, a name between quotes is that of a field, unless a value looks so.
LEMMA NameAt ==
  ASSUME NEW s, NEW o, NEW b, NEW e, Layout(s, o, b, e), NEW K, IsWord(K),
         \A i \in DOMAIN o : ~LooksLike(o[i].value, K),
         NEW x \in Nat, 1 <= x, x + 2 <= Len(s), s[x] = Quote, s[x + 1] = K, s[x + 2] = Quote
  PROVE  \E i \in DOMAIN o : x = b[i] /\ o[i].key = K
  <1>1. K \notin Marks /\ K \notin Punctuation /\ K \notin ToSet(Digits) /\ K # Quote
    BY TokensDiffer DEF IsWord
  <1>2. /\ s \in Seq(Alphabet) /\ o \in Seq(Fields)
        /\ \A i \in DOMAIN o : FieldIn(s, o[i], b[i], e[i])
        /\ \A y \in 1..Len(s) : s[y] \in {Open, Comma, Brace} \/ Located(o, b, e, y)
    BY DEF Layout
  <1>3. PICK i \in DOMAIN o : b[i] <= x /\ x <= e[i]
    <2>1. x \in 1..Len(s)
      <3>1. PICK l \in Nat : l = Len(s)
        BY <1>2, LenProperties
      <3> QED BY <3>1
    <2>2. s[x] \notin {Open, Comma, Brace}
      BY TokensDiffer
    <2> QED BY <1>2, <2>1, <2>2 DEF Located
  <1>4. o[i] \in Fields
    BY <1>2, LenProperties, ElementOfSeq
  <1>5. FieldIn(s, o[i], b[i], e[i])
    BY <1>2
  <1>6a. PICK c : c = ValueTokens(o[i])
    OBVIOUS
  <1>6. PICK a \in Nat, z \in Nat, k \in Nat :
            /\ a = b[i] /\ z = e[i] /\ c = ValueTokens(o[i]) /\ k = Len(c) /\ z = (a + 4) + k
            /\ s[a] = Quote /\ s[a + 1] = o[i].key /\ s[a + 2] = Quote /\ s[a + 3] = Colon /\ s[a + 4] = Space
            /\ s[z + 1] \in {Comma, Brace}
    BY <1>4, <1>5, <1>6a, ValueTokensIs DEF FieldIn
  <1>7. o[i].key \notin Marks
    BY <1>4, FieldIs, TokensDiffer
  <1>8. x # a + 1 /\ x # a + 2 /\ x # a + 3 /\ x # a + 4
    <2>1. x # a + 1
      BY <1>6, <1>7 DEF Marks
    <2>2. x # a + 2
      <3>1. x = a + 2 => x + 1 = a + 3
        OBVIOUS
      <3> QED BY <1>1, <1>6, <3>1, TokensDiffer
    <2>3. x # a + 3 /\ x # a + 4
      BY <1>6, TokensDiffer
    <2> QED BY <2>1, <2>2, <2>3
  <1>9. x = a \/ (a + 5 <= x /\ x <= z)
    <2>1. a <= x /\ x <= z
      BY <1>3, <1>6
    <2> QED BY <1>8, <2>1
  <1>10. x # z
    <2> SUFFICES ASSUME x = z PROVE FALSE
      OBVIOUS
    <2>1. s[x + 1] \in {Comma, Brace}
      BY <1>6
    <2> QED BY <1>1, <2>1, TokensDiffer
  <1>11. CASE x = a
    BY <1>6, <1>11
  <1>12. CASE a + 5 <= x /\ x <= z /\ o[i].kind = "number"
    <2>1. PICK y \in 1..k : x = (a + 4) + y
      <3>1. z = (a + 4) + k
        BY <1>6
      <3>2. x - (a + 4) \in 1..k /\ x = (a + 4) + (x - (a + 4))
        BY <1>12, <3>1
      <3> QED BY <3>2
    <2>2. s[x] = c[y]
      BY <1>5, <1>6, <2>1 DEF FieldIn, Behind
    <2>3. c \in Seq(ToSet(Digits))
      <3>1. c = o[i].value
        BY <1>6, <1>12 DEF ValueTokens
      <3>2. o[i].kind # "string"
        BY <1>12
      <3> QED BY <1>4, <3>1, <3>2, FieldIs
    <2>4. c[y] \in ToSet(Digits)
      BY <1>6, <2>3, ElementOfSeq
    <2> QED BY <2>2, <2>4, TokensDiffer
  <1>13. CASE a + 5 <= x /\ x <= z /\ o[i].kind # "number"
    <2>1. o[i].kind = "string"
      BY <1>4, <1>13, FieldIs
    <2>2. PICK v, at : v = o[i].value /\ TextAt(s, v, a + 5, at, z)
      BY <1>4, <1>5, <1>6, <2>1, TextIn
    <2>3. PICK j \in 0..Len(v) : x = at[j] /\ (j = 0 \/ v[j] = Quote)
      BY <1>10, <1>13, <2>2, QuoteInText
    <2>4. s[at[j] + 1] = K /\ s[at[j] + 2] = Quote
      BY <2>3
    <2>5. LooksLike(v, K)
      BY <1>1, <2>2, <2>3, <2>4, NoNameInside
    <2> QED BY <2>2, <2>5
  <1> QED BY <1>9, <1>11, <1>12, <1>13

\* A needle of three tokens, and of one.
Named(c) == <<Quote, c, Quote>>
Single(c) == <<c>>

\* What std::string_view::find compares, for three tokens.
LEMMA FoundThree ==
  ASSUME NEW S, NEW r \in Seq(S), NEW i \in Nat \ {0}, i + 2 <= Len(r), NEW c
  PROVE  SubSeq(r, i, i + 2) = Named(c) <=> r[i] = Quote /\ r[i + 1] = c /\ r[i + 2] = Quote
  <1>1. PICK l \in Nat : l = Len(r) /\ i + 2 <= l
    BY LenProperties
  <1>3. PICK t : t = SubSeq(r, i, i + 2)
    OBVIOUS
  <1>4. t \in Seq(S) /\ Len(t) = 3 /\ \A j \in 1..3 : t[j] = r[i + j - 1]
    <2>1. \A j \in i..(i + 2) : r[j] \in S
      <3>1. \A j \in i..(i + 2) : j \in 1..l
        BY <1>1
      <3> QED BY <1>1, <3>1, ElementOfSeq
    <2>2. (i + 2) - i + 1 = 3 /\ i <= (i + 2) + 1
      OBVIOUS
    <2> QED BY <1>3, <2>1, <2>2, SubSeqProperties
  <1>5. t[1] = r[i] /\ t[2] = r[i + 1] /\ t[3] = r[i + 2]
    <2>1. 1 \in 1..3 /\ 2 \in 1..3 /\ 3 \in 1..3
      OBVIOUS
    <2>2. i + 1 - 1 = i /\ i + 2 - 1 = i + 1 /\ i + 3 - 1 = i + 2
      OBVIOUS
    <2> QED BY <1>4, <2>1, <2>2
  <1>6. t = Named(c) => r[i] = Quote /\ r[i + 1] = c /\ r[i + 2] = Quote
    BY <1>5 DEF Named
  <1>7. ASSUME r[i] = Quote, r[i + 1] = c, r[i + 2] = Quote PROVE t = Named(c)
    <2>1. t[1] = Quote /\ t[2] = c /\ t[3] = Quote
      BY <1>5, <1>7
    <2>2. PICK u : u = <<Quote, c, Quote>> /\ u = Named(c)
      BY DEF Named
    <2>3. Quote \in S /\ c \in S
      <3>1. i \in 1..l /\ i + 1 \in 1..l
        BY <1>1
      <3> QED BY <1>1, <1>7, <3>1, ElementOfSeq
    <2>4. u \in Seq(S) /\ Len(u) = 3 /\ u[1] = Quote /\ u[2] = c /\ u[3] = Quote
      BY <2>2, <2>3
    <2>5. \A j \in 1..3 : t[j] = u[j]
      <3>1. \A j \in 1..3 : j = 1 \/ j = 2 \/ j = 3
        OBVIOUS
      <3> QED BY <2>1, <2>4, <3>1
    <2>6. t = u
      BY <1>4, <2>4, <2>5, SeqEqual
    <2> QED BY <2>2, <2>6
  <1> QED BY <1>3, <1>6, <1>7

\* What std::string_view::find compares, for one token.
LEMMA FoundOne ==
  ASSUME NEW S, NEW r \in Seq(S), NEW i \in Nat \ {0}, i <= Len(r), NEW a
  PROVE  SubSeq(r, i, i) = <<a>> <=> r[i] = a
  <1>1. PICK l \in Nat : l = Len(r) /\ i <= l
    BY LenProperties
  <1>3. PICK t : t = SubSeq(r, i, i)
    OBVIOUS
  <1>4. t \in Seq(S) /\ Len(t) = 1 /\ t[1] = r[i]
    <2>1. \A j \in i..i : r[j] \in S
      <3>1. \A j \in i..i : j \in 1..l
        BY <1>1
      <3> QED BY <1>1, <3>1, ElementOfSeq
    <2>2. i - i + 1 = 1 /\ i <= i + 1 /\ i + 1 - 1 = i /\ 1 \in 1..1
      OBVIOUS
    <2>3. /\ t \in Seq(S) /\ Len(t) = i - i + 1
          /\ \A j \in 1..(i - i + 1) : t[j] = r[i + j - 1]
      BY <1>3, <2>1, <2>2, SubSeqProperties
    <2> QED BY <2>2, <2>3
  <1>5. t = <<a>> => r[i] = a
    BY <1>4
  <1>6. ASSUME r[i] = a PROVE t = <<a>>
    <2>1. PICK u : u = <<a>>
      OBVIOUS
    <2>2. a \in S
      BY <1>1, <1>6, ElementOfSeq
    <2>3. u \in Seq(S) /\ Len(u) = 1 /\ u[1] = a
      BY <2>1, <2>2
    <2>4. \A j \in 1..1 : t[j] = u[j]
      <3>1. \A j \in 1..1 : j = 1
        OBVIOUS
      <3> QED BY <1>4, <1>6, <2>3, <3>1
    <2> QED BY <1>4, <2>1, <2>3, <2>4, SeqEqual
  <1> QED BY <1>3, <1>5, <1>6

NamesIn(r, c, l) == {i \in 1..(l - 2) : r[i] = Quote /\ r[i + 1] = c /\ r[i + 2] = Quote}
Places(r, c, p, l) == {i \in p..l : r[i] = c}
LeastOf(T) == IF T = {} THEN 0 ELSE Min(T)

\* The first place of a name between quotes.
LEMMA FindThree ==
  ASSUME NEW S, NEW r \in Seq(S), NEW c
  PROVE  Find(r, Named(c), 1) = LeastOf(NamesIn(r, c, Len(r)))
  <1>1. PICK l \in Nat : l = Len(r)
    BY LenProperties
  <1>2. PICK w : w = Named(c) /\ Len(w) = 3
    <2>1. PICK T, a : a = Quote /\ a \in T /\ c \in T
      <3>1. Quote \in {Quote, c} /\ c \in {Quote, c}
        OBVIOUS
      <3> QED BY <3>1
    <2>2. Len(<<a, c, a>>) = 3
      BY <2>1
    <2> QED BY <2>1, <2>2 DEF Named
  <1>3. l - Len(w) + 1 = l - 2
    BY <1>1, <1>2
  <1>4. \A i \in 1..(l - 2) : SubSeq(r, i, i + Len(w) - 1) = w <=> r[i] = Quote /\ r[i + 1] = c /\ r[i + 2] = Quote
    <2> SUFFICES ASSUME NEW i \in 1..(l - 2)
                 PROVE  SubSeq(r, i, i + Len(w) - 1) = w <=> r[i] = Quote /\ r[i + 1] = c /\ r[i + 2] = Quote
      OBVIOUS
    <2>1. i \in Nat \ {0} /\ i + 2 <= Len(r)
      BY <1>1
    <2>2. SubSeq(r, i, i + 2) = Named(c) <=> r[i] = Quote /\ r[i + 1] = c /\ r[i + 2] = Quote
      BY <2>1, FoundThree
    <2>3. i + Len(w) - 1 = i + 2
      BY <1>2
    <2> QED BY <1>2, <2>2, <2>3, Zenon
  <1>5. {i \in 1..(l - Len(w) + 1) : SubSeq(r, i, i + Len(w) - 1) = w} = NamesIn(r, c, l)
    BY <1>3, <1>4, Zenon DEF NamesIn
  <1> QED BY <1>1, <1>2, <1>5, Zenon DEF Find, LeastOf, Places

\* The first place of a token.
LEMMA FindOne ==
  ASSUME NEW S, NEW r \in Seq(S), NEW a, NEW p \in Nat \ {0}, NEW l, l = Len(r)
  PROVE  Find(r, Single(a), p) = LeastOf(Places(r, a, p, l))
  <1>1. l \in Nat
    BY LenProperties
  <1>2. PICK w : w = Single(a) /\ w = <<a>> /\ Len(w) = 1
    <2>1. PICK T : a \in T
      <3>1. a \in {a}
        OBVIOUS
      <3> QED BY <3>1
    <2>2. Len(<<a>>) = 1
      BY <2>1
    <2> QED BY <2>2 DEF Single
  <1>3. l - Len(w) + 1 = l
    BY <1>1, <1>2
  <1>4. \A i \in p..l : SubSeq(r, i, i + Len(w) - 1) = w <=> r[i] = a
    <2> SUFFICES ASSUME NEW i \in p..l PROVE SubSeq(r, i, i + Len(w) - 1) = w <=> r[i] = a
      OBVIOUS
    <2>1. i \in Nat \ {0} /\ i <= Len(r)
      BY <1>1
    <2>2. SubSeq(r, i, i) = <<a>> <=> r[i] = a
      BY <2>1, FoundOne
    <2>3. i + Len(w) - 1 = i
      BY <1>2
    <2> QED BY <1>2, <2>2, <2>3, Zenon
  <1>5. {i \in p..(l - Len(w) + 1) : SubSeq(r, i, i + Len(w) - 1) = w} = {i \in p..l : r[i] = a}
    BY <1>3, <1>4, Zenon
  <1> QED BY <1>2, <1>5, Zenon DEF Find, LeastOf, Places

\* An object of which r has been read, and a name no value looks like.
Asked(s, r, o, b, e, K) ==
    /\ Layout(s, o, b, e) /\ r \in Seq(Alphabet) /\ Prefix(r, s)
    /\ IsWord(K) /\ \A i \in DOMAIN o : ~LooksLike(o[i].value, K)

\* The places of a name between quotes are where the fields of that name are.
LEMMA NamesAre ==
  ASSUME NEW s, NEW r, NEW o, NEW b, NEW e, NEW K, Asked(s, r, o, b, e, K), NEW l, l = Len(r)
  PROVE  \A x : x \in NamesIn(r, K, l) <=> \E i \in DOMAIN o : x = b[i] /\ o[i].key = K /\ b[i] + 2 <= l
  <1>1. /\ Layout(s, o, b, e) /\ r \in Seq(Alphabet) /\ IsWord(K)
        /\ \A i \in DOMAIN o : ~LooksLike(o[i].value, K)
    BY DEF Asked
  <1>2. PICK z \in Nat : z = Len(s) /\ l \in Nat /\ l <= z /\ \A i \in 1..l : r[i] = s[i]
    <2>1. Len(s) \in Nat /\ Len(r) \in Nat
      BY LenProperties DEF Asked, Layout
    <2> QED BY <2>1 DEF Asked, Prefix
  <1>3. ASSUME NEW x \in NamesIn(r, K, l)
        PROVE  \E i \in DOMAIN o : x = b[i] /\ o[i].key = K /\ b[i] + 2 <= l
    <2>1. x \in 1..(l - 2) /\ r[x] = Quote /\ r[x + 1] = K /\ r[x + 2] = Quote
      BY DEF NamesIn
    <2>2. x \in 1..l /\ x + 1 \in 1..l /\ x + 2 \in 1..l /\ x \in Nat /\ 1 <= x /\ x + 2 <= z /\ x + 2 <= l
      BY <1>2, <2>1
    <2>3. s[x] = Quote /\ s[x + 1] = K /\ s[x + 2] = Quote
      BY <1>2, <2>1, <2>2
    <2>4. x + 2 <= Len(s)
      BY <1>2, <2>2
    <2>5. \E i \in DOMAIN o : x = b[i] /\ o[i].key = K
      BY <1>1, <2>2, <2>3, <2>4, NameAt, SMTT(20)
    <2> QED BY <2>2, <2>5
  <1>4. ASSUME NEW i \in DOMAIN o, o[i].key = K, b[i] + 2 <= l PROVE b[i] \in NamesIn(r, K, l)
    <2>1. PICK a \in Nat \ {0} : a = b[i] /\ s[a] = Quote /\ s[a + 1] = K /\ s[a + 2] = Quote
      BY <1>1, <1>4 DEF Layout, FieldIn
    <2>2. a + 2 <= l
      BY <1>4, <2>1
    <2>3. a \in 1..(l - 2) /\ a \in 1..l /\ a + 1 \in 1..l /\ a + 2 \in 1..l
      BY <1>2, <2>2
    <2>4. r[a] = Quote /\ r[a + 1] = K /\ r[a + 2] = Quote
      BY <1>2, <2>1, <2>3
    <2> QED BY <2>1, <2>3, <2>4 DEF NamesIn
  <1> QED BY <1>3, <1>4

\* The first field of a name.
FirstField(o, K, j) ==
    j \in DOMAIN o /\ o[j].key = K /\ \A i \in DOMAIN o : o[i].key = K => j <= i

\* The name is found at the first field that has it, once that has been read (line 98).
LEMMA FindName ==
  ASSUME NEW s, NEW r, NEW o, NEW b, NEW e, NEW K, Asked(s, r, o, b, e, K), NEW l, l = Len(r)
  PROVE  /\ \A j : FirstField(o, K, j) =>
                Find(r, Named(K), 1) = IF b[j] + 2 <= l THEN b[j] ELSE 0
         /\ (\A i \in DOMAIN o : o[i].key # K) => Find(r, Named(K), 1) = 0
  <1>1. Find(r, Named(K), 1) = IF NamesIn(r, K, l) = {} THEN 0 ELSE Min(NamesIn(r, K, l))
    <2>1. r \in Seq(Alphabet)
      BY DEF Asked
    <2>2. Find(r, Named(K), 1) = LeastOf(NamesIn(r, K, Len(r)))
      BY <2>1, FindThree
    <2> QED BY <2>2, Zenon DEF LeastOf
  <1>2. \A x : x \in NamesIn(r, K, l) <=> \E i \in DOMAIN o : x = b[i] /\ o[i].key = K /\ b[i] + 2 <= l
    BY NamesAre
  <1>3. PICK n \in Nat : DOMAIN o = 1..n
    BY LenProperties DEF Asked, Layout
  <1>4. \A i \in DOMAIN o : b[i] \in Nat
    BY DEF Asked, Layout
  <1>5. \A i, j \in DOMAIN o : j <= i => b[j] <= b[i]
    <2> SUFFICES ASSUME NEW i \in DOMAIN o, NEW j \in DOMAIN o, j <= i PROVE b[j] <= b[i]
      OBVIOUS
    <2>1. CASE i = j
      BY <1>4, <2>1
    <2>2. CASE i # j
      <3>1. j < i
        BY <1>3, <2>2
      <3>2. e[j] < b[i] /\ FieldIn(s, o[j], b[j], e[j]) /\ o[j] \in Fields
        BY <3>1, LenProperties, ElementOfSeq DEF Asked, Layout
      <3>3. PICK a \in Nat, k \in Nat : a = b[j] /\ k = Len(ValueTokens(o[j])) /\ e[j] = (a + 4) + k
        BY <1>4, <3>2, ValueTokensIs DEF FieldIn
      <3> QED BY <1>4, <3>2, <3>3
    <2> QED BY <2>1, <2>2
  <1>6. l \in Nat
    BY LenProperties DEF Asked
  <1>7. ASSUME NEW j, FirstField(o, K, j)
        PROVE  Find(r, Named(K), 1) = IF b[j] + 2 <= l THEN b[j] ELSE 0
    <2>1. j \in DOMAIN o /\ o[j].key = K /\ \A i \in DOMAIN o : o[i].key = K => j <= i
      BY <1>7 DEF FirstField
    <2>2. \A x \in NamesIn(r, K, l) : b[j] <= x
      BY <1>2, <1>5, <2>1
    <2>3. CASE b[j] + 2 <= l
      <3>1. b[j] \in NamesIn(r, K, l)
        BY <1>2, <2>1, <2>3
      <3>2. NamesIn(r, K, l) \in SUBSET Int
        BY <1>6 DEF NamesIn
      <3>3. Min(NamesIn(r, K, l)) = b[j]
        BY <2>2, <3>1, <3>2, MinIs
      <3> QED BY <1>1, <2>3, <3>1, <3>3
    <2>4. CASE ~(b[j] + 2 <= l)
      <3>1. \A i \in DOMAIN o : o[i].key = K => ~(b[i] + 2 <= l)
        <4> SUFFICES ASSUME NEW i \in DOMAIN o, o[i].key = K, b[i] + 2 <= l PROVE FALSE
          OBVIOUS
        <4>1. b[j] <= b[i] /\ b[i] \in Nat /\ b[j] \in Nat
          BY <1>4, <1>5, <2>1
        <4>2. ~(b[j] + 2 <= l)
          BY <2>4
        <4> QED BY <1>6, <4>1, <4>2
      <3>2. NamesIn(r, K, l) = {}
        BY <1>2, <3>1
      <3> QED BY <1>1, <2>4, <3>2
    <2> QED BY <2>3, <2>4
  <1>8. ASSUME \A i \in DOMAIN o : o[i].key # K PROVE Find(r, Named(K), 1) = 0
    <2>1. NamesIn(r, K, l) = {}
      BY <1>2, <1>8
    <2> QED BY <1>1, <2>1
  <1> QED BY <1>7, <1>8

\* A field of which r holds a part, at a in r, its value's tokens c behind it.
FieldHere(r, o, b, j, a, l, k, c) ==
    /\ a = b[j] /\ l = Len(r) /\ c = ValueTokens(o[j]) /\ k = Len(c)
    /\ a \in Nat \ {0} /\ l \in Nat /\ k \in Nat \ {0}
    /\ a + 3 <= l => r[a + 3] = Colon
    /\ a + 4 <= l => r[a + 4] = Space
    /\ \A y \in 1..k : (a + 4) + y <= l => r[(a + 4) + y] = c[y]

\* What is left of a field in the part of an object that has been read.
LEMMA FieldRead ==
  ASSUME NEW s, NEW r, NEW o, NEW b, NEW e, NEW K, Asked(s, r, o, b, e, K), NEW j \in DOMAIN o
  PROVE  \E a, l, k, c : FieldHere(r, o, b, j, a, l, k, c)
  <1>1. /\ o[j] \in Fields /\ FieldIn(s, o[j], b[j], e[j])
        /\ r \in Seq(Alphabet) /\ s \in Seq(Alphabet) /\ Prefix(r, s)
    BY LenProperties, ElementOfSeq DEF Asked, Layout
  <1>2. PICK l \in Nat : l = Len(r) /\ \A i \in 1..l : r[i] = s[i]
    BY <1>1, LenProperties DEF Prefix
  <1>3a. PICK c : c = ValueTokens(o[j])
    OBVIOUS
  <1>3. PICK a \in Nat \ {0}, k \in Nat \ {0} :
            /\ a = b[j] /\ c = ValueTokens(o[j]) /\ k = Len(c)
            /\ s[a + 3] = Colon /\ s[a + 4] = Space /\ \A y \in 1..k : s[(a + 4) + y] = c[y]
    BY <1>1, <1>3a, ValueTokensIs DEF FieldIn, Behind
  <1>4. a + 3 <= l => r[a + 3] = Colon
    <2>1. a + 3 <= l => a + 3 \in 1..l
      OBVIOUS
    <2> QED BY <1>2, <1>3, <2>1
  <1>5. a + 4 <= l => r[a + 4] = Space
    <2>1. a + 4 <= l => a + 4 \in 1..l
      OBVIOUS
    <2> QED BY <1>2, <1>3, <2>1
  <1>6. \A y \in 1..k : (a + 4) + y <= l => r[(a + 4) + y] = c[y]
    <2>1. \A y \in 1..k : (a + 4) + y <= l => (a + 4) + y \in 1..l
      OBVIOUS
    <2> QED BY <1>2, <1>3, <2>1
  <1>7. FieldHere(r, o, b, j, a, l, k, c)
    BY <1>2, <1>3, <1>4, <1>5, <1>6 DEF FieldHere
  <1> QED BY <1>7

\* Where the spaces end that begin at p, when it is known whether there are any.
LEMMA SpacesEnd ==
  ASSUME NEW r, NEW p \in Nat \ {0}, NEW l \in Nat, l = Len(r)
  PROVE  /\ p <= l /\ r[p] # Space => AfterSpaces(r, p) = p
         /\ p < l /\ r[p] = Space /\ r[p + 1] # Space => AfterSpaces(r, p) = p + 1
         /\ p = l /\ r[p] = Space => AfterSpaces(r, p) = l + 1
         /\ p = l + 1 => AfterSpaces(r, p) = l + 1
  <1> DEFINE T == {i \in p..(l + 1) : i = l + 1 \/ r[i] # Space}
  <1>1. AfterSpaces(r, p) = Min(T)
    BY DEF AfterSpaces, Space
  <1>2. T \in SUBSET Int
    OBVIOUS
  <1>3. \A x : x \in T /\ (\A y \in T : x <= y) => AfterSpaces(r, p) = x
    <2> HIDE DEF T
    <2> QED BY <1>1, <1>2, MinIs
  <1>4. ASSUME p <= l, r[p] # Space PROVE AfterSpaces(r, p) = p
    <2>1. p \in T /\ \A y \in T : p <= y
      BY <1>4
    <2> HIDE DEF T
    <2> QED BY <1>3, <2>1
  <1>5. ASSUME p < l, r[p] = Space, r[p + 1] # Space PROVE AfterSpaces(r, p) = p + 1
    <2>1. p + 1 \in T
      BY <1>5
    <2>2. \A y \in T : p + 1 <= y
      <3>1. \A y \in T : p <= y /\ y # p /\ y \in Int
        BY <1>5
      <3> HIDE DEF T
      <3> QED BY <3>1
    <2> HIDE DEF T
    <2> QED BY <1>3, <2>1, <2>2
  <1>6. ASSUME p = l, r[p] = Space PROVE AfterSpaces(r, p) = l + 1
    <2>1. l + 1 \in T
      BY <1>6
    <2>2. \A y \in T : l + 1 <= y
      <3>1. \A y \in T : p <= y /\ y # p /\ y \in Int
        BY <1>6
      <3> HIDE DEF T
      <3> QED BY <1>6, <3>1
    <2> HIDE DEF T
    <2> QED BY <1>3, <2>1, <2>2
  <1>7. ASSUME p = l + 1 PROVE AfterSpaces(r, p) = l + 1
    <2>1. l + 1 \in T /\ \A y \in T : l + 1 <= y
      BY <1>7
    <2> HIDE DEF T
    <2> QED BY <1>3, <2>1
  <1> QED BY <1>4, <1>5, <1>6, <1>7

\* A value does not begin with a space.
LEMMA ValueBegins ==
  ASSUME NEW field \in Fields
  PROVE  /\ field.kind = "string" => ValueTokens(field)[1] = Quote
         /\ field.kind = "number" => ValueTokens(field)[1] \in ToSet(Digits)
         /\ ValueTokens(field)[1] # Space
  <1>1. CASE field.kind = "string"
    <2>1. PICK v \in Seq(Alphabet) : v = field.value
      BY FieldIs
    <2>2. ValueTokens(field) = QuotedText(v)
      BY <1>1, <2>1 DEF ValueTokens
    <2>3. QuotedText(v)[1] = Quote
      BY <2>1, TextTokens
    <2>4. ValueTokens(field)[1] = Quote
      BY <2>2, <2>3
    <2> QED BY <1>1, <2>4, TokensDiffer
  <1>2. CASE field.kind = "number"
    <2>1. field.value \in Seq(ToSet(Digits)) /\ field.value # <<>> /\ ValueTokens(field) = field.value
      BY <1>2, FieldIs DEF ValueTokens
    <2>2a. PICK u : u = field.value
      OBVIOUS
    <2>2. PICK n \in Nat : u = field.value /\ u \in Seq(ToSet(Digits)) /\ n = Len(u) /\ n # 0
      BY <2>1, <2>2a, LenProperties, EmptySeq
    <2>3. u[1] \in ToSet(Digits)
      <3>1. 1 \in 1..n
        BY <2>2
      <3> QED BY <2>2, <3>1, ElementOfSeq
    <2>4. ValueTokens(field)[1] \in ToSet(Digits)
      BY <2>1, <2>2, <2>3
    <2> QED BY <1>2, <2>4, TokensDiffer
  <1> QED BY <1>1, <1>2, FieldIs

\* Where a value starts, from where its name was found and where its colon was.
BehindColon(r, c) == {i \in IF c = 0 THEN {} ELSE {AfterSpaces(r, c + 1)} : i <= Len(r)}
ColonFrom(r, k) == IF k = 0 THEN 0 ELSE Find(r, Single(Colon), k + 3)

\* The first colon behind a name is the field's own (line 100).
LEMMA ColonFound ==
  ASSUME NEW r \in Seq(Alphabet), NEW l \in Nat, l = Len(r), NEW a \in Nat \ {0},
         a + 3 <= l => r[a + 3] = Colon
  PROVE  ColonFrom(r, a) = IF a + 3 <= l THEN a + 3 ELSE 0
  <1> DEFINE T == {i \in (a + 3)..l : r[i] = Colon}
  <1>1. Find(r, Single(Colon), a + 3) = IF T = {} THEN 0 ELSE Min(T)
    <2>1. a + 3 \in Nat \ {0}
      OBVIOUS
    <2>2. Find(r, Single(Colon), a + 3) = LeastOf(Places(r, Colon, a + 3, l))
      BY <2>1, FindOne
    <2> QED BY <2>2, Zenon DEF LeastOf, Places
  <1>2. CASE a + 3 <= l
    <2>1. a + 3 \in T /\ (\A y \in T : a + 3 <= y) /\ T \in SUBSET Int
      BY <1>2
    <2> HIDE DEF T
    <2>2. Min(T) = a + 3
      BY <2>1, MinIs
    <2> QED BY <1>1, <1>2, <2>1, <2>2 DEF ColonFrom
  <1>3. CASE ~(a + 3 <= l)
    <2>1. T = {}
      BY <1>3
    <2> HIDE DEF T
    <2> QED BY <1>1, <1>3, <2>1 DEF ColonFrom
  <1> QED BY <1>2, <1>3

\* Where the value of an object's field is looked for.
LEMMA ValueAtIs ==
  ASSUME NEW s, NEW r, NEW o, NEW b, NEW e, NEW K, Asked(s, r, o, b, e, K), NEW l, l = Len(r)
  PROVE  /\ \A j : FirstField(o, K, j) => ValueAt(r, K) = IF b[j] + 5 <= l THEN {b[j] + 5} ELSE {}
         /\ (\A i \in DOMAIN o : o[i].key # K) => ValueAt(r, K) = {}
  <1>1. ValueAt(r, K) = BehindColon(r, ColonFrom(r, Find(r, Named(K), 1)))
    BY DEF ValueAt, BehindColon, ColonFrom, Named, Single, Colon
  <1>2. r \in Seq(Alphabet) /\ l \in Nat
    BY LenProperties DEF Asked
  <1>3. BehindColon(r, ColonFrom(r, 0)) = {} /\ BehindColon(r, 0) = {}
    BY DEF BehindColon, ColonFrom
  <1>4. ASSUME \A i \in DOMAIN o : o[i].key # K PROVE ValueAt(r, K) = {}
    <2>1. Find(r, Named(K), 1) = 0
      BY <1>4, FindName
    <2> QED BY <1>1, <1>3, <2>1
  <1>5. ASSUME NEW j, FirstField(o, K, j) PROVE ValueAt(r, K) = IF b[j] + 5 <= l THEN {b[j] + 5} ELSE {}
    <2>1. j \in DOMAIN o /\ o[j] \in Fields
      BY <1>5, LenProperties, ElementOfSeq DEF FirstField, Asked, Layout
    <2>2. PICK a, n, k, c : FieldHere(r, o, b, j, a, n, k, c)
      BY <2>1, FieldRead
    <2>3. /\ a = b[j] /\ n = l /\ a \in Nat \ {0} /\ k \in Nat \ {0} /\ c[1] # Space
          /\ a + 3 <= l => r[a + 3] = Colon
          /\ a + 4 <= l => r[a + 4] = Space
          /\ \A y \in 1..k : (a + 4) + y <= l => r[(a + 4) + y] = c[y]
      BY <2>1, <2>2, ValueBegins DEF FieldHere
    <2>4. a + 5 <= l => r[a + 5] # Space
      <3>1. 1 \in 1..k /\ (a + 4) + 1 = a + 5
        BY <2>3
      <3> QED BY <2>3, <3>1
    <2>5. Find(r, Named(K), 1) = IF a + 2 <= l THEN a ELSE 0
      BY <1>5, <2>3, FindName
    <2>6. ColonFrom(r, a) = IF a + 3 <= l THEN a + 3 ELSE 0
      BY <1>2, <2>3, ColonFound
    <2>7. CASE a + 3 <= l
      <3>1. ValueAt(r, K) = {i \in {AfterSpaces(r, a + 4)} : i <= l}
        <4>1. Find(r, Named(K), 1) = a
          BY <2>3, <1>2, <2>5, <2>7
        <4>2. ColonFrom(r, a) = a + 3
          BY <2>6, <2>7
        <4>3. a + 3 # 0 /\ (a + 3) + 1 = a + 4
          BY <2>3
        <4>4. BehindColon(r, a + 3) = {i \in {AfterSpaces(r, a + 4)} : i <= l}
          BY <4>3 DEF BehindColon
        <4> QED BY <1>1, <4>1, <4>2, <4>4
      <3>2. PICK p \in Nat \ {0} : p = a + 4
        BY <2>3
      <3>3. AfterSpaces(r, p) = IF a + 5 <= l THEN a + 5 ELSE l + 1
        <4>1. CASE p < l
          <5>1. a + 5 <= l /\ p + 1 = a + 5 /\ p <= l
            BY <1>2, <2>3, <3>2, <4>1
          <5>2. r[p] = Space /\ r[p + 1] # Space
            BY <2>3, <2>4, <3>2, <5>1
          <5>3. AfterSpaces(r, p) = p + 1
            BY <1>2, <4>1, <5>2, SpacesEnd
          <5> QED BY <5>1, <5>3
        <4>2. CASE p = l
          <5>1. ~(a + 5 <= l) /\ a + 4 <= l
            BY <1>2, <2>3, <3>2, <4>2
          <5>2. r[p] = Space
            BY <2>3, <3>2, <5>1
          <5>3. AfterSpaces(r, p) = l + 1
            BY <1>2, <4>2, <5>2, SpacesEnd
          <5> QED BY <5>1, <5>3
        <4>3. CASE p = l + 1
          <5>1. ~(a + 5 <= l)
            BY <1>2, <2>3, <3>2, <4>3
          <5>2. AfterSpaces(r, p) = l + 1
            BY <1>2, <4>3, SpacesEnd
          <5> QED BY <5>1, <5>2
        <4>4. p < l \/ p = l \/ p = l + 1
          BY <1>2, <2>3, <2>7, <3>2
        <4> QED BY <4>1, <4>2, <4>3, <4>4
      <3>4. CASE a + 5 <= l
        <4>1. AfterSpaces(r, a + 4) = a + 5
          BY <3>2, <3>3, <3>4
        <4>2. {i \in {a + 5} : i <= l} = {a + 5}
          BY <3>4
        <4> QED BY <2>3, <3>1, <3>4, <4>1, <4>2
      <3>5. CASE ~(a + 5 <= l)
        <4>1. AfterSpaces(r, a + 4) = l + 1
          BY <3>2, <3>3, <3>5
        <4>2. {i \in {l + 1} : i <= l} = {}
          BY <1>2
        <4> QED BY <2>3, <3>1, <3>5, <4>1, <4>2
      <3> QED BY <3>4, <3>5
    <2>8. CASE ~(a + 3 <= l)
      <3>1. ValueAt(r, K) = {}
        BY <1>1, <1>3, <2>5, <2>6, <2>8
      <3>2. ~(a + 5 <= l)
        BY <1>2, <2>3, <2>8
      <3> QED BY <2>3, <3>1, <3>2
    <2> QED BY <2>7, <2>8
  <1> QED BY <1>4, <1>5

ReadAt(r, i) == StringFrom(r, i + 1, Escaped(r, i + 1))

\* What string_value finds in what has been read of an object.
LEMMA StringIs ==
  ASSUME NEW s, NEW r, NEW o, NEW b, NEW e, NEW K, Asked(s, r, o, b, e, K), NEW l, l = Len(r)
  PROVE  /\ \A j : FirstField(o, K, j) =>
                StringValue(r, K) = IF o[j].kind = "string" /\ e[j] <= l THEN {o[j].value} ELSE {}
         /\ (\A i \in DOMAIN o : o[i].key # K) => StringValue(r, K) = {}
  <1>1. StringValue(r, K) = UNION {ReadAt(r, i) : i \in {i \in ValueAt(r, K) : r[i] = Quote}}
    BY DEF StringValue, ReadAt
  <1>2. r \in Seq(Alphabet) /\ l \in Nat
    BY LenProperties DEF Asked
  <1>3. ValueAt(r, K) = {} => StringValue(r, K) = {}
    BY <1>1
  <1>4. \A p : ValueAt(r, K) = {p} => StringValue(r, K) = IF r[p] = Quote THEN ReadAt(r, p) ELSE {}
    <2> SUFFICES ASSUME NEW p, ValueAt(r, K) = {p}
                 PROVE  StringValue(r, K) = IF r[p] = Quote THEN ReadAt(r, p) ELSE {}
      OBVIOUS
    <2>1. CASE r[p] = Quote
      <3>1. {i \in ValueAt(r, K) : r[i] = Quote} = {p}
        BY <2>1
      <3> QED BY <1>1, <2>1, <3>1
    <2>2. CASE r[p] # Quote
      <3>1. {i \in ValueAt(r, K) : r[i] = Quote} = {}
        BY <2>2
      <3> QED BY <1>1, <2>2, <3>1
    <2> QED BY <2>1, <2>2
  <1>5. ASSUME \A i \in DOMAIN o : o[i].key # K PROVE StringValue(r, K) = {}
    BY <1>3, <1>5, ValueAtIs
  <1>6. ASSUME NEW j, FirstField(o, K, j)
        PROVE  StringValue(r, K) = IF o[j].kind = "string" /\ e[j] <= l THEN {o[j].value} ELSE {}
    <2>1. j \in DOMAIN o /\ o[j] \in Fields /\ FieldIn(s, o[j], b[j], e[j])
      BY <1>6, LenProperties, ElementOfSeq DEF FirstField, Asked, Layout
    <2>2. PICK a, n, k, c : FieldHere(r, o, b, j, a, n, k, c)
      BY <1>6, FieldRead DEF FirstField
    <2>3. /\ a = b[j] /\ n = l /\ a \in Nat \ {0} /\ k \in Nat \ {0}
          /\ \A y \in 1..k : (a + 4) + y <= l => r[(a + 4) + y] = c[y]
      BY <2>1, <2>2 DEF FieldHere
    <2>4. e[j] = (a + 4) + k /\ c = ValueTokens(o[j])
      BY <2>1, <2>2 DEF FieldHere, FieldIn
    <2>5. ValueAt(r, K) = IF a + 5 <= l THEN {a + 5} ELSE {}
      BY <1>6, <2>3, ValueAtIs
    <2>6. CASE ~(a + 5 <= l)
      <3>1. ~(e[j] <= l)
        BY <1>2, <2>3, <2>4, <2>6
      <3> QED BY <1>3, <2>5, <2>6, <3>1
    <2>7. CASE a + 5 <= l
      <3>1. r[a + 5] = c[1]
        <4>1. 1 \in 1..k /\ (a + 4) + 1 = a + 5
          BY <2>3
        <4> QED BY <2>3, <2>7, <4>1
      <3>2. StringValue(r, K) = IF r[a + 5] = Quote THEN ReadAt(r, a + 5) ELSE {}
        BY <1>4, <2>5, <2>7
      <3>3. CASE o[j].kind # "string"
        <4>1. c[1] \in ToSet(Digits)
          BY <2>1, <2>4, <3>3, FieldIs, ValueBegins
        <4>2. r[a + 5] # Quote
          BY <3>1, <4>1, TokensDiffer
        <4> QED BY <3>2, <3>3, <4>2
      <3>4. CASE o[j].kind = "string"
        <4>1. r[a + 5] = Quote
          BY <2>1, <2>4, <3>1, <3>4, ValueBegins
        <4>2. PICK at : TextAt(s, o[j].value, b[j] + 5, at, e[j])
          BY <2>1, <3>4, TextIn
        <4>3. PICK v, p, q : v = o[j].value /\ p = a + 5 /\ q = e[j] /\ TextAt(s, v, p, at, q)
          BY <2>3, <4>2
        <4>4. Given(v, s, r, p, at, q)
          <5>1. v \in Seq(Alphabet) /\ Spelled(v, s, p, at) /\ q = at[Len(v)] + 1 /\ s[q] = Quote
            BY <4>3 DEF TextAt
          <5>2. s \in Seq(Alphabet) /\ Prefix(r, s)
            BY DEF Asked, Layout
          <5>3. p \in Nat \ {0} /\ p <= Len(r)
            BY <2>3, <2>7, <4>3
          <5>4. q <= Len(s)
            <6>1. PICK x \in Nat, y \in Nat : x = e[j] /\ y = Len(s) /\ x < y
              BY <2>1, <5>2, LenProperties DEF FieldIn
            <6> QED BY <4>3, <6>1
          <5> QED BY <1>2, <5>1, <5>2, <5>3, <5>4 DEF Given
        <4>5. ReadAt(r, p) = IF q <= Len(r) THEN {v} ELSE {}
          BY <4>4, ReadsBack DEF ReadAt
        <4> QED BY <3>2, <3>4, <4>1, <4>3, <4>5
      <3> QED BY <3>3, <3>4
    <2> QED BY <2>6, <2>7
  <1> QED BY <1>5, <1>6

\* The largest of a set of integers is its Max.
LEMMA MaxIs ==
  ASSUME NEW S \in SUBSET Int, NEW x \in S, \A y \in S : y <= x
  PROVE  Max(S) = x
  <1>1. \A z \in S : (\A y \in S : z >= y) => z = x
    OBVIOUS
  <1> QED BY <1>1 DEF Max

\* The digits of a number end before the comma or brace behind it.
LEMMA DigitsEnd ==
  ASSUME NEW s \in Seq(Alphabet), NEW p \in Nat \ {0}, NEW z \in Nat, p <= z, z < Len(s),
         \A x \in p..z : s[x] \in ToSet(Digits), s[z + 1] \notin ToSet(Digits)
  PROVE  DigitsFrom(s, p) = SubSeq(s, p, z)
  <1>1. PICK l \in Nat : l = Len(s) /\ z < l
    BY LenProperties
  <1> DEFINE T == {j \in p..Len(s) : \A x \in p..j : s[x] \in ToSet(Digits)}
  <1>2. z \in T
    BY <1>1
  <1>3. ASSUME NEW j \in T PROVE j <= z
    <2>1. ~(z + 1 \in p..j)
      BY <1>3
    <2>2. j \in Int
      BY <1>1
    <2> HIDE DEF T
    <2> QED BY <2>1, <2>2
  <1>4. T \in SUBSET Int
    BY <1>1
  <1>5. Max(T) = z
    <2> HIDE DEF T
    <2> QED BY <1>2, <1>3, <1>4, MaxIs
  <1> QED BY <1>5, Zenon DEF DigitsFrom

\* The digits that size_value reads are the number's own (lines 143-149).
LEMMA DigitsOf ==
  ASSUME NEW s \in Seq(Alphabet), NEW field \in Fields, NEW b, NEW e, FieldIn(s, field, b, e),
         field.kind = "number"
  PROVE  DigitsFrom(s, b + 5) = field.value
  <1>1a. PICK c : c = field.value
    OBVIOUS
  <1>1. PICK k \in Nat \ {0} :
            c = field.value /\ k = Len(c) /\ c = ValueTokens(field) /\ c \in Seq(ToSet(Digits))
    <2>1. ValueTokens(field) = field.value /\ field.value \in Seq(ToSet(Digits))
      BY FieldIs DEF ValueTokens
    <2> QED BY <1>1a, <2>1, ValueTokensIs
  <1>2. PICK a \in Nat \ {0}, z \in Nat, l \in Nat : a = b /\ z = e /\ l = Len(s)
    BY LenProperties DEF FieldIn
  <1>3. /\ z = (a + 4) + k /\ z < l /\ s[z + 1] \in {Comma, Brace}
        /\ \A y \in 1..k : s[(a + 4) + y] = c[y]
    BY <1>1, <1>2 DEF FieldIn, Behind
  <1>4. \A x \in (a + 5)..z : x - (a + 4) \in 1..k /\ (a + 4) + (x - (a + 4)) = x
    <2>1. z = (a + 4) + k
      BY <1>3
    <2> QED BY <2>1
  <1>5. \A x \in (a + 5)..z : s[x] \in ToSet(Digits)
    <2> SUFFICES ASSUME NEW x \in (a + 5)..z PROVE s[x] \in ToSet(Digits)
      OBVIOUS
    <2>1. PICK y \in 1..k : (a + 4) + y = x
      BY <1>4
    <2>2. s[x] = c[y]
      BY <1>3, <2>1
    <2> QED BY <1>1, <2>2, ElementOfSeq
  <1>6. PICK p \in Nat \ {0} : p = a + 5 /\ p <= z /\ p = b + 5
    <2>1. z = (a + 4) + k
      BY <1>3
    <2>2. a + 5 \in Nat \ {0} /\ a + 5 <= z
      BY <2>1
    <2> QED BY <1>2, <2>2
  <1>7. DigitsFrom(s, p) = SubSeq(s, p, z)
    <2>1. s[z + 1] \notin ToSet(Digits)
      BY <1>3, TokensDiffer
    <2>2. z < Len(s)
      BY <1>2, <1>3
    <2> QED BY <1>5, <1>6, <2>1, <2>2, DigitsEnd
  <1>8. PICK t : t = SubSeq(s, p, z)
    OBVIOUS
  <1>9. t \in Seq(Alphabet) /\ Len(t) = z - p + 1 /\ \A i \in 1..(z - p + 1) : t[i] = s[p + i - 1]
    <2>1. \A i \in p..z : s[i] \in Alphabet
      <3>1. \A i \in p..z : i \in 1..l
        BY <1>3
      <3> QED BY <1>2, <3>1, ElementOfSeq
    <2>2. p <= z + 1
      BY <1>6
    <2> QED BY <1>8, <2>1, <2>2, SubSeqProperties
  <1>10. z - p + 1 = k
    <2>1. z = (a + 4) + k /\ p = a + 5
      BY <1>3, <1>6
    <2> QED BY <2>1
  <1>11. \A i \in 1..k : t[i] = c[i]
    <2> SUFFICES ASSUME NEW i \in 1..k PROVE t[i] = c[i]
      OBVIOUS
    <2>1. p + i - 1 = (a + 4) + i
      BY <1>6
    <2> QED BY <1>3, <1>9, <1>10, <2>1
  <1>12. c \in Seq(Alphabet)
    BY <1>1, FieldIs
  <1>13. t = c
    BY <1>1, <1>9, <1>10, <1>11, <1>12, SeqEqual
  <1> QED BY <1>1, <1>6, <1>7, <1>8, <1>13

NumberAt(s, i) == Decimal(DigitsFrom(s, i))

\* What size_value finds in an object that has been read whole.
LEMMA SizeIs ==
  ASSUME NEW s, NEW o, NEW b, NEW e, NEW K, Asked(s, s, o, b, e, K)
  PROVE  /\ \A j : FirstField(o, K, j) =>
                SizeValue(s, K) =
                    (IF o[j].kind = "number" THEN {Decimal(o[j].value)} ELSE {}) \cap 0..MaxSize
         /\ (\A i \in DOMAIN o : o[i].key # K) => SizeValue(s, K) = {}
  <1> DEFINE T == {i \in ValueAt(s, K) : StringValue(s, K) = {} /\ s[i] \in ToSet(Digits)}
  <1>1. SizeValue(s, K) = {NumberAt(s, i) : i \in T} \cap 0..MaxSize
    BY Zenon DEF SizeValue, NumberAt
  <1>2. s \in Seq(Alphabet)
    BY DEF Asked
  <1>3. PICK l \in Nat : l = Len(s)
    BY <1>2, LenProperties
  <1>4. ASSUME \A i \in DOMAIN o : o[i].key # K PROVE SizeValue(s, K) = {}
    <2>1. ValueAt(s, K) = {}
      BY <1>3, <1>4, ValueAtIs
    <2>2. T = {}
      BY <2>1
    <2> HIDE DEF T
    <2> QED BY <1>1, <2>2
  <1>5. ASSUME NEW j, FirstField(o, K, j)
        PROVE  SizeValue(s, K) =
                   (IF o[j].kind = "number" THEN {Decimal(o[j].value)} ELSE {}) \cap 0..MaxSize
    <2>1. j \in DOMAIN o /\ o[j] \in Fields /\ FieldIn(s, o[j], b[j], e[j])
      BY <1>5, LenProperties, ElementOfSeq DEF FirstField, Asked, Layout
    <2>2. PICK a, n, k, c : FieldHere(s, o, b, j, a, n, k, c)
      BY <1>5, FieldRead DEF FirstField
    <2>3. /\ a = b[j] /\ n = l /\ a \in Nat \ {0} /\ k \in Nat \ {0}
          /\ \A y \in 1..k : (a + 4) + y <= l => s[(a + 4) + y] = c[y]
      BY <1>3, <2>1, <2>2 DEF FieldHere
    <2>4. e[j] = (a + 4) + k /\ c = ValueTokens(o[j]) /\ e[j] < l
      BY <1>3, <2>1, <2>2 DEF FieldHere, FieldIn
    <2>5. a + 5 <= l /\ e[j] <= l
      BY <1>3, <2>3, <2>4
    <2>6. ValueAt(s, K) = {a + 5}
      <3>1. ValueAt(s, K) = IF a + 5 <= l THEN {a + 5} ELSE {}
        BY <1>3, <1>5, <2>3, ValueAtIs
      <3> QED BY <2>5, <3>1
    <2>7. s[a + 5] = c[1]
      <3>1. 1 \in 1..k /\ (a + 4) + 1 = a + 5
        BY <2>3
      <3> QED BY <2>3, <2>5, <3>1
    <2>8. CASE o[j].kind = "number"
      <3>1. StringValue(s, K) = {}
        <4>1. o[j].kind # "string"
          BY <2>8
        <4>2. StringValue(s, K) = IF o[j].kind = "string" /\ e[j] <= l THEN {o[j].value} ELSE {}
          BY <1>3, <1>5, StringIs
        <4> QED BY <4>1, <4>2
      <3>2. s[a + 5] \in ToSet(Digits)
        BY <2>1, <2>4, <2>7, <2>8, ValueBegins
      <3>3. T = {a + 5}
        BY <2>6, <3>1, <3>2
      <3>4. NumberAt(s, a + 5) = Decimal(o[j].value)
        <4>1. DigitsFrom(s, b[j] + 5) = o[j].value
          BY <1>2, <2>1, <2>8, DigitsOf
        <4> QED BY <2>3, <4>1 DEF NumberAt
      <3>5. {NumberAt(s, i) : i \in T} = {NumberAt(s, a + 5)}
        <4> HIDE DEF T
        <4> QED BY <3>3
      <3> HIDE DEF T
      <3> QED BY <1>1, <2>8, <3>4, <3>5
    <2>9. CASE o[j].kind # "number"
      <3>1. o[j].kind = "string"
        BY <2>1, <2>9, FieldIs
      <3>2. s[a + 5] \notin ToSet(Digits)
        <4>1. c[1] = Quote
          BY <2>1, <2>4, <3>1, ValueBegins
        <4> QED BY <2>7, <4>1, TokensDiffer
      <3>3. T = {}
        BY <2>6, <3>2
      <3> HIDE DEF T
      <3> QED BY <1>1, <2>9, <3>3
    <2> QED BY <2>8, <2>9
  <1> QED BY <1>4, <1>5

\* The first field of a name, and what is the object's own under it.
LEMMA FirstFieldIs ==
  ASSUME NEW o \in Seq(Fields), NEW K, \E i \in DOMAIN o : o[i].key = K
  PROVE  \E j : FirstField(o, K, j)
  <1>1. PICK n \in Nat : DOMAIN o = 1..n
    BY LenProperties
  <1> DEFINE T == {i \in DOMAIN o : o[i].key = K}
  <1>2. T \in SUBSET Nat /\ T # {}
    BY <1>1
  <1>3. PICK j \in T : \A i \in T : j <= i
    <2> HIDE DEF T
    <2> QED BY <1>2, Least
  <1>4. FirstField(o, K, j)
    BY <1>3 DEF FirstField
  <1> QED BY <1>4

\* What an object's own values are, from its first field of the name.
LEMMA OwnIs ==
  ASSUME NEW o \in Seq(Fields), NEW K, NEW kind
  PROVE  /\ \A j : FirstField(o, K, j) =>
                Own(o, K, kind) = IF o[j].kind = kind THEN {o[j].value} ELSE {}
         /\ (\A i \in DOMAIN o : o[i].key # K) => Own(o, K, kind) = {}
  <1> DEFINE T == {i \in DOMAIN o : o[i].key = K}
  <1>1. Own(o, K, kind) = {o[i].value : i \in {i \in First(T) : o[i].kind = kind}}
    BY DEF Own
  <1>2. ASSUME \A i \in DOMAIN o : o[i].key # K PROVE Own(o, K, kind) = {}
    <2>1. T = {}
      BY <1>2
    <2> HIDE DEF T
    <2>2. First(T) = {}
      BY <2>1 DEF First
    <2> QED BY <1>1, <2>2
  <1>3. ASSUME NEW j, FirstField(o, K, j)
        PROVE  Own(o, K, kind) = IF o[j].kind = kind THEN {o[j].value} ELSE {}
    <2>1. T \in SUBSET Int /\ j \in T /\ \A i \in T : j <= i
      BY <1>3, LenProperties DEF FirstField
    <2> HIDE DEF T
    <2>2. First(T) = {j}
      BY <2>1, MinIs
    <2>3. {i \in First(T) : o[i].kind = kind} = IF o[j].kind = kind THEN {j} ELSE {}
      BY <2>2
    <2>4. \A S : S = {} => {o[i].value : i \in S} = {}
      OBVIOUS
    <2>5. {o[i].value : i \in {j}} = {o[j].value}
      OBVIOUS
    <2> QED BY <1>1, <2>3, <2>4, <2>5
  <1> QED BY <1>2, <1>3

\* What the lookups find in an object, whatever part of it has been read.
LEMMA FieldsOf ==
  ASSUME NEW s, NEW r, NEW o, NEW b, NEW e, NEW K, Asked(s, r, o, b, e, K)
  PROVE  /\ StringValue(r, K) \subseteq Own(o, K, "string")
         /\ r = s => /\ StringValue(r, K) = Own(o, K, "string")
                     /\ SizeValue(r, K) = {Decimal(n) : n \in Own(o, K, "number")} \cap 0..MaxSize
  <1>1. PICK l \in Nat : l = Len(r)
    BY LenProperties DEF Asked
  <1>2. o \in Seq(Fields)
    BY DEF Asked, Layout
  <1>3. CASE \A i \in DOMAIN o : o[i].key # K
    <2>1. StringValue(r, K) = {} /\ Own(o, K, "string") = {} /\ Own(o, K, "number") = {}
      BY <1>1, <1>2, <1>3, StringIs, OwnIs
    <2>2. r = s => SizeValue(r, K) = {}
      BY <1>3, SizeIs
    <2>3. {Decimal(n) : n \in {}} \cap 0..MaxSize = {}
      OBVIOUS
    <2> QED BY <2>1, <2>2, <2>3
  <1>4. CASE \E i \in DOMAIN o : o[i].key = K
    <2>1. PICK j : FirstField(o, K, j)
      BY <1>2, <1>4, FirstFieldIs
    <2>2. StringValue(r, K) = IF o[j].kind = "string" /\ e[j] <= l THEN {o[j].value} ELSE {}
      BY <1>1, <2>1, StringIs
    <2>3. /\ Own(o, K, "string") = IF o[j].kind = "string" THEN {o[j].value} ELSE {}
          /\ Own(o, K, "number") = IF o[j].kind = "number" THEN {o[j].value} ELSE {}
      BY <1>2, <2>1, OwnIs
    <2>4. r = s => e[j] <= l
      <3>1. PICK x \in Nat, y \in Nat : x = e[j] /\ y = Len(s) /\ x < y
        <4>1. FieldIn(s, o[j], b[j], e[j]) /\ s \in Seq(Alphabet)
          BY <2>1 DEF FirstField, Asked, Layout
        <4> QED BY <4>1, LenProperties DEF FieldIn
      <3> QED BY <1>1, <3>1
    <2>5. r = s => SizeValue(r, K) =
                       (IF o[j].kind = "number" THEN {Decimal(o[j].value)} ELSE {}) \cap 0..MaxSize
      BY <2>1, SizeIs
    <2>6. {Decimal(n) : n \in Own(o, K, "number")} =
              IF o[j].kind = "number" THEN {Decimal(o[j].value)} ELSE {}
      <3>1. CASE o[j].kind = "number"
        <4>1. Own(o, K, "number") = {o[j].value}
          BY <2>3, <3>1
        <4> QED BY <3>1, <4>1
      <3>2. CASE o[j].kind # "number"
        <4>1. Own(o, K, "number") = {}
          BY <2>3, <3>2
        <4> QED BY <3>2, <4>1
      <3> QED BY <3>1, <3>2
    <2>7. StringValue(r, K) \subseteq Own(o, K, "string")
      BY <2>2, <2>3
    <2>8. r = s => StringValue(r, K) = Own(o, K, "string")
      BY <2>2, <2>3, <2>4
    <2>9. r = s => SizeValue(r, K) = {Decimal(n) : n \in Own(o, K, "number")} \cap 0..MaxSize
      BY <2>5, <2>6
    <2> QED BY <2>7, <2>8, <2>9
  <1> QED BY <1>3, <1>4

\* What has been accumulated of a message is its beginning.
LEMMA RequestBegins ==
  ASSUME IInv, message \in Seq(Alphabet)
  PROVE  request \in Seq(Alphabet) /\ Prefix(request, message)
  <1>1. PICK q, w, u, m : q = request /\ w = wire /\ u = unsent /\ m = message
    OBVIOUS
  <1>2. q \in Seq(Tokens) /\ w \in Seq(Tokens) /\ u \in Seq(Tokens) /\ m = q \o (w \o u) /\ m \in Seq(Alphabet)
    BY <1>1 DEF IInv, TypeOK, Split
  <1>3. PICK v : v = w \o u /\ v \in Seq(Tokens)
    BY <1>2, ConcatProperties
  <1>4. PICK k \in Nat, n \in Nat : k = Len(q) /\ n = Len(v)
    BY <1>2, <1>3, LenProperties
  <1>5. Len(m) = k + n /\ \A i \in 1..(k + n) : m[i] = IF i <= k THEN q[i] ELSE v[i - k]
    <2>1. m = q \o v /\ q \in Seq(Tokens) /\ v \in Seq(Tokens)
      BY <1>2, <1>3
    <2> QED BY <1>4, <2>1, ConcatProperties
  <1>6. \A i \in 1..k : i \in 1..(k + n) /\ q[i] = m[i]
    BY <1>5
  <1>7. \A i \in 1..k : q[i] \in Alphabet
    BY <1>2, <1>5, <1>6, ElementOfSeq
  <1>8. q \in Seq(Alphabet)
    <2>1. q \in [1..k -> Tokens]
      BY <1>2, <1>4, LenProperties
    <2>2. q \in [1..k -> Alphabet]
      BY <1>7, <2>1
    <2> QED BY <1>4, <2>2, SeqDef
  <1>9. Prefix(q, m)
    BY <1>4, <1>5, <1>6 DEF Prefix
  <1> QED BY <1>1, <1>8, <1>9

\* Whatever a client's object is, and wherever the reading of it stopped, the lookups
\* find the object's own values or nothing (main_daemon.cpp, lines 106-211).
THEOREM FieldsReadHolds == Spec => []FieldsRead
  <1>1. IInv => FieldsRead
    <2> SUFFICES ASSUME IInv, NEW o \in Objects, message = Written(o),
                        NEW K \in {o[i].key : i \in DOMAIN o} \cup {"action"},
                        \A i \in DOMAIN o : ~LooksLike(o[i].value, K)
                 PROVE  /\ StringValue(request, K) \subseteq Own(o, K, "string")
                        /\ request = message =>
                              /\ StringValue(request, K) = Own(o, K, "string")
                              /\ SizeValue(request, K) =
                                    {Decimal(n) : n \in Own(o, K, "number")} \cap 0..MaxSize
      BY DEF FieldsRead
    <2>1. o \in Seq(Fields)
      BY ObjectsAssumption DEF Fields
    <2>2. PICK b, e : Layout(message, o, b, e)
      BY <2>1, LayoutIs
    <2>3. request \in Seq(Alphabet) /\ Prefix(request, message)
      BY <2>2, RequestBegins DEF Layout
    <2>4. IsWord(K)
      <3>1. \A i \in DOMAIN o : IsWord(o[i].key)
        BY <2>1, LenProperties, ElementOfSeq, FieldIs, TokensDiffer DEF IsWord
      <3>2. IsWord("action")
        BY DigitsAre DEF IsWord, Marks, Punctuation, Quote, Slash, Brace, Open, Colon, Comma, Space
      <3> QED BY <3>1, <3>2
    <2>5. Asked(message, request, o, b, e, K)
      BY <2>2, <2>3, <2>4 DEF Asked
    <2> QED BY <2>5, FieldsOf
  <1> QED BY <1>1, Inductive, PTL

=============================================================================

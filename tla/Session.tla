------------------------------ MODULE Session -------------------------------
(***************************************************************************)
(* One connection on one worker: handle_client reads chunks until it has   *)
(* seen a closing brace, the limit or the end of the stream, answers, and  *)
(* safe_write sends the answer in as many writes as it takes.  A byte is a *)
(* token of Router, which route_request's part comes from; kMaxRequestBytes *)
(* and the 4096 bytes of the buffer become the small Limit and Chunk.      *)
(* A read or write interrupted by a signal (EINTR) is repeated and changes *)
(* nothing: it is a stuttering step.                                       *)
(***************************************************************************)
EXTENDS Router

CONSTANTS
    Limit,     \* kMaxRequestBytes
    Chunk,     \* size of the read buffer
    Objects,   \* the objects clients send, as sequences of fields
    Streams    \* other things they may send, as sequences of tokens

ASSUME SessionAssumption == {Limit, Chunk} \subseteq Nat \ {0}

Brace == "}"

\* A field's name is a word; its value is a text, or a number's digits.
Words  == STRING \ ({Quote, Slash, "{", Brace, ":", ",", " "} \cup ToSet(Digits))
Number == [key : Words, kind : {"number"}, value : Seq(ToSet(Digits)) \ {<<>>}]
Text   == [key : Words, kind : {"string"}, value : Seq(STRING)]

ASSUME ObjectsAssumption == Objects \subseteq Seq(Number \cup Text)

\* How a client writes an object: every quote and backslash escaped.
EscapedToken(c) == IF c \in {Quote, Slash} THEN <<Slash, c>> ELSE <<c>>

Member(field) ==
    <<Quote, field.key, Quote, ":", " ">> \o
    (IF field.kind = "number" THEN field.value
     ELSE <<Quote>> \o FlattenSeq([i \in DOMAIN field.value |-> EscapedToken(field.value[i])])
                    \o <<Quote>>)

Written(object) ==
    <<"{">> \o FlattenSeq([i \in DOMAIN object |->
                 IF i = 1 THEN Member(object[i]) ELSE <<",">> \o Member(object[i])]) \o <<Brace>>

Messages == {Written(o) : o \in Objects} \cup Streams
Tokens   == UNION {ToSet(m) : m \in Messages}

ASSUME MessagesAssumption == Messages \subseteq Seq(Tokens)

VARIABLES
    message,   \* everything this client wants to send (never changes)
    unsent,    \* the part it has not written yet
    wire,      \* written and not read
    peer,      \* the client's end: "open", "half" (no more input), "gone"
    pc,        \* "read", "respond", "write"; then "closed", "cut" when a write
               \* failed before the close, or "killed" (SIGPIPE)
    request,   \* the string handle_client has accumulated
    request_complete,
    verdict,   \* how the response was chosen
    result,    \* what route_request did, when it was called
    offset,    \* safe_write's offset
    received   \* what has been written to the client

vars == <<message, unsent, wire, peer, pc, request, request_complete, verdict,
          result, offset, received>>

clientVars == <<message, unsent, peer>>
answerVars == <<verdict, result>>

Response == ResponseTo(result.answer)

Init ==
    /\ message \in Messages
    /\ unsent = message
    /\ wire = <<>>
    /\ peer = "open"
    /\ pc = "read"
    /\ request = <<>>
    /\ request_complete = FALSE
    /\ verdict = "none"
    /\ result = Refused
    /\ offset = 0
    /\ received = <<>>
-----------------------------------------------------------------------------
(***************************************************************************)
(* The client.                                                             *)
(***************************************************************************)
ClientSend(n) ==
    /\ peer = "open" /\ n <= Len(unsent)
    /\ wire' = wire \o SubSeq(unsent, 1, n)
    /\ unsent' = SubSeq(unsent, n + 1, Len(unsent))
    /\ UNCHANGED <<message, peer, pc, request, request_complete,
                   answerVars, offset, received>>

\* The client has sent everything and shuts its side down.
ClientFinish ==
    /\ peer = "open" /\ unsent = <<>>
    /\ peer' = "half"
    /\ UNCHANGED <<message, unsent, wire, pc, request, request_complete,
                   answerVars, offset, received>>

ClientVanish ==
    /\ peer # "gone"
    /\ peer' = "gone"
    /\ UNCHANGED <<message, unsent, wire, pc, request, request_complete,
                   answerVars, offset, received>>
-----------------------------------------------------------------------------
(***************************************************************************)
(* The read loop.                                                          *)
(***************************************************************************)
Reading == pc = "read"

\* A read that returned n bytes: append, look for a brace in all there is,
\* and test the limit before the next read.
Accept(n, found, full) ==
    /\ Reading
    /\ n <= Chunk /\ n <= Len(wire)
    /\ request' = request \o SubSeq(wire, 1, n)
    /\ wire' = SubSeq(wire, n + 1, Len(wire))
    /\ request_complete' = found
    /\ pc' = IF found \/ full THEN "respond" ELSE "read"
    /\ UNCHANGED <<clientVars, answerVars, offset, received>>

Got(n) == request \o SubSeq(wire, 1, n)

ReadOnce(n)   == Accept(n, TRUE, TRUE)                                    \* fault

ReadChunk(n) == Accept(n, Contains(Got(n), Brace), Len(Got(n)) >= Limit)

\* read returns 0 once the client has ended its side and the wire is empty.
ReadEndIf(ended) ==
    /\ Reading
    /\ ended
    /\ pc' = "respond"
    /\ UNCHANGED <<clientVars, wire, request, request_complete,
                   answerVars, offset, received>>

ReadEndIfGone == ReadEndIf(peer = "gone" /\ wire = <<>>)  \* fault: 0 is tried again

ReadEnd == ReadEndIf(peer # "open" /\ wire = <<>>)
-----------------------------------------------------------------------------
(***************************************************************************)
(* The choice of the response, safe_write and close.                       *)
(***************************************************************************)
RespondWith(v, r) ==
    /\ pc = "respond"
    /\ verdict' = v
    /\ result' = r
    /\ pc' = "write"
    /\ UNCHANGED <<clientVars, wire, request, request_complete, offset,
                   received>>

Routed == \E r \in Route(request) : RespondWith("routed", r)

RespondBySize ==  \* fault: the completeness of the request is not asked
    \/ request = <<>> /\ RespondWith("empty", Refused)
    \/ Len(request) >= Limit /\ RespondWith("large", Refused)
    \/ request # <<>> /\ Len(request) < Limit /\ Routed

Respond ==
    LET large == ~request_complete /\ Len(request) >= Limit
    IN  \/ request = <<>> /\ RespondWith("empty", Refused)
        \/ request # <<>> /\ large /\ RespondWith("large", Refused)
        \/ request # <<>> /\ ~large /\ Routed

WriteFrom(n, next) ==
    /\ pc = "write" /\ offset + n <= Len(Response)
    /\ IF peer = "gone"
       THEN pc' = "killed" /\ UNCHANGED <<offset, received>>
       ELSE /\ received' = received \o SubSeq(Response, offset + 1, offset + n)
            /\ offset' = next
            /\ pc' = IF next = Len(Response) THEN "closed" ELSE "write"
    /\ UNCHANGED <<clientVars, wire, request, request_complete, answerVars>>

WriteOnce(n) == WriteFrom(n, Len(Response))  \* fault: a partial write is final

\* write sends n of the remaining bytes; after the last one, close.
Write(n) == WriteFrom(n, offset + n)

\* write fails, and not for EINTR: safe_write returns false, which handle_client
\* ignores, and the connection is closed with what has been sent.
WriteFail ==
    /\ pc = "write" /\ peer # "gone"
    /\ pc' = "cut"
    /\ UNCHANGED <<clientVars, wire, request, request_complete, answerVars,
                   offset, received>>
-----------------------------------------------------------------------------
Server ==
    \/ \E n \in 1..Chunk : ReadChunk(n)
    \/ ReadEnd
    \/ Respond
    \/ \E n \in 1..Len(Response) : Write(n)
    \/ WriteFail

Client == (\E n \in 1..Len(unsent) : ClientSend(n)) \/ ClientFinish

Next == Server \/ Client \/ ClientVanish

Spec == Init /\ [][Next]_vars

\* The worker is scheduled, and a client sends what it has and ends its side
\* (or is gone).
FairSpec == Spec /\ WF_vars(Server) /\ WF_vars(Client)
-----------------------------------------------------------------------------
(***************************************************************************)
(* Properties.                                                             *)
(***************************************************************************)
\* An object whose only closing brace ends it reaches route_request whole,
\* however the stream is cut into reads and whether or not the client waits;
\* only a client that closes in the middle has a part of its object routed.
WholeObject ==
    (/\ verdict = "routed" /\ (peer = "gone" => unsent = <<>>)
     /\ \A i \in DOMAIN message : message[i] = Brace <=> i = Len(message))
        => request = message

\* "request too large" is only said of an object beyond the limit: one that ends
\* within it, at the last byte too, is routed whatever the reads.
TooLargeIsTooLarge ==
    verdict = "large" /\ Last(message) = Brace => Len(message) > Limit

\* The value of the first field of a name, if it is of that kind.
Own(o, key, kind) ==
    {o[i].value : i \in {i \in First({j \in DOMAIN o : o[j].key = key}) : o[i].kind = kind}}

\* The end of a value that looks like a name: the quote before the name is the one
\* that opens the value, or one of the value.
LooksLike(value, key) ==
    /\ value # <<>> /\ Last(value) = key
    /\ Len(value) = 1 \/ value[Len(value) - 1] = Quote

\* What string_value finds in what has been read of an object is the value of the
\* first field of that name or nothing, wherever the reading stopped; in a whole
\* object it is found, and size_value reads each number that fits in a size_t.  The
\* lookup does not tell names from values: a name is out of this if a value equals
\* it, or ends with a quote and the name.
FieldsRead ==
    pc = "respond" =>
        \A o \in Objects : message = Written(o) =>
            \A key \in {o[i].key : i \in DOMAIN o} \cup {"action"} :
                (\A i \in DOMAIN o : ~LooksLike(o[i].value, key)) =>
                    /\ StringValue(request, key) \subseteq Own(o, key, "string")
                    /\ request = message =>
                          /\ StringValue(request, key) = Own(o, key, "string")
                          /\ SizeValue(request, key) =
                                {Decimal(n) : n \in Own(o, key, "number")} \cap 0..MaxSize

\* The engines get what was checked: an image's pixels are all in the file although
\* their number is a product that may wrap, PCM frames fill the file, and the sample
\* rate is one the object gives, not 0, and its own as long as it fits in 32 bits.
\* What becomes of a rate that does not is left open.
PassedAsChecked ==
    LET n == result.passed
    IN  CASE result.call \in {"analyze_image", "compress_image"} ->
               n[1] * n[2] \in 1..result.size
          [] result.call \in {"analyze_audio", "compress_audio"} ->
               /\ \E rate \in SizeValue(request, "sample_rate") :
                     rate > 0 /\ (rate <= Max32 => n[1] = rate)
               /\ result.call = "compress_audio" => n[2] * n[3] * 2 = result.size
          [] OTHER -> TRUE

\* What has been written is the beginning of the response, nothing of it twice or
\* out of place, whatever the writes take; and a connection is closed with less
\* than all of it only when a write failed.
ResponseInOrder ==
    /\ IsPrefix(received, Response)
    /\ pc = "closed" => received = Response

\* A session ends when its client ends its side.
SessionEnds == <>(pc \in {"closed", "cut", "killed"})
=============================================================================

# Khwarzma Core Engine: TLA+ models, checks and proofs

This directory holds TLA+ models of the Khwarzma Core Engine (`src/`): the daemon `kh_core_daemon` that
serves requests over a UNIX socket, the field reader and router behind it, KhShield with its matcher and detectors,
and the coding core of KhComp. The modules are translated from the C++ sources; `PROJECT.json` maps each definition
to the lines it stands for. TLC checks the models on small instances (12 runs: nine in which everything holds,
three that refute a statement of the repository's comments or docs). TLAPS proves, for every value of
the constants, every safety property that holds: of the daemon and the socket's file, of sessions, the
matcher and KhShield's analyses, of the bit streams, the arithmetic coder, block symbols and the video codec; and that daemon and
matcher implement their abstract specifications.

## 1. The system

| Part | State it keeps | Operations | Hard behaviour |
|---|---|---|---|
| Daemon, `server_daemon/main_daemon.cpp` | `shutting_down`, `server_fd`, `client_queue`, two mutexes, `queue_cv`, the locals of `main` and of two workers | accept loop, `worker_loop`, `handle_client`, `handle_signal`, start-up and join | a signal on any thread between any two steps; a notify sent without the mutex; a descriptor number that is closed twice and reused; a full queue; clients that vanish |
| Socket path, `main` of the same file | the file at `socket_path` | unlink, bind, listen, removal at the end | daemons that start and end on the same path; crashes that leave the file |
| Session, `handle_client`, `safe_write` | the request read so far, whether a `}` was seen, the offset of the write | read loop, choice of the response, partial writes | the stream is cut anywhere; the limit falls inside a chunk; the client ends its side or closes at any moment |
| Routing: `JsonObject`, `route_request`, `read_file` | none between calls; `engine_mutex` while it runs | five actions, their field checks, path containment | escapes; names that occur as values; products and numbers that leave their width; a file that shrinks between two calls |
| Keyword matcher, `shield_core/text/aho_corasick.cpp` | the trie with its links, `is_built_`, a shared mutex | add, clear, build, load a dictionary, search | a change is several calls, each atomic, interleaved with those of other threads and with searches |
| Analyses, `shield_core/shield_engine.cpp` | preset, semantic model | `analyze_text`, `analyze_image_buffer`, `analyze_audio_buffer`, `load_model`, dictionary calls | one analysis searches several times; detectors with thresholds that know nothing of each other |
| Detectors, `shield_core/{text,visual,audio}` | the vocabulary of the model | Arabizi, SAM, skin, geometry, OCR, spectrum, tempo | a file cut off in the middle; connectedness around corners; lags rounded down |
| Bit streams, `comp_core/bit_stream.cpp` | buffer, bit offset, a 64-bit accumulator, one for each direction | write, flush, copy bytes, read, peek, advance | values that straddle the accumulator; calls that fail half way; bytes loaded ahead |
| Context model and arithmetic coder, `context_model.cpp`, `comp_engine.cpp` | frequency tables of 16-bit counters, 32-bit interval, bits that wait, value | encode, flush, init, decode | the two sides must stay in step; rescaling; wrap-around; reads behind the end |
| Image frames, `image_frame.cpp` | predictor of the DC | encode and decode a frame, block by block | runs, end markers, full blocks, damaged streams |
| Audio, `audio_engine.cpp` | one predictor per channel and side | encode and decode PCM | residuals that leave 16 bits |
| Video, `video_ring_buffer.cpp` | a reference frame on each side | encode and decode I and P frames, allocate | which kind a frame is, is decided on both sides from different state; drift |

A request travels: a client connects; `main` accepts and puts the descriptor into `client_queue`, or answers
`server busy`; a worker takes it, reads the request (Session), routes it under `engine_mutex` to one of the
engines (matcher and detectors, or codec over arithmetic coder over bit stream), writes the response and closes.
The threads share the queue, the flag and the number in `server_fd`; the engines are shared objects under one
mutex. KhShield may also be used as a library, with threads of the caller's: its matcher has a lock of its own, the
rest of it has none. The codecs are called from one thread at a time and are composed by calls. Daemons share the
file system: the socket's file.

What makes each part correct: the daemon answers or refuses every connection once, loses none, keeps within its
bounds, loses no wakeup and shuts down; a start gets past what a crash left; a session routes the whole object,
reads its fields as the client wrote them, calls an engine with what it checked and sends one response; the
matcher finds exactly the keywords of its dictionary; an analysis reports what its detectors found, with a type; what
a codec, coder or stream is given on one side comes out on the other, and on a stream nobody wrote each stays inside
its own bounds.

## 2. Modules

| Module | Models | Composition |
|---|---|---|
| `BoundedService` | the daemon's promise: a waiting line with a bound, servers, one outcome for each client | abstract specification, refined by `Daemon` |
| `Daemon` | `main`, `worker_loop`, `handle_signal`, and `handle_client` as the pool sees it | `INSTANCE BoundedService WITH` a refinement mapping |
| `DaemonProofs` | theorems about `Daemon` | extends `Daemon` |
| `SocketPath` | the socket's file over the lives of several daemons | what the start and the end of `Daemon` do to the file system |
| `SocketPathProofs` | theorems about `SocketPath` | extends `SocketPath` |
| `Router` | `JsonObject`, `read_file`, `route_request`, as operators on sequences of tokens | used by `Session` |
| `Session` | `handle_client` and `safe_write` | extends `Router`: what is routed is what was read; what the steps `ReadRequest` and `Reply` of `Daemon` stand for |
| `SessionProofs` | theorems about `Session` with `Router` | extends `Session` |
| `MatcherProofs` | theorems about `AhoCorasick` | extends `AhoCorasick` |
| `Matcher` | the matcher's promise: a set of patterns, searchable after a build | abstract specification, refined by `AhoCorasick`, used by `Shield` |
| `AhoCorasick` | trie, links, search, dictionary parser, and the changes that `ShieldEngine` makes | `INSTANCE Matcher WITH` a refinement mapping; two writers and a searcher |
| `TextAnalysis`, `AudioAnalysis`, `VisualAnalysis` | Arabizi and SAM; corruption and tempo; skin, components and exposure | operators used by `Shield` |
| `Shield` | `ShieldEngine`: three analyses, dictionary, model, preset | extends the three, over `Matcher` |
| `ShieldProofs` | theorems about `Shield` | extends `Shield` |
| `Bits`, `BitWriter`, `BitReader` | `bit_stream.cpp` | `Bits` holds what both share |
| `BitStream` | a stream written, flushed and read | extends both halves |
| `BitStreamProofs` | theorems about `BitStream` | extends `BitStream` |
| `ContextModel` | `context_model.cpp`, as operators on a record | used by `ArithmeticCoding` for each side |
| `ArithmeticCoding` | encoder, decoder, and the bits between | extends `ContextModel` |
| `AudioCodec` | `audio_engine.cpp` through the coder | extends `ArithmeticCoding` |
| `AudioProofs` | theorems about `AudioCodec` and the coder under it | extends `AudioCodec` |
| `BlockCodec` | the symbols of a frame's blocks in `image_frame.cpp` | over an ideal coder |
| `VideoCodec` | references, frame types, motion in `video_ring_buffer.cpp` | over an ideal transform and coder |
| `VideoProofs` | theorems about `VideoCodec` and `BlockCodec` | extends both |

`MC...` modules give small instances. Definitions marked "fault" are plausible mistakes in a step; no
specification uses them, and each property is refuted by one of them (`PROJECT.json`, "mutants").

**Daemon.** An action is a step another thread can observe. A `lock_guard` block whose body no thread can split is
one action that needs the mutex free; `queue_mutex` is held across steps only between a worker's wait predicate and
its block in `queue_cv`, which is where a `notify_all` without the mutex is lost. `Deliver(t)` puts a signal on any
thread that exists, and `HandlerStore`, `HandlerClose`, `HandlerNotify` are the three statements of
`handle_signal`, while the thread's own steps stand still. `descriptor` is what the *number* in `server_fd`
denotes: the listening socket, nothing, a file or a connection; `close(server_fd)` closes whatever that is.
The error of an encoder and of a file that cannot be
read are outcomes of the engine's step (`RouteUnread`, `FileRead`, `Engine`), an error of `write` cuts a response off
(`WriteAndClose`). `accept` in `main` is restarted after a handler on `main` itself (`std::signal` sets `SA_RESTART`), and is not
woken by a close on another thread. A write to a vanished client is a SIGPIPE, which ends the process (`alive`).
Kinds of request stand for what `route_request` does with them: `text` (engine only), `file` (opens a file),
`junk` (an error after the mutex), `blank` (an error before it).

**Socket path.** A daemon goes through the calls of `main` that touch the path, one action each; between start and
end it is in one state, `loop`. A file is named by the process that made it, so that "whose file is this" can be
said. Every process may crash at every step and be started again.

**Router and session.** A byte is a token: a quote, a backslash, punctuation, a digit, or a word without any of these.
What the reader does at a quote or an escape is then done token by token, as in the code, and a stream may be cut
between any two tokens. `std::optional` is the set of its values. `size_t`, `uint32_t` and `uint16_t` are the
parameters `MaxSize`, `Max32`, `Max16`; products and casts wrap. `Route` gives the set of answers a request may
get, since a file may vanish between `file_size` and `read` and an encoder may refuse its buffer. `ReadChunk` is one
`read` with the tests around it, `Write` one `write`; a client sends, ends its side, or vanishes at any moment. A
response is the braces it writes; a write that fails ends it (`WriteFail`) and the connection is closed all the same. An
interrupted call is repeated and is a stuttering step.

**AhoCorasick and Matcher.** A node is the path that leads to it. Each call of the matcher is atomic under its lock; a
change is the sequence of calls `ShieldEngine` or `load_dictionary_from_json` makes, and a search (the invariants
search every text in every state) may fall between any two of them. The parser works on tokens. `Matcher` is what is
left for a user: patterns come one at a time and go all at once, and nothing is found between a change and the
next build.

**Shield.** Each search of `analyze_text` is an action (the whole text, then token by token, then the model), and
`ChangeStep`, one call of a change under way, may fall between two of them. The floating-point parts of a detector
are any outcome (`confident`, `loud`, the best lag); what is computed from counts is computed: the percentage of skin,
the tempo of a lag, the corrupted samples. The sigmoid of the semantic model is replaced by what decides: its
sign against one half, its place against the threshold. The scan of the geometry analyser is checked against the
definition of connected components: a set of pixels is closed if it has the neighbours of its pixels, a class is a
smallest such set that is not empty (`Classes`), and the components are the classes that are large enough in the order
of the scan (`AreComponents`).

**Bit streams.** Buffers are sequences of bits. `BitStream` hands the bytes written over to a reader, once the
writer is flushed, and states what it means for the two halves to agree.

**Coder and audio.** Registers have `Width` bits, counters wrap at `kMaxFrequency + 1`. `AudioCodec` encodes every
recording, sample by sample, as pairs of symbols through the coder, so that the messages of its runs are all the
messages the coder's properties speak of; or it starts as a decoder on any stream.

**Blocks, video.** What is abstracted is the arithmetic: `BlockCodec` starts from quantised coefficients, and
`VideoCodec` lets the transform be off by at most `Loss` in a pixel. A frame is one row, since the vertical
component of motion repeats the horizontal one. Motion and residual of a frame share one stream: the decoder is in step
up to the first block whose last coefficient is not zero (`InStep`), whose end marker it leaves unread; behind it the
frame may decode to anything (`Decoded`, `MotionReceived`), and so may a block whose vector leads out of the reference
(`StaysInside`). Any block that is coded may be such a block. `good` is how many blocks of the decoder's reference came
back, from the last intra frame on.

## 3. Runs

| Run | Instance | Shows |
|---|---|---|
| `daemon_pool` | 1 worker, queue of 1, 4 clients that may vanish, 2 signals | `SingleOwner`, `NoneLost`: each connection has one owner and none is lost, also when the number in `server_fd` is closed twice and reused; `BoundedConnections`: the fourth connection is not open beside the other three; `OnlyListenerClosed`: one signal closes nothing but the listening socket; `ImplementsService`: `Daemon` implements `BoundedService` |
| `daemon_live` | 2 workers, 2 clients, 1 signal, fair | `NoSleepOverWork`, `NoStrandedClient`, `CleanExit`; `EveryAcceptedAnswered`: every accepted client is answered; `JoinCompletes`: `join` ends unless a worker missed the last notification |
| `request` | limit 33, chunk 12, 16 objects of up to 35 tokens for all five actions and none, 4 other streams, writes that fail | `WholeObject`; `TooLargeIsTooLarge`: only an object beyond the limit is called too large; `ResponseInOrder`: what was written is the beginning of the one response, and all of it unless a write failed; `SessionEnds`; `FieldsRead`: what is found under a name is the value of the first field that has it, wherever the reading stopped; `PassedAsChecked`: engines are called with numbers that fit the file |
| `bit_stream` | words of 4 bits, bytes of 2, buffer of 4 bytes, calls of every width up to 5 bits | `BitsInPlace`, `AccIsAhead`, `WrittenIsRead`: written bits are at their place and read back in any split, until a read that is too wide or an advance past the accumulator; refused calls leave no gap |
| `matcher` | 2 writers, 3 changes out of 12, texts of 5 characters | `SearchExact`; `QuiescentSearchable`: searchable when no change is under way; `LoadedWhole`; `ImplementsMatcher` |
| `shield` | 3 keywords, 2 changes, 5 model files, texts in both scripts, images around the thresholds, 23 recordings with all lags, every mask of 3 by 3 pixels | `VerdictExact`: an exact verdict is deserved by the normalised text, whatever changes during the analysis; `ReportConsistent`: unsafe is what a detector flagged, with a type; `ModelWhole`; `SlowestTempo`: the lower of the two limits is kept; `ComponentsExact` |
| `socket` | 3 daemons, 2 lives each | `StaleOnlyAfterCrash`; `StartsReachable`: a start alone gets past what was left, overlapping starts leave the path to one that accepts |
| `audio` | alphabet of 4, registers of 8 bits, recordings of up to 4 samples, all streams of 6, 8 and 10 bits | `Lossless` through coder and model; `ModelsSound`; `IntervalSound`: an interval wider than a quarter, the value inside it, on any stream |
| `frames` | blocks of 4 coefficients, alphabet of 6, 1 or 2 blocks; all streams of up to 2 symbols, then anything. 2 pictures of 3 blocks in a row, search windows of 1 and 2 of 4 vector values, 3 frames, 2 of them under way, 2 re-allocations, misread from any full block | `BlocksReturn`: blocks come back up to the first full one, and the decoder has read exactly their symbols; `TypeOK`: it stays inside its block on any stream; `KindsAgree` on every frame while both sides start over together; `DriftBounded` by the frames since the last intra one and `SameMotion`, both up to the first full block |

`frames` checks both halves of the frame codec. They share no variable: `MCFrames` starts with a frame's blocks, or with
a stream of frames, and leaves the other half alone.

Three runs are to be **violated**. Each checks one statement of a comment or a doc, as it is given, under the same
specification as the run beside it:

| Run | Statement | What TLC finds |
|---|---|---|
| `daemon_pool_stops` | `PoolStops`: the draft's "bounded, thread-safe routing" | a worker between predicate and block misses the `notify_all` without the mutex: `join` waits for ever |
| `bit_stream_wide` | `AnyWidthIsRead`: "arbitrary-width" values (`README.md:63`) | a read or an advance past the accumulator leaves the reader inside a byte |
| `blocks_full` | `FullBlocksReturn`: the end marker belongs to its block | a block whose last coefficient is not zero leaves its end marker to the next block |

**Why the bounds are enough.** One worker and three clients overflow the queue of one while a connection is served,
so that queueing, refusing and serving happen at once; with the fourth, one connection more than `2 * kMaxWorkers + 1`
could be open. A second signal is the first that can close a reused
number, and a third meets nothing new, since the number then is what the second found. Two workers is the daemon's own
number, and enough for a notify to reach the wrong one. The requests of `daemon_pool` are of the
kind `file`, which takes every step of the others and may have an answer or an error, those of `daemon_live` of `text` and
`blank`; `junk` is an error as `blank` is. In `request` an object can be shorter than,
equal to and longer than the limit, each with every cut into chunks, and sizes have widths of 8, 6 and 4 bits: a
product or a rate can leave each of them. A buffer of two words makes word stores, a partly filled last
word and a refusal happen at each position, and reads straddle both words. Texts of five characters hold overlapping and nested occurrences of
keywords of up to four. In `shield` two changes are the first that can leave a dictionary between an add and a build
of different calls; `Unread` keeps what reads neither dictionary nor model out of their interleavings. A mask of three
by three holds rings, diagonals and components that meet around a corner. Three daemons on a path are one that
starts, one that runs and one that ends. Four samples (eight symbols) rescale a context more than once, make three
bits wait at a time and overflow the buffer. Widths of words, bytes, alphabets and blocks are parameters because the
code's constants are (64, 8, 256, 64 and 32): the small values keep the relations that the code relies on, and each is
an assumption of its module. The reader is called with every
width, those the code refuses included; the history variable `narrow` says whether a read of more than
`AccBits - ByteBits + 1` bits or an advance past the accumulator has been made. In `frames`, a window of 1 has its vectors
within the 4 values a component holds and a window of 2 has not; with three blocks there is one before, at and behind a full
one. `MaxSignals`, `MaxCalls`,
`MaxChanges`, `MaxLives`, `MaxFrames`, `MaxUnderWay`, `MaxAllocations` cap what may go on for ever.

**Deadlock.** The bit stream and the shield can always go on and are checked for deadlock. The other components end
when their finite supply of clients, lives, changes, samples, blocks or frames is used up; their runs say
`CHECK_DEADLOCK FALSE`.

**Fairness.** In `Daemon` the kernel runs every thread that can run (weak fairness of `main`, of each worker and
of each handler), a thread is not starved of a mutex that keeps becoming free (strong fairness of the steps that
take one: `Enqueue`, `WorkerTake`, `WorkerReturn`, `RouteLock`), and each client that stays sends its request in
the end. Nothing is assumed to make a client connect, a signal arrive, `accept` fail or a waiter wake spuriously.
The assumption on clients is needed and not the code's: there is no timeout, and two silent clients stop the
service. In `Session` it is weak fairness of the worker and of the client.

## 4. Proofs

**The daemon.** `DaemonProofs` proves, from `ConstantsAssumption` alone (at least one worker; `None` is not a client
nor a number; any sets of clients and any bound on signals):

| Theorem | States |
|---|---|
| `TypeCorrect` | `Spec => []TypeOK` |
| `NoStrandedClientHolds` | no worker has returned while a connection waits or may still be queued |
| `NoSleepOverWorkHolds` | while a worker is blocked, the connections in the queue are covered by workers awake and by the notify to come |
| `SingleOwnerHolds`, `NoneLostHolds` | one owner for each accepted connection, until it is closed |
| `CleanExitHolds` | `main` leaves `join` only when every accepted connection is closed |
| `BoundedConnectionsHolds` | the queue never exceeds the pool's size, the open connections never exceed twice that plus one |
| `OnlyListenerClosedHolds` | with one signal, only the listening socket is closed by a handler: the file or connection that takes the number stays open |
| `DaemonImplementsService` | `Spec => ImplementsService` |

The inductive invariant is built in layers, each proved with the one before:

1. `Typed`: `TypeOK`, and `main` holds a connection exactly in the states between `accept` and the queue or the
   refusal. Without it `Append(client_queue, main_client)` need not be a queue of clients.
2. `Pool`: workers exist only once `main` has spawned them, and a worker returns only when the flag is set and the
   queue empty; since `Enqueue` reads the flag under the same mutex, nothing enters the queue after that. This
   gives `NoStrandedClient`.
3. `NoSleepOverWork` is inductive over `Typed` and `Pool`, by counting: a push adds one connection and the notify to
   come, the notify becomes one worker awake or finds no waiter, a worker that takes a connection removes one
   from both sides, and a worker blocks only on an empty queue, under the mutex.
4. `Ownership`: `SingleOwner` and `NoneLost` are not inductive. A worker holds a connection exactly while it serves
   (`Holding`), connections in the kernel's queue are pending and distinct (`Backlog`), and the number in
   `server_fd` denotes a connection only while `main` holds that connection and the flag is set, so that it will be
   refused and never queued (`Number`). The last part is what the second signal needs: the only connection a
   repeated `close(server_fd)` can hit is one that nobody else will ever own.
5. The bound: by `NoneLost` the open connections are those of the queue, of the workers and of `main`; the queue is
   bounded by its own test (`QueueBounded`), the workers are `kMaxWorkers`, and finite sets are counted with
   `FiniteSetTheorems`.
6. `OneSignal`: with one signal, there is at most one handler under way (`Handlers`), until it closes the number this is
   still the listening socket (`NumberKept`), so that nothing else is closed (`OnlyListenerClosed`).
7. The refinement: `RefinementStep` takes each action to a step of `BoundedService` or a stutter, under
   `open = ~shutting_down`, `waiting = client_queue`, `serving = client`, `outcome = response`; it uses `Ownership` to
   see that the client admitted or turned away is a fresh one.

**A session.** `SessionProofs` proves `WholeObjectHolds`, `TooLargeIsTooLargeHolds`, `FieldsReadHolds`,
`PassedAsCheckedHolds` and `ResponseInOrderHolds` from `RouterAssumption` (widths are ordered as those of the C++ types
are), `SessionAssumption` (limit and chunk are positive), `ObjectsAssumption` (an object is a sequence of fields; a name is
a word, a value a text or digits) and `MessagesAssumption` (messages are sequences of tokens): for every limit, chunk,
set of objects and other messages, set of files and width. The first two need that request, wire and unsent rest are the message, cut in three (`Split`), that
`request_complete` says whether a brace is in the request, that the request is short while the loop goes on, and why
the loop was left. `PassedAsChecked` follows from what `Route` returns (`HandlersChecked`), by the arithmetic of each
check: a product of factors bounded before does not wrap (`FitsExact`), a rate passed on as 32 bits is the one read
if that one fits in 32 bits (`RateKept`; of others nothing is claimed), and the frames counted by a division without rest fill the file
(`FramesExact`).

**The fields of a request.** `FieldsReadHolds` is about any object a client may write and any part of it that the daemon
has read: quotes, backslashes, braces and names may be anywhere in its values. The argument goes by positions:

1. Writing an object flattens sequences of sequences. `FlattenLaid` says where each part is, by an induction over the
   recursion of `FlattenSeq`; with it `LayoutIs` gives the two ends of each field in the object, and says that the rest of
   the object is commas and braces.
2. Within a text, the first token of each character is not escaped (`HeadsFree`): a backslash that the client wrote is
   followed by the token it escapes. So no quote before the last one ends the string (`QuotesInside`, `ClosingQuote`),
   and what is made of each one or two tokens is the character they stand for (`PiecesOf`, `ReadsBack`).
3. A name between quotes is a field's name (`NameAt`): a quote inside a text is the second token of an escaped one, and
   what follows is a name and a quote only if the text ends in a name (`LooksLike`, which TLC showed to be needed:
   the value may be `a"text` and not only `text`). So `find` finds the first field of that name, once its name has been
   read (`FindName`), and the colon and the space behind it lead to its value or to the end of what was read (`ValueAtIs`).
4. There the string is the field's value if its closing quote has been read and nothing if not (`StringIs`); in a whole
   object the digits end at the comma or brace behind the field (`DigitsEnd`, `SizeIs`).

What has been read is the beginning of the message by `Split`.

**The socket's file.** `SocketPathProofs` proves `StaleOnlyAfterCrashHolds` and `StartsReachableHolds` for any number
of daemons and lives. The invariant: a file at the path belongs to a process that has passed `bind` and not ended, or
crashed (`Owned`); a daemon alone since its start finds the path as it left it (`AloneSound`); while nobody ends, the
last to remove the path is still to bind or its file is there (`SteadySound`).

**The bit streams.** `BitStreamProofs` proves `BitsInPlaceHolds` for any widths of word and byte and any buffer, and
`AccIsAheadHolds` and `WrittenIsReadHolds`, which say that
the reader is right as long as the calls so far were `narrow` (section 5 says what happens beyond). The invariant says of the writer that its buffer up to the offset is what was
written (`WriterInv`), and of the reader that its accumulator is the stream's bits from its offset on (`Ahead`).

**The matcher.** `MatcherProofs` proves `TypeCorrect`, `SearchExactHolds`, `QuiescentSearchableHolds`,
`LoadedWholeHolds` and the refinement `Spec => ImplementsMatcher`, for any keywords, texts, dictionaries and number of
changes under way. Nodes are the prefixes of the patterns, a node's link is its longest proper suffix that is a node, and
the search is at the longest suffix of what it has read that is a node, so that it meets every pattern that ends there
(`SearchExact`). A change that still adds a word still builds after it (`Guarded`), so that a dictionary is unbuilt only
while a change is under way (`QuiescentSearchable`). A file's list is what the parser has kept of it token by token
(`Runs`), and what a change has not yet added is still among its calls (`LoadedWhole`).

**The analyses.** `ShieldProofs` proves `VerdictExactHolds`, `ReportConsistentHolds`, `ModelWholeHolds`,
`SlowestTempoHolds` and `ComponentsExactHolds`, from `TextAssumption` (what stands for an Arabizi sign is no such sign), `ShieldAssumption` (texts
and keywords are sequences of characters, images are not empty, the pixels of a mask lie in its frame, rates and sizes
are natural numbers). `VerdictExact`
needs that a token of the normalised text is a part of it, so that an occurrence in the token is one in the text, and what
was held when each search of the analysis began. `SlowestTempo` is the arithmetic of the lags: the longest lag tried
is rounded down, so that the tempo it stands for is not below 60.

**The components of a mask.** `ComponentsExactHolds` is about frames, masks and least areas of any size. From the bottom:

1. The pixels that entered the queue since a search began are those it marked, each once, because a pixel is marked when
   it enters (`Reached`). Each turn takes one, so as many turns as there are pixels empty the queue (`TurnedEnough`).
2. Then what was marked is closed, and lies in every closed set that has the pixel the search began with. The rest of a
   closed set is closed (`ClosedRest`), so that nothing smaller is: it is the pixel's class, and no more (`FloodIs`).
3. What the scan has marked is closed. The components it has are those of the classes met so far, each with a pixel the
   scan met before any of the next class (`Scanned`); at the end it has met every pixel of the frame (`RasterMeets`).
4. Classes have nothing in common (`ClassesApart`) so that none is found twice, and the sum of the sizes of any of them
   is at most the mask's (`ExposureIs`).

**The coder.** `AudioProofs` proves `ModelsSoundHolds`, `IntervalSoundHolds` and `LosslessHolds` from
`ContextModelAssumption` (a frequency limit more than three above the alphabet), `CoderAssumption` (that limit is at most
a quarter of the register's range) and `AudioAssumption`, for every alphabet, order, hash of the history, width, capacity
and recording, and for a decoder on any stream. `Sound` is not inductive: a rescaling halves the counts and adds one to those that come out even, and
would not make a full total smaller if all the counts were one or two. What makes it so is that every count is odd
(`Good`): counts start at one, grow by two, and stay odd when halved; an odd count loses all but half of itself, so that
the total after a rescaling is at most half of itself and of the alphabet (`SumRescaled`), and has room for two more. The
interval: a range above a quarter gives each symbol a part that is not empty, because the total is at most a quarter
(`NarrowedIs`); a turn of the loop doubles the range and leaves it inside the register (`DoubledIs`), so that after as
many turns as the register has bits the loop is over (`EncoderSettledIs`, `DecoderSettledIs`); and the symbol the decoder
finds is the one whose part its value lies in (`NextIs`), whatever bits come in.

**The round trip.** `LosslessHolds` needs what the encoder's bits mean, the ones that still wait for a carry included.
Its state is read as a place on the line of all bit streams: `Waiting` is the number that the bits written and the
waiting ones spell if no carry comes, `Place` the first number of the interval at the scale of `Reach` bits, the number of
bits that a decoder at the same symbol has read. The argument, from the bottom:

1. A turn of the encoder's loop, whichever of its three branches it takes, doubles the place and adds a bit to the reach
   (`HalfwayMoves`, `MiddleMoves`): bits that wait are the same number, whether a carry comes or not (`Carried`).
2. So a stream that is in the interval of a state (`Within`) was in the interval of every state before it, since a
   symbol only narrows the interval (`AllWithin`); and the bits of the flush, with the zeros that fill the last byte and
   those that a decoder reads behind the end, are in the last interval (`FlushWithin`).
3. A decoder `Tracks` an encoder's state when it has the same interval and its value is the stream's number, less the
   place. It finds then the symbol that the encoder was given, and tracks the next state after it.
4. `Encoded` names the states of encoder and model after each symbol of the message; `Leads`, `Ready` and `Follows` say
   where on that path the calls are, and `RoundTrip`, the invariant, adds the samples: a message spells them two symbols
   each (`Spelled`), a predictor holds the last sample of each channel (`Predicts`), and the wrapped difference of two
   `int16_t`, mapped, split, put together and unmapped, is undone by the wrapped sum.

**The video codec.** `VideoProofs` proves `KindsAgreeHolds`, `DriftBoundedHolds` and `SameMotionHolds` from
`VideoAssumption` (whole blocks of pixels; search windows are any integers): for frames of any size and pixels, any
number of frames under way and of allocations at any moment, and any part of a frame misread behind a full block. The
invariant: a frame under way was predicted from the one before it (`InvChain`), while both sides start over together a
frame is intra by its type or because it is the first (`InvKinds`), and in the blocks that are in step the decoder's
vectors are the encoder's, because the difference of two that wraps around is undone by a sum that does (`Decodes`). What
is behind the first full block is not claimed to be anything: `blocks_full` shows that it is not what was coded.

**The blocks of a frame.** It also proves `BlockTypeCorrect` and `BlocksReturnHolds`, from `BlockAssumption` (at least two
coefficients in a block, and an even number of symbols above theirs; pictures of blocks, streams of symbols), for blocks
and pictures of any size and any stream, also one that nobody wrote. `BlocksReturn` alone is not inductive: it speaks
of blocks that are complete. `BlocksInv` adds what has been written, the symbols of each block one behind the other, each
behind the DC of the one before (`BlocksWritten`); that the decoder has not begun before the encoder is done
(`DecoderWaits`); and where the decoder is inside a block (`BlocksRead`): the coefficients below its own are those of
the picture, the others are zero, and its symbols so far are the runs and values up to there. As long as no block was
full, the next symbol is then the run before the next coefficient that is not zero, or the end marker, and the sum of two
DC differences that wrap is the DC.

**Induction over data.** The library's induction theorems take a predicate as a parameter, which the provers cannot
instantiate. Where a proof needs what a recursive function computes for every argument, it is an induction over a *set*:
a set of numbers that has zero and with each number the next has them all (`Least`, `Induct`, from `WFMin` and
`NatLessThanWellFounded`), and a recursion over `0..n` has a solution in a given set (`RecursionIs`). `SumsAre` and
`EncoderSettledIs` of `AudioProofs` show how that goes.

**Only model-checked.** Liveness (`EveryAcceptedAnswered`, `JoinCompletes`, `SessionEnds`): fairness and ENABLED are
beyond the prover. Conversely, what the theorems say of any size is checked by TLC on the runs' instances first.

## 5. Where the code and what is said of it part

Three have a run (section 3 and `PROJECT.json`, "findings"): the missed `notify_all` (`main_daemon.cpp:419`), wide reads
(`bit_stream.cpp:210`) and full blocks (`image_frame.cpp:191`). The models show others, which have no run of their own. In
these the code does something else than its documents say; no property takes what it does for right:

- `main_daemon.cpp:374`: a request that passes the limit by less than a chunk is routed if its `}` is in that chunk, where
  `README.md:74` says that requests are limited to 64 KiB. (`ReadChunk`; `TooLargeIsTooLarge` claims the other direction)
- `main_daemon.cpp:220`: a response of KhShield does not close its outer brace, so that a connection does not get the JSON
  response of `README.md:74`. (`ResponseTo`; `ResponseInOrder` says only that it arrives)
- `main_daemon.cpp:329, 354`: a well-formed request whose file was read is answered with an error when an encoder refuses
  the daemon's buffer, a case that `README.md:109` does not list. (`Engine`, `Comp`)
- `shield_engine.cpp:66`: the text is normalised and the keywords are not: one with a Latin letter of the table, like
  nearly all words of the English categories of `README.md:16` and `51`, is never found. (`Normalised`; `VerdictExact`
  speaks of the normalised text)
- `bpm_energy.cpp:76`: the lag of the fastest tempo is rounded down: 206 beats per minute at 44100 samples a second and
  nearly 400 at low rates, where the comment at line 74 gives 200. (`Lags`; `SlowestTempo` claims the lower limit)
- `geometry_analyzer.cpp:87`: nothing in the upper part of a frame is left out of the exposure, as the comment
  `geometry_analyzer.hpp:36` says of faces; what decides is the size of a component. (`Exposed`;
  `ComponentsExact` bounds the exposure by the skin, whatever is left out)
- `video_ring_buffer.cpp:337`: a predicted frame's loop over a full block leaves its end marker unread too, and the next
  symbol is taken for the motion of the block behind it. (`InStep`, `MotionReceived`, `Decoded`)

And in these the documents say nothing, and a user might expect something else:

- `main_daemon.cpp:378`: the loop ends at the first `}` it has, also inside a string; what is routed then depends on
  how the stream is cut. (`WholeObject` and `FieldsRead` state what holds)
- `main_daemon.cpp:98`: a field is looked up as the first occurrence of its quoted name, which may be a value or
  the end of one behind an escaped quote. (`ValueAt`; `FieldsRead` says when it is not)
- `main_daemon.cpp:305`: a `sample_rate` that is a multiple of 2^32 is passed on as 0, and the recording is reported
  as safe without analysis. (`As32`, `PassedAsChecked`)
- `main_daemon.cpp:418`: a signal handled on a worker does not end the `accept` that `main` is blocked in; the
  daemon stops only after one more connection. (`HandlerClose`, `AcceptReturn`)
- `main_daemon.cpp:418`: a second signal closes the number again; if it is by then a request's input file, that valid
  request is answered with an error. (`SlotFileRead`; `OnlyListenerClosed` is stated for one signal)
- `main_daemon.cpp:242`: a write to a client that has closed ends the daemon by SIGPIPE. (`WriteAndClose`)
- `main_daemon.cpp:453, 508`: a daemon removes the file of another on the same path, when it starts and when it ends.
  (`Unlink`, `Exit`; `StartsReachable` says what is left)
- `bit_stream.hpp:16`, `main_daemon.cpp:322, 350`: the constructor drops `AlignmentError`; the vectors the
  daemon gives it need not be aligned to 64 bytes, and every write then reports `Overflow`. (`WriterInit`, `Comp`,
  `Engine`)
- `aho_corasick.cpp:77`: between the clear and the build of a reload, searches find nothing. (`DoClear`; `VerdictExact`
  is exact while nothing changes)
- `shield_engine.cpp:96`: the engine decides at one half and the model names the type by its own threshold; above one
  half, an unsafe report may have the type `NONE`. (`Judge`, `ReportConsistent`)
- `shield_engine.cpp`, image path: an image of fewer than three channels, which is all the daemon sends, has no skin,
  and the OCR bridge finds no text: it is always safe. (`SkinCount`, `ReportConsistent`)
- `comp_engine.cpp:90`: what is encoded of a mono recording of one sample is shorter than the decoder's first
  read and cannot be opened. (`Open`)
- `main_daemon.cpp:246`: a write that fails with another error than EINTR ends the response, and the connection is closed
  as after a whole one. (`WriteFail`, `WriteAndClose`; `ResponseInOrder`)
- `video_ring_buffer.cpp:60`: the search narrows its result to 8 bits whatever the window was; both sides then compensate
  from another place than was compared, which may be outside of the frame. (`Predictable`, `StaysInside`)
- `image_frame.cpp:212`, `video_ring_buffer.cpp:355`: a run of zero with a value of zero brings the decoder
  nowhere, and behind the end of a stream it may go on for ever. (`DecodeAc`)
- `video_ring_buffer.cpp:107`: a frame asked for as P without a reference is coded as an intra frame under the type P.
  (`EncodesIntra`; `KindsAgree` holds while both sides start over together)

## 6. Not modelled

- The image transform and quantiser (`image_engine.cpp`), the quantised values of `image_frame.cpp` and the clamping of
  pixels: floating-point arithmetic on one block, without state between calls. `BlockCodec` and `VideoCodec` stand on
  its outcome.
- Empty images in `Shield`. The floating-point part of the audio detectors (spectrum, envelope, autocorrelation, confidence) and the colour
  test of a single pixel: any outcome in `Shield`. Scores of a report are left out.
- `\u` escapes, the wording of responses, exceptions and memory exhaustion. How a path resolves: a file is inside or
  outside.
- A handler that interrupts a handler on the same thread, and the fact that `notify_all` is not async-signal-safe.
- Data races on the semantic model and the preset when a caller of the library changes them during an analysis: they
  have no lock, and the daemon changes neither after its start.
- A file system that refuses `bind` for a reason other than the file; reading the environment (one step of `Daemon`
  that succeeds or fails).
- In `VideoCodec`, refused headers and failed calls, which leave both references alone, the residual symbols one by one,
  which are coded as in `BlockCodec`, and a decoder that a misread frame keeps in its loop for ever. In `BlockCodec`, errors of the coder, which end the call.
- The benchmark harness, the build, the drafts and the word list: no logic of the system, read for what they say
  of it.

## 7. Plan

Done, in this order: what is shared and concurrent (daemon with its abstract service, session, matcher), what others
stand on (bit streams, coder), the codecs, then what the requests carry (router, analyses), and the file system that
daemons share; proofs of the daemon, of sessions and of the socket's file, then of the matcher and its refinement, the bit
streams, the video codec, the analyses, the coder, the round trip of audio through it, the blocks of a frame, the fields
of a request, and the components of a mask.

What is left, most useful first:

1. `VideoCodec` in two dimensions, and `BlockCodec` through the arithmetic coder in the place of the ideal one, if TLC
   can hold the instance.
2. The daemon with sessions in the place of `ReadRequest` and `Reply`: each is checked against the other's interface,
   not in one state space.

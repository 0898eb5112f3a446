------------------------------- MODULE Daemon -------------------------------
(***************************************************************************)
(* kh_core_daemon (src/server_daemon/main_daemon.cpp): the accept loop on  *)
(* the main thread, the bounded queue of connections, the worker threads,  *)
(* and the signal handler that stops the service.                          *)
(*                                                                         *)
(* One action is one step another thread can observe.  A lock_guard block  *)
(* whose body no other thread can split is one action guarded by the mutex *)
(* being free; queue_mutex is held ACROSS steps only between a worker's    *)
(* wait predicate and its blocking in the condition variable.  A signal    *)
(* may be delivered on any thread between any two of its steps and runs    *)
(* the three statements of handle_signal there, one at a time, while the   *)
(* interrupted thread stands still.                                        *)
(*                                                                         *)
(* Definitions marked "fault" are plausible mistakes in a step.  They are  *)
(* no part of the specification: each is a variant some property refutes.  *)
(***************************************************************************)
EXTENDS Naturals, Sequences, FiniteSets

CONSTANTS
    kMaxWorkers,   \* threads of the pool, and capacity of client_queue
    Clients,       \* connections made during the daemon's life
    Vanishing,     \* the clients that may close before their answer arrives
    RequestKinds,  \* the kinds of request the clients send
    MaxSignals,    \* bound: SIGINT and SIGTERM delivered
    None

AllKinds == {"text", "file", "junk", "blank"}

ASSUME ConstantsAssumption ==
    /\ kMaxWorkers \in Nat \ {0}
    /\ Vanishing \subseteq Clients
    /\ RequestKinds \subseteq AllKinds
    /\ MaxSignals \in Nat
    /\ None \notin Clients
    /\ None \notin Nat

Main    == 0
Workers == 1..kMaxWorkers
Threads == {Main} \cup Workers

VARIABLES
    shutting_down,  \* the atomic flag
    descriptor,     \* what the NUMBER held in server_fd denotes now
    client_queue,   \* the queue<int>, as the connections behind the numbers
    queue_mutex,    \* the worker that holds it across a step, or None
    waiters,        \* workers blocked in queue_cv
    engine_mutex,   \* the worker inside the engines, or None
    main,           \* where main() is
    main_client,    \* main's local client_fd
    pc,             \* where each worker is
    client,         \* each worker's local client_fd
    reply,          \* each worker's local response
    handler,        \* the handler statement each thread executes next
    signals,        \* signals delivered so far
    backlog,        \* the kernel's queue of connections not yet accepted
    conn,           \* state of each connection
    request,        \* what the client has sent
    response,       \* what the client has received
    gone,           \* clients that closed their end early
    alive           \* FALSE once SIGPIPE has killed the process

mutexVars   == <<queue_mutex, waiters>>
mainVars    == <<main, main_client>>
workerVars  == <<pc, client, reply, engine_mutex>>
signalVars  == <<shutting_down, handler, signals>>
clientVars  == <<conn, request, response, gone>>
vars == <<descriptor, client_queue, backlog, alive, mutexVars, mainVars,
          workerVars, signalVars, clientVars>>

MainStates == {"config", "socket", "bind", "spawn", "loop", "accept",
               "accepting", "queue", "notify", "busy", "stop", "join",
               "exit", "failed"}
WorkerStates == {"unborn", "top", "sleep", "waiting", "read", "route",
                 "engine", "file", "slotfile", "reply", "exited"}

\* A worker's answer, the error of read_file for a file that cannot be read, and
\* any other error.
Replies == {"answer", "unread", "error"}

\* Each variable stays in its set; main() and the workers are at statements
\* of main_daemon.cpp.
TypeOK ==
    /\ shutting_down \in BOOLEAN
    /\ descriptor \in {"none", "listener", "free", "file", "client"}
    /\ client_queue \in Seq(Clients)
    /\ queue_mutex \in Workers \cup {None}
    /\ waiters \subseteq Workers
    /\ engine_mutex \in Workers \cup {None}
    /\ main \in MainStates
    /\ main_client \in Clients \cup {None}
    /\ pc \in [Workers -> WorkerStates]
    /\ client \in [Workers -> Clients \cup {None}]
    /\ reply \in [Workers -> Replies \cup {"none"}]
    /\ handler \in [Threads -> {"idle", "store", "close", "notify"}]
    /\ signals \in 0..MaxSignals
    /\ backlog \in Seq(Clients)
    /\ conn \in [Clients -> {"new", "pending", "accepted", "closed"}]
    /\ request \in [Clients -> AllKinds \cup {"none"}]
    /\ response \in [Clients -> Replies \cup {"none", "busy", "cut"}]
    /\ gone \subseteq Vanishing
    /\ alive \in BOOLEAN

Init ==
    /\ shutting_down = FALSE
    /\ descriptor = "none"
    /\ client_queue = <<>>
    /\ queue_mutex = None
    /\ waiters = {}
    /\ engine_mutex = None
    /\ main = "config"
    /\ main_client = None
    /\ pc = [w \in Workers |-> "unborn"]
    /\ client = [w \in Workers |-> None]
    /\ reply = [w \in Workers |-> "none"]
    /\ handler = [t \in Threads |-> "idle"]
    /\ signals = 0
    /\ backlog = <<>>
    /\ conn = [c \in Clients |-> "new"]
    /\ request = [c \in Clients |-> "none"]
    /\ response = [c \in Clients |-> "none"]
    /\ gone = {}
    /\ alive = TRUE
-----------------------------------------------------------------------------
(***************************************************************************)
(* What the steps share.                                                   *)
(***************************************************************************)
Running == alive /\ main \notin {"exit", "failed"}

\* Thread t executes its own next statement: it is not inside the handler.
Own(t) == Running /\ handler[t] = "idle"

At(w, p) == Own(w) /\ pc[w] = p

Goto(w, p) == pc' = [pc EXCEPT ![w] = p]

\* queue_cv.notify_all().
WakeAll ==
    /\ waiters' = {}
    /\ pc' = [w \in Workers |-> IF w \in waiters THEN "top" ELSE pc[w]]

\* close(server_fd): whatever the number denotes now is closed.  When accept
\* gave the freed number to a connection, that connection is closed.
CloseNumber ==
    /\ descriptor' = "free"
    /\ conn' = IF descriptor = "client"
               THEN [conn EXCEPT ![main_client] = "closed"] ELSE conn

\* safe_write to client c followed by close.  With the peer gone the write
\* raises SIGPIPE, which nothing in main_daemon.cpp ignores; any other error
\* cuts the response off, and the connection is closed all the same.
WriteAndClose(c, r) ==
    IF c \in gone
    THEN /\ alive' = FALSE
         /\ UNCHANGED <<conn, response>>
    ELSE /\ \E told \in {r, "cut"} : response' = [response EXCEPT ![c] = told]
         /\ conn' = [conn EXCEPT ![c] = "closed"]
         /\ UNCHANGED alive
-----------------------------------------------------------------------------
(***************************************************************************)
(* main(): start-up.                                                       *)
(***************************************************************************)
\* Environment, model, dictionary; the signal handlers are installed last.
Configure ==
    /\ Own(Main) /\ main = "config"
    /\ main' \in {"socket", "failed"}
    /\ UNCHANGED <<descriptor, client_queue, backlog, alive, main_client,
                   mutexVars, workerVars, signalVars, clientVars>>

OpenSocket ==
    /\ Own(Main) /\ main = "socket"
    /\ \/ main' = "bind" /\ descriptor' = "listener"
       \/ main' = "failed" /\ UNCHANGED descriptor
    /\ UNCHANGED <<client_queue, backlog, alive, main_client,
                   mutexVars, workerVars, signalVars, clientVars>>

\* bind and listen fail on a socket the handler has closed already.
BindListen ==
    /\ Own(Main) /\ main = "bind"
    /\ \/ descriptor = "listener" /\ main' = "spawn" /\ UNCHANGED descriptor
       \/ main' = "failed" /\ descriptor' = "free"
    /\ UNCHANGED <<client_queue, backlog, alive, main_client,
                   mutexVars, workerVars, signalVars, clientVars>>

Spawn ==
    /\ Own(Main) /\ main = "spawn"
    /\ main' = "loop"
    /\ pc' = [w \in Workers |-> "top"]
    /\ UNCHANGED <<descriptor, client_queue, backlog, alive, main_client,
                   mutexVars, client, reply, engine_mutex, signalVars,
                   clientVars>>
-----------------------------------------------------------------------------
(***************************************************************************)
(* main(): the accept loop.                                                *)
(***************************************************************************)
LoopTest ==
    /\ Own(Main) /\ main = "loop"
    /\ main' = IF shutting_down THEN "stop" ELSE "accept"
    /\ UNCHANGED <<descriptor, client_queue, backlog, alive, main_client,
                   mutexVars, workerVars, signalVars, clientVars>>

\* accept blocks on the listening socket and fails at once on any other
\* number, in which case the loop continues.
AcceptCall ==
    /\ Own(Main) /\ main = "accept"
    /\ main' = IF descriptor = "listener" THEN "accepting" ELSE "loop"
    /\ UNCHANGED <<descriptor, client_queue, backlog, alive, main_client,
                   mutexVars, workerVars, signalVars, clientVars>>

\* accept returns the lowest free number: the one in server_fd if a handler
\* on another thread closed the listening socket while main was blocked.
AcceptReturn ==
    /\ Own(Main) /\ main = "accepting" /\ backlog # <<>>
    /\ main' = "queue"
    /\ main_client' = Head(backlog)
    /\ backlog' = Tail(backlog)
    /\ conn' = [conn EXCEPT ![Head(backlog)] = "accepted"]
    /\ descriptor' = IF descriptor = "free" THEN "client" ELSE descriptor
    /\ UNCHANGED <<client_queue, alive, mutexVars, workerVars, signalVars,
                   request, response, gone>>

\* Any other failure of accept: a descriptor limit, an aborted connection.
AcceptError ==
    /\ Own(Main) /\ main = "accepting"
    /\ main' = "loop"
    /\ UNCHANGED <<descriptor, client_queue, backlog, alive, main_client,
                   mutexVars, workerVars, signalVars, clientVars>>

EnqueueIf(room) ==
    /\ Own(Main) /\ main = "queue"
    /\ queue_mutex = None
    /\ IF room
       THEN /\ client_queue' = Append(client_queue, main_client)
            /\ main' = "notify"
            /\ main_client' = None
       ELSE /\ main' = "busy"
            /\ UNCHANGED <<client_queue, main_client>>
    /\ UNCHANGED <<descriptor, backlog, alive, mutexVars, workerVars,
                   signalVars, clientVars>>

EnqueueAfterClose == EnqueueIf(Len(client_queue) < kMaxWorkers)                    \* fault

Enqueue == EnqueueIf(~shutting_down /\ Len(client_queue) < kMaxWorkers)

NotifySome(woken) ==
    /\ Own(Main) /\ main = "notify"
    /\ main' = "loop"
    /\ IF woken = {} THEN UNCHANGED <<pc, waiters>>
       ELSE \E w \in woken : waiters' = waiters \ {w} /\ Goto(w, "top")
    /\ UNCHANGED <<descriptor, client_queue, backlog, alive, main_client,
                   queue_mutex, client, reply, engine_mutex, signalVars,
                   clientVars>>

NotifyNobody == NotifySome({})  \* fault

\* notify_one, after queue_mutex is released.
NotifyOne == NotifySome(waiters)

\* fault: the refused connection is answered and left open.
RejectWithoutClose ==
    /\ Own(Main) /\ main = "busy"
    /\ main' = "loop" /\ main_client' = None
    /\ response' = [response EXCEPT ![main_client] = "busy"]
    /\ UNCHANGED <<descriptor, client_queue, backlog, alive, mutexVars,
                   workerVars, signalVars, conn, request, gone>>

\* "server busy".  If the handler closed main's connection through a reused
\* number, the write fails and the close hits whatever took the number since.
RejectBusy ==
    /\ Own(Main) /\ main = "busy"
    /\ IF conn[main_client] = "closed"
       THEN CloseNumber /\ UNCHANGED <<alive, response>>
       ELSE /\ WriteAndClose(main_client, "busy")
            /\ descriptor' = IF descriptor = "client" /\ alive' THEN "free"
                             ELSE descriptor
    /\ IF alive' THEN main' = "loop" /\ main_client' = None
       ELSE UNCHANGED mainVars
    /\ UNCHANGED <<client_queue, backlog, mutexVars, workerVars, signalVars,
                   request, gone>>

\* fault: main closes server_fd too.
StopAndClose ==
    /\ Own(Main) /\ main = "stop"
    /\ main' = "join"
    /\ shutting_down' = TRUE
    /\ CloseNumber
    /\ WakeAll
    /\ UNCHANGED <<client_queue, backlog, alive, main_client, queue_mutex,
                   client, reply, engine_mutex, handler, signals, request,
                   response, gone>>

\* The loop has ended: store, and notify_all without queue_mutex.
Stop ==
    /\ Own(Main) /\ main = "stop"
    /\ main' = "join"
    /\ shutting_down' = TRUE
    /\ WakeAll
    /\ UNCHANGED <<descriptor, client_queue, backlog, alive, main_client,
                   queue_mutex, client, reply, engine_mutex, handler,
                   signals, clientVars>>

JoinIf(done) ==
    /\ Own(Main) /\ main = "join"
    /\ done
    /\ main' = "exit"
    /\ UNCHANGED <<descriptor, client_queue, backlog, alive, main_client,
                   mutexVars, workerVars, signalVars, clientVars>>

JoinFirst == JoinIf(pc[1] = "exited")  \* fault

Join == JoinIf(\A w \in Workers : pc[w] = "exited")
-----------------------------------------------------------------------------
(***************************************************************************)
(* worker_loop(): one evaluation of the wait predicate under queue_mutex   *)
(* leads to the condition variable, to a connection, or to the exit.       *)
(***************************************************************************)
SleepIf(w, idle) ==
    /\ At(w, "top") /\ queue_mutex = None
    /\ idle
    /\ Goto(w, "sleep")
    /\ queue_mutex' = w
    /\ UNCHANGED <<descriptor, client_queue, backlog, alive, waiters,
                   mainVars, client, reply, engine_mutex, signalVars,
                   clientVars>>

SleepUnlessWork(w) == SleepIf(w, client_queue = <<>>)  \* fault

WorkerSleep(w) == SleepIf(w, ~shutting_down /\ client_queue = <<>>)

\* wait() releases the mutex and blocks, atomically for the mutex; but a
\* notify_all sent without the mutex since the predicate was read is lost.
Block(w) ==
    /\ At(w, "sleep")
    /\ Goto(w, "waiting")
    /\ waiters' = waiters \cup {w}
    /\ queue_mutex' = None
    /\ UNCHANGED <<descriptor, client_queue, backlog, alive, mainVars,
                   client, reply, engine_mutex, signalVars, clientVars>>

SpuriousWake(w) ==
    /\ At(w, "waiting")
    /\ Goto(w, "top")
    /\ waiters' = waiters \ {w}
    /\ UNCHANGED <<descriptor, client_queue, backlog, alive, queue_mutex,
                   mainVars, client, reply, engine_mutex, signalVars,
                   clientVars>>

TakeLeaving(w, rest) ==
    /\ At(w, "top") /\ queue_mutex = None
    /\ client_queue # <<>>
    /\ Goto(w, "read")
    /\ client' = [client EXCEPT ![w] = Head(client_queue)]
    /\ client_queue' = rest
    /\ UNCHANGED <<descriptor, backlog, alive, mutexVars, mainVars, reply,
                   engine_mutex, signalVars, clientVars>>

TakeWithoutPop(w) == TakeLeaving(w, client_queue)  \* fault

WorkerTake(w) == TakeLeaving(w, Tail(client_queue))

\* fault: no exit test, so that front() of the empty queue is taken.
ReturnNever(w) ==
    /\ At(w, "top") /\ queue_mutex = None
    /\ client_queue = <<>> /\ shutting_down
    /\ Goto(w, "read")
    /\ client' = [client EXCEPT ![w] = Main]
    /\ UNCHANGED <<descriptor, client_queue, backlog, alive, mutexVars,
                   mainVars, reply, engine_mutex, signalVars, clientVars>>

ReturnIf(w, finished) ==
    /\ At(w, "top") /\ queue_mutex = None
    /\ finished
    /\ Goto(w, "exited")
    /\ UNCHANGED <<descriptor, client_queue, backlog, alive, mutexVars,
                   mainVars, client, reply, engine_mutex, signalVars,
                   clientVars>>

ReturnEarly(w) == ReturnIf(w, shutting_down)  \* fault

WorkerReturn(w) == ReturnIf(w, client_queue = <<>> /\ shutting_down)
-----------------------------------------------------------------------------
(***************************************************************************)
(* handle_client() and route_request().                                    *)
(***************************************************************************)
\* The read loop ends with a request, or with the end of the stream; a client
\* that neither sends nor closes keeps the worker here.
ReadRequest(w) ==
    /\ At(w, "read")
    /\ \/ request[client[w]] # "none"
          /\ Goto(w, "route") /\ UNCHANGED reply
       \/ request[client[w]] = "none" /\ client[w] \in gone
          /\ Goto(w, "reply") /\ reply' = [reply EXCEPT ![w] = "error"]
    /\ UNCHANGED <<descriptor, client_queue, backlog, alive, mutexVars,
                   mainVars, client, engine_mutex, signalVars, clientVars>>

\* No "action" field: answered before engine_mutex is taken.
RouteBlank(w) ==
    /\ At(w, "route") /\ request[client[w]] = "blank"
    /\ Goto(w, "reply")
    /\ reply' = [reply EXCEPT ![w] = "error"]
    /\ UNCHANGED <<descriptor, client_queue, backlog, alive, mutexVars,
                   mainVars, client, engine_mutex, signalVars, clientVars>>

\* read_file's checks refuse the path: outside, missing or too large by now.
RouteUnread(w) ==
    /\ At(w, "route") /\ request[client[w]] = "file"
    /\ engine_mutex = None
    /\ Goto(w, "reply")
    /\ reply' = [reply EXCEPT ![w] = "unread"]
    /\ UNCHANGED <<descriptor, client_queue, backlog, alive, mutexVars,
                   mainVars, client, engine_mutex, signalVars, clientVars>>

\* Everything else happens under engine_mutex.  A file request opens its file,
\* which takes the number in server_fd if that number is free.
RouteLock(w) ==
    /\ At(w, "route") /\ request[client[w]] # "blank"
    /\ engine_mutex = None
    /\ engine_mutex' = w
    /\ IF request[client[w]] = "file"
       THEN IF descriptor = "free"
            THEN Goto(w, "slotfile") /\ descriptor' = "file"
            ELSE Goto(w, "file") /\ UNCHANGED descriptor
       ELSE Goto(w, "engine") /\ UNCHANGED descriptor
    /\ UNCHANGED <<client_queue, backlog, alive, mutexVars, mainVars, client,
                   reply, signalVars, clientVars>>

\* Leaves the engines with an answer, whose sending needs no mutex.
Leave(w, r) ==
    /\ Goto(w, "reply")
    /\ reply' = [reply EXCEPT ![w] = r]
    /\ engine_mutex' = None

FileRead(w) ==
    /\ At(w, "file")
    /\ \/ Goto(w, "engine") /\ UNCHANGED <<reply, engine_mutex>>
       \/ Leave(w, "unread")
    /\ UNCHANGED <<descriptor, client_queue, backlog, alive, mutexVars,
                   mainVars, client, signalVars, clientVars>>

\* The file has the number in server_fd.  The read may fail, and does if a
\* handler closed the number (or it reads a connection that took the number
\* next); the ifstream's destructor then closes the number once more.
SlotFileRead(w) ==
    /\ At(w, "slotfile")
    /\ CloseNumber
    /\ \/ descriptor \in {"file", "client"}
          /\ Goto(w, "engine") /\ UNCHANGED <<reply, engine_mutex>>
       \/ Leave(w, "unread")
    /\ UNCHANGED <<client_queue, backlog, alive, mutexVars, mainVars, client,
                   signalVars, request, response, gone>>

\* What the engines may answer.  A missing or malformed field, or an unknown
\* action, is an error; an encoder refuses a well-formed request, with an error
\* too, when the vector it is to fill is not aligned.
AnswersTo(kind) ==
    CASE kind = "junk" -> {"error"}
      [] kind = "file" -> {"answer", "error"}
      [] OTHER -> {"answer"}

\* The engines' work and the release of engine_mutex.
Engine(w) ==
    /\ At(w, "engine")
    /\ \E r \in AnswersTo(request[client[w]]) : Leave(w, r)
    /\ UNCHANGED <<descriptor, client_queue, backlog, alive, mutexVars,
                   mainVars, client, signalVars, clientVars>>

Reply(w) ==
    /\ At(w, "reply")
    /\ WriteAndClose(client[w], reply[w])
    /\ IF alive'
       THEN /\ Goto(w, "top")
            /\ client' = [client EXCEPT ![w] = None]
            /\ reply' = [reply EXCEPT ![w] = "none"]
       ELSE UNCHANGED <<pc, client, reply>>
    /\ UNCHANGED <<descriptor, client_queue, backlog, mutexVars, mainVars,
                   engine_mutex, signalVars, request, gone>>
-----------------------------------------------------------------------------
(***************************************************************************)
(* handle_signal(), on the thread the kernel chose.                        *)
(***************************************************************************)
Deliver(t) ==
    /\ Own(t) /\ main # "config"
    /\ signals < MaxSignals
    /\ t # Main => pc[t] \notin {"unborn", "exited"}
    /\ signals' = signals + 1
    /\ handler' = [handler EXCEPT ![t] = "store"]
    /\ UNCHANGED <<descriptor, client_queue, backlog, alive, shutting_down,
                   mutexVars, mainVars, workerVars, clientVars>>

HandlerStore(t) ==
    /\ Running /\ handler[t] = "store"
    /\ shutting_down' = TRUE
    /\ handler' = [handler EXCEPT ![t] = "close"]
    /\ UNCHANGED <<descriptor, client_queue, backlog, alive, signals,
                   mutexVars, mainVars, workerVars, clientVars>>

\* server_fd keeps its number after the close, so that a second signal closes
\* the number again.
HandlerClose(t) ==
    /\ Running /\ handler[t] = "close"
    /\ IF descriptor = "none" THEN UNCHANGED <<descriptor, conn>>
       ELSE CloseNumber
    /\ handler' = [handler EXCEPT ![t] = "notify"]
    /\ UNCHANGED <<client_queue, backlog, alive, shutting_down, signals,
                   mutexVars, mainVars, workerVars, request, response, gone>>

\* notify_all without queue_mutex.  The accept this thread was blocked in is
\* restarted (std::signal installs with SA_RESTART) and looks the number up
\* again; an accept blocked on ANOTHER thread is not woken by the close.
HandlerNotify(t) ==
    /\ Running /\ handler[t] = "notify"
    /\ WakeAll
    /\ handler' = [handler EXCEPT ![t] = "idle"]
    /\ main' = IF t = Main /\ main = "accepting" THEN "accept" ELSE main
    /\ UNCHANGED <<descriptor, client_queue, backlog, alive, shutting_down,
                   signals, queue_mutex, main_client, client, reply,
                   engine_mutex, clientVars>>
-----------------------------------------------------------------------------
(***************************************************************************)
(* The clients.  The kernel queues listen()'s backlog plus one.            *)
(***************************************************************************)
Listening ==
    /\ Running
    /\ \/ main = "accepting"
       \/ descriptor = "listener"
          /\ main \notin {"config", "socket", "bind"}

Connect(c) ==
    /\ Listening /\ conn[c] = "new"
    /\ Len(backlog) < kMaxWorkers + 1
    /\ conn' = [conn EXCEPT ![c] = "pending"]
    /\ backlog' = Append(backlog, c)
    /\ UNCHANGED <<descriptor, client_queue, alive, mutexVars, mainVars,
                   workerVars, signalVars, request, response, gone>>

Send(c, k) ==
    /\ conn[c] \in {"pending", "accepted"}
    /\ c \notin gone /\ request[c] = "none"
    /\ request' = [request EXCEPT ![c] = k]
    /\ UNCHANGED <<descriptor, client_queue, backlog, alive, mutexVars,
                   mainVars, workerVars, signalVars, conn, response, gone>>

Vanish(c) ==
    /\ c \in Vanishing \ gone
    /\ conn[c] \in {"pending", "accepted"}
    /\ gone' = gone \cup {c}
    /\ UNCHANGED <<descriptor, client_queue, backlog, alive, mutexVars,
                   mainVars, workerVars, signalVars, conn, request, response>>
-----------------------------------------------------------------------------
MainStep ==
    \/ Configure \/ OpenSocket \/ BindListen \/ Spawn
    \/ LoopTest \/ AcceptCall \/ AcceptReturn \/ Enqueue \/ NotifyOne
    \/ RejectBusy \/ Stop \/ Join

WorkerStep(w) ==
    \/ WorkerSleep(w) \/ Block(w) \/ WorkerTake(w) \/ WorkerReturn(w)
    \/ ReadRequest(w) \/ RouteBlank(w) \/ RouteUnread(w) \/ RouteLock(w)
    \/ FileRead(w) \/ SlotFileRead(w) \/ Engine(w) \/ Reply(w)

HandlerStep(t) == HandlerStore(t) \/ HandlerClose(t) \/ HandlerNotify(t)

ClientStep(c) ==
    \/ Connect(c) \/ Vanish(c)
    \/ \E k \in RequestKinds : Send(c, k)

Next ==
    \/ MainStep \/ AcceptError
    \/ \E w \in Workers : WorkerStep(w) \/ SpuriousWake(w)
    \/ \E t \in Threads : Deliver(t) \/ HandlerStep(t)
    \/ \E c \in Clients : ClientStep(c)

Spec == Init /\ [][Next]_vars

(***************************************************************************)
(* Fairness: the kernel schedules every runnable thread (WF), a thread is  *)
(* not starved of a mutex that keeps becoming free (SF), and every client  *)
(* that does not vanish sends its request in the end.  Nothing makes a     *)
(* client connect, a signal arrive, accept fail, or a spurious wakeup      *)
(* happen.                                                                 *)
(***************************************************************************)
Fairness ==
    /\ WF_vars(MainStep) /\ SF_vars(Enqueue)
    /\ \A w \in Workers : /\ WF_vars(WorkerStep(w))
                          /\ SF_vars(WorkerTake(w) \/ WorkerReturn(w))
                          /\ SF_vars(RouteLock(w) \/ RouteUnread(w))
    /\ \A t \in Threads : WF_vars(HandlerStep(t))
    /\ \A c \in Clients \ Vanishing : WF_vars(\E k \in RequestKinds : Send(c, k))

FairSpec == Spec /\ Fairness
-----------------------------------------------------------------------------
(***************************************************************************)
(* Properties.                                                             *)
(***************************************************************************)
Queued(c) == \E i \in DOMAIN client_queue : client_queue[i] = c
Served(c) == \E w \in Workers : client[w] = c

\* An accepted connection is in exactly one place, the accept loop's local,
\* the queue or one worker, and what the queue and the workers hold is open:
\* nobody serves, answers or closes a descriptor twice.
SingleOwner ==
    /\ \A i, j \in DOMAIN client_queue :
          client_queue[i] = client_queue[j] => i = j
    /\ \A w, v \in Workers :
          client[w] = client[v] /\ client[w] # None => w = v
    /\ \A c \in Clients :
          /\ Queued(c) => ~Served(c) /\ main_client # c
          /\ Served(c) => main_client # c
          /\ Queued(c) \/ Served(c) => conn[c] = "accepted"

\* No accepted connection drops out of the daemon's sight: until it is closed
\* somebody holds it.
NoneLost ==
    \A c \in Clients : conn[c] = "accepted" =>
        main_client = c \/ Queued(c) \/ Served(c)

\* While a worker is blocked in the condition variable, every queued
\* connection has a worker on its way to it, or the notify for it is still to
\* come: no notify_one is wasted and no connection waits for a sleeping pool.
NoSleepOverWork ==
    waiters # {} =>
        Len(client_queue) <= Cardinality({w \in Workers : pc[w] = "top"})
                             + (IF main = "notify" THEN 1 ELSE 0)

\* A worker returns only when no connection can enter the queue any more, so
\* that none is left behind by the pool.
NoStrandedClient ==
    (\E w \in Workers : pc[w] = "exited") =>
        shutting_down /\ client_queue = <<>>

\* When main returns, every connection it accepted has been closed.
CleanExit ==
    main = "exit" => \A c \in Clients : conn[c] # "accepted"

\* The queue's bound and the pool's size bound the descriptors in use.
BoundedConnections ==
    /\ Len(client_queue) <= kMaxWorkers
    /\ Cardinality({c \in Clients : conn[c] = "accepted"})
          <= 2 * kMaxWorkers + 1

\* One signal closes the listening socket and nothing else: a file opened under
\* the number in server_fd is still there when it is read, and the connection
\* main holds is open until main disposes of it.
OnlyListenerClosed ==
    signals <= 1 =>
        /\ \A w \in Workers : pc[w] = "slotfile" => descriptor = "file"
        /\ main_client # None => conn[main_client] = "accepted"

\* A connection accepted from a client that stays gets its response, or what of
\* it could be written, also when the shutdown hangs afterwards.
EveryAcceptedAnswered ==
    \A c \in Clients : conn[c] = "accepted" ~> response[c] # "none"

\* Once main is in join and no worker is between its wait predicate and the
\* condition variable, or blocked in it, the pool drains and main returns.
JoinCompletes ==
    (main = "join" /\ \A w \in Workers : pc[w] \notin {"sleep", "waiting"})
        ~> main = "exit"

\* The promise, with the refinement mapping: a client is turned away from the
\* moment main decides to refuse it.
Service == INSTANCE BoundedService WITH
    Servers <- Workers,
    Room    <- kMaxWorkers,
    open    <- ~shutting_down,
    waiting <- client_queue,
    turned  <- IF main = "busy" THEN {main_client} ELSE {},
    serving <- client,
    outcome <- response

ImplementsService == Service!Spec
-----------------------------------------------------------------------------
(***************************************************************************)
(* A statement the code does not keep.                                     *)
(***************************************************************************)
\* "bounded, thread-safe": the pool stops once the accept loop has stopped.
PoolStops == main = "join" ~> main = "exit"
=============================================================================

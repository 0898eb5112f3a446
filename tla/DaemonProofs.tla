---------------------------- MODULE DaemonProofs ----------------------------
(***************************************************************************)
(* Proofs about Daemon for any number of workers, clients and signals.     *)
(***************************************************************************)
EXTENDS Daemon, FiniteSetTheorems, TLAPS

\* What a queue's head and tail are made of.
LEMMA HeadTail ==
    ASSUME NEW q \in Seq(Clients), q # <<>>
    PROVE  /\ Head(q) \in Clients /\ Tail(q) \in Seq(Clients)
           /\ Len(Tail(q)) = Len(q) - 1 /\ Len(q) \in Nat \ {0}
           /\ \A i \in 1..(Len(q) - 1) : Tail(q)[i] = q[i + 1]
           /\ Head(q) = q[1]
  OBVIOUS

LEMMA MainNotWorker == Main \notin Workers /\ Main \in Threads /\ None \notin Workers
  BY ConstantsAssumption DEF Main, Workers, Threads

LEMMA AnswersKnown ==
    ASSUME NEW k, NEW r \in AnswersTo(k)
    PROVE  r \in Replies
  BY DEF AnswersTo, Replies

\* main's local is a connection exactly from accept to its disposal.
MainHolds == main_client # None <=> main \in {"queue", "busy"}

Typed == TypeOK /\ MainHolds

\* What a response, written or cut off, leaves in the variables it changes.
LEMMA WriteTyped ==
    ASSUME Typed, NEW c, NEW r \in Replies \cup {"none", "busy"}, WriteAndClose(c, r)
    PROVE  /\ response' \in [Clients -> Replies \cup {"none", "busy", "cut"}]
           /\ conn' \in [Clients -> {"new", "pending", "accepted", "closed"}]
           /\ alive' \in BOOLEAN
<1>1. CASE c \in gone
  BY <1>1 DEF WriteAndClose, Typed, TypeOK
<1>2. CASE c \notin gone
  <2>1. PICK told \in {r, "cut"} : response' = [response EXCEPT ![c] = told]
    BY <1>2 DEF WriteAndClose
  <2>2. response' \in [Clients -> Replies \cup {"none", "busy", "cut"}]
    BY <2>1 DEF Typed, TypeOK
  <2>3. QED  BY <1>2, <2>2 DEF WriteAndClose, Typed, TypeOK
<1>3. QED  BY <1>1, <1>2

LEMMA TypedInit == Init => Typed
<1> USE ConstantsAssumption
<1> SUFFICES ASSUME Init PROVE Typed
  OBVIOUS
<1> USE DEF Init
<1>1. pc \in [Workers -> WorkerStates] /\ main \in MainStates
  BY DEF WorkerStates, MainStates
<1>2. client_queue \in Seq(Clients) /\ backlog \in Seq(Clients)
  OBVIOUS
<1>3. 0 \in 0..MaxSignals
  OBVIOUS
<1>4. TypeOK
  BY <1>1, <1>2, <1>3 DEF TypeOK
<1>5. MainHolds
  BY DEF MainHolds
<1>6. QED  BY <1>4, <1>5 DEF Typed

LEMMA TypedStep == Typed /\ [Next]_vars => Typed'
<1> USE ConstantsAssumption, MainNotWorker
<1> SUFFICES ASSUME Typed, [Next]_vars PROVE Typed'
  OBVIOUS
<1> USE DEF mutexVars, mainVars, workerVars, signalVars, clientVars, vars, Typed, MainHolds
<1>1. CASE MainStep
  <2> USE DEF Own, Running
  <2>1. CASE Configure  BY <2>1 DEF Configure, TypeOK, MainStates
  <2>2. CASE OpenSocket  BY <2>2 DEF OpenSocket, TypeOK, MainStates
  <2>3. CASE BindListen  BY <2>3 DEF BindListen, TypeOK, MainStates
  <2>4. CASE Spawn  BY <2>4 DEF Spawn, TypeOK, MainStates, WorkerStates
  <2>5. CASE LoopTest  BY <2>5 DEF LoopTest, TypeOK, MainStates
  <2>6. CASE AcceptCall  BY <2>6 DEF AcceptCall, TypeOK, MainStates
  <2>7. CASE AcceptReturn
    <3>1. backlog \in Seq(Clients) /\ backlog # <<>>
      BY <2>7 DEF AcceptReturn, TypeOK
    <3>2. Head(backlog) \in Clients /\ Tail(backlog) \in Seq(Clients)
      BY <3>1, HeadTail
    <3>3. QED  BY <2>7, <3>2 DEF AcceptReturn, TypeOK, MainStates
  <2>8. CASE Enqueue
    <3>1. main_client \in Clients /\ client_queue \in Seq(Clients)
      BY <2>8 DEF Enqueue, EnqueueIf, TypeOK
    <3>2. Append(client_queue, main_client) \in Seq(Clients)
      BY <3>1
    <3>3. QED  BY <2>8, <3>2 DEF Enqueue, EnqueueIf, TypeOK, MainStates
  <2>9. CASE NotifyOne  BY <2>9 DEF NotifyOne, NotifySome, Goto, TypeOK, MainStates, WorkerStates
  <2>10. CASE RejectBusy
    <3>1. main_client \in Clients
      BY <2>10 DEF RejectBusy, TypeOK
    <3>2. /\ response' \in [Clients -> Replies \cup {"none", "busy", "cut"}]
          /\ conn' \in [Clients -> {"new", "pending", "accepted", "closed"}]
          /\ alive' \in BOOLEAN
      BY <2>10, <3>1, WriteTyped DEF RejectBusy, CloseNumber, TypeOK
    <3>3. QED  BY <2>10, <3>2 DEF RejectBusy, CloseNumber, TypeOK, MainStates
  <2>11. CASE Stop  BY <2>11 DEF Stop, WakeAll, TypeOK, MainStates, WorkerStates
  <2>12. CASE Join  BY <2>12 DEF Join, JoinIf, TypeOK, MainStates
  <2>13. QED  BY <1>1, <2>1, <2>2, <2>3, <2>4, <2>5, <2>6, <2>7, <2>8, <2>9, <2>10, <2>11, <2>12 DEF MainStep
<1>2. CASE AcceptError  BY <1>2 DEF AcceptError, TypeOK, MainStates
<1>3. ASSUME NEW w \in Workers, WorkerStep(w) \/ SpuriousWake(w) PROVE Typed'
  <2> USE DEF At, Own, Running, Goto
  <2>1. CASE WorkerSleep(w)  BY <2>1 DEF WorkerSleep, SleepIf, TypeOK, WorkerStates
  <2>2. CASE Block(w)  BY <2>2 DEF Block, TypeOK, WorkerStates
  <2>3. CASE WorkerTake(w)
    <3>1. client_queue \in Seq(Clients) /\ client_queue # <<>>
      BY <2>3 DEF WorkerTake, TakeLeaving, TypeOK
    <3>2. Head(client_queue) \in Clients /\ Tail(client_queue) \in Seq(Clients)
      BY <3>1, HeadTail
    <3>3. QED  BY <2>3, <3>2 DEF WorkerTake, TakeLeaving, TypeOK, WorkerStates
  <2>4. CASE WorkerReturn(w)  BY <2>4 DEF WorkerReturn, ReturnIf, TypeOK, WorkerStates
  <2>5. CASE ReadRequest(w)  BY <2>5 DEF ReadRequest, TypeOK, WorkerStates, Replies
  <2>6. CASE RouteBlank(w) \/ RouteUnread(w)
    <3>1. CASE RouteBlank(w)  BY <3>1 DEF RouteBlank, TypeOK, WorkerStates, Replies
    <3>2. CASE RouteUnread(w)  BY <3>2 DEF RouteUnread, TypeOK, WorkerStates, Replies
    <3>3. QED  BY <2>6, <3>1, <3>2
  <2>7. CASE RouteLock(w)  BY <2>7 DEF RouteLock, TypeOK, WorkerStates
  <2>8. CASE FileRead(w)  BY <2>8 DEF FileRead, Leave, TypeOK, WorkerStates, Replies
  <2>9. CASE SlotFileRead(w)
    BY <2>9 DEF SlotFileRead, Leave, CloseNumber, TypeOK, WorkerStates, Replies
  <2>10. CASE Engine(w)
    <3>1. PICK r \in Replies : Leave(w, r)
      BY <2>10, AnswersKnown DEF Engine
    <3>2. QED  BY <2>10, <3>1 DEF Engine, Leave, TypeOK, WorkerStates
  <2>11. CASE Reply(w)
    <3>1. /\ response' \in [Clients -> Replies \cup {"none", "busy", "cut"}]
          /\ conn' \in [Clients -> {"new", "pending", "accepted", "closed"}]
          /\ alive' \in BOOLEAN
      <4>1. reply[w] \in Replies \cup {"none"}
        BY DEF TypeOK
      <4>2. WriteAndClose(client[w], reply[w])
        BY <2>11 DEF Reply
      <4>3. QED  BY <4>1, <4>2, WriteTyped
    <3>2. /\ pc' \in [Workers -> WorkerStates]
          /\ client' \in [Workers -> Clients \cup {None}]
          /\ reply' \in [Workers -> Replies \cup {"none"}]
      BY <2>11 DEF Reply, TypeOK, WorkerStates
    <3>3. QED  BY <2>11, <3>1, <3>2 DEF Reply, TypeOK
  <2>12. CASE SpuriousWake(w)  BY <2>12 DEF SpuriousWake, TypeOK, WorkerStates
  <2>13. QED  BY <1>3, <2>1, <2>2, <2>3, <2>4, <2>5, <2>6, <2>7, <2>8, <2>9, <2>10, <2>11, <2>12 DEF WorkerStep
<1>4. ASSUME NEW t \in Threads, Deliver(t) \/ HandlerStep(t) PROVE Typed'
  <2>1. CASE Deliver(t)  BY <2>1 DEF Deliver, TypeOK
  <2>2. CASE HandlerStore(t)  BY <2>2 DEF HandlerStore, TypeOK
  <2>3. CASE HandlerClose(t)  BY <2>3 DEF HandlerClose, CloseNumber, TypeOK
  <2>4. CASE HandlerNotify(t)  BY <2>4 DEF HandlerNotify, WakeAll, TypeOK, MainStates, WorkerStates
  <2>5. QED  BY <1>4, <2>1, <2>2, <2>3, <2>4 DEF HandlerStep
<1>5. ASSUME NEW c \in Clients, ClientStep(c) PROVE Typed'
  <2>1. CASE Connect(c)  BY <2>1 DEF Connect, TypeOK
  <2>2. CASE Vanish(c)  BY <2>2 DEF Vanish, TypeOK
  <2>3. ASSUME NEW k \in RequestKinds, Send(c, k) PROVE Typed'
    BY <2>3 DEF Send, TypeOK
  <2>4. QED  BY <1>5, <2>1, <2>2, <2>3 DEF ClientStep
<1>6. CASE UNCHANGED vars  BY <1>6 DEF TypeOK
<1>7. QED  BY <1>1, <1>2, <1>3, <1>4, <1>5, <1>6 DEF Next

THEOREM TypedInvariant == Spec => []Typed
  BY TypedInit, TypedStep, PTL DEF Spec

\* Every variable stays in its type, whatever the instance.
THEOREM TypeCorrect == Spec => []TypeOK
<1>1. Typed => TypeOK
  BY DEF Typed
<1>2. QED  BY TypedInvariant, <1>1, PTL
-----------------------------------------------------------------------------
(***************************************************************************)
(* The pool.  queue_mutex is held across steps exactly by a worker that    *)
(* found the queue empty, the wait set is the set of blocked workers, and  *)
(* before the pool exists nothing has been queued.                         *)
(***************************************************************************)
BeforePool == {"config", "socket", "bind", "spawn", "failed"}

Pool ==
    /\ \A w \in Workers : pc[w] = "sleep" =>
          queue_mutex = w /\ client_queue = <<>>
    /\ queue_mutex # None => pc[queue_mutex] = "sleep"
    /\ waiters = {w \in Workers : pc[w] = "waiting"}
    /\ main \in BeforePool =>
          client_queue = <<>> /\ \A w \in Workers : pc[w] = "unborn"
    /\ main = "exit" => \A w \in Workers : pc[w] = "exited"
    /\ NoStrandedClient

LEMMA PoolStep == Typed /\ Typed' /\ Pool /\ [Next]_vars => Pool'
<1> USE ConstantsAssumption, MainNotWorker
<1> SUFFICES ASSUME Typed, Typed', Pool, [Next]_vars PROVE Pool'
  OBVIOUS
<1> USE DEF At, Own, Running, mutexVars, mainVars, workerVars, signalVars, clientVars, vars
<1>1. CASE MainStep
  <2>1. CASE Configure  BY <2>1 DEF Configure, Pool, NoStrandedClient, BeforePool, Typed, TypeOK, MainHolds, WorkerStates, MainStates
  <2>2. CASE OpenSocket  BY <2>2 DEF OpenSocket, Pool, NoStrandedClient, BeforePool, Typed, TypeOK, MainHolds, WorkerStates, MainStates
  <2>3. CASE BindListen  BY <2>3 DEF BindListen, Pool, NoStrandedClient, BeforePool, Typed, TypeOK, MainHolds, WorkerStates, MainStates
  <2>4. CASE Spawn  BY <2>4 DEF Spawn, Pool, NoStrandedClient, BeforePool, Typed, TypeOK, MainHolds, WorkerStates, MainStates
  <2>5. CASE LoopTest  BY <2>5 DEF LoopTest, Pool, NoStrandedClient, BeforePool, Typed, TypeOK, MainHolds, WorkerStates, MainStates
  <2>6. CASE AcceptCall  BY <2>6 DEF AcceptCall, Pool, NoStrandedClient, BeforePool, Typed, TypeOK, MainHolds, WorkerStates, MainStates
  <2>7. CASE AcceptReturn  BY <2>7 DEF AcceptReturn, Pool, NoStrandedClient, BeforePool, Typed, TypeOK, MainHolds, WorkerStates, MainStates
  <2>8. CASE Enqueue  BY <2>8 DEF Enqueue, EnqueueIf, Pool, NoStrandedClient, BeforePool, Typed, TypeOK, MainHolds, WorkerStates, MainStates
  <2>9. CASE NotifyOne  BY <2>9 DEF NotifyOne, NotifySome, Goto, Pool, NoStrandedClient, BeforePool, Typed, TypeOK, MainHolds, WorkerStates, MainStates
  <2>10. CASE RejectBusy  BY <2>10 DEF RejectBusy, WriteAndClose, CloseNumber, Pool, NoStrandedClient, BeforePool, Typed, TypeOK, MainHolds, WorkerStates, MainStates
  <2>11. CASE Stop  BY <2>11 DEF Stop, WakeAll, Pool, NoStrandedClient, BeforePool, Typed, TypeOK, MainHolds, WorkerStates, MainStates
  <2>12. CASE Join  BY <2>12 DEF Join, JoinIf, Pool, NoStrandedClient, BeforePool, Typed, TypeOK, MainHolds, WorkerStates, MainStates
  <2>13. QED
    BY <1>1, <2>1, <2>2, <2>3, <2>4, <2>5, <2>6, <2>7, <2>8, <2>9, <2>10, <2>11, <2>12 DEF MainStep
<1>2. CASE AcceptError  BY <1>2 DEF AcceptError, Pool, NoStrandedClient, BeforePool, Typed, TypeOK, MainHolds, WorkerStates, MainStates
<1>3. ASSUME NEW w \in Workers, WorkerStep(w) \/ SpuriousWake(w) PROVE Pool'
  <2>1. CASE WorkerSleep(w)  BY <2>1 DEF WorkerSleep, SleepIf, Goto, Pool, NoStrandedClient, BeforePool, Typed, TypeOK, MainHolds, WorkerStates, MainStates
  <2>2. CASE Block(w)  BY <2>2 DEF Block, Goto, Pool, NoStrandedClient, BeforePool, Typed, TypeOK, MainHolds, WorkerStates, MainStates
  <2>3. CASE WorkerTake(w)  BY <2>3 DEF WorkerTake, TakeLeaving, Goto, Pool, NoStrandedClient, BeforePool, Typed, TypeOK, MainHolds, WorkerStates, MainStates
  <2>4. CASE WorkerReturn(w)  BY <2>4 DEF WorkerReturn, ReturnIf, Goto, Pool, NoStrandedClient, BeforePool, Typed, TypeOK, MainHolds, WorkerStates, MainStates
  <2>5. CASE ReadRequest(w)  BY <2>5 DEF ReadRequest, Goto, Pool, NoStrandedClient, BeforePool, Typed, TypeOK, MainHolds, WorkerStates, MainStates
  <2>6. CASE RouteBlank(w) \/ RouteUnread(w)  BY <2>6 DEF RouteBlank, RouteUnread, Goto, Pool, NoStrandedClient, BeforePool, Typed, TypeOK, MainHolds, WorkerStates, MainStates
  <2>7. CASE RouteLock(w)  BY <2>7 DEF RouteLock, Goto, Pool, NoStrandedClient, BeforePool, Typed, TypeOK, MainHolds, WorkerStates, MainStates
  <2>8. CASE FileRead(w)  BY <2>8 DEF FileRead, Leave, Goto, Pool, NoStrandedClient, BeforePool, Typed, TypeOK, MainHolds, WorkerStates, MainStates
  <2>9. CASE SlotFileRead(w)  BY <2>9 DEF SlotFileRead, Leave, CloseNumber, Goto, Pool, NoStrandedClient, BeforePool, Typed, TypeOK, MainHolds, WorkerStates, MainStates
  <2>10. CASE Engine(w)  BY <2>10 DEF Engine, Leave, Goto, Pool, NoStrandedClient, BeforePool, Typed, TypeOK, MainHolds, WorkerStates, MainStates
  <2>11. CASE Reply(w)  BY <2>11 DEF Reply, WriteAndClose, Goto, Pool, NoStrandedClient, BeforePool, Typed, TypeOK, MainHolds, WorkerStates, MainStates
  <2>12. CASE SpuriousWake(w)  BY <2>12 DEF SpuriousWake, Goto, Pool, NoStrandedClient, BeforePool, Typed, TypeOK, MainHolds, WorkerStates, MainStates
  <2>13. QED
    BY <1>3, <2>1, <2>2, <2>3, <2>4, <2>5, <2>6, <2>7, <2>8, <2>9, <2>10, <2>11, <2>12 DEF WorkerStep
<1>4. ASSUME NEW t \in Threads, Deliver(t) \/ HandlerStep(t) PROVE Pool'
  <2>1. CASE Deliver(t)  BY <2>1 DEF Deliver, Pool, NoStrandedClient, BeforePool, Typed, TypeOK, MainHolds, WorkerStates, MainStates
  <2>2. CASE HandlerStore(t)  BY <2>2 DEF HandlerStore, Pool, NoStrandedClient, BeforePool, Typed, TypeOK, MainHolds, WorkerStates, MainStates
  <2>3. CASE HandlerClose(t)  BY <2>3 DEF HandlerClose, CloseNumber, Pool, NoStrandedClient, BeforePool, Typed, TypeOK, MainHolds, WorkerStates, MainStates
  <2>4. CASE HandlerNotify(t)  BY <2>4 DEF HandlerNotify, WakeAll, Pool, NoStrandedClient, BeforePool, Typed, TypeOK, MainHolds, WorkerStates, MainStates
  <2>5. QED  BY <1>4, <2>1, <2>2, <2>3, <2>4 DEF HandlerStep
<1>5. ASSUME NEW c \in Clients, ClientStep(c) PROVE Pool'
  <2>1. CASE Connect(c)  BY <2>1 DEF Connect, Pool, NoStrandedClient, BeforePool, Typed, TypeOK, MainHolds, WorkerStates, MainStates
  <2>2. CASE Vanish(c)  BY <2>2 DEF Vanish, Pool, NoStrandedClient, BeforePool, Typed, TypeOK, MainHolds, WorkerStates, MainStates
  <2>3. ASSUME NEW k \in RequestKinds, Send(c, k) PROVE Pool'
    BY <2>3 DEF Send, Pool, NoStrandedClient, BeforePool, Typed, TypeOK, MainHolds, WorkerStates, MainStates
  <2>4. QED  BY <1>5, <2>1, <2>2, <2>3 DEF ClientStep
<1>6. CASE UNCHANGED vars  BY <1>6 DEF Pool, NoStrandedClient, BeforePool, Typed, TypeOK, MainHolds, WorkerStates, MainStates
<1>7. QED  BY <1>1, <1>2, <1>3, <1>4, <1>5, <1>6 DEF Next

LEMMA PoolInvariant == Spec => []Pool
<1>1. Init => Pool
  BY ConstantsAssumption DEF Init, Pool, BeforePool, NoStrandedClient
<1>2. QED  BY <1>1, PoolStep, TypedInvariant, PTL DEF Spec

\* A worker that has returned leaves an empty queue behind, and nothing is
\* queued afterwards.
THEOREM NoStrandedClientHolds == Spec => []NoStrandedClient
<1>1. Pool => NoStrandedClient
  BY DEF Pool
<1>2. QED  BY <1>1, PoolInvariant, PTL
-----------------------------------------------------------------------------
(***************************************************************************)
(* The condition variable as a counter: the workers that are awake and     *)
(* about to look at the queue, and the notify still to be sent, cover the  *)
(* queue as long as somebody sleeps.                                       *)
(***************************************************************************)
Awake == {w \in Workers : pc[w] = "top"}

LEMMA WorkerSets ==
    ASSUME NEW S \in SUBSET Workers
    PROVE  /\ IsFiniteSet(S) /\ Cardinality(S) \in Nat
           /\ \A w \in Workers \ S : Cardinality(S \cup {w}) = Cardinality(S) + 1
           /\ \A w \in S : Cardinality(S \ {w}) = Cardinality(S) - 1
<1>1. IsFiniteSet(Workers)
  BY ConstantsAssumption, FS_Interval DEF Workers
<1>2. IsFiniteSet(S) /\ Cardinality(S) \in Nat
  BY <1>1, FS_Subset, FS_CardinalityType
<1>3. QED  BY <1>2, FS_AddElement, FS_RemoveElement

LEMMA AwakeCount == Awake \in SUBSET Workers /\ Cardinality(Awake) \in Nat
  BY WorkerSets DEF Awake

\* Steps that neither wake nor queue anybody.
LEMMA CoveredKept ==
    ASSUME NoSleepOverWork, Awake' = Awake, client_queue' = client_queue,
           waiters' = waiters, main' = "notify" <=> main = "notify"
    PROVE  NoSleepOverWork'
  BY DEF NoSleepOverWork, Awake

\* A worker moves between two places that are not the test of the queue.
LEMMA AwakeKept ==
    ASSUME Typed, NEW w \in Workers, NEW p, Goto(w, p), pc[w] # "top", p # "top"
    PROVE  Awake' = Awake
  BY DEF Awake, Goto, Typed, TypeOK

\* A worker arrives at the test of the queue.
LEMMA AwakeGrows ==
    ASSUME Typed, NEW w \in Workers, Goto(w, "top"), pc[w] # "top"
    PROVE  Awake' = Awake \cup {w} /\ Cardinality(Awake') = Cardinality(Awake) + 1
<1>1. Awake' = Awake \cup {w} /\ w \in Workers \ Awake
  BY DEF Awake, Goto, Typed, TypeOK
<1>2. QED  BY <1>1, AwakeCount, WorkerSets

\* A worker leaves the test of the queue.
LEMMA AwakeShrinks ==
    ASSUME Typed, NEW w \in Workers, NEW p, Goto(w, p), pc[w] = "top", p # "top"
    PROVE  Cardinality(Awake') = Cardinality(Awake) - 1
<1>1. Awake' = Awake \ {w} /\ w \in Awake
  BY DEF Awake, Goto, Typed, TypeOK
<1>2. QED  BY <1>1, AwakeCount, WorkerSets

\* An empty queue is covered by anything.
LEMMA CoveredEmpty ==
    ASSUME client_queue' = <<>> PROVE NoSleepOverWork'
<1>1. Awake' \in SUBSET Workers
  BY DEF Awake
<1>2. Cardinality(Awake') \in Nat
  BY <1>1, WorkerSets
<1>3. QED  BY <1>2 DEF NoSleepOverWork, Awake

LEMMA NoSleepStep ==
    Typed /\ Typed' /\ Pool /\ NoSleepOverWork /\ [Next]_vars => NoSleepOverWork'
<1> USE ConstantsAssumption, MainNotWorker
<1> SUFFICES ASSUME Typed, Typed', Pool, NoSleepOverWork, [Next]_vars
             PROVE  NoSleepOverWork'
  OBVIOUS
<1> USE DEF At, Own, Running, mutexVars, mainVars, workerVars, signalVars, clientVars, vars
<1>0. client_queue \in Seq(Clients) /\ Len(client_queue) \in Nat
  BY DEF Typed, TypeOK
<1>1. CASE MainStep
  <2> DEFINE Quiet == /\ pc' = pc /\ client_queue' = client_queue /\ waiters' = waiters
                      /\ main # "notify" /\ main' # "notify"
  <2>1. Quiet => NoSleepOverWork'
    BY CoveredKept DEF Awake
  <2> HIDE DEF Quiet
  <2>2. CASE Configure \/ OpenSocket \/ BindListen \/ LoopTest \/ AcceptCall \/ AcceptReturn
    BY <2>1, <2>2 DEF Quiet, Configure, OpenSocket, BindListen, LoopTest, AcceptCall, AcceptReturn
  <2>3. CASE RejectBusy \/ Join
    BY <2>1, <2>3 DEF Quiet, RejectBusy, Join, JoinIf
  <2>4. CASE Spawn
    BY <2>4, CoveredEmpty DEF Spawn, Pool, BeforePool
  <2>5. CASE Enqueue
    <3>1. Awake' = Awake /\ waiters' = waiters /\ main = "queue"
      BY <2>5 DEF Enqueue, EnqueueIf, Awake
    <3>2. CASE client_queue' = Append(client_queue, main_client) /\ main' = "notify"
      <4>1. Len(client_queue') = Len(client_queue) + 1
        BY <3>2, <1>0
      <4>2. Cardinality(Awake') = Cardinality(Awake) /\ main # "notify" /\ main' = "notify"
        BY <3>1, <3>2
      <4>3. QED  BY <1>0, <3>1, <4>1, <4>2, AwakeCount DEF NoSleepOverWork, Awake
    <3>3. CASE client_queue' = client_queue /\ main' = "busy"
      BY <3>1, <3>3, CoveredKept
    <3>4. QED  BY <2>5, <3>2, <3>3 DEF Enqueue, EnqueueIf
  <2>6. CASE NotifyOne
    <3>1. client_queue' = client_queue /\ main = "notify" /\ main' = "loop"
      BY <2>6 DEF NotifyOne, NotifySome
    <3>2. CASE waiters = {}
      BY <2>6, <3>2 DEF NotifyOne, NotifySome, NoSleepOverWork
    <3>3. CASE waiters # {}
      <4>1. PICK w \in waiters : Goto(w, "top")
        BY <2>6, <3>3 DEF NotifyOne, NotifySome
      <4>2. w \in Workers /\ pc[w] # "top"
        BY DEF Pool
      <4>3. Cardinality(Awake') = Cardinality(Awake) + 1
        BY <4>1, <4>2, AwakeGrows
      <4>4. QED  BY <1>0, <3>1, <3>3, <4>3, AwakeCount DEF NoSleepOverWork, Awake
    <3>4. QED  BY <3>2, <3>3
  <2>7. CASE Stop
    BY <2>7 DEF Stop, WakeAll, NoSleepOverWork
  <2>8. QED
    BY <1>1, <2>2, <2>3, <2>4, <2>5, <2>6, <2>7 DEF MainStep
<1>2. CASE AcceptError
  BY <1>2, CoveredKept DEF AcceptError, Awake
<1>3. ASSUME NEW w \in Workers, WorkerStep(w) \/ SpuriousWake(w) PROVE NoSleepOverWork'
  <2>1. CASE WorkerSleep(w)
    BY <2>1, CoveredEmpty DEF WorkerSleep, SleepIf
  <2>2. CASE Block(w)
    BY <2>2, CoveredEmpty DEF Block, Pool
  <2>3. CASE WorkerTake(w)
    <3>1. Cardinality(Awake') = Cardinality(Awake) - 1 /\ UNCHANGED <<waiters, main>>
      BY <2>3, AwakeShrinks DEF WorkerTake, TakeLeaving
    <3>2. Len(client_queue') = Len(client_queue) - 1
      BY <2>3, <1>0, HeadTail DEF WorkerTake, TakeLeaving
    <3>3. QED  BY <1>0, <3>1, <3>2, AwakeCount DEF NoSleepOverWork, Awake
  <2>4. CASE WorkerReturn(w)
    BY <2>4, CoveredEmpty DEF WorkerReturn, ReturnIf
  <2>5. CASE \/ ReadRequest(w) \/ RouteBlank(w) \/ RouteUnread(w) \/ RouteLock(w)
             \/ FileRead(w) \/ SlotFileRead(w) \/ Engine(w)
    <3>1. PICK p \in {"route", "reply", "slotfile", "file", "engine"} : Goto(w, p)
      BY <2>5 DEF ReadRequest, RouteBlank, RouteUnread, RouteLock, FileRead, SlotFileRead, Engine, Leave
    <3>2. pc[w] # "top" /\ UNCHANGED <<client_queue, waiters, main>>
      BY <2>5 DEF ReadRequest, RouteBlank, RouteUnread, RouteLock, FileRead, SlotFileRead, Engine, Leave
    <3>3. Awake' = Awake
      BY <3>1, <3>2, AwakeKept
    <3>4. QED  BY <3>2, <3>3, CoveredKept
  <2>6. CASE Reply(w)
    <3>1. pc[w] # "top" /\ UNCHANGED <<client_queue, waiters, main>>
      BY <2>6 DEF Reply
    <3>2. CASE Goto(w, "top")
      <4>1. Cardinality(Awake') = Cardinality(Awake) + 1
        BY <3>1, <3>2, AwakeGrows
      <4>2. QED  BY <1>0, <3>1, <4>1, AwakeCount DEF NoSleepOverWork, Awake
    <3>3. CASE UNCHANGED pc
      BY <3>1, <3>3, CoveredKept DEF Awake
    <3>4. QED  BY <2>6, <3>2, <3>3 DEF Reply
  <2>7. CASE SpuriousWake(w)
    <3>1. pc[w] # "top" /\ waiters # {} /\ UNCHANGED <<client_queue, main>>
      BY <2>7 DEF SpuriousWake, Pool
    <3>2. Cardinality(Awake') = Cardinality(Awake) + 1
      BY <2>7, <3>1, AwakeGrows DEF SpuriousWake
    <3>3. QED  BY <1>0, <3>1, <3>2, AwakeCount DEF NoSleepOverWork, Awake
  <2>8. QED
    BY <1>3, <2>1, <2>2, <2>3, <2>4, <2>5, <2>6, <2>7 DEF WorkerStep
<1>4. ASSUME NEW t \in Threads, Deliver(t) \/ HandlerStep(t) PROVE NoSleepOverWork'
  <2>1. CASE Deliver(t) \/ HandlerStore(t) \/ HandlerClose(t)
    BY <2>1, CoveredKept DEF Deliver, HandlerStore, HandlerClose, Awake
  <2>2. CASE HandlerNotify(t)
    BY <2>2 DEF HandlerNotify, WakeAll, NoSleepOverWork
  <2>3. QED  BY <1>4, <2>1, <2>2 DEF HandlerStep
<1>5. ASSUME NEW c \in Clients, ClientStep(c) PROVE NoSleepOverWork'
  BY <1>5, CoveredKept DEF ClientStep, Connect, Vanish, Send, Awake
<1>6. CASE UNCHANGED vars
  BY <1>6, CoveredKept DEF Awake
<1>7. QED  BY <1>1, <1>2, <1>3, <1>4, <1>5, <1>6 DEF Next

\* No notification is wasted: while a worker is blocked, every queued
\* connection has a worker coming for it.
THEOREM NoSleepOverWorkHolds == Spec => []NoSleepOverWork
<1>1. Init => NoSleepOverWork
  BY DEF Init, NoSleepOverWork
<1>2. QED
  BY <1>1, NoSleepStep, TypedInvariant, PoolInvariant, PTL DEF Spec
-----------------------------------------------------------------------------
(***************************************************************************)
(* Ownership.  SingleOwner and NoneLost become inductive with what each    *)
(* holder knows of its connection (Holding), with the kernel's queue       *)
(* (Backlog), and with what the number in server_fd may denote once the    *)
(* handler has closed it (Number).                                         *)
(***************************************************************************)
Serving == {"read", "route", "engine", "file", "slotfile", "reply"}

Holding ==
    /\ \A w \in Workers :
          /\ client[w] # None <=> pc[w] \in Serving
          /\ pc[w] = "reply" => reply[w] # "none"
          /\ pc[w] = "slotfile" => shutting_down
    /\ main_client # None =>
          /\ conn[main_client] \in {"accepted", "closed"}
          /\ conn[main_client] = "closed" => shutting_down
          /\ response[main_client] = "none"
    /\ \A c \in Clients : conn[c] # "closed" => response[c] = "none"

Backlog ==
    /\ \A i \in DOMAIN backlog : conn[backlog[i]] = "pending"
    /\ \A i, j \in DOMAIN backlog : backlog[i] = backlog[j] => i = j

Number ==
    /\ descriptor = "client" =>
          main_client # None /\ conn[main_client] = "accepted"
    /\ descriptor \in {"free", "client", "file"} =>
          shutting_down \/ main = "failed"
    /\ \A t \in Threads :
          handler[t] \in {"close", "notify"} => shutting_down

Ownership == SingleOwner /\ NoneLost /\ Holding /\ Backlog /\ Number

\* What Append does to a queue.
LEMMA QueuePush ==
    ASSUME NEW q \in Seq(Clients), NEW c \in Clients
    PROVE  /\ DOMAIN q = 1..Len(q) /\ Len(q) \in Nat
           /\ DOMAIN Append(q, c) = 1..(Len(q) + 1)
           /\ \A i \in DOMAIN q : Append(q, c)[i] = q[i]
           /\ Append(q, c)[Len(q) + 1] = c
  OBVIOUS

\* What Tail does to a queue.
LEMMA QueuePop ==
    ASSUME NEW q \in Seq(Clients), q # <<>>
    PROVE  /\ DOMAIN q = 1..Len(q) /\ Len(q) \in Nat \ {0}
           /\ DOMAIN Tail(q) = 1..(Len(q) - 1)
           /\ \A i \in DOMAIN Tail(q) : Tail(q)[i] = q[i + 1]
           /\ Head(q) = q[1] /\ Head(q) \in Clients
  OBVIOUS

\* Ownership speaks of these variables only.
LEMMA OwnershipKept ==
    ASSUME Ownership,
           UNCHANGED <<client_queue, client, main_client, main, pc, reply, conn,
                       response, backlog, descriptor, shutting_down, handler>>
    PROVE  Ownership'
  BY DEF Ownership, SingleOwner, NoneLost, Holding, Backlog, Number, Queued, Served

\* Closing the number in server_fd closes at most main's own connection.
LEMMA CloseNumberEffect ==
    ASSUME Typed, Ownership, CloseNumber
    PROVE  /\ descriptor' = "free"
           /\ \A c \in Clients :
                \/ conn'[c] = conn[c]
                \/ c = main_client /\ conn[c] = "accepted" /\ conn'[c] = "closed"
           /\ main_client # None /\ conn[main_client] = "closed" => conn' = conn
  BY DEF CloseNumber, Typed, TypeOK, Ownership, Number

\* A response written to a client that is there closes its connection.
LEMMA WriteEffect ==
    ASSUME Typed, alive, NEW c \in Clients, NEW r, WriteAndClose(c, r)
    PROVE  \/ ~alive' /\ UNCHANGED <<conn, response>>
           \/ /\ alive' /\ conn'[c] = "closed" /\ response'[c] \in {r, "cut"}
              /\ \A d \in Clients \ {c} : conn'[d] = conn[d] /\ response'[d] = response[d]
  BY DEF WriteAndClose, Typed, TypeOK

\* A worker moves on with its connection.
LEMMA OwnershipMove ==
    ASSUME Typed, Ownership, NEW w \in Workers, NEW p \in {"route", "engine", "reply"},
           pc[w] \in Serving, Goto(w, p),
           p = "reply" => reply'[w] # "none",
           \A v \in Workers \ {w} : reply'[v] = reply[v],
           UNCHANGED <<client_queue, client, main_client, main, conn, response,
                       backlog, descriptor, shutting_down, handler>>
    PROVE  Ownership'
<1>1. pc'[w] = p /\ \A v \in Workers \ {w} : pc'[v] = pc[v]
  BY DEF Goto, Typed, TypeOK
<1>2. Holding'
  BY <1>1 DEF Ownership, Holding, Serving
<1>3. QED  BY <1>2 DEF Ownership, SingleOwner, NoneLost, Backlog, Number, Queued, Served

LEMMA OwnershipStep ==
    Typed /\ Typed' /\ Pool /\ Ownership /\ [Next]_vars => Ownership'
<1> USE ConstantsAssumption, MainNotWorker
<1> SUFFICES ASSUME Typed, Typed', Pool, Ownership, [Next]_vars PROVE Ownership'
  OBVIOUS
<1> USE DEF At, Own, Running, mutexVars, mainVars, workerVars, signalVars, clientVars, vars
<1>1. CASE MainStep
  <2>1. CASE Configure  BY <2>1 DEF Configure, Ownership, SingleOwner, NoneLost, Holding, Backlog, Number, Queued, Served, Serving, Typed, TypeOK, MainHolds, Pool, BeforePool
  <2>2. CASE OpenSocket  BY <2>2 DEF OpenSocket, Ownership, SingleOwner, NoneLost, Holding, Backlog, Number, Queued, Served, Serving, Typed, TypeOK, MainHolds, Pool, BeforePool
  <2>3. CASE BindListen  BY <2>3 DEF BindListen, Ownership, SingleOwner, NoneLost, Holding, Backlog, Number, Queued, Served, Serving, Typed, TypeOK, MainHolds, Pool, BeforePool
  <2>4. CASE Spawn  BY <2>4 DEF Spawn, Ownership, SingleOwner, NoneLost, Holding, Backlog, Number, Queued, Served, Serving, Typed, TypeOK, MainHolds, Pool, BeforePool
  <2>5. CASE LoopTest  BY <2>5 DEF LoopTest, Ownership, SingleOwner, NoneLost, Holding, Backlog, Number, Queued, Served, Serving, Typed, TypeOK, MainHolds, Pool, BeforePool
  <2>6. CASE AcceptCall  BY <2>6 DEF AcceptCall, Ownership, SingleOwner, NoneLost, Holding, Backlog, Number, Queued, Served, Serving, Typed, TypeOK, MainHolds, Pool, BeforePool
  <2>7. CASE AcceptReturn
    <3> DEFINE h == Head(backlog)
    <3>1. h \in Clients /\ h = backlog[1] /\ 1 \in DOMAIN backlog /\ backlog # <<>>
      BY <2>7, QueuePop DEF AcceptReturn, Typed, TypeOK
    <3>2. conn[h] = "pending" /\ main_client = None
      BY <2>7, <3>1 DEF AcceptReturn, Ownership, Backlog, Typed, MainHolds
    <3>3. main_client' = h /\ UNCHANGED <<client_queue, client, pc, reply, response, shutting_down, handler>>
      BY <2>7 DEF AcceptReturn
    <3>4. conn'[h] = "accepted" /\ \A c \in Clients \ {h} : conn'[c] = conn[c]
      BY <2>7, <3>1 DEF AcceptReturn, Typed, TypeOK
    <3>5. \A c \in Clients : (Queued(c)' <=> Queued(c)) /\ (Served(c)' <=> Served(c))
      BY <3>3 DEF Queued, Served
    <3> HIDE DEF h
    <3>6. SingleOwner'
      <4>1. ~Queued(h) /\ ~Served(h)
        BY <3>1, <3>2 DEF Ownership, SingleOwner
      <4>2. QED  BY <3>1, <3>2, <3>3, <3>4, <3>5, <4>1 DEF Ownership, SingleOwner
    <3>7. NoneLost'
      BY <3>2, <3>3, <3>4, <3>5 DEF Ownership, NoneLost
    <3>8. Holding'
      BY <3>1, <3>2, <3>3, <3>4 DEF Ownership, Holding, Typed, TypeOK
    <3>9. Backlog'
      <4>1. backlog' = Tail(backlog) /\ backlog \in Seq(Clients)
        BY <2>7 DEF AcceptReturn, Typed, TypeOK
      <4>2. \A i \in DOMAIN backlog' : /\ i + 1 \in DOMAIN backlog /\ i + 1 # 1
                                       /\ backlog'[i] = backlog[i + 1]
                                       /\ i \in Nat /\ backlog[i + 1] \in Clients
        BY <3>1, <4>1, QueuePop
      <4>3. \A i \in DOMAIN backlog' : backlog'[i] # h
        BY <3>1, <4>2 DEF Ownership, Backlog
      <4>4. \A i \in DOMAIN backlog' : conn'[backlog'[i]] = "pending"
        BY <3>4, <4>2, <4>3 DEF Ownership, Backlog
      <4>5. \A i, j \in DOMAIN backlog' : backlog'[i] = backlog'[j] => i = j
        BY <4>2 DEF Ownership, Backlog
      <4>6. QED  BY <4>4, <4>5 DEF Backlog
    <3>10. Number'
      BY <2>7, <3>3, <3>4, <3>1 DEF AcceptReturn, Ownership, Number
    <3>11. QED  BY <3>6, <3>7, <3>8, <3>9, <3>10 DEF Ownership
  <2>8. CASE Enqueue
    <3>1. /\ main_client \in Clients /\ client_queue \in Seq(Clients)
          /\ UNCHANGED <<conn, client, pc, reply, response, backlog, descriptor, shutting_down, handler>>
      BY <2>8 DEF Enqueue, EnqueueIf, Typed, TypeOK, MainHolds
    <3>2. CASE UNCHANGED <<client_queue, main_client>> /\ main' = "busy"
      BY <2>8, <3>1, <3>2 DEF Enqueue, EnqueueIf, Ownership, SingleOwner, NoneLost, Holding, Backlog, Number, Queued, Served
    <3>3. CASE /\ ~shutting_down /\ main' = "notify" /\ main_client' = None
               /\ client_queue' = Append(client_queue, main_client)
      <4>1. conn[main_client] = "accepted" /\ ~Queued(main_client) /\ ~Served(main_client)
        BY <3>1, <3>3, ConstantsAssumption DEF Ownership, Holding, SingleOwner
      <4>2. \A c \in Clients : /\ Queued(c)' <=> Queued(c) \/ c = main_client
                               /\ Served(c)' <=> Served(c)
        <5>1. DOMAIN client_queue' = DOMAIN client_queue \cup {Len(client_queue) + 1}
          BY <3>1, <3>3, QueuePush
        <5>2. QED  BY <3>1, <3>3, <5>1, QueuePush DEF Queued, Served
      <4>3. \A i, j \in DOMAIN client_queue' : client_queue'[i] = client_queue'[j] => i = j
        <5>1. \A i \in DOMAIN client_queue' :
                 \/ i \in DOMAIN client_queue /\ client_queue'[i] = client_queue[i]
                 \/ i = Len(client_queue) + 1 /\ client_queue'[i] = main_client
          BY <3>1, <3>3, QueuePush
        <5>2. QED  BY <4>1, <5>1 DEF Ownership, SingleOwner, Queued
      <4>4. SingleOwner'
        BY <3>1, <3>3, <4>1, <4>2, <4>3, ConstantsAssumption DEF Ownership, SingleOwner
      <4>5. NoneLost'
        BY <3>1, <4>2 DEF Ownership, NoneLost
      <4>6. Holding' /\ Backlog' /\ Number'
        BY <2>8, <3>1, <3>3 DEF Enqueue, EnqueueIf, Ownership, Holding, Backlog, Number
      <4>7. QED  BY <4>4, <4>5, <4>6 DEF Ownership
    <3>4. QED  BY <2>8, <3>2, <3>3 DEF Enqueue, EnqueueIf
  <2>9. CASE NotifyOne  BY <2>9 DEF NotifyOne, NotifySome, Goto, Ownership, SingleOwner, NoneLost, Holding, Backlog, Number, Queued, Served, Serving, Typed, TypeOK, MainHolds, Pool, BeforePool
  <2>10. CASE RejectBusy
    <3>1. /\ main_client \in Clients /\ alive
          /\ UNCHANGED <<client_queue, client, pc, reply, backlog, shutting_down, handler>>
      BY <2>10 DEF RejectBusy, Typed, TypeOK, MainHolds
    <3>2. \A c \in Clients : (Queued(c)' <=> Queued(c)) /\ (Served(c)' <=> Served(c))
      BY <3>1 DEF Queued, Served
    <3>3. ~Queued(main_client) /\ ~Served(main_client) /\ main_client # None
      BY <3>1, ConstantsAssumption DEF Ownership, SingleOwner
    <3>4. CASE ~alive'
      <4>1. conn[main_client] # "closed"
        BY <2>10, <3>1, <3>4 DEF RejectBusy
      <4>2. UNCHANGED <<conn, response>>
        BY <2>10, <3>1, <3>4, <4>1, WriteEffect DEF RejectBusy
      <4>3. QED  BY <2>10, <3>1, <3>4, <4>1, <4>2, OwnershipKept DEF RejectBusy
    <3>5. CASE alive' /\ conn[main_client] = "closed"
      <4>1. main_client' = None /\ main' = "loop" /\ CloseNumber /\ UNCHANGED response
        BY <2>10, <3>5 DEF RejectBusy
      <4>2. conn' = conn /\ descriptor' = "free" /\ shutting_down
        BY <3>1, <3>3, <3>5, <4>1, CloseNumberEffect DEF Ownership, Holding
      <4>3. SingleOwner' /\ NoneLost'
        BY <3>1, <3>2, <3>5, <4>1, <4>2, ConstantsAssumption DEF Ownership, SingleOwner, NoneLost
      <4>4. Holding' /\ Backlog' /\ Number'
        BY <3>1, <4>1, <4>2 DEF Ownership, Holding, Backlog, Number
      <4>5. QED  BY <4>3, <4>4 DEF Ownership
    <3>6. CASE alive' /\ conn[main_client] # "closed"
      <4>1. main_client' = None /\ main' = "loop" /\ descriptor' # "client"
        BY <2>10, <3>6 DEF RejectBusy
      <4>2. /\ conn'[main_client] = "closed"
            /\ \A d \in Clients \ {main_client} : conn'[d] = conn[d] /\ response'[d] = response[d]
        BY <2>10, <3>1, <3>6, WriteEffect DEF RejectBusy
      <4>3. conn[main_client] = "accepted"
        BY <3>3, <3>6 DEF Ownership, Holding
      <4>4. SingleOwner' /\ NoneLost'
        BY <3>1, <3>2, <3>3, <4>1, <4>2, ConstantsAssumption DEF Ownership, SingleOwner, NoneLost
      <4>5. Holding'
        BY <3>1, <4>1, <4>2 DEF Ownership, Holding
      <4>6. Backlog'
        <5>1. \A i \in DOMAIN backlog : backlog[i] # main_client /\ backlog[i] \in Clients
          BY <4>3 DEF Ownership, Backlog, Typed, TypeOK
        <5>2. QED  BY <3>1, <4>2, <5>1 DEF Ownership, Backlog
      <4>7. Number'
        BY <2>10, <3>1, <3>6, <4>1 DEF RejectBusy, Ownership, Number
      <4>8. QED  BY <4>4, <4>5, <4>6, <4>7 DEF Ownership
    <3>7. QED  BY <3>4, <3>5, <3>6
  <2>11. CASE Stop  BY <2>11 DEF Stop, WakeAll, Ownership, SingleOwner, NoneLost, Holding, Backlog, Number, Queued, Served, Serving, Typed, TypeOK, MainHolds, Pool, BeforePool
  <2>12. CASE Join  BY <2>12 DEF Join, JoinIf, Ownership, SingleOwner, NoneLost, Holding, Backlog, Number, Queued, Served, Serving, Typed, TypeOK, MainHolds, Pool, BeforePool
  <2>13. QED
    BY <1>1, <2>1, <2>2, <2>3, <2>4, <2>5, <2>6, <2>7, <2>8, <2>9, <2>10, <2>11, <2>12 DEF MainStep
<1>2. CASE AcceptError  BY <1>2 DEF AcceptError, Ownership, SingleOwner, NoneLost, Holding, Backlog, Number, Queued, Served, Serving, Typed, TypeOK, MainHolds, Pool, BeforePool
<1>3. ASSUME NEW w \in Workers, WorkerStep(w) \/ SpuriousWake(w) PROVE Ownership'
  <2>1. CASE WorkerSleep(w)  BY <2>1 DEF WorkerSleep, SleepIf, Goto, Ownership, SingleOwner, NoneLost, Holding, Backlog, Number, Queued, Served, Serving, Typed, TypeOK, MainHolds, Pool, BeforePool
  <2>2. CASE Block(w)  BY <2>2 DEF Block, Goto, Ownership, SingleOwner, NoneLost, Holding, Backlog, Number, Queued, Served, Serving, Typed, TypeOK, MainHolds, Pool, BeforePool
  <2>3. CASE WorkerTake(w)
    <3> DEFINE h == Head(client_queue)
    <3>1. /\ client_queue \in Seq(Clients) /\ client_queue # <<>>
          /\ client_queue' = Tail(client_queue) /\ client[w] = None
          /\ UNCHANGED <<main_client, main, conn, reply, response, backlog, descriptor, shutting_down, handler>>
      BY <2>3 DEF WorkerTake, TakeLeaving, Typed, TypeOK, Ownership, Holding, Serving
    <3>2. h \in Clients /\ h = client_queue[1] /\ 1 \in DOMAIN client_queue
      BY <3>1, QueuePop
    <3>3. client'[w] = h /\ \A v \in Workers \ {w} : client'[v] = client[v]
      BY <2>3 DEF WorkerTake, TakeLeaving, Typed, TypeOK
    <3> HIDE DEF h
    <3>4. Queued(h) /\ ~Served(h) /\ main_client # h /\ conn[h] = "accepted"
      BY <3>2 DEF Ownership, SingleOwner, Queued
    <3>5. \A i \in DOMAIN client_queue' : /\ i + 1 \in DOMAIN client_queue /\ i \in Nat
                                          /\ client_queue'[i] = client_queue[i + 1]
                                          /\ client_queue'[i] # h
      <4>1. \A i \in DOMAIN client_queue' : /\ i + 1 \in DOMAIN client_queue /\ i \in Nat
                                            /\ client_queue'[i] = client_queue[i + 1] /\ i + 1 # 1
        BY <3>1, QueuePop
      <4>2. QED  BY <3>2, <4>1 DEF Ownership, SingleOwner
    <3>6. \A c \in Clients : Queued(c) <=> c = h \/ Queued(c)'
      <4>1. \A i \in DOMAIN client_queue : i = 1 \/ (i - 1 \in DOMAIN client_queue' /\ (i - 1) + 1 = i)
        BY <3>1, QueuePop
      <4>2. QED  BY <3>2, <3>5, <4>1 DEF Queued
    <3>7. \A c \in Clients : Served(c)' <=> Served(c) \/ c = h
      BY <3>1, <3>2, <3>3, ConstantsAssumption DEF Served
    <3>8. \A c \in Clients : Queued(c)' => c # h
      BY <3>5 DEF Queued
    <3>9. SingleOwner'
      <4>1. \A i, j \in DOMAIN client_queue' : client_queue'[i] = client_queue'[j] => i = j
        BY <3>5 DEF Ownership, SingleOwner
      <4>2. \A v, u \in Workers : client'[v] = client'[u] /\ client'[v] # None => v = u
        BY <3>3, <3>4 DEF Ownership, SingleOwner, Served
      <4>3. QED  BY <3>1, <3>4, <3>6, <3>7, <3>8, <4>1, <4>2 DEF Ownership, SingleOwner
    <3>10. NoneLost'
      BY <3>1, <3>6, <3>7 DEF Ownership, NoneLost
    <3>11. Holding'
      BY <2>3, <3>1, <3>2, <3>3, ConstantsAssumption DEF WorkerTake, TakeLeaving, Goto, Ownership, Holding, Serving, Typed, TypeOK
    <3>12. Backlog' /\ Number'
      BY <3>1 DEF Ownership, Backlog, Number
    <3>13. QED  BY <3>9, <3>10, <3>11, <3>12 DEF Ownership
  <2>4. CASE WorkerReturn(w)  BY <2>4 DEF WorkerReturn, ReturnIf, Goto, Ownership, SingleOwner, NoneLost, Holding, Backlog, Number, Queued, Served, Serving, Typed, TypeOK, MainHolds, Pool, BeforePool
  <2>5. CASE ReadRequest(w)
    <3>1. CASE Goto(w, "route") /\ UNCHANGED reply
      BY <2>5, <3>1, OwnershipMove DEF ReadRequest, Serving
    <3>2. CASE Goto(w, "reply") /\ reply' = [reply EXCEPT ![w] = "error"]
      <4>1. reply'[w] = "error" /\ \A v \in Workers \ {w} : reply'[v] = reply[v]
        BY <3>2 DEF Typed, TypeOK
      <4>2. QED  BY <2>5, <3>2, <4>1, OwnershipMove DEF ReadRequest, Serving
    <3>3. QED  BY <2>5, <3>1, <3>2 DEF ReadRequest
  <2>6. CASE RouteBlank(w) \/ RouteUnread(w)
    <3>1. reply'[w] # "none" /\ \A v \in Workers \ {w} : reply'[v] = reply[v]
      BY <2>6 DEF RouteBlank, RouteUnread, Typed, TypeOK
    <3>2. QED  BY <2>6, <3>1, OwnershipMove DEF RouteBlank, RouteUnread, Serving
  <2>7. CASE RouteLock(w)
    <3>1. /\ pc[w] = "route"
          /\ UNCHANGED <<client_queue, client, main_client, main, conn, reply, response, backlog, shutting_down, handler>>
      BY <2>7 DEF RouteLock
    <3>2. PICK p \in {"slotfile", "file", "engine"} :
             /\ Goto(w, p)
             /\ IF p = "slotfile" THEN descriptor = "free" /\ descriptor' = "file"
                                  ELSE descriptor' = descriptor
      BY <2>7 DEF RouteLock
    <3>3. pc'[w] = p /\ \A v \in Workers \ {w} : pc'[v] = pc[v]
      BY <3>2 DEF Goto, Typed, TypeOK
    <3>4. p = "slotfile" => shutting_down
      <4>1. main # "failed"
        BY <3>1 DEF Typed, TypeOK, Pool, BeforePool
      <4>2. QED  BY <3>2, <4>1 DEF Ownership, Number
    <3>5. SingleOwner' /\ NoneLost' /\ Backlog'
      BY <3>1 DEF Ownership, SingleOwner, NoneLost, Backlog, Queued, Served
    <3>6. Holding'
      BY <3>1, <3>3, <3>4 DEF Ownership, Holding, Serving
    <3>7. Number'
      BY <3>1, <3>2, <3>4 DEF Ownership, Number
    <3>8. QED  BY <3>5, <3>6, <3>7 DEF Ownership
  <2>8. CASE FileRead(w)
    <3>1. PICK p \in {"engine", "reply"} :
             /\ Goto(w, p)
             /\ p = "reply" => reply'[w] # "none"
             /\ \A v \in Workers \ {w} : reply'[v] = reply[v]
      BY <2>8 DEF FileRead, Leave, Typed, TypeOK
    <3>2. QED  BY <2>8, <3>1, OwnershipMove DEF FileRead, Serving
  <2>9. CASE SlotFileRead(w)
    <3>1. /\ pc[w] = "slotfile" /\ CloseNumber
          /\ UNCHANGED <<client_queue, client, main_client, main, response, backlog, shutting_down, handler>>
      BY <2>9 DEF SlotFileRead
    <3>2. SingleOwner' /\ NoneLost'
      BY <3>1, CloseNumberEffect DEF Ownership, SingleOwner, NoneLost, Queued, Served
    <3>3. Holding'
      BY <2>9 DEF SlotFileRead, Leave, CloseNumber, Goto, Ownership, Holding, Number, Serving, Typed, TypeOK
    <3>4. Backlog'
      BY <3>1, CloseNumberEffect DEF Ownership, Backlog, Typed, TypeOK
    <3>5. Number'
      BY <3>1, CloseNumberEffect DEF Ownership, Number, Holding
    <3>6. QED  BY <3>2, <3>3, <3>4, <3>5 DEF Ownership
  <2>10. CASE Engine(w)
    <3>1. PICK r \in Replies : Leave(w, r)
      BY <2>10, AnswersKnown DEF Engine
    <3>2. reply'[w] # "none" /\ \A v \in Workers \ {w} : reply'[v] = reply[v]
      BY <3>1 DEF Leave, Replies, Typed, TypeOK
    <3>3. QED  BY <2>10, <3>1, <3>2, OwnershipMove DEF Engine, Leave, Serving
  <2>11. CASE Reply(w)
    <3> DEFINE c == client[w]
    <3>1. /\ c \in Clients /\ alive /\ pc[w] = "reply"
          /\ UNCHANGED <<client_queue, main_client, main, backlog, descriptor, shutting_down, handler>>
      BY <2>11 DEF Reply, Ownership, Holding, Serving, Typed, TypeOK
    <3>2. WriteAndClose(c, reply[w])
      BY <2>11 DEF Reply
    <3>3. Served(c)
      BY DEF Served
    <3>4. \A v \in Workers \ {w} : client[v] # c
      BY <3>1, ConstantsAssumption DEF Ownership, SingleOwner
    <3> HIDE DEF c
    <3>5. CASE ~alive'
      BY <2>11, <3>1, <3>2, <3>5, WriteEffect, OwnershipKept DEF Reply
    <3>6. CASE alive'
      <4>1. /\ conn'[c] = "closed"
            /\ \A d \in Clients \ {c} : conn'[d] = conn[d] /\ response'[d] = response[d]
        BY <3>1, <3>2, <3>6, WriteEffect
      <4>2. /\ client'[w] = None /\ pc'[w] = "top"
            /\ \A v \in Workers \ {w} : client'[v] = client[v] /\ pc'[v] = pc[v] /\ reply'[v] = reply[v]
        BY <2>11, <3>6 DEF Reply, Goto, Typed, TypeOK
      <4>3. \A d \in Clients : /\ Queued(d)' <=> Queued(d)
                               /\ Served(d)' <=> Served(d) /\ d # c
        BY <3>1, <3>4, <4>2, ConstantsAssumption DEF Queued, Served, c
      <4>4. ~Queued(c) /\ main_client # c /\ conn[c] = "accepted"
        BY <3>1, <3>3 DEF Ownership, SingleOwner
      <4>5. SingleOwner'
        BY <3>1, <4>1, <4>2, <4>3, <4>4 DEF Ownership, SingleOwner
      <4>6. NoneLost'
        BY <3>1, <4>1, <4>3 DEF Ownership, NoneLost
      <4>7. Holding'
        <5>1. main_client # None =>
                 conn'[main_client] = conn[main_client] /\ response'[main_client] = response[main_client]
          BY <4>1, <4>4 DEF Typed, TypeOK
        <5>2. QED  BY <3>1, <4>1, <4>2, <5>1 DEF Ownership, Holding, Serving
      <4>8. Backlog'
        <5>1. \A i \in DOMAIN backlog : backlog[i] # c /\ backlog[i] \in Clients
          BY <4>4 DEF Ownership, Backlog, Typed, TypeOK
        <5>2. QED  BY <3>1, <4>1, <5>1 DEF Ownership, Backlog
      <4>9. Number'
        BY <3>1, <4>1, <4>4 DEF Ownership, Number, Typed, TypeOK
      <4>10. QED  BY <4>5, <4>6, <4>7, <4>8, <4>9 DEF Ownership
    <3>7. QED  BY <3>5, <3>6
  <2>12. CASE SpuriousWake(w)
    <3>1. SingleOwner'
      BY <2>12 DEF SpuriousWake, Goto, Ownership, SingleOwner, Queued, Served, Holding, Backlog, Typed, TypeOK, MainHolds
    <3>2. NoneLost'
      BY <2>12 DEF SpuriousWake, Goto, Ownership, NoneLost, Queued, Served, Typed, TypeOK, MainHolds
    <3>3. Holding'
      BY <2>12 DEF SpuriousWake, Goto, Ownership, Holding, SingleOwner, Queued, Served, Number, Serving, Typed, TypeOK, MainHolds, Pool
    <3>4. Backlog'
      BY <2>12 DEF SpuriousWake, Goto, Ownership, Backlog, Holding, SingleOwner, Served, Number, Typed, TypeOK, MainHolds
    <3>5. Number'
      BY <2>12 DEF SpuriousWake, Goto, Ownership, Number, Holding, SingleOwner, Queued, Served, Typed, TypeOK, MainHolds
    <3>6. QED  BY <3>1, <3>2, <3>3, <3>4, <3>5 DEF Ownership
  <2>13. QED
    BY <1>3, <2>1, <2>2, <2>3, <2>4, <2>5, <2>6, <2>7, <2>8, <2>9, <2>10, <2>11, <2>12 DEF WorkerStep
<1>4. ASSUME NEW t \in Threads, Deliver(t) \/ HandlerStep(t) PROVE Ownership'
  <2>1. CASE Deliver(t)  BY <2>1 DEF Deliver, Ownership, SingleOwner, NoneLost, Holding, Backlog, Number, Queued, Served, Serving, Typed, TypeOK, MainHolds, Pool, BeforePool
  <2>2. CASE HandlerStore(t)  BY <2>2 DEF HandlerStore, Ownership, SingleOwner, NoneLost, Holding, Backlog, Number, Queued, Served, Serving, Typed, TypeOK, MainHolds, Pool, BeforePool
  <2>3. CASE HandlerClose(t)
    <3>1. SingleOwner'
      BY <2>3 DEF HandlerClose, CloseNumber, Ownership, SingleOwner, Queued, Served, Holding, Backlog, Typed, TypeOK, MainHolds
    <3>2. NoneLost'
      BY <2>3 DEF HandlerClose, CloseNumber, Ownership, NoneLost, Queued, Served, Typed, TypeOK, MainHolds
    <3>3. Holding'
      BY <2>3 DEF HandlerClose, CloseNumber, Ownership, Holding, SingleOwner, Queued, Served, Number, Serving, Typed, TypeOK, MainHolds, Pool
    <3>4. Backlog'
      BY <2>3 DEF HandlerClose, CloseNumber, Ownership, Backlog, Holding, SingleOwner, Served, Number, Typed, TypeOK, MainHolds
    <3>5. Number'
      BY <2>3 DEF HandlerClose, CloseNumber, Ownership, Number, Holding, Typed, TypeOK, MainHolds
    <3>6. QED  BY <3>1, <3>2, <3>3, <3>4, <3>5 DEF Ownership
  <2>4. CASE HandlerNotify(t)  BY <2>4 DEF HandlerNotify, WakeAll, Ownership, SingleOwner, NoneLost, Holding, Backlog, Number, Queued, Served, Serving, Typed, TypeOK, MainHolds, Pool, BeforePool
  <2>5. QED  BY <1>4, <2>1, <2>2, <2>3, <2>4 DEF HandlerStep
<1>5. ASSUME NEW c \in Clients, ClientStep(c) PROVE Ownership'
  <2>1. CASE Connect(c)
    <3>1. SingleOwner'
      BY <2>1 DEF Connect, Ownership, SingleOwner, Queued, Served, Holding, Backlog, Typed, TypeOK, MainHolds
    <3>2. NoneLost'
      BY <2>1 DEF Connect, Ownership, NoneLost, Queued, Served, Typed, TypeOK, MainHolds
    <3>3. Holding'
      BY <2>1 DEF Connect, Ownership, Holding, SingleOwner, Queued, Served, Number, Serving, Typed, TypeOK, MainHolds, Pool
    <3>4. Backlog'
      BY <2>1 DEF Connect, Ownership, Backlog, Holding, SingleOwner, Served, Number, Typed, TypeOK, MainHolds
    <3>5. Number'
      BY <2>1 DEF Connect, Ownership, Number, Holding, SingleOwner, Queued, Served, Typed, TypeOK, MainHolds
    <3>6. QED  BY <3>1, <3>2, <3>3, <3>4, <3>5 DEF Ownership
  <2>2. CASE Vanish(c)
    <3>1. SingleOwner'
      BY <2>2 DEF Vanish, Ownership, SingleOwner, Queued, Served, Holding, Backlog, Typed, TypeOK, MainHolds
    <3>2. NoneLost'
      BY <2>2 DEF Vanish, Ownership, NoneLost, Queued, Served, Typed, TypeOK, MainHolds
    <3>3. Holding'
      BY <2>2 DEF Vanish, Ownership, Holding, SingleOwner, Queued, Served, Number, Serving, Typed, TypeOK, MainHolds, Pool
    <3>4. Backlog'
      BY <2>2 DEF Vanish, Ownership, Backlog, Holding, SingleOwner, Served, Number, Typed, TypeOK, MainHolds
    <3>5. Number'
      BY <2>2 DEF Vanish, Ownership, Number, Holding, SingleOwner, Queued, Served, Typed, TypeOK, MainHolds
    <3>6. QED  BY <3>1, <3>2, <3>3, <3>4, <3>5 DEF Ownership
  <2>3. ASSUME NEW k \in RequestKinds, Send(c, k) PROVE Ownership'
    BY <2>3 DEF Send, Ownership, SingleOwner, NoneLost, Holding, Backlog, Number, Queued, Served, Serving, Typed, TypeOK, MainHolds, Pool, BeforePool
  <2>4. QED  BY <1>5, <2>1, <2>2, <2>3 DEF ClientStep
<1>6. CASE UNCHANGED vars  BY <1>6 DEF Ownership, SingleOwner, NoneLost, Holding, Backlog, Number, Queued, Served, Serving, Typed, TypeOK, MainHolds, Pool, BeforePool
<1>7. QED  BY <1>1, <1>2, <1>3, <1>4, <1>5, <1>6 DEF Next

LEMMA OwnershipInvariant == Spec => []Ownership
<1>1. Init => Ownership
  BY ConstantsAssumption
     DEF Init, Ownership, SingleOwner, NoneLost, Holding, Backlog, Number, Queued, Served, Serving
<1>2. QED  BY <1>1, OwnershipStep, TypedInvariant, PoolInvariant, PTL DEF Spec

\* No connection has two owners, and what the queue and the workers own is
\* open, however many signals close the number in server_fd.
THEOREM SingleOwnerHolds == Spec => []SingleOwner
<1>1. Ownership => SingleOwner
  BY DEF Ownership
<1>2. QED  BY <1>1, OwnershipInvariant, PTL

\* No accepted connection is lost.
THEOREM NoneLostHolds == Spec => []NoneLost
<1>1. Ownership => NoneLost
  BY DEF Ownership
<1>2. QED  BY <1>1, OwnershipInvariant, PTL

\* main returns only after every accepted connection has been closed.
THEOREM CleanExitHolds == Spec => []CleanExit
<1>1. Typed /\ Pool /\ Ownership => CleanExit
  <2> SUFFICES ASSUME Typed, Pool, Ownership, main = "exit", NEW c \in Clients
               PROVE  conn[c] # "accepted"
    BY DEF CleanExit
  <2>1. \A w \in Workers : pc[w] = "exited"
    BY DEF Pool
  <2>2. client_queue = <<>>
    BY <2>1, ConstantsAssumption DEF Pool, NoStrandedClient, Workers
  <2>3. ~Queued(c)
    BY <2>2 DEF Queued
  <2>4. ~Served(c)
    BY <2>1, ConstantsAssumption DEF Ownership, Holding, Serving, Served
  <2>5. main_client # c
    BY ConstantsAssumption DEF Typed, MainHolds
  <2>6. QED  BY <2>3, <2>4, <2>5 DEF Ownership, NoneLost
<1>2. QED  BY <1>1, TypedInvariant, PoolInvariant, OwnershipInvariant, PTL
-----------------------------------------------------------------------------
(***************************************************************************)
(* The descriptors in use.                                                 *)
(***************************************************************************)
\* A function names no more elements than it has arguments.
LEMMA RangeBound ==
    ASSUME NEW n \in Nat, NEW T, NEW f \in [1..n -> T]
    PROVE  LET R == {f[i] : i \in 1..n}
           IN  IsFiniteSet(R) /\ Cardinality(R) \in Nat /\ Cardinality(R) <= n
<1> DEFINE R == {f[i] : i \in 1..n}
<1>1. IsFiniteSet(1..n) /\ Cardinality(1..n) = n
  BY FS_Interval
<1>2. f \in Surjection(1..n, R)
  BY DEF Surjection
<1> HIDE DEF R
<1>3. IsFiniteSet(R) /\ Cardinality(R) <= n
  BY <1>1, <1>2, FS_Surjection
<1>4. QED  BY <1>3, FS_CardinalityType DEF R

\* A union has no more elements than its parts together.
LEMMA UnionBound ==
    ASSUME NEW A, IsFiniteSet(A), NEW B, IsFiniteSet(B)
    PROVE  /\ IsFiniteSet(A \cup B) /\ Cardinality(A \cup B) \in Nat
           /\ Cardinality(A \cup B) <= Cardinality(A) + Cardinality(B)
<1>1. IsFiniteSet(A \cap B)
  BY FS_Subset
<1>2. /\ Cardinality(A) \in Nat /\ Cardinality(B) \in Nat
      /\ Cardinality(A \cap B) \in Nat
  BY <1>1, FS_CardinalityType
<1>3. IsFiniteSet(A \cup B)
      /\ Cardinality(A \cup B) = Cardinality(A) + Cardinality(B) - Cardinality(A \cap B)
  BY FS_Union
<1>4. QED  BY <1>2, <1>3, FS_CardinalityType

QueueBounded == Len(client_queue) <= kMaxWorkers

\* Only the accept loop makes the queue longer, and it looks at its length.
LEMMA QueueBoundedStep == Typed /\ QueueBounded /\ [Next]_vars => QueueBounded'
<1> SUFFICES ASSUME Typed, QueueBounded, [Next]_vars PROVE QueueBounded'
  OBVIOUS
<1>0. client_queue \in Seq(Clients) /\ kMaxWorkers \in Nat
  BY ConstantsAssumption DEF Typed, TypeOK
<1>1. CASE Enqueue
  BY <1>0, <1>1 DEF Enqueue, EnqueueIf, QueueBounded
<1>2. CASE \E w \in Workers : WorkerTake(w)
  <2>1. client_queue # <<>> /\ client_queue' = Tail(client_queue)
    BY <1>2 DEF WorkerTake, TakeLeaving
  <2>2. QED  BY <1>0, <2>1, HeadTail DEF QueueBounded
<1>3. CASE UNCHANGED client_queue
  BY <1>3 DEF QueueBounded
<1>4. QED
  BY <1>1, <1>2, <1>3
     DEF Next, MainStep, WorkerStep, HandlerStep, ClientStep, vars, mainVars, mutexVars,
         workerVars, signalVars, clientVars, Configure, OpenSocket, BindListen, Spawn,
         LoopTest, AcceptCall, AcceptReturn, AcceptError, NotifyOne, NotifySome,
         RejectBusy, Stop, Join, JoinIf, SpuriousWake, WorkerSleep, SleepIf, Block,
         WorkerReturn, ReturnIf, ReadRequest, RouteBlank, RouteUnread, RouteLock, FileRead,
         SlotFileRead, Engine, Reply, Deliver, HandlerStore, HandlerClose,
         HandlerNotify, Connect, Send, Vanish

\* For every size of the pool, its queue, its workers and the accept loop bound
\* the connections that are open at once.
THEOREM BoundedConnectionsHolds == Spec => []BoundedConnections
<1>1. Init => QueueBounded
  BY ConstantsAssumption DEF Init, QueueBounded
<1>2. Typed /\ QueueBounded /\ NoneLost => BoundedConnections
  <2> SUFFICES ASSUME Typed, QueueBounded, NoneLost
               PROVE  Cardinality({c \in Clients : conn[c] = "accepted"})
                        <= 2 * kMaxWorkers + 1
    BY DEF BoundedConnections, QueueBounded
  <2> DEFINE accepted == {c \in Clients : conn[c] = "accepted"}
             n == Len(client_queue)
             Q == {client_queue[i] : i \in 1..n}
             S == {client[w] : w \in 1..kMaxWorkers}
             M == {main_client}
  <2>1. n \in Nat /\ kMaxWorkers \in Nat /\ n <= kMaxWorkers
    BY ConstantsAssumption DEF Typed, TypeOK, QueueBounded
  <2>2. client_queue \in [1..n -> Clients] /\ DOMAIN client_queue = 1..n
    BY DEF Typed, TypeOK
  <2>3. client \in [1..kMaxWorkers -> Clients \cup {None}]
    BY DEF Typed, TypeOK, Workers
  <2>4. IsFiniteSet(Q) /\ Cardinality(Q) \in Nat /\ Cardinality(Q) <= n
    BY <2>1, <2>2, RangeBound
  <2>5. IsFiniteSet(S) /\ Cardinality(S) \in Nat /\ Cardinality(S) <= kMaxWorkers
    BY <2>1, <2>3, RangeBound
  <2>6. IsFiniteSet(M) /\ Cardinality(M) = 1
    BY FS_Singleton
  <2>7. accepted \subseteq (Q \cup S) \cup M
    BY <2>2 DEF NoneLost, Queued, Served, Workers
  <2> HIDE DEF Q, S, M, accepted, n
  <2>8. IsFiniteSet(Q \cup S) /\ Cardinality(Q \cup S) <= Cardinality(Q) + Cardinality(S)
        /\ Cardinality(Q \cup S) \in Nat
    BY <2>4, <2>5, UnionBound
  <2>9. IsFiniteSet((Q \cup S) \cup M)
        /\ Cardinality((Q \cup S) \cup M) <= Cardinality(Q \cup S) + 1
        /\ Cardinality((Q \cup S) \cup M) \in Nat
    BY <2>6, <2>8, UnionBound
  <2>10. Cardinality(accepted) <= Cardinality((Q \cup S) \cup M)
         /\ Cardinality(accepted) \in Nat
    BY <2>7, <2>9, FS_Subset, FS_CardinalityType
  <2>11. QED  BY <2>1, <2>4, <2>5, <2>8, <2>9, <2>10 DEF accepted
<1>3. QED  BY <1>1, <1>2, QueueBoundedStep, TypedInvariant, NoneLostHolds, PTL DEF Spec
-----------------------------------------------------------------------------
(***************************************************************************)
(* What one signal can do.  Its handler closes the listening socket, which *)
(* then still has its number; only a second one could close the number of  *)
(* a file or of a connection.                                              *)
(***************************************************************************)
Handlers ==
    /\ signals = 0 => \A t \in Threads : handler[t] = "idle"
    /\ \A t, u \in Threads : handler[t] # "idle" /\ handler[u] # "idle" => t = u
    /\ signals = 0 \/ (\E t \in Threads : handler[t] \in {"store", "close"}) =>
          descriptor \in {"none", "listener"} \/ main = "failed"

NumberKept ==
    /\ \A w \in Workers :
          /\ pc[w] = "slotfile" => descriptor = "file"
          /\ pc[w] \in {"file", "slotfile", "engine"} => engine_mutex = w
    /\ main_client # None => conn[main_client] = "accepted"

OneSignal == signals <= 1 => Handlers /\ NumberKept

LEMMA OneSignalStep ==
    Typed /\ Typed' /\ Pool /\ Ownership /\ OneSignal /\ [Next]_vars => OneSignal'
<1> USE ConstantsAssumption, MainNotWorker
<1> SUFFICES ASSUME Typed, Typed', Pool, Ownership, OneSignal, [Next]_vars, signals' <= 1
             PROVE  (Handlers /\ NumberKept)'
  BY DEF OneSignal
<1>0. signals <= 1 /\ signals \in Nat /\ (signals' = signals \/ signals' = signals + 1)
  <2>1. signals \in Nat /\ signals' \in Nat
    BY DEF Typed, TypeOK
  <2>2. signals' = signals \/ signals' = signals + 1
    BY DEF Next, MainStep, WorkerStep, HandlerStep, ClientStep, vars, mainVars, mutexVars,
           workerVars, signalVars, clientVars, Configure, OpenSocket, BindListen, Spawn,
           LoopTest, AcceptCall, AcceptReturn, AcceptError, Enqueue, EnqueueIf, NotifyOne,
           NotifySome, RejectBusy, Stop, Join, JoinIf, SpuriousWake, WorkerSleep, SleepIf,
           Block, WorkerTake, TakeLeaving, WorkerReturn, ReturnIf, ReadRequest, RouteBlank,
           RouteUnread, RouteLock, FileRead, SlotFileRead, Engine, Reply, Deliver, HandlerStore,
           HandlerClose, HandlerNotify, Connect, Send, Vanish
  <2>3. QED  BY <2>1, <2>2
<1>00. Handlers /\ NumberKept
  BY <1>0 DEF OneSignal
<1> USE DEF mutexVars, mainVars, workerVars, signalVars, clientVars, vars, Own, Running
<1>1. CASE MainStep
  <2>1. CASE Configure \/ OpenSocket \/ BindListen \/ Spawn
    BY <1>00, <2>1 DEF Configure, OpenSocket, BindListen, Spawn, Handlers, NumberKept, Typed, TypeOK, MainHolds, Pool, BeforePool
  <2>2. CASE LoopTest \/ AcceptCall \/ Join
    BY <1>00, <2>2 DEF LoopTest, AcceptCall, Join, JoinIf, Handlers, NumberKept
  <2>3. CASE AcceptReturn
    BY <1>00, <2>3 DEF AcceptReturn, Handlers, NumberKept, Typed, TypeOK
  <2>4. CASE Enqueue
    BY <1>00, <2>4 DEF Enqueue, EnqueueIf, Handlers, NumberKept
  <2>5. CASE NotifyOne
    BY <1>00, <2>5 DEF NotifyOne, NotifySome, Goto, Handlers, NumberKept,
       Typed, TypeOK
  <2>6. CASE RejectBusy
    <3>1. /\ main_client \in Clients /\ conn[main_client] = "accepted"
          /\ WriteAndClose(main_client, "busy")
          /\ descriptor' = IF descriptor = "client" /\ alive' THEN "free" ELSE descriptor
          /\ IF alive' THEN main' = "loop" /\ main_client' = None ELSE UNCHANGED mainVars
          /\ UNCHANGED <<pc, reply, client, engine_mutex, handler, signals, request, gone>>
          /\ main = "busy" /\ alive
      BY <1>00, <2>6 DEF RejectBusy, NumberKept, Typed, TypeOK, MainHolds
    <3>2. Handlers'
      BY <1>00, <3>1 DEF Handlers
    <3>3. NumberKept'
      <4>1. CASE main_client \in gone
        BY <1>00, <3>1, <4>1 DEF NumberKept, WriteAndClose
      <4>2. CASE main_client \notin gone
        <5>1. main_client' = None
          BY <3>1, <4>2 DEF WriteAndClose
        <5>2. QED  BY <1>00, <3>1, <5>1 DEF NumberKept
      <4>3. QED  BY <4>1, <4>2
    <3>4. QED  BY <3>2, <3>3
  <2>7. CASE Stop
    BY <1>00, <2>7 DEF Stop, WakeAll, Handlers, NumberKept, Typed, TypeOK
  <2>8. QED  BY <1>1, <2>1, <2>2, <2>3, <2>4, <2>5, <2>6, <2>7 DEF MainStep
<1>2. CASE AcceptError
  BY <1>00, <1>2 DEF AcceptError, Handlers, NumberKept
<1>3. ASSUME NEW w \in Workers, WorkerStep(w) \/ SpuriousWake(w)
      PROVE  (Handlers /\ NumberKept)'
  <2> USE DEF At, Goto
  <2>1. CASE WorkerSleep(w) \/ Block(w) \/ WorkerReturn(w) \/ SpuriousWake(w)
    BY <1>00, <2>1 DEF WorkerSleep, SleepIf, Block, WorkerReturn, ReturnIf, SpuriousWake,
       Handlers, NumberKept, Typed, TypeOK
  <2>2. CASE WorkerTake(w)
    BY <1>00, <2>2 DEF WorkerTake, TakeLeaving, Handlers, NumberKept, Typed, TypeOK
  <2>3. CASE ReadRequest(w)
    BY <1>00, <2>3 DEF ReadRequest, Handlers, NumberKept, Typed, TypeOK
  <2>4. CASE RouteBlank(w) \/ RouteUnread(w)
    BY <1>00, <2>4 DEF RouteBlank, RouteUnread, Handlers, NumberKept, Typed, TypeOK
  <2>5. CASE RouteLock(w)
    BY <1>00, <2>5 DEF RouteLock, Handlers, NumberKept, Typed, TypeOK
  <2>6. CASE FileRead(w)
    BY <1>00, <2>6 DEF FileRead, Leave, Handlers, NumberKept, Typed, TypeOK
  <2>7. CASE SlotFileRead(w)
    <3>1. /\ pc[w] = "slotfile" /\ descriptor = "file" /\ CloseNumber /\ engine_mutex = w
          /\ \A v \in Workers \ {w} : pc'[v] = pc[v]
          /\ \/ pc'[w] = "engine" /\ engine_mutex' = engine_mutex
             \/ pc'[w] = "reply"
          /\ UNCHANGED <<main_client, main, handler, signals>>
      BY <1>00, <2>7 DEF SlotFileRead, Leave, NumberKept, Typed, TypeOK
    <3>2. Handlers'
      BY <1>00, <3>1 DEF CloseNumber, Handlers
    <3>3. \A v \in Workers \ {w} : pc[v] \notin {"file", "slotfile", "engine"}
      BY <1>00, <3>1 DEF NumberKept
    <3>4. conn' = conn
      BY <3>1 DEF CloseNumber
    <3>5. NumberKept'
      BY <1>00, <3>1, <3>3, <3>4 DEF NumberKept
    <3>6. QED  BY <3>2, <3>5
  <2>8. CASE Engine(w)
    BY <1>00, <2>8 DEF Engine, Leave, Handlers, NumberKept, Typed, TypeOK
  <2>9. CASE Reply(w)
    <3>1. pc[w] = "reply" /\ client[w] \in Clients /\ client[w] # main_client
      BY <2>9, MainNotWorker
         DEF Reply, Typed, TypeOK, Ownership, SingleOwner, Holding, Serving, Served
    <3>2. Handlers'
      BY <1>00, <2>9 DEF Reply, Handlers
    <3>3. NumberKept'
      <4>1. UNCHANGED <<descriptor, main_client, engine_mutex>>
        BY <2>9 DEF Reply
      <4>2. \A c \in Clients \ {client[w]} : conn'[c] = conn[c]
        BY <2>9 DEF Reply, WriteAndClose, Typed, TypeOK
      <4>3. \A v \in Workers : pc'[v] \in {pc[v], "top"}
        BY <2>9 DEF Reply, Typed, TypeOK
      <4>4. main_client \in Clients \cup {None}
        BY DEF Typed, TypeOK
      <4>5. QED  BY <1>00, <3>1, <4>1, <4>2, <4>3, <4>4 DEF NumberKept
    <3>4. QED  BY <3>2, <3>3
  <2>10. QED  BY <1>3, <2>1, <2>2, <2>3, <2>4, <2>5, <2>6, <2>7, <2>8, <2>9 DEF WorkerStep
<1>4. ASSUME NEW t \in Threads, Deliver(t) \/ HandlerStep(t)
      PROVE  (Handlers /\ NumberKept)'
  <2>1. CASE Deliver(t)
    BY <1>0, <1>00, <2>1 DEF Deliver, Handlers, NumberKept, Typed, TypeOK
  <2>2. CASE HandlerStore(t)
    BY <1>0, <1>00, <2>2 DEF HandlerStore, Handlers, NumberKept, Typed, TypeOK
  <2>3. CASE HandlerClose(t)
    BY <1>0, <1>00, <2>3 DEF HandlerClose, CloseNumber, Handlers, NumberKept,
       Typed, TypeOK
  <2>4. CASE HandlerNotify(t)
    BY <1>0, <1>00, <2>4 DEF HandlerNotify, WakeAll, Handlers, NumberKept, Typed, TypeOK
  <2>5. QED  BY <1>4, <2>1, <2>2, <2>3, <2>4 DEF HandlerStep
<1>5. ASSUME NEW c \in Clients, ClientStep(c)
      PROVE  (Handlers /\ NumberKept)'
  <2>1. CASE Connect(c)
    BY <1>00, <2>1 DEF Connect, Handlers, NumberKept, Typed, TypeOK
  <2>2. CASE Vanish(c)
    BY <1>00, <2>2 DEF Vanish, Handlers, NumberKept
  <2>3. ASSUME NEW k \in RequestKinds, Send(c, k)
        PROVE  (Handlers /\ NumberKept)'
    BY <1>00, <2>3 DEF Send, Handlers, NumberKept, Typed, TypeOK
  <2>4. QED  BY <1>5, <2>1, <2>2, <2>3 DEF ClientStep
<1>6. CASE UNCHANGED vars  BY <1>00, <1>6 DEF Handlers, NumberKept
<1>7. QED  BY <1>1, <1>2, <1>3, <1>4, <1>5, <1>6 DEF Next

\* One signal closes the listening socket and nothing else, whatever it interrupts.
THEOREM OnlyListenerClosedHolds == Spec => []OnlyListenerClosed
<1>1. Init => OneSignal
  BY ConstantsAssumption
     DEF Init, OneSignal, Handlers, NumberKept
<1>2. OneSignal => OnlyListenerClosed
  BY DEF OneSignal, NumberKept, OnlyListenerClosed
<1>3. QED
  BY <1>1, <1>2, OneSignalStep, TypedInvariant, PoolInvariant, OwnershipInvariant, PTL
     DEF Spec
-----------------------------------------------------------------------------
(***************************************************************************)
(* The refinement: every step of the daemon is a step of BoundedService    *)
(* under the mapping of Daemon, or leaves the mapped state alone.          *)
(***************************************************************************)
Turned == IF main = "busy" THEN {main_client} ELSE {}

Mapped == <<~shutting_down, client_queue, Turned, client, response>>

LEMMA MappedIs == Service!svars = Mapped
  BY DEF Service!svars, Mapped, Turned

\* A connection main has accepted and not disposed of is new to the service.
LEMMA MainClientFresh ==
    ASSUME Typed, Ownership, main = "queue"
    PROVE  main_client \in Clients /\ Service!Fresh(main_client)
<1>1. main_client \in Clients
  BY DEF Typed, TypeOK, MainHolds
<1>2. ~Queued(main_client) /\ ~Served(main_client) /\ response[main_client] = "none"
  BY <1>1, ConstantsAssumption DEF Ownership, SingleOwner, Holding
<1>3. QED  BY <1>1, <1>2 DEF Service!Fresh, Queued, Served

LEMMA RefinementStep ==
    Typed /\ Typed' /\ Pool /\ Ownership /\ [Next]_vars => [Service!Next]_(Service!svars)
<1> USE ConstantsAssumption, MainNotWorker
<1> SUFFICES ASSUME Typed, Typed', Pool, Ownership, [Next]_vars
             PROVE  Service!Next \/ UNCHANGED Mapped
  BY MappedIs DEF Service!svars, Mapped, Turned
<1> USE DEF At, Own, Running, mutexVars, mainVars, workerVars, signalVars, clientVars, vars
<1>1. CASE MainStep
  <2>1. CASE Configure \/ OpenSocket \/ BindListen \/ Spawn \/ LoopTest \/ AcceptCall \/ AcceptReturn
    BY <2>1 DEF Configure, OpenSocket, BindListen, Spawn, LoopTest, AcceptCall, AcceptReturn, Mapped, Turned
  <2>2. CASE NotifyOne \/ Join
    BY <2>2 DEF NotifyOne, NotifySome, Join, JoinIf, Mapped, Turned
  <2>3. CASE Enqueue
    <3>1. main = "queue" /\ UNCHANGED <<shutting_down, client, response>>
      BY <2>3 DEF Enqueue, EnqueueIf
    <3>2. main_client \in Clients /\ Service!Fresh(main_client)
      BY <3>1, MainClientFresh
    <3>3. Len(client_queue) \in Nat /\ kMaxWorkers \in Nat
      BY DEF Typed, TypeOK
    <3>4. CASE ~shutting_down /\ Len(client_queue) < kMaxWorkers
      <4>1. client_queue' = Append(client_queue, main_client) /\ main' = "notify"
        BY <2>3, <3>4 DEF Enqueue, EnqueueIf
      <4>2. Service!Admit(main_client)
        BY <3>1, <3>2, <3>4, <4>1 DEF Service!Admit
      <4>3. QED  BY <3>2, <4>2 DEF Service!Next
    <3>5. CASE ~(~shutting_down /\ Len(client_queue) < kMaxWorkers)
      <4>1. UNCHANGED <<client_queue, main_client>> /\ main' = "busy"
        BY <2>3, <3>5 DEF Enqueue, EnqueueIf
      <4>2. Service!TurnAway(main_client)
        BY <3>1, <3>2, <3>3, <3>5, <4>1 DEF Service!TurnAway
      <4>3. QED  BY <3>2, <4>2 DEF Service!Next
    <3>6. QED  BY <3>4, <3>5
  <2>4. CASE RejectBusy
    <3>1. /\ main = "busy" /\ main_client \in Clients /\ alive /\ Turned = {main_client}
          /\ UNCHANGED <<shutting_down, client_queue, client>>
      BY <2>4 DEF RejectBusy, Typed, TypeOK, MainHolds, Turned
    <3>2. CASE ~alive'
      <4>1. UNCHANGED <<main, main_client, response>>
        BY <2>4, <3>1, <3>2, WriteEffect DEF RejectBusy
      <4>2. QED  BY <3>1, <4>1 DEF Mapped, Turned
    <3>3. CASE alive' /\ conn[main_client] = "closed"
      <4>1. main' = "loop" /\ UNCHANGED response /\ shutting_down
        BY <2>4, <3>1, <3>3, ConstantsAssumption DEF RejectBusy, Ownership, Holding
      <4>2. Service!Tell(main_client)
        BY <3>1, <4>1 DEF Service!Tell
      <4>3. QED  BY <3>1, <4>2 DEF Service!Next
    <3>4. CASE alive' /\ conn[main_client] # "closed"
      <4>1. /\ main' = "loop"
            /\ \E r \in {"busy", "cut"} : response' = [response EXCEPT ![main_client] = r]
        BY <2>4, <3>1, <3>4 DEF RejectBusy, WriteAndClose
      <4>2. Service!Tell(main_client)
        BY <3>1, <4>1 DEF Service!Tell
      <4>3. QED  BY <3>1, <4>2 DEF Service!Next
    <3>5. QED  BY <3>2, <3>3, <3>4
  <2>5. CASE Stop
    <3>1. Service!Close
      BY <2>5 DEF Stop, Service!Close
    <3>2. QED  BY <3>1 DEF Service!Next
  <2>6. QED  BY <1>1, <2>1, <2>2, <2>3, <2>4, <2>5 DEF MainStep
<1>2. CASE AcceptError
  BY <1>2 DEF AcceptError, Mapped, Turned
<1>3. ASSUME NEW w \in Workers, WorkerStep(w) \/ SpuriousWake(w)
      PROVE  Service!Next \/ UNCHANGED Mapped
  <2>1. CASE WorkerSleep(w) \/ WorkerReturn(w) \/ Block(w) \/ SpuriousWake(w)
    <3>1. UNCHANGED <<shutting_down, client_queue, main, main_client, client, response>>
      BY <2>1 DEF WorkerSleep, SleepIf, WorkerReturn, ReturnIf, Block, SpuriousWake
    <3>2. QED  BY <3>1 DEF Mapped, Turned
  <2>2. CASE \/ ReadRequest(w) \/ RouteBlank(w) \/ RouteUnread(w) \/ RouteLock(w)
             \/ FileRead(w) \/ SlotFileRead(w) \/ Engine(w)
    BY <2>2 DEF ReadRequest, RouteBlank, RouteUnread, RouteLock, FileRead, SlotFileRead, Engine,
       Leave, Mapped, Turned
  <2>3. CASE WorkerTake(w)
    <3>1. client[w] = None
      BY <2>3 DEF WorkerTake, TakeLeaving, Ownership, Holding, Serving
    <3>2. Service!Start(w)
      BY <2>3, <3>1 DEF WorkerTake, TakeLeaving, Service!Start
    <3>3. QED  BY <3>2 DEF Service!Next
  <2>4. CASE Reply(w)
    <3>1. /\ client[w] \in Clients /\ client[w] # None /\ reply[w] \in Replies /\ alive
          /\ UNCHANGED <<shutting_down, client_queue, main, main_client>>
      BY <2>4 DEF Reply, Typed, TypeOK, Ownership, Holding, Serving
    <3>2. CASE ~alive'
      BY <2>4, <3>1, <3>2, WriteEffect DEF Reply, Mapped, Turned
    <3>3. CASE alive'
      <4>1. PICK r \in {reply[w], "cut"} : response' = [response EXCEPT ![client[w]] = r]
        BY <2>4, <3>1, <3>3 DEF Reply, WriteAndClose
      <4>2. client' = [client EXCEPT ![w] = None]
        BY <2>4, <3>3 DEF Reply
      <4>3. Service!Finish(w)
        BY <3>1, <4>1, <4>2 DEF Service!Finish, Service!Answers, Replies
      <4>4. QED  BY <4>3 DEF Service!Next
    <3>4. QED  BY <3>2, <3>3
  <2>5. QED  BY <1>3, <2>1, <2>2, <2>3, <2>4 DEF WorkerStep
<1>4. ASSUME NEW t \in Threads, Deliver(t) \/ HandlerStep(t)
      PROVE  Service!Next \/ UNCHANGED Mapped
  <2>1. CASE Deliver(t) \/ HandlerClose(t) \/ HandlerNotify(t)
    BY <2>1 DEF Deliver, HandlerClose, HandlerNotify, Mapped, Turned
  <2>2. CASE HandlerStore(t)
    <3>1. Service!Close
      BY <2>2 DEF HandlerStore, Service!Close
    <3>2. QED  BY <3>1 DEF Service!Next
  <2>3. QED  BY <1>4, <2>1, <2>2 DEF HandlerStep
<1>5. ASSUME NEW c \in Clients, ClientStep(c)
      PROVE  Service!Next \/ UNCHANGED Mapped
  <2>1. UNCHANGED <<shutting_down, client_queue, main, main_client, client, response>>
    BY <1>5 DEF ClientStep, Connect, Vanish, Send
  <2>2. QED  BY <2>1 DEF Mapped, Turned
<1>6. CASE UNCHANGED vars
  BY <1>6 DEF Mapped, Turned
<1>7. QED  BY <1>1, <1>2, <1>3, <1>4, <1>5, <1>6 DEF Next

\* The daemon keeps the promise of BoundedService: clients are turned away
\* only when the queue is full or the service closed, admitted ones are served
\* first come first served by one worker each, and outcomes are final.
THEOREM DaemonImplementsService == Spec => ImplementsService
<1>1. Init => Service!Init
  BY DEF Init, Service!Init
<1>2. QED
  BY <1>1, RefinementStep, TypedInvariant, PoolInvariant, OwnershipInvariant, PTL
     DEF Spec, ImplementsService, Service!Spec
=============================================================================

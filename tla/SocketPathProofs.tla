-------------------------- MODULE SocketPathProofs --------------------------
(***************************************************************************)
(* Proofs about SocketPath, for any set of daemons on one path, any order  *)
(* of their starts, ends, signals and crashes.                             *)
(***************************************************************************)
EXTENDS SocketPath, TLAPS

\* The daemon has made its file, or has failed to.
HasBound(d) == at[d] \in {"listen", "loop", "undo"}

\* Between its unlink and its bind; afterwards with the file in place.
Owned == path # Nothing =>
            path \in crashed \/ \E d \in Daemons : HasBound(d) /\ path = Socket(d)

\* A daemon that is alone meets no file, and no closed socket unless signalled.
AloneSound == \A d \in alone :
    /\ \A e \in Daemons : e # d => at[e] = "down"
    /\ at[d] \in {"socket", "bind"} => path = Nothing
    /\ at[d] \in {"bind", "listen"} /\ ~shutting_down[d] => server_fd[d] = "open"
    /\ at[d] = "undo" => shutting_down[d]

\* As long as none ends, one is on its way to the path or has it.
SteadySound == steady /\ Alive # {} =>
    \E d \in Alive : \/ at[d] \notin {"listen", "loop"}
                     \/ path = Socket(d)

IInv == TypeOK /\ Owned /\ AloneSound /\ SteadySound

\* The state predicates stutter with the variables.
LEMMA StutterKeeps == IInv /\ UNCHANGED vars => IInv'
  BY DEF IInv, TypeOK, Owned, AloneSound, SteadySound, HasBound, Alive, Socket, vars

\* A process that starts has no file yet and the next number.
LEMMA StartKeeps ==
  ASSUME IInv, NEW d \in Daemons, Start(d) PROVE IInv'
  <1>1. TypeOK'
    BY SocketPathAssumption DEF IInv, TypeOK, Start, Step, Places
  <1>2. Owned'
    BY DEF IInv, TypeOK, Owned, HasBound, Socket, Start, Step
  <1>3. AloneSound'
    BY DEF IInv, TypeOK, AloneSound, Alive, Start, Step
  <1>4. SteadySound'
    BY DEF IInv, TypeOK, SteadySound, Alive, Start, Step
  <1> QED BY <1>1, <1>2, <1>3, <1>4 DEF IInv

\* The steps of a start and the signal concern one daemon.
LEMMA StepKeeps ==
  ASSUME IInv, NEW d \in Daemons,
         Unlink(d) \/ MakeSocket(d) \/ Bind(d) \/ Listen(d) \/ Signal(d)
  PROVE  IInv'
  <1>1. CASE Unlink(d)
    <2>1. TypeOK'
      BY <1>1 DEF IInv, TypeOK, Places, Socket, Unlink, Step
    <2>2. Owned'
      BY <1>1 DEF IInv, TypeOK, Owned, HasBound, Socket, Unlink, Step
    <2>3. AloneSound'
      BY <1>1 DEF IInv, TypeOK, AloneSound, Unlink, Step
    <2>4. SteadySound'
      BY <1>1 DEF IInv, TypeOK, SteadySound, Alive, Socket, Unlink, Step
    <2> QED BY <2>1, <2>2, <2>3, <2>4 DEF IInv
  <1>2. CASE MakeSocket(d)
    <2>1. TypeOK'
      BY <1>2 DEF IInv, TypeOK, Places, Socket, MakeSocket, Step
    <2>2. Owned'
      BY <1>2 DEF IInv, TypeOK, Owned, HasBound, Socket, MakeSocket, Step
    <2>3. AloneSound'
      BY <1>2 DEF IInv, TypeOK, AloneSound, MakeSocket, Step
    <2>4. SteadySound'
      BY <1>2 DEF IInv, TypeOK, SteadySound, Alive, Socket, MakeSocket, Step
    <2> QED BY <2>1, <2>2, <2>3, <2>4 DEF IInv
  <1>3. CASE Bind(d)
    <2>1. TypeOK'
      BY <1>3 DEF IInv, TypeOK, Places, Socket, Bind, Step
    <2>2. Owned'
      BY <1>3 DEF IInv, TypeOK, Owned, HasBound, Socket, Bind, Step
    <2>3. AloneSound'
      BY <1>3 DEF IInv, TypeOK, AloneSound, Bind, Step
    <2>4. SteadySound'
      BY <1>3 DEF IInv, TypeOK, SteadySound, Alive, Socket, Bind, Step
    <2> QED BY <2>1, <2>2, <2>3, <2>4 DEF IInv
  <1>4. CASE Listen(d)
    <2>1. TypeOK'
      BY <1>4 DEF IInv, TypeOK, Places, Socket, Listen, Step
    <2>2. Owned'
      BY <1>4 DEF IInv, TypeOK, Owned, HasBound, Socket, Listen, Step
    <2>3. AloneSound'
      BY <1>4 DEF IInv, TypeOK, AloneSound, Listen, Step
    <2>4. SteadySound'
      BY <1>4 DEF IInv, TypeOK, SteadySound, Alive, Socket, Listen, Step
    <2> QED BY <2>1, <2>2, <2>3, <2>4 DEF IInv
  <1>5. CASE Signal(d)
    <2>1. TypeOK'
      BY <1>5 DEF IInv, TypeOK, Places, Socket, Signal
    <2>2. Owned'
      BY <1>5 DEF IInv, TypeOK, Owned, HasBound, Socket, Signal
    <2>3. AloneSound'
      BY <1>5 DEF IInv, TypeOK, AloneSound, Signal
    <2>4. SteadySound'
      BY <1>5 DEF IInv, TypeOK, SteadySound, Alive, Socket, Signal
    <2> QED BY <2>1, <2>2, <2>3, <2>4 DEF IInv
  <1> QED BY <1>1, <1>2, <1>3, <1>4, <1>5

\* A process that ends removes the file, or has none, or has crashed.
LEMMA EndKeeps ==
  ASSUME IInv, NEW d \in Daemons,
         NoSocket(d) \/ Undo(d) \/ Exit(d) \/ Crash(d)
  PROVE  IInv'
  <1>1. CASE NoSocket(d)
    <2>1. TypeOK'
      BY <1>1 DEF IInv, TypeOK, Places, Socket, NoSocket, End, Step
    <2>2. Owned'
      BY <1>1 DEF IInv, TypeOK, Owned, HasBound, Socket, NoSocket, End, Step
    <2>3. AloneSound'
      BY <1>1 DEF IInv, TypeOK, AloneSound, NoSocket, End, Step
    <2>4. SteadySound'
      BY <1>1 DEF IInv, TypeOK, SteadySound, Alive, Socket, NoSocket, End, Step
    <2> QED BY <2>1, <2>2, <2>3, <2>4 DEF IInv
  <1>2. CASE Undo(d)
    <2>1. TypeOK'
      BY <1>2 DEF IInv, TypeOK, Places, Socket, Undo, End, Step
    <2>2. Owned'
      BY <1>2 DEF IInv, TypeOK, Owned, HasBound, Socket, Undo, End, Step
    <2>3. AloneSound'
      BY <1>2 DEF IInv, TypeOK, AloneSound, Undo, End, Step
    <2>4. SteadySound'
      BY <1>2 DEF IInv, TypeOK, SteadySound, Alive, Socket, Undo, End, Step
    <2> QED BY <2>1, <2>2, <2>3, <2>4 DEF IInv
  <1>3. CASE Exit(d)
    <2>1. TypeOK'
      BY <1>3 DEF IInv, TypeOK, Places, Socket, Exit, End, Step
    <2>2. Owned'
      BY <1>3 DEF IInv, TypeOK, Owned, HasBound, Socket, Exit, End, Step
    <2>3. AloneSound'
      BY <1>3 DEF IInv, TypeOK, AloneSound, Exit, End, Step
    <2>4. SteadySound'
      BY <1>3 DEF IInv, TypeOK, SteadySound, Alive, Socket, Exit, End, Step
    <2> QED BY <2>1, <2>2, <2>3, <2>4 DEF IInv
  <1>4. CASE Crash(d)
    <2>1. PICK p \in Places \ {"down"} : End(d, p)
      BY <1>4 DEF Crash
    <2>2. Socket(d) \in Daemons \X Nat
      BY SocketPathAssumption DEF IInv, TypeOK, Socket
    <2>3. TypeOK'
      BY <1>4, <2>1, <2>2 DEF IInv, TypeOK, Places, Crash, End, Step
    <2>4. Owned'
      BY <1>4, <2>1 DEF IInv, TypeOK, Owned, HasBound, Socket, Crash, End, Step
    <2>5. AloneSound'
      BY <1>4, <2>1 DEF IInv, TypeOK, AloneSound, Crash, End, Step
    <2>6. SteadySound'
      BY <2>1 DEF SteadySound, End
    <2> QED BY <2>3, <2>4, <2>5, <2>6 DEF IInv
  <1> QED BY <1>1, <1>2, <1>3, <1>4

\* The inductive invariant: what is at the path, and what a lone start meets.
THEOREM Inductive == Spec => []IInv
  <1>1. Init => IInv
    BY SocketPathAssumption
    DEF Init, IInv, TypeOK, Owned, AloneSound, SteadySound, Alive, Places
  <1>2. IInv /\ [Next]_vars => IInv'
    BY StutterKeeps, StartKeeps, StepKeeps, EndKeeps DEF Next
  <1> QED BY <1>1, <1>2, PTL DEF Spec

\* For any number of daemons and lives: only a crash leaves a file without a process.
THEOREM StaleOnlyAfterCrashHolds == Spec => []StaleOnlyAfterCrash
  <1>1. IInv => StaleOnlyAfterCrash
    BY DEF IInv, Owned, HasBound, StaleOnlyAfterCrash, Alive
  <1> QED BY <1>1, Inductive, PTL

\* For any number of daemons and lives: a lone start succeeds whatever was left
\* behind, and starts that overlap leave the path to one that accepts.
THEOREM StartsReachableHolds == Spec => []StartsReachable
  <1>1. IInv => StartsReachable
    BY DEF IInv, AloneSound, SteadySound, StartsReachable, Alive
  <1> QED BY <1>1, Inductive, PTL
=============================================================================

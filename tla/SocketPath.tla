----------------------------- MODULE SocketPath -----------------------------
(***************************************************************************)
(* The file of the daemon's socket (main of main_daemon.cpp, lines 451 to  *)
(* 508) over the lives of several daemons that are given the same path:    *)
(* each removes the file when it starts, makes its own with bind, and      *)
(* removes whatever is there when it fails or ends.  A crash (SIGPIPE and  *)
(* SIGKILL too) leaves the file.  Between start and end a daemon is as in  *)
(* Daemon; here that is one state, "loop".                                 *)
(***************************************************************************)
EXTENDS Integers

CONSTANTS
    Daemons,
    MaxLives,  \* bound: how often each is started
    Nothing

ASSUME SocketPathAssumption == MaxLives \in Nat /\ Nothing \notin Daemons \X Nat

VARIABLES
    path,           \* the socket whose file is at socket_path, or Nothing
    at,             \* where main() is
    life,           \* the process of each daemon, counted
    server_fd,      \* "none", "open", "closed"
    shutting_down,
    crashed,        \* history: the sockets of the processes that crashed
    alone,          \* history: the daemons alive alone since their start
    steady          \* history: since a daemon started alone, none has ended

vars == <<path, at, life, server_fd, shutting_down, crashed, alone, steady>>

Places == {"down", "unlink", "socket", "bind", "listen", "undo", "loop"}

\* A name for the socket a daemon's process makes.
Socket(d) == <<d, life[d]>>

Alive == {d \in Daemons : at[d] # "down"}

TypeOK ==
    /\ path \in {Nothing} \cup (Daemons \X Nat)
    /\ at \in [Daemons -> Places]
    /\ life \in [Daemons -> 0..MaxLives]
    /\ server_fd \in [Daemons -> {"none", "open", "closed"}]
    /\ shutting_down \in [Daemons -> BOOLEAN]
    /\ crashed \subseteq Daemons \X Nat
    /\ alone \subseteq Daemons
    /\ steady \in BOOLEAN

Init ==
    /\ path = Nothing
    /\ at = [d \in Daemons |-> "down"]
    /\ life = [d \in Daemons |-> 0]
    /\ server_fd = [d \in Daemons |-> "none"]
    /\ shutting_down = [d \in Daemons |-> FALSE]
    /\ crashed = {} /\ alone = {} /\ steady = TRUE
-----------------------------------------------------------------------------
Step(d, from, to) == at[d] = from /\ at' = [at EXCEPT ![d] = to]

\* A process ends; the daemon can be started again.
End(d, from) ==
    /\ Step(d, from, "down")
    /\ steady' = FALSE
    /\ UNCHANGED <<life, server_fd, shutting_down, alone>>

Start(d) ==
    /\ life[d] < MaxLives
    /\ Step(d, "down", "unlink")
    /\ life' = [life EXCEPT ![d] = @ + 1]
    /\ server_fd' = [server_fd EXCEPT ![d] = "none"]
    /\ shutting_down' = [shutting_down EXCEPT ![d] = FALSE]
    /\ alone' = IF Alive = {} THEN {d} ELSE {}
    /\ steady' = (steady \/ Alive = {})
    /\ UNCHANGED <<path, crashed>>

LeaveFile(d) ==  \* fault: the file of an earlier process stays
    /\ Step(d, "unlink", "socket")
    /\ UNCHANGED <<path, life, server_fd, shutting_down, crashed, alone, steady>>

Unlink(d) ==
    /\ Step(d, "unlink", "socket")
    /\ path' = Nothing
    /\ UNCHANGED <<life, server_fd, shutting_down, crashed, alone, steady>>

MakeSocket(d) ==
    /\ Step(d, "socket", "bind")
    /\ server_fd' = [server_fd EXCEPT ![d] = "open"]
    /\ UNCHANGED <<path, life, shutting_down, crashed, alone, steady>>

\* socket() fails, or the path is too long: the process ends at once.
NoSocket(d) == End(d, "socket") /\ UNCHANGED <<path, crashed>>

\* bind does not replace a file; a file system that refuses it otherwise is left out.
Bind(d) ==
    /\ \/ /\ server_fd[d] = "open" /\ path = Nothing
          /\ Step(d, "bind", "listen") /\ path' = Socket(d)
       \/ /\ server_fd[d] # "open" \/ path # Nothing
          /\ Step(d, "bind", "undo") /\ UNCHANGED path
    /\ UNCHANGED <<life, server_fd, shutting_down, crashed, alone, steady>>

Listen(d) ==
    /\ Step(d, "listen", IF server_fd[d] = "open" THEN "loop" ELSE "undo")
    /\ UNCHANGED <<path, life, server_fd, shutting_down, crashed, alone, steady>>

\* The start failed: the file is removed, whose ever it is.
Undo(d) == End(d, "undo") /\ path' = Nothing /\ UNCHANGED crashed

ExitLeavingFile(d) ==  \* fault
    shutting_down[d] /\ End(d, "loop") /\ UNCHANGED <<path, crashed>>

\* The accept loop ends, the workers are joined, the file is removed.
Exit(d) ==
    /\ shutting_down[d]
    /\ End(d, "loop") /\ path' = Nothing /\ UNCHANGED crashed

\* SIGINT or SIGTERM, with the handler installed.
Signal(d) ==
    /\ at[d] # "down" /\ ~shutting_down[d]
    /\ shutting_down' = [shutting_down EXCEPT ![d] = TRUE]
    /\ server_fd' = [server_fd EXCEPT ![d] = IF @ = "open" THEN "closed" ELSE @]
    /\ UNCHANGED <<path, at, life, crashed, alone, steady>>

Crash(d) ==
    /\ \E p \in Places \ {"down"} : End(d, p)
    /\ crashed' = crashed \cup {Socket(d)}
    /\ UNCHANGED path

Next == \E d \in Daemons :
    \/ Start(d) \/ Unlink(d) \/ MakeSocket(d) \/ NoSocket(d) \/ Bind(d) \/ Listen(d)
    \/ Undo(d) \/ Exit(d) \/ Signal(d) \/ Crash(d)

Spec == Init /\ [][Next]_vars
-----------------------------------------------------------------------------
(***************************************************************************)
(* Properties.                                                             *)
(***************************************************************************)
\* The file at the path is that of a living process, or of one that crashed: no
\* other end leaves it, also when the starts and ends of several daemons overlap.
StaleOnlyAfterCrash ==
    path # Nothing =>
        \/ \E d \in Alive : path = Socket(d)
        \/ path \in crashed

\* What earlier processes left behind does not make a start fail that no other
\* daemon overlaps with.  And as long as none ends, daemons whose starts overlap
\* leave the path to one of them that accepts; once one ends, all may be without.
StartsReachable ==
    /\ \A d \in alone : at[d] = "undo" => shutting_down[d]
    /\ /\ steady /\ Alive # {}
       /\ \A d \in Alive : at[d] = "loop" /\ ~shutting_down[d]
       => \E d \in Alive : path = Socket(d)
=============================================================================

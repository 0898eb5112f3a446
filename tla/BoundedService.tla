--------------------------- MODULE BoundedService ---------------------------
(***************************************************************************)
(* What the daemon promises its clients, without threads, mutexes, kernel  *)
(* queues or signal handlers: a service with a bounded waiting line and a  *)
(* fixed set of servers.  A client is admitted while the service is open   *)
(* and the line has room, and turned away only when one of the two fails;  *)
(* admitted clients are taken from the line in order, each by one server,  *)
(* and get one outcome, which never changes and may be cut off; a closed   *)
(* service admits nobody and finishes with those it has admitted.          *)
(***************************************************************************)
EXTENDS Naturals, Sequences

CONSTANTS Clients, Servers, Room, None

VARIABLES
    open,      \* the service admits clients
    waiting,   \* the line, first come first served
    turned,    \* clients turned away and not yet told
    serving,   \* the client of each server, or None
    outcome    \* what each client has been told

svars == <<open, waiting, turned, serving, outcome>>

Answers  == {"answer", "unread", "error", "cut"}
Outcomes == Answers \cup {"none", "busy"}

Init ==
    /\ open = TRUE
    /\ waiting = <<>>
    /\ turned = {}
    /\ serving = [s \in Servers |-> None]
    /\ outcome = [c \in Clients |-> "none"]

\* Clients nobody has decided about.
Fresh(c) ==
    /\ outcome[c] = "none" /\ c \notin turned
    /\ \A i \in DOMAIN waiting : waiting[i] # c
    /\ \A s \in Servers : serving[s] # c

Admit(c) ==
    /\ Fresh(c) /\ open /\ Len(waiting) < Room
    /\ waiting' = Append(waiting, c)
    /\ UNCHANGED <<open, turned, serving, outcome>>

TurnAway(c) ==
    /\ Fresh(c) /\ (~open \/ Len(waiting) >= Room)
    /\ turned' = turned \cup {c}
    /\ UNCHANGED <<open, waiting, serving, outcome>>

\* The client turned away is told so, or its connection is lost.
Tell(c) ==
    /\ c \in turned
    /\ turned' = turned \ {c}
    /\ \/ \E r \in {"busy", "cut"} : outcome' = [outcome EXCEPT ![c] = r]
       \/ ~open /\ UNCHANGED outcome
    /\ UNCHANGED <<open, waiting, serving>>

Start(s) ==
    /\ serving[s] = None /\ waiting # <<>>
    /\ serving' = [serving EXCEPT ![s] = Head(waiting)]
    /\ waiting' = Tail(waiting)
    /\ UNCHANGED <<open, turned, outcome>>

Finish(s) ==
    /\ serving[s] # None
    /\ \E r \in Answers :
          outcome' = [outcome EXCEPT ![serving[s]] = r]
    /\ serving' = [serving EXCEPT ![s] = None]
    /\ UNCHANGED <<open, waiting, turned>>

Close ==
    /\ open' = FALSE
    /\ UNCHANGED <<waiting, turned, serving, outcome>>

Next ==
    \/ Close
    \/ \E c \in Clients : Admit(c) \/ TurnAway(c) \/ Tell(c)
    \/ \E s \in Servers : Start(s) \/ Finish(s)

Spec == Init /\ [][Next]_svars
=============================================================================

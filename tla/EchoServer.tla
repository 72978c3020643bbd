---------------------------- MODULE EchoServer -----------------------------
(***************************************************************************)
(* The TCP server of the proxy chain's tests and tcp_echo_server:          *)
(* TcpEchoHandler on the acceptor and the tasks of libtcp.  Each           *)
(* connection has a thread with a buffer of its own: it reads, frames what *)
(* it has read as "echo [...]", and writes it back.  The event loop is in  *)
(* ServerLifecycle; here are the dispatches of the acceptor, the threads   *)
(* and the thread that calls stop().                                       *)
(***************************************************************************)
EXTENDS Naturals, Sequences, SocketIO

CONSTANTS
    Conns,      \* connections clients may open
    BufSize,    \* size of a thread's buffer, in units
    Opening,    \* "echo ["
    Closing,    \* "]"
    Faults      \* what writes may do: subset of {"partial", "slow"}

VARIABLES
    link,       \* link[c]: "unused", "open" or "closed" (by either side)
    toServer,   \* toServer[c]: all that the client has written
    fromServer, \* fromServer[c]: what the server has written and no read of the client has taken
    listening,  \* is the acceptor registered and its socket open?
    task,       \* task[c]: where the thread of c is
    taken,      \* taken[c]: number of units of toServer[c] the server has read
    chunk,      \* chunk[c]: received_message, until it has been written back
    cancelled,  \* connections whose RunningTask::cancelled_ is set
    tasks,      \* AceTcpServerAcceptor::tasks_, those not stopped yet
    stopper     \* where the thread that calls stop() is

serverVars == <<listening, task, taken, chunk, cancelled, tasks, stopper>>
vars == <<link, toServer, fromServer, serverVars>>

ServerInit ==
    /\ listening = TRUE
    /\ task = [c \in Conns |-> "none"]
    /\ taken = [c \in Conns |-> 0]
    /\ chunk = [c \in Conns |-> <<>>]
    /\ cancelled = {}
    /\ tasks = <<>>
    /\ stopper = "idle"

\* handle_input accepts, handle_client starts the thread, tasks_ keeps it.
Accept(c) ==
    /\ listening /\ link[c] # "unused" /\ task[c] = "none"
    /\ task' = [task EXCEPT ![c] = "check"]
    /\ tasks' = Append(tasks, c)
    /\ UNCHANGED <<link, toServer, fromServer, listening, taken, chunk, cancelled, stopper>>

-----------------------------------------------------------------------------
(* The thread of connection c *)

TaskStep(c, from, to) ==
    /\ task[c] = from
    /\ task' = [task EXCEPT ![c] = to]
    /\ UNCHANGED <<toServer, listening, cancelled, tasks, stopper>>

\* Faulty variant: the flag is not looked at.
CheckCancelled_Never(c) ==
    /\ TaskStep(c, "check", "read")
    /\ UNCHANGED <<link, fromServer, taken, chunk>>

\* while (!cancelled)
CheckCancelled(c) ==
    /\ TaskStep(c, "check", IF c \in cancelled THEN "close" ELSE "read")
    /\ UNCHANGED <<link, fromServer, taken, chunk>>

Waiting(c) == Len(toServer[c]) - taken[c]

\* What recv may return: data; nothing for 100 ms; the end, which a reset brings
\* before the data still on their way.
Received(c) ==
    (IF Waiting(c) > 0 THEN {Returned(IF BufSize <= Waiting(c) THEN BufSize ELSE Waiting(c))}
     ELSE IF link[c] = "open" THEN {Failed("ETIME")} ELSE {Returned(0)})
    \cup (IF link[c] = "open" THEN {} ELSE {Failed("ECONNRESET")})

\* read(), and what handle_client makes of its code.
Read(c) ==
    \E r \in Received(c) :
        /\ TaskStep(c, "read", CASE FromSize(r) = "Success" -> "write"
                                 [] FromSize(r) = "Timeout" -> "check"
                                 [] OTHER -> "close")
        /\ IF FromSize(r) = "Success"
           THEN /\ chunk' = [chunk EXCEPT ![c] = SubSeq(toServer[c], taken[c] + 1, taken[c] + r.size)]
                /\ taken' = [taken EXCEPT ![c] = @ + r.size]
           ELSE UNCHANGED <<chunk, taken>>
        /\ UNCHANGED <<link, fromServer>>

\* Faulty variant: the closing bracket is left out.
EchoMessage_Open(data) == <<Opening>> \o data

\* processEchoMessage
EchoMessage(data) == <<Opening>> \o data \o <<Closing>>

\* What send of m units may return: all is taken, or a part, or nothing for 100 ms.
Sent(c, m) ==
    IF link[c] # "open" THEN {Failed("ECONNRESET"), Failed("other")}
    ELSE {Returned(m)} \cup (IF "partial" \in Faults THEN {Returned(n) : n \in 1..m} ELSE {})
                       \cup (IF "slow" \in Faults THEN {Failed("ETIME")} ELSE {})

\* write(): only Success goes on, and what was not taken is not written again.
Write(c) ==
    LET reply == EchoMessage(chunk[c]) IN
    \E r \in Sent(c, Len(reply)) :
        /\ TaskStep(c, "write", IF FromSize(r) = "Success" THEN "check" ELSE "close")
        /\ IF FromSize(r) = "Success"
           THEN /\ fromServer' = [fromServer EXCEPT ![c] = @ \o SubSeq(reply, 1, r.size)]
                /\ chunk' = [chunk EXCEPT ![c] = <<>>]
           ELSE UNCHANGED <<fromServer, chunk>>
        /\ UNCHANGED <<link, taken>>

\* The thread ends and with it the session: the socket is closed with a reset, which
\* may lose what the client has not read yet.
CloseSession(c) ==
    /\ TaskStep(c, "close", "done")
    /\ link' = [link EXCEPT ![c] = "closed"]
    /\ IF link[c] = "open"
       THEN \E n \in 0..Len(fromServer[c]) : fromServer' = [fromServer EXCEPT ![c] = SubSeq(@, 1, n)]
       ELSE UNCHANGED fromServer
    /\ UNCHANGED <<taken, chunk>>

TaskThread(c) == CheckCancelled(c) \/ Read(c) \/ Write(c) \/ CloseSession(c)

-----------------------------------------------------------------------------
(* AceTcpServer::stop *)

\* The acceptor is removed and its socket closed, with the connections nobody accepted.
CloseAcceptor ==
    /\ stopper = "idle"
    /\ stopper' = "tasks"
    /\ listening' = FALSE
    /\ link' = [c \in Conns |-> IF link[c] = "open" /\ task[c] = "none" THEN "closed" ELSE link[c]]
    /\ UNCHANGED <<toServer, fromServer, task, taken, chunk, cancelled, tasks>>

\* RunningTask::stop of one task after the other: cancel ...
CancelTask ==
    /\ stopper = "tasks" /\ tasks # <<>>
    /\ stopper' = "join"
    /\ cancelled' = cancelled \cup {Head(tasks)}
    /\ UNCHANGED <<link, toServer, fromServer, listening, task, taken, chunk, tasks>>

\* ... and join.
JoinTask ==
    /\ stopper = "join" /\ task[Head(tasks)] = "done"
    /\ stopper' = "tasks"
    /\ tasks' = Tail(tasks)
    /\ UNCHANGED <<link, toServer, fromServer, listening, task, taken, chunk, cancelled>>

StopEnds ==
    /\ stopper = "tasks" /\ tasks = <<>>
    /\ stopper' = "done"
    /\ UNCHANGED <<link, toServer, fromServer, listening, task, taken, chunk, cancelled, tasks>>

StopperRuns == CancelTask \/ JoinTask \/ StopEnds
=============================================================================

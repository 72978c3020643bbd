------------------------ MODULE NotificationHandler ------------------------
(***************************************************************************)
(* The handler of the notifying server (src/libtcp/examples), on the       *)
(* acceptor and the tasks of libtcp: every request of a client is echoed   *)
(* to it and notified to all other clients.                                *)
(*                                                                         *)
(* active_sessions_ is shared by the reactor thread, which adds a client,  *)
(* and the clients' threads, which iterate over it and remove themselves;  *)
(* sessions_mutex_ guards it.  A thread that only adds or removes does so  *)
(* in one action; one that notifies holds the mutex over many writes.      *)
(* How the acceptor fails and the event loop ends is in ServerProxy and    *)
(* ServerLifecycle.                                                        *)
(***************************************************************************)
EXTENDS Naturals, Sequences, SequencesExt

CONSTANTS
    Clients,
    Senders,    \* the clients that send requests, the others only listen
    None,       \* "no client", "not joined"
    BufSize,    \* BUFFER_SIZE, in requests
    MaxUnits,   \* bound: requests a sender sends
    Slow        \* the clients a write to whom may fail

ASSUME HandlerAssumption ==
    /\ Senders \subseteq Clients
    /\ None \notin Clients \cup Nat
    /\ BufSize \in Nat \ {0}
    /\ MaxUnits \in Nat
    /\ Slow \subseteq Clients

VARIABLES
    link,       \* link[c]: the TCP connection, as its client left it
    inbox,      \* inbox[c]: numbers of the requests no read() has taken
    sentUnits,  \* sentUnits[c]: number of requests c has sent
    accReg,     \* is the acceptor registered with the reactor?
    reactor,    \* where the reactor thread is
    current,    \* the client handle_client is about
    active,     \* active_sessions_
    mutex,      \* who holds sessions_mutex_ while it notifies
    task,       \* task[c]: where the thread of c is
    message,    \* message[c]: received_message
    next,       \* next[c]: place in active_sessions_ its loop has come to
    cancelled,  \* clients whose RunningTask::cancelled_ is set
    tasks,      \* AceTcpServerAcceptor::tasks_, those not stopped yet
    stopper,    \* where the thread that calls stop() is
    echoes,     \* echoes[c]: the messages echoed to c
    heard,      \* heard[c]: the places in log c was notified of
    log,        \* history: the messages notified so far
    since,      \* history: length of log when c was added to active_sessions_
    lagging     \* history: clients a write to whom has failed

clientVars  == <<link, inbox, sentUnits>>
reactorVars == <<accReg, reactor, current>>
stopVars    == <<cancelled, tasks, stopper>>
localVars   == <<message, next>>
sharedVars  == <<active, mutex>>
writtenVars == <<echoes, heard, lagging>>
vars == <<clientVars, reactorVars, sharedVars, task, localVars, stopVars, writtenVars, log, since>>

Smaller(m, n) == IF m <= n THEN m ELSE n

Init ==
    /\ link = [c \in Clients |-> "idle"]
    /\ inbox = [c \in Clients |-> <<>>]
    /\ sentUnits = [c \in Clients |-> 0]
    /\ accReg = TRUE
    /\ reactor = "select"
    /\ current = None
    /\ active = <<>>
    /\ mutex = None
    /\ task = [c \in Clients |-> "none"]
    /\ message = [c \in Clients |-> <<>>]
    /\ next = [c \in Clients |-> 0]
    /\ cancelled = {}
    /\ tasks = <<>>
    /\ stopper = "idle"
    /\ echoes = [c \in Clients |-> <<>>]
    /\ heard = [c \in Clients |-> <<>>]
    /\ log = <<>>
    /\ since = [c \in Clients |-> None]
    /\ lagging = {}

-----------------------------------------------------------------------------
(* The clients *)

ClientStep == UNCHANGED <<reactorVars, sharedVars, task, localVars, stopVars, writtenVars, log, since>>

Connect(c) ==
    /\ link[c] = "idle" /\ accReg
    /\ link' = [link EXCEPT ![c] = "open"]
    /\ UNCHANGED <<inbox, sentUnits>>
    /\ ClientStep

ClientSend(c) ==
    /\ c \in Senders /\ link[c] = "open" /\ sentUnits[c] < MaxUnits
    /\ sentUnits' = [sentUnits EXCEPT ![c] = @ + 1]
    /\ inbox' = [inbox EXCEPT ![c] = Append(@, sentUnits[c] + 1)]
    /\ UNCHANGED link
    /\ ClientStep

\* FIN behind its requests, or RST, which loses the last of them.
ClientClose(c) ==
    /\ link[c] = "open"
    /\ link' = [link EXCEPT ![c] = "closed"]
    /\ \E n \in 0..Len(inbox[c]) : inbox' = [inbox EXCEPT ![c] = SubSeq(@, 1, n)]
    /\ UNCHANGED sentUnits
    /\ ClientStep

-----------------------------------------------------------------------------
(* The reactor thread: AceTcpServerAcceptor::handle_input -> handle_client *)

ReactorStep(from, to) ==
    /\ reactor = from
    /\ reactor' = to
    /\ UNCHANGED <<clientVars, accReg, mutex, localVars, cancelled, stopper, writtenVars, log>>

Accept(c) ==
    /\ accReg /\ link[c] # "idle" /\ task[c] = "none"
    /\ ReactorStep("select", "register")
    /\ current' = c
    /\ UNCHANGED <<active, task, tasks, since>>

\* Faulty variant: the session has been moved from when it is added.
AddSession_Moved ==
    /\ mutex = None
    /\ ReactorStep("register", "spawn")
    /\ active' = Append(active, None)
    /\ since' = [since EXCEPT ![current] = Len(log)]
    /\ UNCHANGED <<current, task, tasks>>

\* active_sessions_.push_back, under the mutex.
AddSession ==
    /\ mutex = None
    /\ ReactorStep("register", "spawn")
    /\ active' = Append(active, current)
    /\ since' = [since EXCEPT ![current] = Len(log)]
    /\ UNCHANGED <<current, task, tasks>>

\* The RunningTask starts its thread, tasks_.emplace_back keeps it.
Spawn ==
    /\ ReactorStep("spawn", "select")
    /\ task' = [task EXCEPT ![current] = "check"]
    /\ tasks' = Append(tasks, current)
    /\ current' = None
    /\ UNCHANGED <<active, since>>

-----------------------------------------------------------------------------
(* The thread of client c *)

ThreadStep(c, from, to) ==
    /\ task[c] = from
    /\ task' = [task EXCEPT ![c] = to]
    /\ UNCHANGED <<link, sentUnits, reactorVars, stopVars, since>>

\* Faulty variant: the flag is not looked at.
CheckCancelled_Never(c) ==
    /\ ThreadStep(c, "check", "read")
    /\ UNCHANGED <<inbox, sharedVars, localVars, writtenVars, log>>

\* while (!cancelled)
CheckCancelled(c) ==
    /\ ThreadStep(c, "check", IF c \in cancelled THEN "remove" ELSE "read")
    /\ UNCHANGED <<inbox, sharedVars, localVars, writtenVars, log>>

\* Faulty variant: read_result.count is not looked at.
Read_WholeBuffer(c) ==
    /\ ThreadStep(c, "read", "echo")
    /\ inbox[c] # <<>>
    /\ LET n == Smaller(BufSize, Len(inbox[c])) IN
       /\ message' = [message EXCEPT ![c] = SubSeq(inbox[c], 1, n) \o SubSeq(@, n + 1, Len(@))]
       /\ inbox' = [inbox EXCEPT ![c] = SubSeq(@, n + 1, Len(@))]
    /\ UNCHANGED <<sharedVars, next, writtenVars, log>>

\* read() returns data.
Read(c) ==
    /\ ThreadStep(c, "read", "echo")
    /\ inbox[c] # <<>>
    /\ LET n == Smaller(BufSize, Len(inbox[c])) IN
       /\ message' = [message EXCEPT ![c] = SubSeq(inbox[c], 1, n)]
       /\ inbox' = [inbox EXCEPT ![c] = SubSeq(@, n + 1, Len(@))]
    /\ UNCHANGED <<sharedVars, next, writtenVars, log>>

\* Faulty variant: a timeout ends the loop.
ReadTimeout_Breaks(c) ==
    /\ ThreadStep(c, "read", "remove")
    /\ link[c] = "open" /\ inbox[c] = <<>>
    /\ UNCHANGED <<inbox, sharedVars, localVars, writtenVars, log>>

\* read() times out after 100 ms.
ReadTimeout(c) ==
    /\ ThreadStep(c, "read", "check")
    /\ link[c] = "open" /\ inbox[c] = <<>>
    /\ UNCHANGED <<inbox, sharedVars, localVars, writtenVars, log>>

\* read() returns ConnectionClosed or Error.
ReadClosed(c) ==
    /\ ThreadStep(c, "read", "remove")
    /\ link[c] = "closed" /\ inbox[c] = <<>>
    /\ UNCHANGED <<inbox, sharedVars, localVars, writtenVars, log>>

\* A write to d, whose result nobody looks at: sent becomes what d has been sent if d
\* is still there; with a slow client nothing arrives in time, or only a part.
Write(d, sent, item) ==
    \/ link[d] = "open" /\ sent' = [sent EXCEPT ![d] = Append(@, item)] /\ UNCHANGED lagging
    \/ link[d] # "open" /\ UNCHANGED <<sent, lagging>>
    \/ d \in Slow /\ lagging' = lagging \cup {d} /\ UNCHANGED sent

SendEcho(c) ==
    /\ ThreadStep(c, "echo", "notify")
    /\ Write(c, echoes, message[c])
    /\ UNCHANGED <<inbox, sharedVars, localVars, heard, log>>

\* Faulty variant: the mutex is not taken.
LockSessions_Unlocked(c) ==
    /\ ThreadStep(c, "notify", "loop")
    /\ next' = [next EXCEPT ![c] = 1]
    /\ log' = Append(log, [from |-> c, data |-> message[c]])
    /\ UNCHANGED <<inbox, sharedVars, message, writtenVars>>

\* send_notifications_to_others takes the mutex and starts its loop.
LockSessions(c) ==
    /\ mutex = None
    /\ ThreadStep(c, "notify", "loop")
    /\ mutex' = c
    /\ next' = [next EXCEPT ![c] = 1]
    /\ log' = Append(log, [from |-> c, data |-> message[c]])
    /\ UNCHANGED <<inbox, active, message, writtenVars>>

\* One turn of the loop: every session but the sender's own is written to.
Notify(c) ==
    /\ task[c] = "loop" /\ next[c] <= Len(active)
    /\ next' = [next EXCEPT ![c] = @ + 1]
    /\ IF active[next[c]] = c THEN UNCHANGED <<heard, lagging>>
       ELSE Write(active[next[c]], heard, Len(log))
    /\ UNCHANGED <<clientVars, reactorVars, sharedVars, task, message, stopVars, echoes, log, since>>

\* Faulty variant: the loop ends one session early.
UnlockSessions_Early(c) ==
    /\ ThreadStep(c, "loop", "check")
    /\ next[c] >= Len(active)
    /\ mutex' = None
    /\ UNCHANGED <<inbox, active, localVars, writtenVars, log>>

\* The loop is over, the guard releases the mutex.
UnlockSessions(c) ==
    /\ ThreadStep(c, "loop", "check")
    /\ next[c] > Len(active)
    /\ mutex' = None
    /\ UNCHANGED <<inbox, active, localVars, writtenVars, log>>

\* std::find and erase: the first place that holds c.
Without(c) ==
    IF \E i \in 1..Len(active) : active[i] = c
    THEN RemoveAt(active, CHOOSE i \in 1..Len(active) : active[i] = c /\ \A j \in 1..i - 1 : active[j] # c)
    ELSE active

\* Faulty variant: the thread ends without cleaning up.
RemoveSession_Never(c) ==
    /\ mutex = None
    /\ ThreadStep(c, "remove", "done")
    /\ UNCHANGED <<inbox, sharedVars, localVars, writtenVars, log>>

\* remove_session, under the mutex; the thread ends.
RemoveSession(c) ==
    /\ mutex = None
    /\ ThreadStep(c, "remove", "done")
    /\ active' = Without(c)
    /\ UNCHANGED <<inbox, mutex, localVars, writtenVars, log>>

-----------------------------------------------------------------------------
(* The thread that calls AceTcpServer::stop() *)

StopperStep(from, to) ==
    /\ stopper = from
    /\ stopper' = to
    /\ UNCHANGED <<inbox, sentUnits, reactor, current, sharedVars, task, localVars, writtenVars, log, since>>

\* remove_handler waits for a dispatch under way; who is not accepted yet is reset.
CloseAcceptor ==
    /\ reactor = "select"
    /\ StopperStep("idle", "tasks")
    /\ accReg' = FALSE
    /\ link' = [c \in Clients |-> IF task[c] = "none" /\ link[c] = "open" THEN "closed" ELSE link[c]]
    /\ UNCHANGED <<cancelled, tasks>>

CancelTask ==
    /\ tasks # <<>>
    /\ StopperStep("tasks", "join")
    /\ cancelled' = cancelled \cup {Head(tasks)}
    /\ UNCHANGED <<link, accReg, tasks>>

\* Faulty variant: the thread is not joined.
JoinTask_Detached ==
    /\ StopperStep("join", "tasks")
    /\ tasks' = Tail(tasks)
    /\ UNCHANGED <<link, accReg, cancelled>>

JoinTask ==
    /\ stopper = "join" /\ task[Head(tasks)] = "done"
    /\ StopperStep("join", "tasks")
    /\ tasks' = Tail(tasks)
    /\ UNCHANGED <<link, accReg, cancelled>>

StopReturns ==
    /\ tasks = <<>>
    /\ StopperStep("tasks", "done")
    /\ UNCHANGED <<link, accReg, cancelled, tasks>>

-----------------------------------------------------------------------------
ClientActions == \E c \in Clients : Connect(c) \/ ClientSend(c) \/ ClientClose(c)

ReactorThread == (\E c \in Clients : Accept(c)) \/ AddSession \/ Spawn

SessionThread(c) ==
    \/ CheckCancelled(c) \/ Read(c) \/ ReadTimeout(c) \/ ReadClosed(c)
    \/ SendEcho(c) \/ LockSessions(c) \/ Notify(c) \/ UnlockSessions(c) \/ RemoveSession(c)

StopperRuns == CancelTask \/ JoinTask \/ StopReturns

Terminated == stopper = "done" /\ UNCHANGED vars

Next ==
    \/ ClientActions
    \/ ReactorThread
    \/ \E c \in Clients : SessionThread(c)
    \/ CloseAcceptor \/ StopperRuns
    \/ Terminated

Spec == Init /\ [][Next]_vars

\* Every thread that can run does; nobody has to call stop().
FairSpec ==
    /\ Spec
    /\ WF_vars(ReactorThread)
    /\ \A c \in Clients : WF_vars(SessionThread(c))
    /\ WF_vars(StopperRuns)

-----------------------------------------------------------------------------
(* Properties *)

Requests == [from : Clients, data : Seq(1..MaxUnits)]

ClientTypes ==
    /\ link \in [Clients -> {"idle", "open", "closed"}]
    /\ inbox \in [Clients -> Seq(1..MaxUnits)]
    /\ sentUnits \in [Clients -> 0..MaxUnits]

SharedTypes ==
    /\ accReg \in BOOLEAN
    /\ reactor \in {"select", "register", "spawn"}
    /\ current \in Clients \cup {None}
    /\ active \in Seq(Clients)
    /\ mutex \in Clients \cup {None}

ThreadTypes ==
    /\ task \in [Clients -> {"none", "check", "read", "echo", "notify", "loop", "remove", "done"}]
    /\ message \in [Clients -> Seq(1..MaxUnits)]
    /\ next \in [Clients -> Nat]
    /\ cancelled \subseteq Clients
    /\ tasks \in Seq(Clients)
    /\ stopper \in {"idle", "tasks", "join", "done"}

WrittenTypes ==
    /\ echoes \in [Clients -> Seq(Seq(1..MaxUnits))]
    /\ heard \in [Clients -> Seq(Nat)]
    /\ log \in Seq(Requests)
    /\ since \in [Clients -> Nat \cup {None}]
    /\ lagging \subseteq Clients

TypeOK == ClientTypes /\ SharedTypes /\ ThreadTypes /\ WrittenTypes

\* Every client is told of all the others' requests since it came, in one order that
\* is the same for all: the mutex makes a round of notifications one step for whoever
\* watches active_sessions_.
Log == INSTANCE NotificationLog
NotifiesInOneOrder == Log!Spec

\* What is echoed to a client is, in order and without a gap, what it wrote.
EchoesAreTheStream ==
    \A c \in Clients \ lagging : LET flat == FlattenSeq(echoes[c])
                                 IN flat = [i \in 1..Len(flat) |-> i] /\ Len(flat) <= sentUnits[c]

\* active_sessions_ holds a client once while it has a thread, and no other.
ActiveHaveThreads ==
    /\ \A i, j \in 1..Len(active) : i # j => active[i] # active[j]
    /\ \A c \in Clients : (\E i \in 1..Len(active) : active[i] = c)
                              <=> task[c] \notin {"none", "done"} \/ (reactor = "spawn" /\ current = c)

\* When stop() has returned no thread is left, and none can be kept out by the mutex.
QuietAfterStop ==
    stopper = "done" => /\ \A c \in Clients : task[c] \in {"none", "done"}
                        /\ active = <<>> /\ mutex = None /\ reactor = "select"

\* stop() returns although the threads keep each other and the reactor out by the mutex.
StopEnds == stopper = "tasks" ~> stopper = "done"

\* A client's requests are taken and notified, until the server is told to stop.
RequestsAreNotified ==
    \A c \in Clients :
        inbox[c] # <<>> ~> \/ inbox[c] = <<>> /\ task[c] \in {"check", "read", "remove", "done"}
                           \/ stopper # "idle"

\* Between two rounds nobody has missed anything: who is in active_sessions_ has been
\* told of every request of the others since it came, unless a write has failed.
NobodyMissed ==
    mutex = None =>
        \A i \in 1..Len(active) : LET d == active[i] IN
            d \notin lagging /\ link[d] = "open" =>
                \A n \in since[d] + 1 .. Len(log) :
                    log[n].from # d => \E j \in 1..Len(heard[d]) : heard[d][j] = n
=============================================================================

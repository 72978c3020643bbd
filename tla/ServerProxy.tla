---------------------------- MODULE ServerProxy ----------------------------
(***************************************************************************)
(* TcpServerProxy (src/libtcpserverproxy) together with the parts of       *)
(* libtcp it runs on: the acceptor and its tasks (AceTcpServerAcceptor)    *)
(* and one RunningTask thread per accepted TCP client.                     *)
(*                                                                         *)
(* Three kinds of threads share the proxy:                                 *)
(*   reactor  runs run_reactor_event_loop: accepts TCP clients and writes  *)
(*            every datagram that comes back to every registered session;  *)
(*   task[c]  the thread of client c: reads TCP into the forwarder's one   *)
(*            buffer, sends the datagram, unregisters itself at the end;   *)
(*   stopper  the thread that calls TcpServerProxy::stop().                *)
(* The TCP clients and the UDP socket are the environment.                 *)
(***************************************************************************)
EXTENDS Naturals, Sequences, SequencesExt

CONSTANTS
    Conns,      \* TCP connections clients may open, one after the other or at once
    Keys,       \* peer endpoints, the keys of tcp_sessions_
    None,       \* "no connection", "no key"
    BufSize,    \* size of UdpForwarder::tcp_buffer_, in units of data
    MaxUnits,   \* bound: units of data a client sends
    Replies,    \* datagrams that may come back from the client proxy
    MaxReplies, \* bound: datagrams that come back
    ReuseKeys,  \* may a client reconnect from the endpoint of a reset connection?
    Faults      \* which system calls may fail: subset of FaultKinds

FaultKinds == {"accept", "recv", "checksum", "send", "partial"}
Units == Conns \X (1..MaxUnits)    \* <<c, n>>: the n-th unit client c sends
ReplyUnits == UNION {{d[i] : i \in 1..Len(d)} : d \in Replies}
NoByte == <<>>                     \* what the buffer holds before the first read

ASSUME ServerProxyAssumption ==
    /\ None \notin Conns \cup Keys
    /\ BufSize \in Nat \ {0}
    /\ MaxUnits \in Nat
    /\ MaxReplies \in Nat
    /\ Replies \subseteq Seq(ReplyUnits)
    /\ ReuseKeys \in BOOLEAN
    /\ Faults \subseteq FaultKinds

VARIABLES
    link,       \* link[c]: the TCP connection, as its client left it
    peer,       \* peer[c]: the endpoint it comes from
    inbox,      \* inbox[c]: units that arrived and no read() has taken
    sentUnits,  \* sentUnits[c]: number of units the client has sent
    outbox,     \* outbox[c]: units written back to the client
    backlog,    \* connections accept() has not returned yet
    toUdp,      \* datagrams sent to the client proxy
    fromUdp,    \* datagrams waiting at the socket of udp_client_
    nReplies,   \* number of datagrams that came back so far
    udpReg,     \* is TcpServerProxy registered with the reactor?
    accReg,     \* is the acceptor registered with the reactor?
    loopEnded,  \* end_reactor_event_loop() has been called
    reactor,    \* where the reactor thread is
    current,    \* the connection handle_client is registering
    reply,      \* the datagram handle_udp_input is distributing
    todo,       \* keys its loop over tcp_sessions_ has still to visit
    sessions,   \* tcp_sessions_: key -> connection, None where there is none
    task,       \* task[c]: where the thread of c is
    cancelled,  \* connections whose RunningTask::cancelled_ is set
    tasks,      \* AceTcpServerAcceptor::tasks_, those not stopped yet
    tcpBuffer,  \* UdpForwarder::tcp_buffer_, one for all threads
    count,      \* count[c]: IOResult::count of the last read of c
    stopper,    \* where the thread that calls stop() is
    raced       \* two accesses to tcp_sessions_ have overlapped (undefined behaviour)

clientVars  == <<link, peer, sentUnits>>
udpVars     == <<toUdp, fromUdp, nReplies>>
reactorVars == <<udpReg, accReg, loopEnded, reactor, current, reply, todo>>
threadVars  == <<task, cancelled, tasks, tcpBuffer, count, stopper>>
vars == <<clientVars, inbox, outbox, backlog, udpVars, reactorVars, sessions, threadVars, raced>>

Prefix(s, n) == SubSeq(s, 1, n)
\* Faulty variant: the size of the buffer is not looked at.
Smaller_Unbounded(m, n) == n
Smaller(m, n) == IF m <= n THEN m ELSE n

Init ==
    /\ link = [c \in Conns |-> "idle"]
    /\ peer = [c \in Conns |-> None]
    /\ inbox = [c \in Conns |-> <<>>]
    /\ sentUnits = [c \in Conns |-> 0]
    /\ outbox = [c \in Conns |-> <<>>]
    /\ backlog = <<>>
    /\ toUdp = <<>>
    /\ fromUdp = <<>>
    /\ nReplies = 0
    /\ udpReg = TRUE
    /\ accReg = TRUE
    /\ loopEnded = FALSE
    /\ reactor = "select"
    /\ current = None
    /\ reply = <<>>
    /\ todo = {}
    /\ sessions = [k \in Keys |-> None]
    /\ task = [c \in Conns |-> "none"]
    /\ cancelled = {}
    /\ tasks = <<>>
    /\ tcpBuffer = [i \in 1..BufSize |-> NoByte]
    /\ count = [c \in Conns |-> 0]
    /\ stopper = "idle"
    /\ raced = FALSE

-----------------------------------------------------------------------------
(* The TCP clients and the UDP network *)

\* A client connects; a key comes back only after the connection that held it was reset.
Connect(c, k) ==
    /\ link[c] = "idle" /\ accReg
    /\ \A d \in Conns : peer[d] = k => ReuseKeys /\ link[d] = "rst"
    /\ link' = [link EXCEPT ![c] = "open"]
    /\ peer' = [peer EXCEPT ![c] = k]
    /\ backlog' = Append(backlog, c)
    /\ UNCHANGED <<inbox, sentUnits, outbox, udpVars, reactorVars, sessions, threadVars, raced>>

ClientSend(c) ==
    /\ link[c] = "open" /\ sentUnits[c] < MaxUnits
    /\ sentUnits' = [sentUnits EXCEPT ![c] = @ + 1]
    /\ inbox' = [inbox EXCEPT ![c] = Append(@, <<c, sentUnits[c] + 1>>)]
    /\ UNCHANGED <<link, peer, outbox, backlog, udpVars, reactorVars, sessions, threadVars, raced>>

\* close() of a client: FIN behind its data, or (linger time 0) RST, which loses the
\* data still on their way.
ClientClose(c) ==
    /\ link[c] = "open"
    /\ \/ link' = [link EXCEPT ![c] = "fin"] /\ UNCHANGED inbox
       \/ /\ link' = [link EXCEPT ![c] = "rst"]
          /\ \E n \in 0..Len(inbox[c]) : inbox' = [inbox EXCEPT ![c] = Prefix(@, n)]
    /\ UNCHANGED <<peer, sentUnits, outbox, backlog, udpVars, reactorVars, sessions, threadVars, raced>>

ReplyArrives(d) ==
    /\ nReplies < MaxReplies
    /\ nReplies' = nReplies + 1
    /\ fromUdp' = Append(fromUdp, d)
    /\ UNCHANGED <<clientVars, inbox, outbox, backlog, toUdp, reactorVars, sessions, threadVars, raced>>

-----------------------------------------------------------------------------
(* The reactor thread *)

Erasing == {c \in Conns : task[c] = "erasing"}

\* handle_events dispatches a ready handler; it finishes its round even when
\* end_reactor_event_loop() has been called.
Dispatching(handlerRegistered) == reactor = "select" /\ handlerRegistered

\* AceTcpServerAcceptor::handle_input, up to register_tcp_session in handle_client.
Accept ==
    /\ Dispatching(accReg) /\ backlog # <<>>
    /\ current' = Head(backlog)
    /\ backlog' = Tail(backlog)
    /\ reactor' = "insert"
    /\ raced' = (raced \/ Erasing # {})
    /\ UNCHANGED <<clientVars, inbox, outbox, udpVars, udpReg, accReg, loopEnded, reply, todo, sessions, threadVars>>

\* accept() fails: handle_input returns -1 and the reactor drops the acceptor for good.
AcceptFails ==
    /\ Dispatching(accReg) /\ backlog # <<>> /\ "accept" \in Faults
    /\ accReg' = FALSE
    /\ UNCHANGED <<clientVars, inbox, outbox, backlog, udpVars, udpReg, loopEnded, reactor, current, reply, todo,
                   sessions, threadVars, raced>>

\* tcp_sessions_[client_key] = tcp_session; an insertion that raced may be lost.
Register ==
    /\ reactor = "insert"
    /\ \/ sessions' = [sessions EXCEPT ![peer[current]] = current]
       \/ raced /\ UNCHANGED sessions
    /\ reactor' = "spawn"
    /\ UNCHANGED <<clientVars, inbox, outbox, backlog, udpVars, udpReg, accReg, loopEnded, current, reply, todo,
                   threadVars, raced>>

\* createSessionTask starts the thread, tasks_.emplace_back keeps it.
Spawn ==
    /\ reactor = "spawn"
    /\ task' = [task EXCEPT ![current] = "check"]
    /\ tasks' = Append(tasks, current)
    /\ current' = None
    /\ reactor' = "select"
    /\ UNCHANGED <<clientVars, inbox, outbox, backlog, udpVars, udpReg, accReg, loopEnded, reply, todo,
                   sessions, cancelled, tcpBuffer, count, stopper, raced>>

\* receive_from has no timeout: a datagram that select has seen may have a wrong checksum
\* and be dropped, and then the reactor thread waits inside for the next one.
UdpInputBlocks ==
    /\ Dispatching(udpReg) /\ fromUdp # <<>> /\ "checksum" \in Faults
    /\ fromUdp' = Tail(fromUdp)
    /\ reactor' = "blocked"
    /\ UNCHANGED <<clientVars, inbox, outbox, backlog, toUdp, nReplies, udpReg, accReg, loopEnded, current, reply, todo,
                   sessions, threadVars, raced>>

\* receive_from returns.
Receiving == (Dispatching(udpReg) \/ reactor = "blocked") /\ fromUdp # <<>>

\* handle_udp_input: receive_from, and the start of the loop over tcp_sessions_.
UdpInput ==
    /\ Receiving /\ Head(fromUdp) # <<>>
    /\ reply' = Head(fromUdp)
    /\ fromUdp' = Tail(fromUdp)
    /\ todo' = {k \in Keys : sessions[k] # None}
    /\ reactor' = "iterate"
    /\ raced' = (raced \/ Erasing # {})
    /\ UNCHANGED <<clientVars, inbox, outbox, backlog, toUdp, nReplies, udpReg, accReg, loopEnded, current,
                   sessions, threadVars>>

\* An empty datagram is consumed and nothing else happens.
UdpInputEmpty ==
    /\ Receiving /\ Head(fromUdp) = <<>>
    /\ fromUdp' = Tail(fromUdp)
    /\ reactor' = "select"
    /\ UNCHANGED <<clientVars, inbox, outbox, backlog, toUdp, nReplies, udpReg, accReg, loopEnded, current, reply, todo,
                   sessions, threadVars, raced>>

\* receive_from fails: handle_input returns -1 and the reactor drops the UDP handler for good.
UdpInputFails ==
    /\ Receiving /\ "recv" \in Faults
    /\ udpReg' = FALSE
    /\ reactor' = "select"
    /\ UNCHANGED <<clientVars, inbox, outbox, backlog, udpVars, accReg, loopEnded, current, reply, todo,
                   sessions, threadVars, raced>>

\* One turn of the loop: write to the session; whatever write() returns is only logged.
Broadcast(k) ==
    /\ reactor = "iterate" /\ k \in todo
    /\ todo' = todo \ {k}
    /\ LET c == sessions[k]
           written == IF c = None \/ link[c] # "open" THEN {0}
                      ELSE {Len(reply)} \cup (IF "partial" \in Faults THEN 0..Len(reply) ELSE {})
       IN IF c = None THEN UNCHANGED outbox
          ELSE \E n \in written : outbox' = [outbox EXCEPT ![c] = @ \o Prefix(reply, n)]
    /\ UNCHANGED <<clientVars, inbox, backlog, udpVars, udpReg, accReg, loopEnded, reactor, current, reply,
                   sessions, threadVars, raced>>

\* Faulty variant: handle_input returns -1 after the loop.
BroadcastEnds_Failing ==
    /\ reactor = "iterate" /\ (todo = {} \/ raced)
    /\ todo' = {}
    /\ reply' = <<>>
    /\ reactor' = "select"
    /\ udpReg' = FALSE
    /\ UNCHANGED <<clientVars, inbox, outbox, backlog, udpVars, accReg, loopEnded, current,
                   sessions, threadVars, raced>>

\* The loop is over (a raced one may end early); handle_input returns 0.
BroadcastEnds ==
    /\ reactor = "iterate" /\ (todo = {} \/ raced)
    /\ todo' = {}
    /\ reply' = <<>>
    /\ reactor' = "select"
    /\ UNCHANGED <<clientVars, inbox, outbox, backlog, udpVars, udpReg, accReg, loopEnded, current,
                   sessions, threadVars, raced>>

\* run_reactor_event_loop returns, and with it start().
ReactorExits ==
    /\ reactor = "select" /\ loopEnded
    /\ reactor' = "exited"
    /\ UNCHANGED <<clientVars, inbox, outbox, backlog, udpVars, udpReg, accReg, loopEnded, current, reply, todo,
                   sessions, threadVars, raced>>

\* SignalRegistration::handle_signal
Sigint ==
    /\ ~loopEnded
    /\ loopEnded' = TRUE
    /\ UNCHANGED <<clientVars, inbox, outbox, backlog, udpVars, udpReg, accReg, reactor, current, reply, todo,
                   sessions, threadVars, raced>>

-----------------------------------------------------------------------------
(* The thread of connection c: SessionManager's task around forwardTcpToUdp *)

SessionStep(c, from, to) ==
    /\ task[c] = from
    /\ task' = [task EXCEPT ![c] = to]
    /\ UNCHANGED <<clientVars, outbox, backlog, fromUdp, nReplies, reactorVars, cancelled, tasks, stopper>>

\* Faulty variant: the flag is not looked at.
CheckCancelled_Never(c) ==
    /\ SessionStep(c, "check", "read")
    /\ UNCHANGED <<inbox, toUdp, sessions, tcpBuffer, count, raced>>

\* while (!cancelled)
CheckCancelled(c) ==
    /\ SessionStep(c, "check", IF c \in cancelled THEN "erase" ELSE "read")
    /\ UNCHANGED <<inbox, toUdp, sessions, tcpBuffer, count, raced>>

\* read() returns data: it overwrites the front of the buffer all threads share.
Read(c) ==
    /\ SessionStep(c, "read", "send")
    /\ inbox[c] # <<>>
    /\ LET n == Smaller(BufSize, Len(inbox[c])) IN
       /\ tcpBuffer' = [i \in 1..BufSize |-> IF i <= n THEN inbox[c][i] ELSE tcpBuffer[i]]
       /\ inbox' = [inbox EXCEPT ![c] = SubSeq(@, n + 1, Len(@))]
       /\ count' = [count EXCEPT ![c] = n]
    /\ UNCHANGED <<toUdp, sessions, raced>>

\* Faulty variant: a timeout ends the loop.
ReadTimeout_Breaks(c) ==
    /\ SessionStep(c, "read", "erase")
    /\ link[c] = "open" /\ inbox[c] = <<>>
    /\ UNCHANGED <<inbox, toUdp, sessions, tcpBuffer, count, raced>>

\* read() times out after 100 ms.
ReadTimeout(c) ==
    /\ SessionStep(c, "read", "check")
    /\ link[c] = "open" /\ inbox[c] = <<>>
    /\ UNCHANGED <<inbox, toUdp, sessions, tcpBuffer, count, raced>>

\* read() returns ConnectionClosed or Error: the loop breaks.
ReadClosed(c) ==
    /\ SessionStep(c, "read", "erase")
    /\ link[c] # "open" /\ inbox[c] = <<>>
    /\ UNCHANGED <<inbox, toUdp, sessions, tcpBuffer, count, raced>>

\* Faulty variant: the whole buffer is sent.
Forward_WholeBuffer(c) ==
    /\ SessionStep(c, "send", "check")
    /\ toUdp' = Append(toUdp, Prefix(tcpBuffer, BufSize))
    /\ UNCHANGED <<inbox, sessions, tcpBuffer, count, raced>>

\* forwardToUdpProxy: one datagram with the first count units of the buffer as it is now.
Forward(c) ==
    /\ SessionStep(c, "send", "check")
    /\ \/ toUdp' = Append(toUdp, Prefix(tcpBuffer, count[c]))
       \/ "send" \in Faults /\ UNCHANGED toUdp
    /\ UNCHANGED <<inbox, sessions, tcpBuffer, count, raced>>

\* unregister_tcp_session begins to erase the key, with no lock.
EraseBegins(c) ==
    /\ SessionStep(c, "erase", "erasing")
    /\ raced' = (raced \/ Erasing # {} \/ reactor \in {"insert", "iterate"})
    /\ UNCHANGED <<inbox, toUdp, sessions, tcpBuffer, count>>

\* Faulty variant: the thread ends without cleaning up.
EraseEnds_Forgotten(c) ==
    /\ SessionStep(c, "erasing", "done")
    /\ UNCHANGED <<inbox, toUdp, sessions, tcpBuffer, count, raced>>

\* The erase is done (a raced one may be lost) and the thread ends.
EraseEnds(c) ==
    /\ SessionStep(c, "erasing", "done")
    /\ \/ sessions' = [sessions EXCEPT ![peer[c]] = None]
       \/ raced /\ UNCHANGED sessions
    /\ UNCHANGED <<inbox, toUdp, tcpBuffer, count, raced>>

-----------------------------------------------------------------------------
(* The thread that calls TcpServerProxy::stop() *)

\* Faulty variant: remove_handler waits for nothing.
TokenFree_Ignored == TRUE

\* remove_handler takes the reactor's token: it waits for a dispatch under way.
TokenFree == reactor \in {"select", "exited"}

StopperStep(from, to) ==
    /\ stopper = from
    /\ stopper' = to
    /\ UNCHANGED <<peer, inbox, sentUnits, outbox, udpVars, reactor, current, reply, todo, sessions, task,
                   tcpBuffer, count, raced>>

StopBegins ==
    /\ StopperStep("idle", "udp")
    /\ UNCHANGED <<link, backlog, udpReg, accReg, loopEnded, cancelled, tasks>>

RemoveUdpHandler ==
    /\ StopperStep("udp", "acceptor") /\ TokenFree
    /\ udpReg' = FALSE
    /\ UNCHANGED <<link, backlog, accReg, loopEnded, cancelled, tasks>>

\* AceTcpServerAcceptor::close: remove the handler, close the listening socket.
CloseAcceptor ==
    /\ StopperStep("acceptor", "tasks") /\ TokenFree
    /\ accReg' = FALSE
    /\ backlog' = <<>>
    /\ link' = [c \in Conns |-> IF \E i \in 1..Len(backlog) : backlog[i] = c THEN "rst" ELSE link[c]]
    /\ UNCHANGED <<udpReg, loopEnded, cancelled, tasks>>

\* stop_all_tasks: RunningTask::stop of one task after the other, cancel and join.
CancelTask ==
    /\ tasks # <<>>
    /\ StopperStep("tasks", "join")
    /\ cancelled' = cancelled \cup {Head(tasks)}
    /\ UNCHANGED <<link, backlog, udpReg, accReg, loopEnded, tasks>>

\* Faulty variant: the thread is not joined.
JoinTask_Detached ==
    /\ StopperStep("join", "tasks")
    /\ tasks' = Tail(tasks)
    /\ UNCHANGED <<link, backlog, udpReg, accReg, loopEnded, cancelled>>

JoinTask ==
    /\ stopper = "join" /\ task[Head(tasks)] = "done"
    /\ StopperStep("join", "tasks")
    /\ tasks' = Tail(tasks)
    /\ UNCHANGED <<link, backlog, udpReg, accReg, loopEnded, cancelled>>

EndLoop ==
    /\ tasks = <<>>
    /\ StopperStep("tasks", "done")
    /\ loopEnded' = TRUE
    /\ UNCHANGED <<link, backlog, udpReg, accReg, cancelled, tasks>>

-----------------------------------------------------------------------------
Environment ==
    \/ \E c \in Conns, k \in Keys : Connect(c, k)
    \/ \E c \in Conns : ClientSend(c) \/ ClientClose(c)
    \/ \E d \in Replies : ReplyArrives(d)

ReactorThread ==
    \/ Accept \/ AcceptFails \/ Register \/ Spawn
    \/ UdpInput \/ UdpInputEmpty \/ UdpInputFails \/ UdpInputBlocks
    \/ (\E k \in Keys : Broadcast(k)) \/ BroadcastEnds

SessionThread(c) ==
    \/ CheckCancelled(c) \/ Read(c) \/ ReadTimeout(c) \/ ReadClosed(c)
    \/ Forward(c) \/ EraseBegins(c) \/ EraseEnds(c)

StopperRuns == RemoveUdpHandler \/ CloseAcceptor \/ CancelTask \/ JoinTask \/ EndLoop

\* What overlapping accesses to an unordered_map may also do: end the process.
Crash ==
    /\ raced /\ reactor # "crashed"
    /\ reactor' = "crashed"
    /\ stopper' = "crashed"
    /\ task' = [c \in Conns |-> "crashed"]
    /\ UNCHANGED <<clientVars, inbox, outbox, backlog, udpVars, udpReg, accReg, loopEnded, current, reply, todo,
                   sessions, cancelled, tasks, tcpBuffer, count, raced>>

\* Everything has come to its end, or the reactor thread waits in receive_from for a
\* datagram and none comes any more.
Terminated ==
    /\ \/ reactor = "crashed"
       \/ stopper = "done" /\ reactor = "exited"
       \/ reactor = "blocked" /\ fromUdp = <<>>
    /\ UNCHANGED vars

Next ==
    \/ Environment
    \/ ReactorThread \/ ReactorExits
    \/ \E c \in Conns : SessionThread(c)
    \/ StopBegins \/ StopperRuns
    \/ Sigint
    \/ Crash
    \/ Terminated

Spec == Init /\ [][Next]_vars

\* Every thread that can run does; main() calls stop() once start() has returned.
Fairness ==
    /\ WF_vars(ReactorThread)
    /\ WF_vars(ReactorExits)
    /\ \A c \in Conns : WF_vars(SessionThread(c))
    /\ WF_vars(StopperRuns)
    /\ WF_vars(reactor = "exited" /\ StopBegins)

FairSpec == Spec /\ Fairness

-----------------------------------------------------------------------------
(* Properties *)

ClientTypes ==
    /\ link \in [Conns -> {"idle", "open", "fin", "rst"}]
    /\ peer \in [Conns -> Keys \cup {None}]
    /\ inbox \in [Conns -> Seq(Units)]
    /\ sentUnits \in [Conns -> 0..MaxUnits]
    /\ outbox \in [Conns -> Seq(ReplyUnits)]
    /\ backlog \in Seq(Conns)

UdpTypes ==
    /\ toUdp \in Seq(Seq(Units \cup {NoByte}))
    /\ fromUdp \in Seq(Replies)
    /\ nReplies \in 0..MaxReplies

ReactorTypes ==
    /\ udpReg \in BOOLEAN /\ accReg \in BOOLEAN /\ loopEnded \in BOOLEAN /\ raced \in BOOLEAN
    /\ reactor \in {"select", "insert", "spawn", "iterate", "blocked", "exited", "crashed"}
    /\ current \in Conns \cup {None}
    /\ reply \in Replies \cup {<<>>}
    /\ todo \subseteq Keys
    /\ sessions \in [Keys -> Conns \cup {None}]

ThreadTypes ==
    /\ task \in [Conns -> {"none", "check", "read", "send", "erase", "erasing", "done", "crashed"}]
    /\ cancelled \subseteq Conns
    /\ tasks \in Seq(Conns)
    /\ tcpBuffer \in [1..BufSize -> Units \cup {NoByte}]
    /\ count \in [Conns -> 0..BufSize]
    /\ stopper \in {"idle", "udp", "acceptor", "tasks", "join", "done", "crashed"}

TypeOK == ClientTypes /\ UdpTypes /\ ReactorTypes /\ ThreadTypes

\* A client whose thread still forwards is in tcp_sessions_, so that answers
\* reach it: handle_client registers it before its thread exists, and only its
\* own thread takes it out (as long as no endpoint comes back).
ForwardingIsRegistered ==
    ~raced => \A c \in Conns : task[c] \in {"check", "read", "send", "erase"} =>
                  peer[c] \in Keys /\ sessions[peer[c]] = c

\* tcp_sessions_ keeps nobody whose thread has ended: an entry belongs to the
\* key's own connection, and that one is being set up or has a thread.
RegisteredHasThread ==
    ~raced => \A k \in Keys : LET c == sessions[k] IN
                  c # None => /\ peer[c] = k
                              /\ task[c] \notin {"none", "done"} \/ (reactor = "spawn" /\ current = c)

\* What the map and the threads agree on.
MapAgreesWithThreads == ForwardingIsRegistered /\ RegisteredHasThread

\* The map is accessed by two threads at once only after a client has left: neither new
\* clients and answers, nor stop() with the threads it cancels, make such a race of themselves.
RaceNeedsALeaver == raced => \E c \in Conns : link[c] \in {"fin", "rst"}

\* When stop() returns nothing runs any more: every accepted client's thread has
\* ended and unregistered its session, and no dispatch is under way.
QuietAfterStop ==
    ~raced /\ stopper = "done" =>
        /\ \A c \in Conns : task[c] \in {"none", "done"}
        /\ \A k \in Keys : sessions[k] = None
        /\ reactor \in {"select", "exited"}

\* Once stop() has removed the UDP handler no client is sent anything.
NoReplyAfterHandlerRemoved ==
    [][(stopper \in {"acceptor", "tasks", "join", "done"}) => UNCHANGED outbox]_vars

\* What a proxy with one client sends to the client proxy is, in order, what the client
\* wrote, but for datagrams that could not be sent. True of no proxy with more clients:
\* see IntactDatagrams.
Forwarded(c) == LET flat == FlattenSeq(toUdp)
                IN [i \in 1..Len(flat) |-> IF flat[i] = NoByte \/ flat[i][1] # c THEN 0 ELSE flat[i][2]]
Forwarding(c) == INSTANCE OrderedChannel WITH sent <- sentUnits[c], delivered <- Forwarded(c)
ForwardsInOrder ==
    /\ \A c \in Conns : Forwarding(c)!Init
    /\ [][\A c \in Conns : [Forwarding(c)!Next]_<<sentUnits[c], Forwarded(c)>>]_vars

\* Every datagram carries a stretch of one client's stream (UdpForwarder).
IntactDatagrams ==
    \A i \in 1..Len(toUdp) : \A j \in 1..Len(toUdp[i]) :
        toUdp[i][j] = <<toUdp[i][1][1], toUdp[i][1][2] + j - 1>>

\* No two threads are inside tcp_sessions_ at once, one of them writing.
MapAccessesSerialized == ~raced

\* An open connection whose thread still forwards is in tcp_sessions_, whatever
\* endpoint it comes from (register_tcp_session "for a specific client endpoint").
OpenIsRegistered ==
    ~raced => \A c \in Conns : (link[c] = "open" /\ task[c] \in {"check", "read", "send"}) =>
                  sessions[peer[c]] = c

\* A client that connects and stays is accepted and gets its thread, as long as
\* nobody stops the proxy.
ClientIsAccepted ==
    \A c \in Conns : link[c] = "open" ~> task[c] # "none" \/ link[c] # "open" \/ stopper # "idle" \/ loopEnded

\* stop() returns: the reactor gives the token up (so without the fault "checksum"), every
\* thread sees cancelled_.
StopReturns == stopper = "udp" ~> stopper = "done" \/ raced

\* The data of a client is taken and sent on, unless a failed accept() has cost the
\* proxy its acceptor before the client's turn, or the proxy is told to stop.
DataIsTaken ==
    \A c \in Conns :
        inbox[c] # <<>> ~> \/ inbox[c] = <<>>
                           \/ ~accReg /\ task[c] = "none"
                           \/ stopper # "idle" \/ loopEnded

\* A datagram that comes back is distributed, unless the proxy is told to stop; so the
\* UDP handler survives all that it meets but a failed receive (fault "recv").
RepliesAreTaken == fromUdp # <<>> ~> fromUdp = <<>> \/ stopper # "idle" \/ loopEnded
=============================================================================

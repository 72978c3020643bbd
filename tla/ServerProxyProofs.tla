------------------------- MODULE ServerProxyProofs -------------------------
(***************************************************************************)
(* Proofs about ServerProxy, for any number of clients and endpoints, any  *)
(* buffer size and any set of faults: the types, the agreement of          *)
(* tcp_sessions_ with the threads, what a race on it takes, and what       *)
(* stop() leaves behind; and, for a proxy with one client, that its data   *)
(* go out in the order it wrote them.                                      *)
(***************************************************************************)
EXTENDS ServerProxy, SequenceLemmas

-----------------------------------------------------------------------------
(* The inductive invariant *)

Waits(c) == \E i \in 1..Len(backlog) : backlog[i] = c
Kept(c) == \E i \in 1..Len(tasks) : tasks[i] = c
Registering(c) == reactor \in {"insert", "spawn"} /\ current = c
Runs(c) == task[c] \notin {"none", "done", "crashed"}
Left(c) == link[c] \in {"fin", "rst"}

\* A connection is nowhere, then in the backlog, then with the reactor's thread, and
\* then it has a thread of its own.
OnePlace ==
    /\ \A c \in Conns : link[c] = "idle" <=> peer[c] = None
    /\ \A c \in Conns : Waits(c) \/ Registering(c) => link[c] # "idle" /\ task[c] \in {"none", "crashed"}
    /\ \A c \in Conns : task[c] \notin {"none", "crashed"} => link[c] # "idle"
    /\ \A c \in Conns : Waits(c) => ~Registering(c)
    /\ \A i, j \in 1..Len(backlog) : backlog[i] = backlog[j] => i = j
    /\ reactor \in {"insert", "spawn"} => current \in Conns

\* No thread runs that stop() does not know; the crash of the process is that of a race.
ThreadsAreKept ==
    /\ \A c \in Conns : Runs(c) => Kept(c)
    /\ \A c \in Conns : task[c] = "crashed" => raced
    /\ reactor = "crashed" \/ stopper = "crashed" => raced
    /\ stopper = "join" => tasks # <<>>

\* What stop() has removed is not dispatched any more.
Removed ==
    /\ stopper \in {"acceptor", "tasks", "join", "done"} => ~udpReg /\ reactor \notin {"iterate", "blocked"}
    /\ stopper \in {"tasks", "join", "done"} => ~accReg /\ reactor \notin {"insert", "spawn"}
    /\ stopper = "done" => tasks = <<>>

\* stop() cancels one thread after the other, and only a client that leaves or stop()
\* makes a thread end.
OneIsCancelled ==
    /\ \A c \in cancelled : stopper \in {"tasks", "join", "done", "crashed"}
    /\ ~raced => \A c \in cancelled : task[c] = "done" \/ (stopper = "join" /\ c = tasks[1])
    /\ \A c \in Conns : task[c] \in {"erase", "erasing"} => c \in cancelled \/ Left(c)

IInv ==
    /\ TypeOK
    /\ OnePlace
    /\ ThreadsAreKept
    /\ Removed
    /\ OneIsCancelled
    /\ RaceNeedsALeaver
    /\ RegisteredHasThread

OneClient == \A c, d \in Conns : c = d

\* With endpoints that do not come back: whose key it is, and that the map has it.
OwnKeys == \A c, d \in Conns : peer[c] = peer[d] /\ peer[c] # None => c = d
KeysInv ==
    /\ OwnKeys
    /\ ForwardingIsRegistered
    /\ ~raced /\ reactor = "spawn" => sessions[peer[current]] = current

-----------------------------------------------------------------------------
(* Types *)

\* What a read takes: at most the buffer, at most what there is.
LEMMA SmallerProperties ==
    ASSUME NEW n \in Nat
    PROVE  Smaller(BufSize, n) \in 0..n /\ Smaller(BufSize, n) \in 0..BufSize
BY ServerProxyAssumption DEF Smaller

\* The steps of the clients and of the network.
LEMMA EnvironmentTypes ==
    ASSUME TypeOK, Environment
    PROVE  TypeOK'
<1> USE DEF TypeOK, clientVars, udpVars, reactorVars, threadVars
<1>1. ASSUME NEW c \in Conns, NEW k \in Keys, Connect(c, k) PROVE TypeOK'
  <2>1. backlog' \in Seq(Conns)
    BY <1>1, AddLast DEF Connect, ClientTypes
  <2>2. ClientTypes'
    BY <1>1, <2>1 DEF Connect, ClientTypes
  <2>3. UdpTypes' /\ ReactorTypes' /\ ThreadTypes'
    BY <1>1 DEF Connect, UdpTypes, ReactorTypes, ThreadTypes
  <2>4. QED
    BY <2>2, <2>3 DEF TypeOK
<1>2. ASSUME NEW c \in Conns, ClientSend(c) PROVE TypeOK'
  <2>1. sentUnits[c] + 1 \in 1..MaxUnits
    BY <1>2, ServerProxyAssumption DEF ClientSend, ClientTypes
  <2>2. <<c, sentUnits[c] + 1>> \in Units
    BY <2>1 DEF Units
  <2>3. Append(inbox[c], <<c, sentUnits[c] + 1>>) \in Seq(Units)
    BY <2>2, AddLast DEF ClientTypes
  <2>4. sentUnits[c] + 1 \in 0..MaxUnits
    BY <2>1, ServerProxyAssumption
  <2>5. ClientTypes'
    BY <1>2, <2>3, <2>4 DEF ClientSend, ClientTypes
  <2>6. UdpTypes' /\ ReactorTypes' /\ ThreadTypes'
    BY <1>2 DEF ClientSend, UdpTypes, ReactorTypes, ThreadTypes
  <2>7. QED
    BY <2>5, <2>6 DEF TypeOK
<1>3. ASSUME NEW c \in Conns, ClientClose(c) PROVE TypeOK'
  <2>1. \A n \in 0..Len(inbox[c]) : Prefix(inbox[c], n) \in Seq(Units)
    BY PrefixType DEF ClientTypes, Prefix
  <2>2. inbox' \in [Conns -> Seq(Units)]
    BY <1>3, <2>1 DEF ClientClose, ClientTypes
  <2>3. ClientTypes'
    BY <1>3, <2>2 DEF ClientClose, ClientTypes
  <2>4. UdpTypes' /\ ReactorTypes' /\ ThreadTypes'
    BY <1>3 DEF ClientClose, UdpTypes, ReactorTypes, ThreadTypes
  <2>5. QED
    BY <2>3, <2>4 DEF TypeOK
<1>4. ASSUME NEW d \in Replies, ReplyArrives(d) PROVE TypeOK'
  <2>1. fromUdp' \in Seq(Replies)
    BY <1>4, AddLast DEF ReplyArrives, UdpTypes
  <2>2. UdpTypes'
    BY <1>4, <2>1, ServerProxyAssumption DEF ReplyArrives, UdpTypes
  <2>3. ClientTypes' /\ ReactorTypes' /\ ThreadTypes'
    BY <1>4 DEF ReplyArrives, ClientTypes, ReactorTypes, ThreadTypes
  <2>4. QED
    BY <2>2, <2>3 DEF TypeOK
<1>5. QED
  BY <1>1, <1>2, <1>3, <1>4 DEF Environment

\* What a session is sent is data.
LEMMA BroadcastTypes ==
    ASSUME TypeOK, NEW k \in Keys, Broadcast(k)
    PROVE  outbox' \in [Conns -> Seq(ReplyUnits)]
<1>1. reply \in Seq(ReplyUnits) /\ Len(reply) \in Nat
  <2>1. reply \in Replies \/ reply = <<>>
    BY DEF TypeOK, ReactorTypes
  <2>2. reply \in Seq(ReplyUnits)
    BY <2>1, EmptySeq, ServerProxyAssumption
  <2>3. QED
    BY <2>2, LenProperties
<1>2. ASSUME NEW c \in Conns, NEW n \in 0..Len(reply) PROVE outbox[c] \o Prefix(reply, n) \in Seq(ReplyUnits)
  <2>1. Prefix(reply, n) \in Seq(ReplyUnits)
    BY <1>1, PrefixType DEF Prefix
  <2>2. QED
    BY <2>1, ConcatProperties DEF TypeOK, ClientTypes
<1>3. CASE sessions[k] = None
  BY <1>3 DEF Broadcast, TypeOK, ClientTypes
<1>4. CASE sessions[k] # None
  <2>1. sessions[k] \in Conns
    BY <1>4 DEF TypeOK, ReactorTypes
  <2> DEFINE written == IF link[sessions[k]] # "open" THEN {0}
                        ELSE {Len(reply)} \cup (IF "partial" \in Faults THEN 0..Len(reply) ELSE {})
  <2>2. PICK n \in written : outbox' = [outbox EXCEPT ![sessions[k]] = @ \o Prefix(reply, n)]
    BY <1>4, Zenon DEF Broadcast
  <2>3. n \in 0..Len(reply)
    BY <1>1
  <2>4. QED
    BY <1>2, <2>1, <2>2, <2>3 DEF TypeOK, ClientTypes
<1>5. QED
  BY <1>3, <1>4

\* The reactor's thread. Whom it registers is a connection.
LEMMA ReactorTypesKept ==
    ASSUME TypeOK, OnePlace, ReactorThread \/ ReactorExits \/ Sigint
    PROVE  TypeOK'
<1> USE DEF TypeOK, clientVars, udpVars, reactorVars, threadVars
<1>1. CASE Accept
  <2>1. Head(backlog) \in Conns /\ Tail(backlog) \in Seq(Conns)
    BY <1>1, TakeFirst DEF Accept, ClientTypes
  <2>2. ClientTypes'
    BY <1>1, <2>1 DEF Accept, ClientTypes
  <2>3. ReactorTypes'
    BY <1>1, <2>1 DEF Accept, ReactorTypes
  <2>4. UdpTypes' /\ ThreadTypes'
    BY <1>1 DEF Accept, UdpTypes, ThreadTypes
  <2>5. QED
    BY <2>2, <2>3, <2>4 DEF TypeOK
<1>2. CASE AcceptFails
  <2>1. ReactorTypes'
    BY <1>2 DEF AcceptFails, ReactorTypes
  <2>2. ClientTypes' /\ UdpTypes' /\ ThreadTypes'
    BY <1>2 DEF AcceptFails, ClientTypes, UdpTypes, ThreadTypes
  <2>3. QED
    BY <2>1, <2>2 DEF TypeOK
<1>3. CASE Register
  <2>1. current \in Conns
    BY <1>3 DEF Register, OnePlace
  <2>2. ReactorTypes'
    BY <1>3, <2>1 DEF Register, ReactorTypes
  <2>3. ClientTypes' /\ UdpTypes' /\ ThreadTypes'
    BY <1>3 DEF Register, ClientTypes, UdpTypes, ThreadTypes
  <2>4. QED
    BY <2>2, <2>3 DEF TypeOK
<1>4. CASE Spawn
  <2>1. current \in Conns
    BY <1>4 DEF Spawn, OnePlace
  <2>2. tasks' \in Seq(Conns)
    BY <1>4, <2>1, AddLast DEF Spawn, ThreadTypes
  <2>3. ReactorTypes'
    BY <1>4 DEF Spawn, ReactorTypes
  <2>4. ThreadTypes'
    BY <1>4, <2>2 DEF Spawn, ThreadTypes
  <2>5. ClientTypes' /\ UdpTypes'
    BY <1>4 DEF Spawn, ClientTypes, UdpTypes
  <2>6. QED
    BY <2>3, <2>4, <2>5 DEF TypeOK
<1>5. CASE UdpInput
  <2>1. Head(fromUdp) \in Replies /\ Tail(fromUdp) \in Seq(Replies)
    BY <1>5, TakeFirst DEF UdpInput, Receiving, UdpTypes
  <2>2. UdpTypes'
    BY <1>5, <2>1 DEF UdpInput, UdpTypes
  <2>3. ReactorTypes'
    BY <1>5, <2>1 DEF UdpInput, ReactorTypes
  <2>4. ClientTypes' /\ ThreadTypes'
    BY <1>5 DEF UdpInput, ClientTypes, ThreadTypes
  <2>5. QED
    BY <2>2, <2>3, <2>4 DEF TypeOK
<1>6. CASE UdpInputEmpty
  <2>1. Tail(fromUdp) \in Seq(Replies)
    BY <1>6, TakeFirst DEF UdpInputEmpty, Receiving, UdpTypes
  <2>2. UdpTypes'
    BY <1>6, <2>1 DEF UdpInputEmpty, UdpTypes
  <2>3. ReactorTypes'
    BY <1>6 DEF UdpInputEmpty, ReactorTypes
  <2>4. ClientTypes' /\ ThreadTypes'
    BY <1>6 DEF UdpInputEmpty, ClientTypes, ThreadTypes
  <2>5. QED
    BY <2>2, <2>3, <2>4 DEF TypeOK
<1>7. CASE UdpInputFails
  <2>1. ReactorTypes'
    BY <1>7 DEF UdpInputFails, ReactorTypes
  <2>2. ClientTypes' /\ UdpTypes' /\ ThreadTypes'
    BY <1>7 DEF UdpInputFails, ClientTypes, UdpTypes, ThreadTypes
  <2>3. QED
    BY <2>1, <2>2 DEF TypeOK
<1>8. CASE UdpInputBlocks
  <2>1. Tail(fromUdp) \in Seq(Replies)
    BY <1>8, TakeFirst DEF UdpInputBlocks, UdpTypes
  <2>2. UdpTypes'
    BY <1>8, <2>1 DEF UdpInputBlocks, UdpTypes
  <2>3. ReactorTypes'
    BY <1>8 DEF UdpInputBlocks, ReactorTypes
  <2>4. ClientTypes' /\ ThreadTypes'
    BY <1>8 DEF UdpInputBlocks, ClientTypes, ThreadTypes
  <2>5. QED
    BY <2>2, <2>3, <2>4 DEF TypeOK
<1>9. ASSUME NEW k \in Keys, Broadcast(k) PROVE TypeOK'
  <2>1. outbox' \in [Conns -> Seq(ReplyUnits)]
    BY <1>9, BroadcastTypes
  <2>2. ClientTypes'
    BY <1>9, <2>1 DEF Broadcast, ClientTypes
  <2>3. ReactorTypes'
    BY <1>9 DEF Broadcast, ReactorTypes
  <2>4. UdpTypes' /\ ThreadTypes'
    BY <1>9 DEF Broadcast, UdpTypes, ThreadTypes
  <2>5. QED
    BY <2>2, <2>3, <2>4 DEF TypeOK
<1>10. CASE BroadcastEnds
  <2>1. ReactorTypes'
    BY <1>10 DEF BroadcastEnds, ReactorTypes
  <2>2. ClientTypes' /\ UdpTypes' /\ ThreadTypes'
    BY <1>10 DEF BroadcastEnds, ClientTypes, UdpTypes, ThreadTypes
  <2>3. QED
    BY <2>1, <2>2 DEF TypeOK
<1>11. CASE ReactorExits
  <2>1. ReactorTypes'
    BY <1>11 DEF ReactorExits, ReactorTypes
  <2>2. ClientTypes' /\ UdpTypes' /\ ThreadTypes'
    BY <1>11 DEF ReactorExits, ClientTypes, UdpTypes, ThreadTypes
  <2>3. QED
    BY <2>1, <2>2 DEF TypeOK
<1>12. CASE Sigint
  <2>1. ReactorTypes'
    BY <1>12 DEF Sigint, ReactorTypes
  <2>2. ClientTypes' /\ UdpTypes' /\ ThreadTypes'
    BY <1>12 DEF Sigint, ClientTypes, UdpTypes, ThreadTypes
  <2>3. QED
    BY <2>1, <2>2 DEF TypeOK
<1>13. QED
  BY <1>1, <1>2, <1>3, <1>4, <1>5, <1>6, <1>7, <1>8, <1>9, <1>10, <1>11, <1>12 DEF ReactorThread

\* A client's thread.
LEMMA SessionTypes ==
    ASSUME TypeOK, NEW c \in Conns, SessionThread(c)
    PROVE  TypeOK'
<1> USE DEF TypeOK, SessionStep, clientVars, udpVars, reactorVars, threadVars
<1>1. CASE CheckCancelled(c)
  <2>1. ThreadTypes'
    BY <1>1 DEF CheckCancelled, ThreadTypes
  <2>2. ClientTypes' /\ UdpTypes' /\ ReactorTypes'
    BY <1>1 DEF CheckCancelled, ClientTypes, UdpTypes, ReactorTypes
  <2>3. QED
    BY <2>1, <2>2 DEF TypeOK
<1>2. CASE Read(c)
  <2>1. /\ inbox[c] \in Seq(Units) /\ Len(inbox[c]) \in Nat
        /\ Smaller(BufSize, Len(inbox[c])) \in 0..Len(inbox[c])
        /\ Smaller(BufSize, Len(inbox[c])) \in 0..BufSize
    BY SmallerProperties, LenProperties DEF ClientTypes
  <2>2. \A i \in 1..BufSize : i <= Smaller(BufSize, Len(inbox[c])) => inbox[c][i] \in Units
    BY <2>1, ElementOfSeq, ServerProxyAssumption
  <2>3. SubSeq(inbox[c], Smaller(BufSize, Len(inbox[c])) + 1, Len(inbox[c])) \in Seq(Units)
    BY <2>1, RestType
  <2>4. tcpBuffer' \in [1..BufSize -> Units \cup {NoByte}]
    BY <1>2, <2>2 DEF Read, ThreadTypes
  <2>5. ClientTypes'
    BY <1>2, <2>3 DEF Read, ClientTypes
  <2>6. ThreadTypes'
    BY <1>2, <2>1, <2>4 DEF Read, ThreadTypes
  <2>7. UdpTypes' /\ ReactorTypes'
    BY <1>2 DEF Read, UdpTypes, ReactorTypes
  <2>8. QED
    BY <2>5, <2>6, <2>7 DEF TypeOK
<1>3. CASE ReadTimeout(c)
  <2>1. ThreadTypes'
    BY <1>3 DEF ReadTimeout, ThreadTypes
  <2>2. ClientTypes' /\ UdpTypes' /\ ReactorTypes'
    BY <1>3 DEF ReadTimeout, ClientTypes, UdpTypes, ReactorTypes
  <2>3. QED
    BY <2>1, <2>2 DEF TypeOK
<1>4. CASE ReadClosed(c)
  <2>1. ThreadTypes'
    BY <1>4 DEF ReadClosed, ThreadTypes
  <2>2. ClientTypes' /\ UdpTypes' /\ ReactorTypes'
    BY <1>4 DEF ReadClosed, ClientTypes, UdpTypes, ReactorTypes
  <2>3. QED
    BY <2>1, <2>2 DEF TypeOK
<1>5. CASE Forward(c)
  <2>1. tcpBuffer \in Seq(Units \cup {NoByte}) /\ Len(tcpBuffer) = BufSize
    BY ServerProxyAssumption, IsASeq DEF ThreadTypes
  <2>2. Prefix(tcpBuffer, count[c]) \in Seq(Units \cup {NoByte})
    BY <2>1, PrefixType DEF ThreadTypes, Prefix
  <2>3. Append(toUdp, Prefix(tcpBuffer, count[c])) \in Seq(Seq(Units \cup {NoByte}))
    BY <2>2, AddLast DEF UdpTypes
  <2>4. UdpTypes'
    BY <1>5, <2>3 DEF Forward, UdpTypes
  <2>5. ThreadTypes'
    BY <1>5 DEF Forward, ThreadTypes
  <2>6. ClientTypes' /\ ReactorTypes'
    BY <1>5 DEF Forward, ClientTypes, ReactorTypes
  <2>7. QED
    BY <2>4, <2>5, <2>6 DEF TypeOK
<1>6. CASE EraseBegins(c)
  <2>1. ReactorTypes'
    BY <1>6 DEF EraseBegins, ReactorTypes
  <2>2. ThreadTypes'
    BY <1>6 DEF EraseBegins, ThreadTypes
  <2>3. ClientTypes' /\ UdpTypes'
    BY <1>6 DEF EraseBegins, ClientTypes, UdpTypes
  <2>4. QED
    BY <2>1, <2>2, <2>3 DEF TypeOK
<1>7. CASE EraseEnds(c)
  <2>1. ReactorTypes'
    BY <1>7 DEF EraseEnds, ReactorTypes
  <2>2. ThreadTypes'
    BY <1>7 DEF EraseEnds, ThreadTypes
  <2>3. ClientTypes' /\ UdpTypes'
    BY <1>7 DEF EraseEnds, ClientTypes, UdpTypes
  <2>4. QED
    BY <2>1, <2>2, <2>3 DEF TypeOK
<1>8. QED
  BY <1>1, <1>2, <1>3, <1>4, <1>5, <1>6, <1>7 DEF SessionThread

\* The thread that stops, and the crash.
LEMMA StopperTypes ==
    ASSUME TypeOK, ThreadsAreKept, StopBegins \/ StopperRuns \/ Crash
    PROVE  TypeOK'
<1> USE DEF TypeOK, StopperStep, clientVars, udpVars, reactorVars, threadVars
<1>1. CASE StopBegins
  <2>1. ThreadTypes'
    BY <1>1 DEF StopBegins, ThreadTypes
  <2>2. ClientTypes' /\ UdpTypes' /\ ReactorTypes'
    BY <1>1 DEF StopBegins, ClientTypes, UdpTypes, ReactorTypes
  <2>3. QED
    BY <2>1, <2>2 DEF TypeOK
<1>2. CASE RemoveUdpHandler
  <2>1. ReactorTypes'
    BY <1>2 DEF RemoveUdpHandler, ReactorTypes
  <2>2. ThreadTypes'
    BY <1>2 DEF RemoveUdpHandler, ThreadTypes
  <2>3. ClientTypes' /\ UdpTypes'
    BY <1>2 DEF RemoveUdpHandler, ClientTypes, UdpTypes
  <2>4. QED
    BY <2>1, <2>2, <2>3 DEF TypeOK
<1>3. CASE CloseAcceptor
  <2>1. backlog' \in Seq(Conns)
    BY <1>3, EmptySeq DEF CloseAcceptor
  <2>2. ClientTypes'
    BY <1>3, <2>1 DEF CloseAcceptor, ClientTypes
  <2>3. ReactorTypes'
    BY <1>3 DEF CloseAcceptor, ReactorTypes
  <2>4. ThreadTypes'
    BY <1>3 DEF CloseAcceptor, ThreadTypes
  <2>5. UdpTypes'
    BY <1>3 DEF CloseAcceptor, UdpTypes
  <2>6. QED
    BY <2>2, <2>3, <2>4, <2>5 DEF TypeOK
<1>4. CASE CancelTask
  <2>1. Head(tasks) \in Conns
    BY <1>4, TakeFirst DEF CancelTask, ThreadTypes
  <2>2. ThreadTypes'
    BY <1>4, <2>1 DEF CancelTask, ThreadTypes
  <2>3. ClientTypes' /\ UdpTypes' /\ ReactorTypes'
    BY <1>4 DEF CancelTask, ClientTypes, UdpTypes, ReactorTypes
  <2>4. QED
    BY <2>2, <2>3 DEF TypeOK
<1>5. CASE JoinTask
  <2>1. Tail(tasks) \in Seq(Conns)
    BY <1>5, TakeFirst DEF JoinTask, ThreadsAreKept, ThreadTypes
  <2>2. ThreadTypes'
    BY <1>5, <2>1 DEF JoinTask, ThreadTypes
  <2>3. ClientTypes' /\ UdpTypes' /\ ReactorTypes'
    BY <1>5 DEF JoinTask, ClientTypes, UdpTypes, ReactorTypes
  <2>4. QED
    BY <2>2, <2>3 DEF TypeOK
<1>6. CASE EndLoop
  <2>1. ReactorTypes'
    BY <1>6 DEF EndLoop, ReactorTypes
  <2>2. ThreadTypes'
    BY <1>6 DEF EndLoop, ThreadTypes
  <2>3. ClientTypes' /\ UdpTypes'
    BY <1>6 DEF EndLoop, ClientTypes, UdpTypes
  <2>4. QED
    BY <2>1, <2>2, <2>3 DEF TypeOK
<1>7. CASE Crash
  <2>1. ReactorTypes'
    BY <1>7 DEF Crash, ReactorTypes
  <2>2. ThreadTypes'
    BY <1>7 DEF Crash, ThreadTypes
  <2>3. ClientTypes' /\ UdpTypes'
    BY <1>7 DEF Crash, ClientTypes, UdpTypes
  <2>4. QED
    BY <2>1, <2>2, <2>3 DEF TypeOK
<1>8. QED
  BY <1>1, <1>2, <1>3, <1>4, <1>5, <1>6, <1>7 DEF StopperRuns

\* Every step keeps the types.
LEMMA TypesKept ==
    ASSUME TypeOK, OnePlace, ThreadsAreKept, [Next]_vars
    PROVE  TypeOK'
<1>1. CASE Terminated \/ UNCHANGED vars
  <2> USE DEF Terminated, vars, clientVars, udpVars, reactorVars, threadVars, TypeOK
  <2>1. ClientTypes'
    BY <1>1 DEF ClientTypes
  <2>2. UdpTypes'
    BY <1>1 DEF UdpTypes
  <2>3. ReactorTypes'
    BY <1>1 DEF ReactorTypes
  <2>4. ThreadTypes'
    BY <1>1 DEF ThreadTypes
  <2>5. QED
    BY <2>1, <2>2, <2>3, <2>4
<1>2. QED
  BY <1>1, EnvironmentTypes, ReactorTypesKept, SessionTypes, StopperTypes DEF Next

-----------------------------------------------------------------------------
(* What each part of the invariant needs of a step *)

\* A step of a client's thread changes nothing but what that thread has.
LEMMA ThreadMoves ==
    ASSUME TypeOK, NEW c \in Conns, SessionThread(c)
    PROVE  /\ UNCHANGED <<link, peer, outbox, backlog, udpReg, accReg, reactor, current, cancelled, tasks, stopper>>
           /\ Runs(c) /\ task'[c] \notin {"none", "crashed"}
           /\ \A d \in Conns \ {c} : task'[d] = task[d]
           /\ raced => raced'
           /\ task'[c] \in {"erase", "erasing"} => task[c] \in {"erase", "erasing"} \/ c \in cancelled \/ link[c] # "open"
<1> USE DEF TypeOK, ThreadTypes, SessionStep, clientVars, reactorVars, Runs
<1>1. CASE CheckCancelled(c)
  BY <1>1 DEF CheckCancelled
<1>2. CASE Read(c)
  BY <1>2 DEF Read
<1>3. CASE ReadTimeout(c)
  BY <1>3 DEF ReadTimeout
<1>4. CASE ReadClosed(c)
  BY <1>4 DEF ReadClosed
<1>5. CASE Forward(c)
  BY <1>5 DEF Forward
<1>6. CASE EraseBegins(c)
  BY <1>6 DEF EraseBegins
<1>7. CASE EraseEnds(c)
  BY <1>7 DEF EraseEnds
<1>8. QED
  BY <1>1, <1>2, <1>3, <1>4, <1>5, <1>6, <1>7 DEF SessionThread

\* A step that is none of the clients' threads', of the reactor's with a connection in
\* hand or of stop(), changes nothing of that.
Aside ==
    \/ \E c \in Conns : ClientSend(c)
    \/ \E d \in Replies : ReplyArrives(d)
    \/ AcceptFails \/ UdpInputEmpty \/ UdpInputFails \/ UdpInputBlocks
    \/ (\E k \in Keys : Broadcast(k)) \/ BroadcastEnds \/ ReactorExits \/ Sigint
    \/ StopBegins \/ RemoveUdpHandler
    \/ Terminated \/ UNCHANGED vars

\* Such a step moves no connection and no thread.
LEMMA AsideMoves ==
    ASSUME TypeOK, Aside
    PROVE  /\ UNCHANGED <<link, peer, backlog, current, sessions, task, cancelled, tasks, raced>>
           /\ reactor' = reactor \/ (reactor \notin {"insert", "spawn", "crashed"} /\ reactor' \in {"select", "blocked", "exited"})
<1> USE DEF clientVars, udpVars, reactorVars, threadVars
<1>1. ASSUME NEW c \in Conns, ClientSend(c) PROVE UNCHANGED <<link, peer, backlog, current, sessions, task, cancelled, tasks, raced, reactor>>
  BY <1>1 DEF ClientSend
<1>2. ASSUME NEW d \in Replies, ReplyArrives(d) PROVE UNCHANGED <<link, peer, backlog, current, sessions, task, cancelled, tasks, raced, reactor>>
  BY <1>2 DEF ReplyArrives
<1>3. CASE AcceptFails \/ Sigint
  BY <1>3 DEF AcceptFails, Sigint
<1>4. CASE UdpInputEmpty \/ UdpInputFails \/ UdpInputBlocks
  BY <1>4 DEF UdpInputEmpty, UdpInputFails, UdpInputBlocks, Receiving, Dispatching
<1>5. ASSUME NEW k \in Keys, Broadcast(k) PROVE UNCHANGED <<link, peer, backlog, current, sessions, task, cancelled, tasks, raced, reactor>>
  BY <1>5 DEF Broadcast
<1>6. CASE BroadcastEnds \/ ReactorExits
  BY <1>6 DEF BroadcastEnds, ReactorExits
<1>7. CASE StopBegins \/ RemoveUdpHandler
  BY <1>7 DEF StopBegins, RemoveUdpHandler, StopperStep
<1>8. CASE Terminated \/ UNCHANGED vars
  BY <1>8 DEF Terminated, vars
<1>9. QED
  BY <1>1, <1>2, <1>3, <1>4, <1>5, <1>6, <1>7, <1>8 DEF Aside

\* The steps that matter, and all the others at once.
Steps ==
    \/ \E c \in Conns, k \in Keys : Connect(c, k)
    \/ \E c \in Conns : ClientClose(c)
    \/ Accept \/ Register \/ Spawn \/ UdpInput
    \/ \E c \in Conns : SessionThread(c)
    \/ CloseAcceptor \/ CancelTask \/ JoinTask \/ EndLoop
    \/ Crash
    \/ Aside

\* Every step is one of the kinds listed.
LEMMA NextIsSteps == ASSUME [Next]_vars PROVE Steps
BY DEF Next, Environment, ReactorThread, StopperRuns, Steps, Aside

-----------------------------------------------------------------------------
(* One place for each connection *)

\* accept() takes a connection out of the backlog as handle_client takes it up, and
\* createSessionTask starts its one thread.
LEMMA OnePlaceKept ==
    ASSUME IInv, [Next]_vars
    PROVE  OnePlace'
<1> USE DEF clientVars, udpVars, reactorVars, threadVars
<1>0. TypeOK /\ OnePlace
  BY DEF IInv
<1>1. ASSUME NEW c \in Conns, NEW k \in Keys, Connect(c, k) PROVE OnePlace'
  <2>1. /\ Len(backlog) \in Nat /\ Len(backlog') = Len(backlog) + 1
        /\ \A i \in 1..Len(backlog) : backlog'[i] = backlog[i]
        /\ backlog'[Len(backlog) + 1] = c
    BY <1>0, <1>1, AddLast DEF Connect, TypeOK, ClientTypes
  <2>2. \A d \in Conns : Waits(d)' <=> Waits(d) \/ d = c
    BY <2>1 DEF Waits
  <2>3. ~Waits(c) /\ ~Registering(c) /\ task[c] \in {"none", "crashed"}
    BY <1>0, <1>1 DEF Connect, OnePlace
  <2>4. /\ \A d \in Conns : link'[d] = IF d = c THEN "open" ELSE link[d]
        /\ \A d \in Conns : peer'[d] = IF d = c THEN k ELSE peer[d]
        /\ UNCHANGED <<reactor, current, task>>
    BY <1>0, <1>1 DEF Connect, TypeOK, ClientTypes
  <2>5. \A i, j \in 1..Len(backlog') : backlog'[i] = backlog'[j] => i = j
    BY <1>0, <2>1, <2>3 DEF OnePlace, Waits
  <2>6. k # None
    BY ServerProxyAssumption
  <2>7. QED
    BY <1>0, <2>2, <2>3, <2>4, <2>5, <2>6 DEF OnePlace, Registering
<1>2. ASSUME NEW c \in Conns, ClientClose(c) PROVE OnePlace'
  <2>1. /\ \A d \in Conns : link'[d] = "idle" <=> link[d] = "idle"
        /\ UNCHANGED <<peer, backlog, reactor, current, task>>
    BY <1>0, <1>2 DEF ClientClose, TypeOK, ClientTypes
  <2>2. QED
    BY <1>0, <2>1 DEF OnePlace, Waits, Registering
<1>3. CASE Accept
  <2>1. /\ Len(backlog) \in Nat \ {0} /\ Len(backlog') = Len(backlog) - 1
        /\ current' = backlog[1] /\ current' \in Conns
        /\ \A i \in 1..Len(backlog') : backlog'[i] = backlog[i + 1]
    BY <1>0, <1>3, TakeFirst DEF Accept, TypeOK, ClientTypes
  <2>2. \A d \in Conns : Waits(d)' => Waits(d) /\ d # current'
    BY <1>0, <2>1 DEF Waits, OnePlace
  <2>3. Waits(current')
    BY <2>1 DEF Waits
  <2>4. \A i, j \in 1..Len(backlog') : backlog'[i] = backlog'[j] => i = j
    BY <1>0, <2>1 DEF OnePlace
  <2>5. UNCHANGED <<link, peer, task>>
    BY <1>3 DEF Accept
  <2>6. QED
    BY <1>0, <2>1, <2>2, <2>3, <2>4, <2>5 DEF OnePlace, Registering
<1>4. CASE Register
  BY <1>0, <1>4 DEF Register, OnePlace, Waits, Registering
<1>5. CASE Spawn
  <2>1. /\ \A d \in Conns : task'[d] = IF d = current THEN "check" ELSE task[d]
        /\ reactor' = "select" /\ UNCHANGED <<link, peer, backlog>>
    BY <1>0, <1>5 DEF Spawn, TypeOK, ThreadTypes
  <2>2. current \in Conns /\ Registering(current)
    BY <1>0, <1>5 DEF Spawn, OnePlace, Registering
  <2>3. QED
    BY <1>0, <2>1, <2>2 DEF OnePlace, Waits, Registering
<1>6. CASE UdpInput
  BY <1>0, <1>6 DEF UdpInput, OnePlace, Waits, Registering
<1>7. ASSUME NEW c \in Conns, SessionThread(c) PROVE OnePlace'
  <2>1. ~Waits(c) /\ ~Registering(c) /\ link[c] # "idle"
    BY <1>0, <1>7, ThreadMoves DEF OnePlace, Runs
  <2>2. QED
    BY <1>0, <1>7, <2>1, ThreadMoves DEF OnePlace, Waits, Registering
<1>8. CASE CloseAcceptor
  <2>1. \A d \in Conns : link'[d] = IF Waits(d) THEN "rst" ELSE link[d]
    BY <1>8 DEF CloseAcceptor, Waits
  <2>2. backlog' = <<>> /\ UNCHANGED <<peer, reactor, current, task>>
    BY <1>8 DEF CloseAcceptor, StopperStep
  <2>3. QED
    BY <1>0, <2>1, <2>2 DEF OnePlace, Waits, Registering
<1>9. CASE CancelTask \/ JoinTask \/ EndLoop
  BY <1>0, <1>9 DEF CancelTask, JoinTask, EndLoop, StopperStep, OnePlace, Waits, Registering
<1>10. CASE Crash
  BY <1>0, <1>10 DEF Crash, OnePlace, Waits, Registering
<1>11. CASE Aside
  BY <1>0, <1>11, AsideMoves DEF OnePlace, Waits, Registering
<1>12. QED
  BY <1>1, <1>2, <1>3, <1>4, <1>5, <1>6, <1>7, <1>8, <1>9, <1>10, <1>11, NextIsSteps DEF Steps

-----------------------------------------------------------------------------
(* Threads, and the thread that stops them *)

\* createSessionTask keeps the thread it starts in tasks_; stop_all_tasks drops only
\* threads that have ended.
LEMMA ThreadsAreKeptKept ==
    ASSUME IInv, [Next]_vars
    PROVE  ThreadsAreKept'
<1> USE DEF clientVars, udpVars, reactorVars, threadVars
<1>0. TypeOK /\ OnePlace /\ ThreadsAreKept
  BY DEF IInv
<1>1. ASSUME NEW c \in Conns, NEW k \in Keys, Connect(c, k) PROVE ThreadsAreKept'
  BY <1>0, <1>1 DEF Connect, ThreadsAreKept, Runs, Kept
<1>2. ASSUME NEW c \in Conns, ClientClose(c) PROVE ThreadsAreKept'
  BY <1>0, <1>2 DEF ClientClose, ThreadsAreKept, Runs, Kept
<1>3. CASE Accept \/ Register \/ UdpInput
  BY <1>0, <1>3 DEF Accept, Register, UdpInput, ThreadsAreKept, Runs, Kept
<1>4. CASE Spawn
  <2>1. current \in Conns
    BY <1>0, <1>4 DEF Spawn, OnePlace
  <2>2. /\ Len(tasks) \in Nat /\ Len(tasks') = Len(tasks) + 1
        /\ \A i \in 1..Len(tasks) : tasks'[i] = tasks[i]
        /\ tasks'[Len(tasks) + 1] = current
    BY <1>0, <1>4, <2>1, AddLast DEF Spawn, TypeOK, ThreadTypes
  <2>3. \A d \in Conns : Kept(d)' <=> Kept(d) \/ d = current
    BY <2>2 DEF Kept
  <2>4. \A d \in Conns \ {current} : task'[d] = task[d]
    BY <1>0, <1>4 DEF Spawn, TypeOK, ThreadTypes
  <2>5. task'[current] = "check" /\ reactor' = "select" /\ UNCHANGED <<raced, stopper>>
    BY <1>0, <1>4, <2>1 DEF Spawn, TypeOK, ThreadTypes
  <2>6. stopper = "join" => tasks' # <<>>
    BY <2>2, EmptySeq
  <2>7. QED
    BY <1>0, <2>3, <2>4, <2>5, <2>6 DEF ThreadsAreKept, Runs
<1>5. ASSUME NEW c \in Conns, SessionThread(c) PROVE ThreadsAreKept'
  BY <1>0, <1>5, ThreadMoves DEF ThreadsAreKept, Runs, Kept
<1>6. CASE CloseAcceptor \/ CancelTask \/ EndLoop
  BY <1>0, <1>6 DEF CloseAcceptor, CancelTask, EndLoop, StopperStep, ThreadsAreKept, Runs, Kept
<1>7. CASE JoinTask
  <2>1. /\ Len(tasks) \in Nat \ {0} /\ Len(tasks') = Len(tasks) - 1
        /\ Head(tasks) = tasks[1]
        /\ \A i \in 1..Len(tasks') : tasks'[i] = tasks[i + 1]
    BY <1>0, <1>7, TakeFirst DEF JoinTask, ThreadsAreKept, TypeOK, ThreadTypes
  <2>2. \A d \in Conns : Kept(d) => Kept(d)' \/ d = tasks[1]
    <3>1. ASSUME NEW d \in Conns, NEW i \in 1..Len(tasks), tasks[i] = d, i # 1 PROVE Kept(d)'
      <4>1. i - 1 \in 1..Len(tasks') /\ tasks'[i - 1] = d
        BY <2>1, <3>1
      <4>2. QED
        BY <4>1 DEF Kept
    <3>2. QED
      BY <3>1 DEF Kept
  <2>3. task[tasks[1]] = "done" /\ stopper' = "tasks" /\ UNCHANGED <<task, raced, reactor>>
    BY <1>7, <2>1 DEF JoinTask, StopperStep
  <2>4. QED
    BY <1>0, <2>2, <2>3 DEF ThreadsAreKept, Runs
<1>8. CASE Crash
  BY <1>0, <1>8 DEF Crash, ThreadsAreKept, Runs, Kept
<1>9. CASE Aside
  <2>1. stopper' = stopper \/ stopper' \in {"udp", "acceptor"}
    BY <1>9 DEF Aside, ClientSend, ReplyArrives, AcceptFails, Sigint, UdpInputEmpty, UdpInputFails, UdpInputBlocks,
                Broadcast, BroadcastEnds, ReactorExits, StopBegins, RemoveUdpHandler, StopperStep, Terminated, vars
  <2>2. QED
    BY <1>0, <1>9, <2>1, AsideMoves DEF ThreadsAreKept, Runs, Kept
<1>10. QED
  BY <1>1, <1>2, <1>3, <1>4, <1>5, <1>6, <1>7, <1>8, <1>9, NextIsSteps DEF Steps

\* remove_handler returns when no dispatch is under way, and none begins without a handler.
LEMMA RemovedKept ==
    ASSUME IInv, [Next]_vars
    PROVE  Removed'
<1> USE DEF clientVars, udpVars, reactorVars, threadVars
<1>0. TypeOK /\ Removed /\ ThreadsAreKept
  BY DEF IInv
<1>1. ASSUME NEW c \in Conns, NEW k \in Keys, Connect(c, k) PROVE Removed'
  BY <1>0, <1>1 DEF Connect, Removed
<1>2. ASSUME NEW c \in Conns, ClientClose(c) PROVE Removed'
  BY <1>0, <1>2 DEF ClientClose, Removed
<1>3. CASE Accept \/ Register
  BY <1>0, <1>3 DEF Accept, Register, Dispatching, Removed
<1>4. CASE Spawn
  BY <1>0, <1>4 DEF Spawn, Removed
<1>5. CASE UdpInput
  BY <1>0, <1>5 DEF UdpInput, Receiving, Dispatching, Removed
<1>6. ASSUME NEW c \in Conns, SessionThread(c) PROVE Removed'
  BY <1>0, <1>6, ThreadMoves DEF Removed
<1>7. CASE CloseAcceptor \/ CancelTask \/ JoinTask \/ EndLoop
  BY <1>0, <1>7 DEF CloseAcceptor, CancelTask, JoinTask, EndLoop, StopperStep, TokenFree, Removed
<1>8. CASE Crash
  BY <1>0, <1>8 DEF Crash, Removed
<1>9. CASE Aside
  <2>1. ASSUME NEW c \in Conns, ClientSend(c) PROVE Removed'
    BY <1>0, <2>1 DEF ClientSend, Removed
  <2>2. ASSUME NEW d \in Replies, ReplyArrives(d) PROVE Removed'
    BY <1>0, <2>2 DEF ReplyArrives, Removed
  <2>3. CASE AcceptFails \/ Sigint
    BY <1>0, <2>3 DEF AcceptFails, Sigint, Removed
  <2>4. CASE UdpInputEmpty \/ UdpInputFails \/ UdpInputBlocks
    BY <1>0, <2>4 DEF UdpInputEmpty, UdpInputFails, UdpInputBlocks, Receiving, Dispatching, Removed
  <2>5. ASSUME NEW k \in Keys, Broadcast(k) PROVE Removed'
    BY <1>0, <2>5 DEF Broadcast, Removed
  <2>6. CASE BroadcastEnds \/ ReactorExits
    BY <1>0, <2>6 DEF BroadcastEnds, ReactorExits, Removed
  <2>7. CASE StopBegins \/ RemoveUdpHandler
    BY <1>0, <2>7 DEF StopBegins, RemoveUdpHandler, StopperStep, TokenFree, Removed
  <2>8. CASE Terminated \/ UNCHANGED vars
    BY <1>0, <2>8 DEF Terminated, vars, Removed
  <2>9. QED
    BY <1>9, <2>1, <2>2, <2>3, <2>4, <2>5, <2>6, <2>7, <2>8 DEF Aside
<1>10. QED
  BY <1>1, <1>2, <1>3, <1>4, <1>5, <1>6, <1>7, <1>8, <1>9, NextIsSteps DEF Steps

\* Whoever has left stays so.
LEMMA LeftForGood ==
    ASSUME TypeOK, [Next]_vars, NEW c \in Conns, Left(c)
    PROVE  Left(c)'
<1> USE DEF clientVars, udpVars, reactorVars, threadVars, TypeOK, ClientTypes, Left
<1>1. ASSUME NEW d \in Conns, NEW k \in Keys, Connect(d, k) PROVE Left(c)'
  BY <1>1 DEF Connect
<1>2. ASSUME NEW d \in Conns, ClientClose(d) PROVE Left(c)'
  BY <1>2 DEF ClientClose
<1>3. CASE Accept \/ Register \/ Spawn \/ UdpInput
  BY <1>3 DEF Accept, Register, Spawn, UdpInput
<1>4. ASSUME NEW d \in Conns, SessionThread(d) PROVE Left(c)'
  BY <1>4, ThreadMoves
<1>5. CASE CloseAcceptor \/ CancelTask \/ JoinTask \/ EndLoop
  BY <1>5 DEF CloseAcceptor, CancelTask, JoinTask, EndLoop, StopperStep
<1>6. CASE Crash
  BY <1>6 DEF Crash
<1>7. CASE Aside
  BY <1>7, AsideMoves
<1>8. QED
  BY <1>1, <1>2, <1>3, <1>4, <1>5, <1>6, <1>7, NextIsSteps DEF Steps

\* RunningTask::stop joins the thread it has cancelled before the next one is cancelled.
LEMMA OneIsCancelledKept ==
    ASSUME IInv, [Next]_vars
    PROVE  OneIsCancelled'
<1> USE DEF clientVars, udpVars, reactorVars, threadVars
<1>0. TypeOK /\ OnePlace /\ ThreadsAreKept /\ OneIsCancelled
  BY DEF IInv
<1>a. \A c \in Conns : Left(c) => Left(c)'
  BY <1>0, LeftForGood
<1>1. ASSUME NEW c \in Conns, NEW k \in Keys, Connect(c, k) PROVE OneIsCancelled'
  BY <1>0, <1>1, <1>a DEF Connect, OneIsCancelled
<1>2. ASSUME NEW c \in Conns, ClientClose(c) PROVE OneIsCancelled'
  BY <1>0, <1>2, <1>a DEF ClientClose, OneIsCancelled
<1>3. CASE Accept \/ Register \/ UdpInput
  BY <1>0, <1>3, <1>a DEF Accept, Register, UdpInput, OneIsCancelled
<1>4. CASE Spawn
  <2>1. current \in Conns /\ \A d \in Conns : task'[d] = IF d = current THEN "check" ELSE task[d]
    BY <1>0, <1>4 DEF Spawn, OnePlace, TypeOK, ThreadTypes
  <2>2. stopper \notin {"tasks", "join", "done"} /\ UNCHANGED <<cancelled, stopper, raced>>
    BY <1>4 DEF Spawn, IInv, Removed
  <2>3. ~raced => stopper # "crashed"
    BY <1>0 DEF ThreadsAreKept
  <2>4. QED
    BY <1>0, <1>a, <2>1, <2>2, <2>3 DEF OneIsCancelled
<1>5. ASSUME NEW c \in Conns, SessionThread(c) PROVE OneIsCancelled'
  <2>1. task[c] # "done" /\ link[c] # "idle"
    BY <1>0, <1>5, ThreadMoves DEF Runs, OnePlace
  <2>2. link[c] # "open" => Left(c)
    BY <1>0, <2>1 DEF TypeOK, ClientTypes, Left
  <2>3. ~raced' => \A d \in cancelled' : task'[d] = "done" \/ (stopper' = "join" /\ d = tasks'[1])
    <3>1. ASSUME ~raced', NEW d \in cancelled PROVE task'[d] = "done" \/ (stopper = "join" /\ d = tasks[1])
      <4>1. ~raced /\ d \in Conns
        BY <1>0, <1>5, <3>1, ThreadMoves DEF TypeOK, ThreadTypes
      <4>2. task[d] = "done" => task'[d] = "done"
        BY <1>5, <2>1, <4>1, <1>0, ThreadMoves
      <4>3. QED
        BY <1>0, <3>1, <4>1, <4>2 DEF OneIsCancelled
    <3>2. QED
      BY <1>0, <1>5, <3>1, ThreadMoves
  <2>4. QED
    BY <1>0, <1>5, <1>a, <2>2, <2>3, ThreadMoves DEF OneIsCancelled
<1>6. CASE CloseAcceptor \/ EndLoop
  BY <1>0, <1>6, <1>a DEF CloseAcceptor, EndLoop, StopperStep, OneIsCancelled
<1>7. CASE CancelTask
  <2>1. Head(tasks) = tasks[1]
    BY <1>0, <1>7, TakeFirst DEF CancelTask, TypeOK, ThreadTypes
  <2>2. QED
    BY <1>0, <1>7, <1>a, <2>1 DEF CancelTask, StopperStep, OneIsCancelled
<1>8. CASE JoinTask
  <2>1. Head(tasks) = tasks[1]
    BY <1>0, <1>8, TakeFirst DEF JoinTask, ThreadsAreKept, TypeOK, ThreadTypes
  <2>2. QED
    BY <1>0, <1>8, <1>a, <2>1 DEF JoinTask, StopperStep, OneIsCancelled
<1>9. CASE Crash
  BY <1>0, <1>9, <1>a DEF Crash, OneIsCancelled
<1>10. CASE Aside
  <2>1. stopper' = stopper \/ (stopper \in {"idle", "udp"} /\ stopper' \in {"udp", "acceptor"})
    BY <1>10 DEF Aside, ClientSend, ReplyArrives, AcceptFails, Sigint, UdpInputEmpty, UdpInputFails, UdpInputBlocks,
                Broadcast, BroadcastEnds, ReactorExits, StopBegins, RemoveUdpHandler, StopperStep, Terminated, vars
  <2>2. stopper \in {"idle", "udp"} => cancelled = {}
    BY <1>0 DEF OneIsCancelled
  <2>3. QED
    BY <1>0, <1>10, <1>a, <2>1, <2>2, AsideMoves DEF OneIsCancelled
<1>11. QED
  BY <1>1, <1>2, <1>3, <1>4, <1>5, <1>6, <1>7, <1>8, <1>9, <1>10, NextIsSteps DEF Steps

-----------------------------------------------------------------------------
(* tcp_sessions_ *)

\* A client's thread lets tcp_sessions_ alone until it ends.
LEMMA ThreadUnregisters ==
    ASSUME TypeOK, NEW c \in Conns, SessionThread(c)
    PROVE  \/ /\ sessions' = sessions
              /\ task[c] \in {"check", "read", "send", "erase"} /\ task'[c] # "done"
           \/ EraseEnds(c)
<1> USE DEF TypeOK, ThreadTypes, SessionStep
<1>1. CASE CheckCancelled(c) \/ Read(c) \/ ReadTimeout(c) \/ ReadClosed(c)
  BY <1>1 DEF CheckCancelled, Read, ReadTimeout, ReadClosed
<1>2. CASE Forward(c) \/ EraseBegins(c)
  BY <1>2 DEF Forward, EraseBegins
<1>3. QED
  BY <1>1, <1>2 DEF SessionThread

\* Without a leaver the reactor's accesses meet no erasing thread, as stop() has removed
\* the handler by the time it cancels a thread, and no two threads erase, as it joins
\* one before it cancels the next.
LEMMA RaceKept ==
    ASSUME IInv, [Next]_vars
    PROVE  RaceNeedsALeaver'
<1>0. TypeOK /\ ThreadsAreKept /\ Removed /\ OneIsCancelled /\ RaceNeedsALeaver
  BY DEF IInv
<1>1. SUFFICES ASSUME raced' PROVE \E c \in Conns : Left(c)
  BY <1>0, LeftForGood DEF RaceNeedsALeaver, Left
<1>2. CASE raced
  BY <1>0, <1>2 DEF RaceNeedsALeaver, Left
<1>3. ASSUME ~raced, NEW c \in Conns, c \in cancelled, task[c] \in {"erase", "erasing"}
      PROVE  /\ c = tasks[1] /\ ~udpReg /\ ~accReg
             /\ reactor \notin {"insert", "iterate", "blocked"}
  BY <1>0, <1>3 DEF ThreadsAreKept, Removed, OneIsCancelled
<1>4. CASE ~raced /\ (Accept \/ UdpInput)
  <2>1. Erasing # {} /\ (udpReg \/ accReg \/ reactor = "blocked")
    BY <1>1, <1>4 DEF Accept, UdpInput, Receiving, Dispatching
  <2>2. PICK c \in Conns : task[c] = "erasing"
    BY <2>1 DEF Erasing
  <2>3. c \notin cancelled
    BY <1>3, <1>4, <2>1, <2>2
  <2>4. QED
    BY <1>0, <2>2, <2>3 DEF OneIsCancelled
<1>5. ASSUME ~raced, NEW c \in Conns, EraseBegins(c) PROVE \E d \in Conns : Left(d)
  <2>1. task[c] = "erase" /\ (Erasing # {} \/ reactor \in {"insert", "iterate"})
    BY <1>1, <1>5 DEF EraseBegins, SessionStep
  <2>2. CASE c \notin cancelled
    BY <1>0, <2>1, <2>2 DEF OneIsCancelled
  <2>3. CASE c \in cancelled
    <3>1. c = tasks[1] /\ Erasing # {}
      BY <1>3, <1>5, <2>1, <2>3
    <3>2. PICK d \in Conns : task[d] = "erasing"
      BY <3>1 DEF Erasing
    <3>3. d \notin cancelled
      BY <1>3, <1>5, <2>1, <3>1, <3>2
    <3>4. QED
      BY <1>0, <3>2, <3>3 DEF OneIsCancelled
  <2>4. QED
    BY <2>2, <2>3
<1>6. ASSUME NEW c \in Conns, SessionThread(c), ~raced PROVE EraseBegins(c)
  BY <1>1, <1>6 DEF SessionThread, CheckCancelled, Read, ReadTimeout, ReadClosed, Forward, EraseEnds
<1>7. ASSUME NEW c \in Conns, NEW k \in Keys, Connect(c, k) PROVE raced
  BY <1>1, <1>7 DEF Connect
<1>8. ASSUME NEW c \in Conns, ClientClose(c) PROVE raced
  BY <1>1, <1>8 DEF ClientClose
<1>9. ASSUME Register \/ Spawn \/ Crash PROVE raced
  BY <1>1, <1>9 DEF Register, Spawn, Crash
<1>10. ASSUME CloseAcceptor \/ CancelTask \/ JoinTask \/ EndLoop PROVE raced
  BY <1>1, <1>10 DEF CloseAcceptor, CancelTask, JoinTask, EndLoop, StopperStep
<1>11. ASSUME Aside PROVE raced
  BY <1>0, <1>1, <1>11, AsideMoves
<1>12. QED
  BY <1>2, <1>4, <1>5, <1>6, <1>7, <1>8, <1>9, <1>10, <1>11, NextIsSteps DEF Steps

\* An entry is made by the reactor just before it starts the thread, and taken out by
\* the thread just before it ends.
LEMMA EntriesKept ==
    ASSUME IInv, [Next]_vars
    PROVE  RegisteredHasThread'
<1> USE DEF clientVars, udpVars, reactorVars, threadVars
<1>0. TypeOK /\ OnePlace /\ ThreadsAreKept /\ RegisteredHasThread
  BY DEF IInv
<1>a. sessions \in [Keys -> Conns \cup {None}] /\ \A k \in Keys : k # None
  BY <1>0, ServerProxyAssumption DEF TypeOK, ReactorTypes
<1>1. ASSUME NEW c \in Conns, NEW k \in Keys, Connect(c, k) PROVE RegisteredHasThread'
  <2>1. peer[c] = None
    BY <1>0, <1>1 DEF Connect, OnePlace
  <2>2. /\ \A d \in Conns : d # c => peer'[d] = peer[d]
        /\ UNCHANGED <<reactor, current, sessions, task, raced>>
    BY <1>0, <1>1 DEF Connect, TypeOK, ClientTypes
  <2>3. QED
    BY <1>0, <1>a, <2>1, <2>2 DEF RegisteredHasThread
<1>2. ASSUME NEW c \in Conns, ClientClose(c) PROVE RegisteredHasThread'
  BY <1>0, <1>2 DEF ClientClose, RegisteredHasThread
<1>3. CASE Accept \/ UdpInput
  BY <1>0, <1>3 DEF Accept, UdpInput, Receiving, Dispatching, RegisteredHasThread
<1>4. CASE Register
  <2>1. SUFFICES ASSUME ~raced', NEW k \in Keys, sessions'[k] # None
                 PROVE  /\ peer'[sessions'[k]] = k
                        /\ \/ task'[sessions'[k]] \notin {"none", "done"}
                           \/ reactor' = "spawn" /\ current' = sessions'[k]
    BY DEF RegisteredHasThread
  <2>2. /\ ~raced /\ reactor = "insert" /\ reactor' = "spawn"
        /\ sessions' = [sessions EXCEPT ![peer[current]] = current]
        /\ UNCHANGED <<peer, task, current>>
    BY <1>4, <2>1 DEF Register
  <2>3. QED
    BY <1>0, <1>a, <2>1, <2>2 DEF RegisteredHasThread
<1>5. CASE Spawn
  <2>1. /\ \A d \in Conns : task'[d] = IF d = current THEN "check" ELSE task[d]
        /\ UNCHANGED <<peer, sessions, raced>>
    BY <1>0, <1>5 DEF Spawn, TypeOK, ThreadTypes
  <2>2. QED
    BY <1>0, <1>a, <2>1 DEF RegisteredHasThread
<1>6. ASSUME NEW c \in Conns, SessionThread(c) PROVE RegisteredHasThread'
  <2>1. /\ UNCHANGED <<peer, reactor, current>>
        /\ \A d \in Conns \ {c} : task'[d] = task[d]
        /\ raced => raced'
        /\ task'[c] # "none"
    BY <1>0, <1>6, ThreadMoves
  <2>2. CASE sessions' = sessions /\ task'[c] # "done"
    BY <1>0, <1>a, <2>1, <2>2 DEF RegisteredHasThread
  <2>3. CASE EraseEnds(c) /\ ~raced
    <3>1. sessions' = [sessions EXCEPT ![peer[c]] = None]
      BY <2>3 DEF EraseEnds
    <3>2. \A k \in Keys : sessions'[k] # None => sessions[k] # c /\ sessions'[k] = sessions[k]
      BY <1>0, <1>a, <2>3, <3>1 DEF RegisteredHasThread
    <3>3. QED
      BY <1>0, <1>a, <2>1, <2>3, <3>2 DEF RegisteredHasThread
  <2>4. CASE raced
    BY <2>1, <2>4 DEF RegisteredHasThread
  <2>5. QED
    BY <1>0, <1>6, <2>2, <2>3, <2>4, ThreadUnregisters
<1>7. CASE CloseAcceptor \/ CancelTask \/ JoinTask \/ EndLoop
  BY <1>0, <1>7 DEF CloseAcceptor, CancelTask, JoinTask, EndLoop, StopperStep, RegisteredHasThread
<1>8. CASE Crash
  BY <1>8 DEF Crash, RegisteredHasThread
<1>9. CASE Aside
  BY <1>0, <1>9, AsideMoves DEF RegisteredHasThread
<1>10. QED
  BY <1>1, <1>2, <1>3, <1>4, <1>5, <1>6, <1>7, <1>8, <1>9, NextIsSteps DEF Steps

\* With endpoints that do not come back, or with nobody who could, no entry is overwritten,
\* and a thread that ends takes out nobody else's.
LEMMA KeysKept ==
    ASSUME ~ReuseKeys \/ OneClient, IInv, KeysInv, [Next]_vars
    PROVE  KeysInv'
<1> USE DEF clientVars, udpVars, reactorVars, threadVars
<1>0. TypeOK /\ OnePlace /\ ThreadsAreKept /\ OwnKeys /\ ForwardingIsRegistered
  BY DEF IInv, KeysInv
<1>a. /\ sessions \in [Keys -> Conns \cup {None}] /\ peer \in [Conns -> Keys \cup {None}]
      /\ \A k \in Keys : k # None
  BY <1>0, ServerProxyAssumption DEF TypeOK, ReactorTypes, ClientTypes
<1>b. reactor \in {"insert", "spawn"} =>
          /\ current \in Conns /\ task[current] \in {"none", "crashed"} /\ peer[current] \in Keys
  BY <1>0, <1>a DEF OnePlace, Registering
<1>1. ASSUME NEW c \in Conns, NEW k \in Keys, Connect(c, k) PROVE KeysInv'
  <2>1. peer[c] = None /\ task[c] \in {"none", "crashed"}
    BY <1>0, <1>1 DEF Connect, OnePlace
  <2>2. /\ \A d \in Conns : peer'[d] = IF d = c THEN k ELSE peer[d]
        /\ UNCHANGED <<reactor, current, sessions, task, raced>>
    BY <1>a, <1>1 DEF Connect
  <2>3. OwnKeys'
    <3>1. CASE ~ReuseKeys
      <4>1. \A d \in Conns : peer[d] # k
        BY <1>1, <3>1 DEF Connect
      <4>2. QED
        BY <1>0, <2>1, <2>2, <4>1 DEF OwnKeys
    <3>2. CASE OneClient
      BY <3>2 DEF OwnKeys, OneClient
    <3>3. QED
      BY <3>1, <3>2
  <2>4. ForwardingIsRegistered'
    BY <1>0, <2>1, <2>2 DEF ForwardingIsRegistered
  <2>5. reactor = "spawn" => current # c
    BY <1>a, <1>b, <2>1
  <2>6. QED
    BY <1>b, <2>2, <2>3, <2>4, <2>5 DEF KeysInv
<1>2. ASSUME NEW c \in Conns, ClientClose(c) PROVE KeysInv'
  BY <1>2 DEF ClientClose, KeysInv, OwnKeys, ForwardingIsRegistered
<1>3. CASE Accept \/ UdpInput
  BY <1>3 DEF Accept, UdpInput, KeysInv, OwnKeys, ForwardingIsRegistered
<1>4. CASE Register
  <2>1. /\ reactor = "insert" /\ UNCHANGED <<peer, task, current, raced>>
        /\ ~raced => sessions' = [sessions EXCEPT ![peer[current]] = current]
    BY <1>4 DEF Register
  <2>2. \A c \in Conns : task[c] \in {"check", "read", "send", "erase"} /\ peer[c] \in Keys => peer[c] # peer[current]
    BY <1>0, <1>a, <1>b, <2>1 DEF OwnKeys
  <2>3. ForwardingIsRegistered'
    BY <1>0, <1>a, <2>1, <2>2 DEF ForwardingIsRegistered
  <2>4. ~raced => sessions'[peer[current]] = current
    BY <1>a, <1>b, <2>1
  <2>5. QED
    BY <1>0, <2>1, <2>3, <2>4 DEF KeysInv, OwnKeys
<1>5. CASE Spawn
  <2>1. /\ \A d \in Conns : task'[d] = IF d = current THEN "check" ELSE task[d]
        /\ reactor = "spawn" /\ reactor' = "select" /\ UNCHANGED <<peer, sessions, raced>>
    BY <1>0, <1>5 DEF Spawn, TypeOK, ThreadTypes
  <2>2. ForwardingIsRegistered'
    BY <1>0, <1>b, <2>1 DEF KeysInv, ForwardingIsRegistered
  <2>3. QED
    BY <1>0, <2>1, <2>2 DEF KeysInv, OwnKeys
<1>6. ASSUME NEW c \in Conns, SessionThread(c) PROVE KeysInv'
  <2>1. /\ UNCHANGED <<peer, reactor, current>>
        /\ \A d \in Conns \ {c} : task'[d] = task[d]
        /\ raced => raced'
        /\ Runs(c)
    BY <1>0, <1>6, ThreadMoves
  <2>2. CASE sessions' = sessions /\ task[c] \in {"check", "read", "send", "erase"}
    BY <1>0, <2>1, <2>2 DEF KeysInv, OwnKeys, ForwardingIsRegistered
  <2>3. CASE EraseEnds(c) /\ ~raced
    <3>1. sessions' = [sessions EXCEPT ![peer[c]] = None] /\ task'[c] = "done"
      BY <1>0, <2>3 DEF EraseEnds, SessionStep, TypeOK, ThreadTypes
    <3>2. \A d \in Conns : d # c /\ peer[d] \in Keys => sessions'[peer[d]] = sessions[peer[d]]
      BY <1>0, <1>a, <3>1 DEF OwnKeys
    <3>3. ForwardingIsRegistered'
      BY <1>0, <2>1, <2>3, <3>1, <3>2 DEF ForwardingIsRegistered
    <3>4. reactor = "spawn" => sessions'[peer[current]] = sessions[peer[current]]
      BY <1>b, <2>1, <3>2 DEF Runs
    <3>5. QED
      BY <1>0, <2>1, <2>3, <3>3, <3>4 DEF KeysInv, OwnKeys
  <2>4. CASE raced
    BY <1>0, <2>1, <2>4 DEF KeysInv, OwnKeys, ForwardingIsRegistered
  <2>5. QED
    BY <1>0, <1>6, <2>2, <2>3, <2>4, ThreadUnregisters
<1>7. CASE CloseAcceptor \/ CancelTask \/ JoinTask \/ EndLoop
  BY <1>7 DEF CloseAcceptor, CancelTask, JoinTask, EndLoop, StopperStep, KeysInv, OwnKeys, ForwardingIsRegistered
<1>8. CASE Crash
  BY <1>8 DEF Crash, KeysInv, OwnKeys, ForwardingIsRegistered
<1>9. CASE Aside
  BY <1>0, <1>9, AsideMoves DEF KeysInv, OwnKeys, ForwardingIsRegistered
<1>10. QED
  BY <1>1, <1>2, <1>3, <1>4, <1>5, <1>6, <1>7, <1>8, <1>9, NextIsSteps DEF Steps

-----------------------------------------------------------------------------
(* What a proxy with one client has sent, holds and has still to read *)

Flat == FlattenSeq(toUdp)

\* n units of c, with the numbers from k + 1 on.
Row(c, k, data, n) == \A i \in 1..n : data[i] = <<c, k + i>>

\* What has gone out is in order, and its numbers are up to b.
OrderedUpTo(c, b) ==
    /\ \A i \in 1..Len(Flat) : \E n \in 1..b : Flat[i] = <<c, n>>
    /\ \A i, j \in 1..Len(Flat) : i < j => Flat[i][2] < Flat[j][2]

\* The datagram in the buffer has the numbers from b + 1 to k, what has not been read those
\* after k, up to the last that was sent: some of these a reset may have lost.
At(c, b, k) ==
    /\ b <= k /\ k + Len(inbox[c]) <= sentUnits[c]
    /\ link[c] \in {"idle", "open"} => k + Len(inbox[c]) = sentUnits[c]
    /\ Row(c, k, inbox[c], Len(inbox[c]))
    /\ task[c] = "send" => b < k /\ count[c] = k - b /\ Row(c, b, tcpBuffer, count[c])
    /\ OrderedUpTo(c, b)

StreamInv == \A c \in Conns : \E b, k \in 0..sentUnits[c] : At(c, b, k)

\* The steps that leave the client's data where they are.
Rests(c) ==
    /\ UNCHANGED <<toUdp, inbox, sentUnits, tcpBuffer, count>>
    /\ link'[c] \in {"idle", "open"} => link[c] \in {"idle", "open"}
    /\ task'[c] = "send" => task[c] = "send"

LEMMA StreamRests ==
    ASSUME StreamInv, NEW c \in Conns, Rests(c)
    PROVE  \E b, k \in 0..sentUnits'[c] : At(c, b, k)'
<1>1. PICK b \in 0..sentUnits[c], k \in 0..sentUnits[c] : At(c, b, k)
  BY DEF StreamInv
<1>2. OrderedUpTo(c, b)'
  BY <1>1 DEF At, OrderedUpTo, Flat, Rests
<1>3. At(c, b, k)'
  BY <1>1, <1>2 DEF At, Rests, Row
<1>4. QED
  BY <1>1, <1>3 DEF Rests

\* All steps of the environment, of the reactor and of stop() but two.
LEMMA OtherStepsRest ==
    ASSUME TypeOK, OnePlace, [Next]_vars, NEW c \in Conns,
           ~\E d \in Conns : ClientSend(d) \/ ClientClose(d) \/ SessionThread(d)
    PROVE  Rests(c)
<1> USE DEF clientVars, udpVars, reactorVars, threadVars, Rests
<1>1. ASSUME NEW d \in Conns, NEW k \in Keys, Connect(d, k) PROVE Rests(c)
  BY <1>1 DEF Connect, TypeOK, ClientTypes
<1>2. ASSUME NEW d \in Replies, ReplyArrives(d) PROVE Rests(c)
  BY <1>2 DEF ReplyArrives
<1>3. CASE Accept \/ AcceptFails \/ Register
  BY <1>3 DEF Accept, AcceptFails, Register
<1>4. CASE Spawn
  BY <1>4 DEF Spawn, TypeOK, ThreadTypes
<1>5. CASE UdpInput \/ UdpInputEmpty \/ UdpInputFails \/ UdpInputBlocks
  BY <1>5 DEF UdpInput, UdpInputEmpty, UdpInputFails, UdpInputBlocks
<1>6. ASSUME NEW k \in Keys, Broadcast(k) PROVE Rests(c)
  BY <1>6 DEF Broadcast
<1>7. CASE BroadcastEnds \/ ReactorExits \/ Sigint
  BY <1>7 DEF BroadcastEnds, ReactorExits, Sigint
<1>8. CASE StopBegins \/ RemoveUdpHandler \/ CancelTask \/ JoinTask \/ EndLoop
  BY <1>8 DEF StopBegins, RemoveUdpHandler, CancelTask, JoinTask, EndLoop, StopperStep
<1>9. CASE CloseAcceptor
  BY <1>9 DEF CloseAcceptor, StopperStep
<1>10. CASE Crash
  BY <1>10 DEF Crash
<1>11. CASE Terminated \/ UNCHANGED vars
  BY <1>11 DEF Terminated, vars
<1>12. QED
  BY <1>1, <1>2, <1>3, <1>4, <1>5, <1>6, <1>7, <1>8, <1>9, <1>10, <1>11
  DEF Next, Environment, ReactorThread, StopperRuns

\* The client writes, and one more unit waits.
LEMMA SendStream ==
    ASSUME TypeOK, StreamInv, NEW c \in Conns, ClientSend(c)
    PROVE  \E b, k \in 0..sentUnits'[c] : At(c, b, k)'
<1>1. PICK b \in 0..sentUnits[c], k \in 0..sentUnits[c] : At(c, b, k)
  BY DEF StreamInv
<1>2. /\ sentUnits[c] \in Nat /\ b \in Nat /\ k \in Nat
      /\ sentUnits[c] + 1 \in 1..MaxUnits
      /\ link[c] = "open"
      /\ sentUnits'[c] = sentUnits[c] + 1
      /\ inbox'[c] = Append(inbox[c], <<c, sentUnits[c] + 1>>)
      /\ UNCHANGED <<link, toUdp, task, count, tcpBuffer>>
  BY ServerProxyAssumption DEF ClientSend, TypeOK, ClientTypes, udpVars, threadVars
<1>3. inbox[c] \in Seq(Units) /\ <<c, sentUnits[c] + 1>> \in Units
  BY <1>2 DEF Units, TypeOK, ClientTypes
<1>4. /\ Len(inbox[c]) \in Nat /\ Len(inbox'[c]) = Len(inbox[c]) + 1
      /\ \A i \in 1..Len(inbox[c]) : inbox'[c][i] = inbox[c][i]
      /\ inbox'[c][Len(inbox[c]) + 1] = <<c, sentUnits[c] + 1>>
  BY <1>2, <1>3, AddLast
<1>5. k + Len(inbox[c]) = sentUnits[c]
  BY <1>1, <1>2 DEF At
<1>6. Row(c, k, inbox'[c], Len(inbox'[c]))
  <2> SUFFICES ASSUME NEW i \in 1..Len(inbox'[c]) PROVE inbox'[c][i] = <<c, k + i>>
    BY DEF Row
  <2>1. CASE i = Len(inbox[c]) + 1
    BY <1>2, <1>4, <1>5, <2>1
  <2>2. CASE i \in 1..Len(inbox[c])
    BY <1>1, <1>4, <2>2 DEF At, Row
  <2>3. QED
    BY <1>4, <2>1, <2>2
<1>7. k + Len(inbox'[c]) = sentUnits'[c]
  BY <1>2, <1>4, <1>5
<1>8. OrderedUpTo(c, b)'
  BY <1>1, <1>2 DEF At, OrderedUpTo, Flat
<1>9. At(c, b, k)'
  BY <1>1, <1>2, <1>6, <1>7, <1>8 DEF At, Row
<1>10. b \in 0..sentUnits'[c] /\ k \in 0..sentUnits'[c]
  BY <1>2
<1>11. QED
  BY <1>9, <1>10

\* The client leaves, and a reset loses what is behind some unit.
LEMMA CloseStream ==
    ASSUME TypeOK, StreamInv, NEW c \in Conns, ClientClose(c)
    PROVE  \E b, k \in 0..sentUnits'[c] : At(c, b, k)'
<1>1. PICK b \in 0..sentUnits[c], k \in 0..sentUnits[c] : At(c, b, k)
  BY DEF StreamInv
<1>2. sentUnits[c] \in Nat /\ inbox[c] \in Seq(Units) /\ Len(inbox[c]) \in Nat
  BY LenProperties, ServerProxyAssumption DEF TypeOK, ClientTypes
<1>3. /\ link'[c] \notin {"idle", "open"}
      /\ UNCHANGED <<sentUnits, toUdp, task, count, tcpBuffer>>
      /\ inbox'[c] = inbox[c] \/ \E n \in 0..Len(inbox[c]) : inbox'[c] = Prefix(inbox[c], n)
  BY DEF ClientClose, TypeOK, ClientTypes, udpVars, threadVars
<1>4. Len(inbox'[c]) \in 0..Len(inbox[c]) /\ \A i \in 1..Len(inbox'[c]) : inbox'[c][i] = inbox[c][i]
  <2>1. CASE inbox'[c] = inbox[c]
    BY <1>2, <2>1
  <2>2. ASSUME NEW n \in 0..Len(inbox[c]), inbox'[c] = Prefix(inbox[c], n)
        PROVE  Len(inbox'[c]) = n /\ \A i \in 1..Len(inbox'[c]) : inbox'[c][i] = inbox[c][i]
    <3>1. \A i \in 1..n : inbox[c][i] \in Units
      BY <1>2, ElementOfSeq
    <3>2. QED
      BY <1>2, <2>2, <3>1, SubSeqProperties DEF Prefix
  <2>3. QED
    BY <1>3, <2>1, <2>2
<1>5. Row(c, k, inbox'[c], Len(inbox'[c])) /\ k + Len(inbox'[c]) <= sentUnits[c]
  <2>1. k + Len(inbox[c]) <= sentUnits[c] /\ Row(c, k, inbox[c], Len(inbox[c]))
    BY <1>1 DEF At
  <2>2. \A i \in 1..Len(inbox'[c]) : i \in 1..Len(inbox[c])
    BY <1>2, <1>4
  <2>3. \A l, m, n \in Nat : m \in 0..l /\ k + l <= n => k + m <= n
    OBVIOUS
  <2>4. k + Len(inbox'[c]) <= sentUnits[c]
    BY <1>2, <1>4, <2>1, <2>3
  <2>5. QED
    BY <1>4, <2>1, <2>2, <2>4 DEF Row
<1>6. OrderedUpTo(c, b)'
  BY <1>1, <1>3 DEF At, OrderedUpTo, Flat
<1>7. At(c, b, k)'
  BY <1>1, <1>3, <1>5, <1>6 DEF At, Row
<1>8. QED
  BY <1>3, <1>7

\* A read takes the next units into the buffer.
LEMMA ReadStream ==
    ASSUME TypeOK, StreamInv, NEW c \in Conns, Read(c)
    PROVE  \E b, k \in 0..sentUnits'[c] : At(c, b, k)'
<1>1. PICK b \in 0..sentUnits[c], k \in 0..sentUnits[c] : At(c, b, k)
  BY DEF StreamInv
<1>2. /\ inbox[c] \in Seq(Units) /\ Len(inbox[c]) \in Nat \ {0} /\ sentUnits[c] \in Nat
      /\ k \in Nat /\ BufSize \in Nat \ {0}
  BY EmptySeq, LenProperties, ServerProxyAssumption DEF Read, TypeOK, ClientTypes
<1>3. PICK n \in Nat : n = Smaller(BufSize, Len(inbox[c])) /\ n \in 1..Len(inbox[c]) /\ n \in 1..BufSize
  BY <1>2 DEF Smaller
<1>4. /\ inbox'[c] = SubSeq(inbox[c], n + 1, Len(inbox[c]))
      /\ tcpBuffer' = [i \in 1..BufSize |-> IF i <= n THEN inbox[c][i] ELSE tcpBuffer[i]]
      /\ count'[c] = n
      /\ task[c] = "read"
      /\ UNCHANGED <<link, sentUnits, toUdp>>
  BY <1>3 DEF Read, SessionStep, TypeOK, ClientTypes, ThreadTypes, clientVars
<1>5. /\ Len(inbox'[c]) = Len(inbox[c]) - n
      /\ \A i \in 1..Len(inbox'[c]) : n + i \in 1..Len(inbox[c]) /\ inbox'[c][i] = inbox[c][n + i]
  <2>1. inbox[c] \in Seq(Units) /\ n \in 0..Len(inbox[c])
    BY <1>2, <1>3
  <2> DEFINE rest == SubSeq(inbox[c], n + 1, Len(inbox[c]))
  <2>2. /\ Len(rest) = Len(inbox[c]) - n
        /\ \A i \in 1 .. Len(inbox[c]) - n : n + i \in 1..Len(inbox[c]) /\ rest[i] = inbox[c][n + i]
    BY <2>1, RestElements
  <2>3. inbox'[c] = rest
    BY <1>4
  <2> HIDE DEF rest
  <2>4. QED
    BY <2>2, <2>3
<1>6. /\ k + n + Len(inbox'[c]) = k + Len(inbox[c])
      /\ k + n <= k + Len(inbox[c]) /\ k < k + n /\ k <= k + n /\ k + n - k = n
      /\ k + n \in Nat
  <2>1. \A l \in Nat \ {0} : n \in 1..l =>
            k + n + (l - n) = k + l /\ k + n <= k + l /\ k < k + n /\ k <= k + n /\ k + n - k = n /\ k + n \in Nat
    BY <1>2, <1>3
  <2>2. QED
    BY <1>2, <1>3, <1>5, <2>1
<1>7. Row(c, k + n, inbox'[c], Len(inbox'[c]))
  <2> SUFFICES ASSUME NEW i \in 1..Len(inbox'[c]) PROVE inbox'[c][i] = <<c, k + n + i>>
    BY DEF Row
  <2>1. k + (n + i) = k + n + i /\ n + i \in 1..Len(inbox[c])
    BY <1>2, <1>3, <1>5
  <2>2. inbox[c][n + i] = <<c, k + (n + i)>>
    BY <1>1, <2>1 DEF At, Row
  <2>3. QED
    BY <1>5, <2>1, <2>2
<1>8. Row(c, k, tcpBuffer', n)
  <2> SUFFICES ASSUME NEW i \in 1..n PROVE tcpBuffer'[i] = <<c, k + i>>
    BY DEF Row
  <2>1. i \in 1..BufSize /\ i <= n /\ i \in 1..Len(inbox[c])
    BY <1>2, <1>3
  <2>2. QED
    BY <1>1, <1>4, <2>1 DEF At, Row
<1>9. OrderedUpTo(c, k)'
  <2>1. OrderedUpTo(c, b) /\ b <= k
    BY <1>1 DEF At
  <2>2. \A i \in 1..b : i \in 1..k
    BY <1>2, <2>1
  <2>3. QED
    BY <1>4, <2>1, <2>2 DEF OrderedUpTo, Flat
<1>10. k + n + Len(inbox'[c]) <= sentUnits'[c] /\ (link'[c] \in {"idle", "open"} => k + n + Len(inbox'[c]) = sentUnits'[c])
  BY <1>1, <1>4, <1>6 DEF At
<1>11. PICK m \in Nat : m = k + n
  BY <1>6
<1>12. At(c, k, m)'
  <2>1. k < m /\ k <= m /\ count'[c] = m - k
    BY <1>4, <1>6, <1>11
  <2>2. Row(c, m, inbox'[c], Len(inbox'[c])) /\ Row(c, k, tcpBuffer', count'[c])
    BY <1>4, <1>7, <1>8, <1>11
  <2>3. m + Len(inbox'[c]) <= sentUnits'[c] /\ (link'[c] \in {"idle", "open"} => m + Len(inbox'[c]) = sentUnits'[c])
    BY <1>10, <1>11
  <2>4. QED
    BY <1>9, <2>1, <2>2, <2>3 DEF At
<1>13. k \in 0..sentUnits'[c] /\ m \in 0..sentUnits'[c]
  BY <1>1, <1>2, <1>4, <1>6, <1>11 DEF At
<1>14. QED
  BY <1>12, <1>13

\* A send adds the datagram in the buffer to what has gone out: the units from b + 1 to k.
LEMMA ForwardNumbers ==
    ASSUME TypeOK, NEW c \in Conns, Forward(c), NEW b \in 0..sentUnits[c], NEW k \in 0..sentUnits[c], At(c, b, k),
           ~UNCHANGED toUdp
    PROVE  /\ Flat \in Seq(Units \cup {NoByte}) /\ Flat' \in Seq(Units \cup {NoByte})
           /\ Len(Flat) \in Nat /\ Len(Flat') = Len(Flat) + (k - b)
           /\ \A i \in 1..Len(Flat) : Flat'[i] = Flat[i]
           /\ \A i \in 1 .. k - b : Flat'[Len(Flat) + i] = <<c, b + i>>
<1> DEFINE S == Units \cup {NoByte}
           data == Prefix(tcpBuffer, count[c])
<1>1. /\ task[c] = "send" /\ toUdp' = Append(toUdp, data)
      /\ count[c] = k - b /\ Row(c, b, tcpBuffer, k - b)
  BY DEF Forward, SessionStep, At
<1>2. tcpBuffer \in Seq(S) /\ Len(tcpBuffer) = BufSize /\ count[c] \in 0..BufSize
  BY ServerProxyAssumption, IsASeq DEF TypeOK, ThreadTypes
<1>3. data \in Seq(S)
  BY <1>2, PrefixType DEF Prefix
<1>4. Len(data) = count[c] /\ \A i \in 1..count[c] : data[i] = tcpBuffer[i]
  <2>1. \A i \in 1..count[c] : tcpBuffer[i] \in S
    BY <1>2, ElementOfSeq, ServerProxyAssumption
  <2>2. QED
    BY <1>2, <2>1, SubSeqProperties, ServerProxyAssumption DEF Prefix
<1>5. toUdp \in Seq(Seq(S))
  BY DEF TypeOK, UdpTypes
<1> HIDE DEF S, data
<1>6. Flat \in Seq(S) /\ Len(Flat) \in Nat
  BY <1>5, FlattenType, LenProperties DEF Flat
<1>7. Flat' = Flat \o data
  BY <1>1, <1>3, <1>5, FlattenAppend DEF Flat
<1>8. /\ Flat \o data \in Seq(S) /\ Len(Flat \o data) = Len(Flat) + Len(data)
      /\ \A i \in 1..Len(Flat) + Len(data) :
           (Flat \o data)[i] = IF i <= Len(Flat) THEN Flat[i] ELSE data[i - Len(Flat)]
  BY <1>3, <1>6, ConcatProperties
<1>9. k - b \in Nat /\ Len(data) = k - b
  BY <1>1, <1>2, <1>4
<1>10. \A i \in 1..Len(Flat) : Flat'[i] = Flat[i]
  BY <1>6, <1>7, <1>8, <1>9
<1>11. ASSUME NEW i \in 1 .. k - b PROVE Flat'[Len(Flat) + i] = <<c, b + i>>
  <2>1. /\ Len(Flat) + i \in 1..Len(Flat) + Len(data) /\ ~(Len(Flat) + i <= Len(Flat))
        /\ Len(Flat) + i - Len(Flat) = i
    BY <1>6, <1>9
  <2>2. Flat'[Len(Flat) + i] = data[i]
    BY <1>7, <1>8, <2>1
  <2>3. data[i] = tcpBuffer[i]
    BY <1>1, <1>4
  <2>4. QED
    BY <1>1, <2>2, <2>3 DEF Row
<1>12. QED
  BY <1>6, <1>7, <1>8, <1>9, <1>10, <1>11 DEF S

LEMMA ForwardStream ==
    ASSUME TypeOK, StreamInv, NEW c \in Conns, Forward(c)
    PROVE  \E b, k \in 0..sentUnits'[c] : At(c, b, k)'
<1>1. PICK b \in 0..sentUnits[c], k \in 0..sentUnits[c] : At(c, b, k)
  BY DEF StreamInv
<1>2. /\ task[c] = "send" /\ task'[c] = "check"
      /\ UNCHANGED <<link, sentUnits, inbox, tcpBuffer, count>>
  BY DEF Forward, SessionStep, clientVars, TypeOK, ThreadTypes
<1>3. CASE UNCHANGED toUdp
  <2>1. Rests(c)
    BY <1>2, <1>3 DEF Rests
  <2>2. QED
    BY <2>1, StreamRests
<1>4. CASE ~UNCHANGED toUdp
  <2>1. b \in Nat /\ k \in Nat /\ b <= k /\ OrderedUpTo(c, b)
    BY <1>1, ServerProxyAssumption DEF At, TypeOK, ClientTypes
  <2>2. /\ Len(Flat) \in Nat /\ Len(Flat') = Len(Flat) + (k - b)
        /\ \A i \in 1..Len(Flat) : Flat'[i] = Flat[i]
        /\ \A i \in 1 .. k - b : Flat'[Len(Flat) + i] = <<c, b + i>>
    BY <1>1, <1>4, ForwardNumbers
  <2>3. ASSUME NEW i \in 1..Len(Flat')
        PROVE  i \in 1..Len(Flat) \/ \E j \in 1 .. k - b : i = Len(Flat) + j
    <3>1. i \notin 1..Len(Flat) => i - Len(Flat) \in 1 .. k - b /\ i = Len(Flat) + (i - Len(Flat))
      BY <2>1, <2>2
    <3>2. QED
      BY <3>1
  <2>4. ASSUME NEW i \in 1..Len(Flat') PROVE \E n \in 1..k : Flat'[i] = <<c, n>>
    <3>1. CASE i \in 1..Len(Flat)
      <4>1. PICK n \in 1..b : Flat[i] = <<c, n>>
        BY <2>1, <3>1 DEF OrderedUpTo
      <4>2. n \in 1..k
        BY <2>1
      <4>3. QED
        BY <2>2, <3>1, <4>1, <4>2
    <3>2. ASSUME NEW j \in 1 .. k - b, i = Len(Flat) + j PROVE \E n \in 1..k : Flat'[i] = <<c, n>>
      <4>1. b + j \in 1..k
        BY <2>1
      <4>2. QED
        BY <2>2, <3>2, <4>1
    <3>3. QED
      BY <2>3, <3>1, <3>2
  <2>5. ASSUME NEW i \in 1..Len(Flat'), NEW j \in 1..Len(Flat'), i < j PROVE Flat'[i][2] < Flat'[j][2]
    <3>1. CASE j \in 1..Len(Flat)
      <4>1. i \in 1..Len(Flat)
        BY <2>2, <2>5, <3>1
      <4>2. QED
        BY <2>1, <2>2, <2>5, <3>1, <4>1 DEF OrderedUpTo
    <3>2. ASSUME NEW m \in 1 .. k - b, j = Len(Flat) + m PROVE Flat'[i][2] < Flat'[j][2]
      <4>1. Flat'[j] = <<c, b + m>>
        BY <2>2, <3>2
      <4>2. CASE i \in 1..Len(Flat)
        <5>1. PICK n \in 1..b : Flat[i] = <<c, n>>
          BY <2>1, <4>2 DEF OrderedUpTo
        <5>2. n < b + m
          BY <2>1
        <5>3. QED
          BY <2>2, <4>1, <4>2, <5>1, <5>2
      <4>3. ASSUME NEW l \in 1 .. k - b, i = Len(Flat) + l PROVE Flat'[i][2] < Flat'[j][2]
        <5>1. l < m
          BY <2>2, <2>5, <3>2, <4>3
        <5>2. b + l < b + m
          BY <2>1, <5>1
        <5>3. QED
          BY <2>2, <4>1, <4>3, <5>2
      <4>4. QED
        BY <2>3, <4>2, <4>3
    <3>3. QED
      BY <2>3, <3>1, <3>2
  <2>6. OrderedUpTo(c, k)'
    BY <2>4, <2>5 DEF OrderedUpTo
  <2>7. At(c, k, k)'
    BY <1>1, <1>2, <2>1, <2>6 DEF At, Row
  <2>8. QED
    BY <1>2, <2>7
<1>5. QED
  BY <1>3, <1>4

LEMMA StreamKept ==
    ASSUME TypeOK, OnePlace, OneClient, StreamInv, [Next]_vars
    PROVE  StreamInv'
<1> SUFFICES ASSUME NEW c \in Conns PROVE \E b, k \in 0..sentUnits'[c] : At(c, b, k)'
  BY DEF StreamInv
<1>1. ASSUME NEW d \in Conns, ClientSend(d) PROVE \E b, k \in 0..sentUnits'[c] : At(c, b, k)'
  <2>1. c = d
    BY DEF OneClient
  <2>2. QED
    BY <1>1, <2>1, SendStream
<1>2. ASSUME NEW d \in Conns, ClientClose(d) PROVE \E b, k \in 0..sentUnits'[c] : At(c, b, k)'
  <2>1. c = d
    BY DEF OneClient
  <2>2. QED
    BY <1>2, <2>1, CloseStream
<1>3. ASSUME NEW d \in Conns, SessionThread(d) PROVE \E b, k \in 0..sentUnits'[c] : At(c, b, k)'
  <2>1. c = d
    BY DEF OneClient
  <2>2. CASE Read(d)
    BY <2>1, <2>2, ReadStream
  <2>3. CASE Forward(d)
    BY <2>1, <2>3, ForwardStream
  <2>4. CASE ~Read(d) /\ ~Forward(d)
    <3>1. Rests(c)
      BY <1>3, <2>1, <2>4 DEF SessionThread, CheckCancelled, ReadTimeout, ReadClosed, EraseBegins, EraseEnds, SessionStep,
                              Rests, clientVars, TypeOK, ThreadTypes
    <3>2. QED
      BY <3>1, StreamRests
  <2>5. QED
    BY <2>2, <2>3, <2>4
<1>4. CASE ~\E d \in Conns : ClientSend(d) \/ ClientClose(d) \/ SessionThread(d)
  <2>1. Rests(c)
    BY <1>4, OtherStepsRest
  <2>2. QED
    BY <2>1, StreamRests
<1>5. QED
  BY <1>1, <1>2, <1>3, <1>4

LEMMA InitStream == ASSUME Init PROVE StreamInv
<1> SUFFICES ASSUME NEW c \in Conns PROVE \E b, k \in 0..sentUnits[c] : At(c, b, k)
  BY DEF StreamInv
<1>1. sentUnits[c] = 0 /\ inbox[c] = <<>> /\ task[c] = "none" /\ toUdp = <<>>
  BY DEF Init
<1>2. Flat = <<>>
  BY <1>1 DEF Flat, FlattenSeq
<1>3. At(c, 0, 0)
  BY <1>1, <1>2 DEF At, Row, OrderedUpTo
<1>4. QED
  BY <1>1, <1>3

-----------------------------------------------------------------------------
(* A proxy with one client implements the ordered channel *)

\* What has been forwarded are the numbers of what has gone out.
NumbersOf(c) ==
    /\ Len(Flat) \in Nat /\ sentUnits[c] \in Nat
    /\ Forwarded(c) \in Seq(Nat) /\ Len(Forwarded(c)) = Len(Flat)
    /\ \A i \in 1..Len(Flat) : Forwarded(c)[i] = Flat[i][2]

AllNumbers == \A c \in Conns : NumbersOf(c)

LEMMA ForwardedNumbers == TypeOK /\ StreamInv => AllNumbers
<1> SUFFICES ASSUME TypeOK, StreamInv, NEW c \in Conns PROVE NumbersOf(c)
  BY DEF AllNumbers
<1>1. PICK b \in 0..sentUnits[c], k \in 0..sentUnits[c] : At(c, b, k)
  BY DEF StreamInv
<1>2. toUdp \in Seq(Seq(Units \cup {NoByte})) /\ sentUnits[c] \in Nat
  BY ServerProxyAssumption DEF TypeOK, UdpTypes, ClientTypes
<1>3. Len(Flat) \in Nat
  BY <1>2, FlattenType, LenProperties DEF Flat
<1>4. ASSUME NEW i \in 1..Len(Flat)
      PROVE  /\ Flat[i][2] \in Nat
             /\ ~(Flat[i] = NoByte \/ Flat[i][1] # c)
  <2>1. PICK n \in 1..b : Flat[i] = <<c, n>>
    BY <1>1 DEF At, OrderedUpTo
  <2>2. QED
    BY <2>1 DEF NoByte
<1>5. Forwarded(c) = [i \in 1..Len(Flat) |-> IF Flat[i] = NoByte \/ Flat[i][1] # c THEN 0 ELSE Flat[i][2]]
  BY DEF Forwarded, Flat
<1>6. \A i \in 1..Len(Flat) : Forwarded(c)[i] = Flat[i][2] /\ Forwarded(c)[i] \in Nat
  BY <1>4, <1>5
<1>7. Forwarded(c) \in Seq(Nat) /\ Len(Forwarded(c)) = Len(Flat)
  <2>1. Forwarded(c) = [i \in 1..Len(Flat) |-> Forwarded(c)[i]]
    BY <1>5
  <2>2. QED
    BY <1>3, <1>6, <2>1, IsASeq
<1>8. QED
  BY <1>2, <1>3, <1>6, <1>7 DEF NumbersOf

\* A datagram that goes out is a delivery.
LEMMA ForwardDelivers ==
    ASSUME TypeOK, TypeOK', StreamInv, StreamInv', NEW c \in Conns, Forward(c), ~UNCHANGED toUdp
    PROVE  Forwarding(c)!Deliver
<1>1. PICK b \in 0..sentUnits[c], k \in 0..sentUnits[c] : At(c, b, k)
  BY DEF StreamInv
<1>2. NumbersOf(c)
  BY ForwardedNumbers DEF AllNumbers
<1>3. NumbersOf(c)'
  <2>1. AllNumbers'
    BY ForwardedNumbers, PTL
  <2>2. QED
    BY <2>1 DEF AllNumbers
<1>4. /\ sentUnits'[c] = sentUnits[c]
      /\ b \in Nat /\ k \in Nat /\ sentUnits[c] \in Nat
      /\ b < k /\ k <= sentUnits[c]
      /\ OrderedUpTo(c, b)
  BY <1>1, <1>2 DEF Forward, SessionStep, clientVars, At, NumbersOf
<1>5. /\ Len(Flat) \in Nat /\ Len(Flat') = Len(Flat) + (k - b)
      /\ \A i \in 1..Len(Flat) : Flat'[i] = Flat[i]
      /\ \A i \in 1 .. k - b : Flat'[Len(Flat) + i] = <<c, b + i>>
  BY <1>1, ForwardNumbers
<1> DEFINE new == [i \in 1 .. k + 1 - (b + 1) |-> (b + 1) + i - 1]
<1>6. new \in Seq(Nat) /\ Len(new) = k - b /\ \A i \in 1 .. k - b : new[i] = b + i
  <2>1. k + 1 - (b + 1) = k - b /\ k - b \in Nat /\ \A i \in 1 .. k - b : (b + 1) + i - 1 = b + i /\ b + i \in Nat
    BY <1>4
  <2>2. QED
    BY <2>1, IsASeq
<1> HIDE DEF new
<1>7. /\ Forwarded(c) \in Seq(Nat) /\ Len(Forwarded(c)) = Len(Flat)
      /\ \A i \in 1..Len(Flat) : Forwarded(c)[i] = Flat[i][2]
      /\ Forwarded(c)' \in Seq(Nat) /\ Len(Forwarded(c)') = Len(Flat')
      /\ \A i \in 1..Len(Flat') : Forwarded(c)'[i] = Flat'[i][2]
  BY <1>2, <1>3 DEF NumbersOf
<1>8. \A i \in 1..Len(Forwarded(c)) : Forwarded(c)'[i] = Forwarded(c)[i]
  <2>1. \A i \in 1..Len(Flat) : i \in 1..Len(Flat')
    BY <1>4, <1>5
  <2>2. QED
    BY <1>5, <1>7, <2>1
<1>9. ASSUME NEW i \in 1..Len(new) PROVE Forwarded(c)'[Len(Forwarded(c)) + i] = new[i]
  <2>1. i \in 1 .. k - b /\ Len(Flat) + i \in 1..Len(Flat')
    BY <1>4, <1>5, <1>6
  <2>2. Flat'[Len(Flat) + i] = <<c, b + i>>
    BY <1>5, <2>1
  <2>3. Forwarded(c)'[Len(Flat) + i] = b + i
    BY <1>7, <2>1, <2>2
  <2>4. QED
    BY <1>6, <1>7, <2>1, <2>3
<1>10. Forwarded(c)' = Forwarded(c) \o new
  <2>1. Len(Forwarded(c)') = Len(Forwarded(c)) + Len(new)
    BY <1>5, <1>6, <1>7
  <2>2. QED
    BY <1>6, <1>7, <1>8, <1>9, <2>1, MadeOfTwo
<1>11. Forwarding(c)!Last \in Nat /\ Forwarding(c)!Last <= b
  <2>1. CASE Forwarded(c) = <<>>
    BY <1>4, <2>1 DEF Forwarding!Last
  <2>2. CASE Forwarded(c) # <<>>
    <3>1. Len(Flat) \in 1..Len(Flat)
      BY <1>5, <1>7, <2>2, EmptySeq
    <3>2. Forwarding(c)!Last = Flat[Len(Flat)][2]
      BY <1>7, <2>2, <3>1 DEF Forwarding!Last
    <3>3. PICK n \in 1..b : Flat[Len(Flat)] = <<c, n>>
      BY <1>4, <3>1 DEF OrderedUpTo
    <3>4. QED
      BY <1>4, <3>2, <3>3
  <2>3. QED
    BY <2>1, <2>2
<1>12. b + 1 \in Forwarding(c)!Last + 1 .. sentUnits[c] /\ k \in Forwarding(c)!Last + 1 .. sentUnits[c]
  BY <1>4, <1>11
<1>13. QED
  BY <1>4, <1>10, <1>12 DEF Forwarding!Deliver, new

\* Every step of the proxy is a step of the client's channel or none.
LEMMA ForwardingStep ==
    ASSUME IInv, IInv', StreamInv, StreamInv', OneClient, [Next]_vars, NEW c \in Conns
    PROVE  [Forwarding(c)!Next]_<<sentUnits[c], Forwarded(c)>>
<1>1. TypeOK /\ TypeOK' /\ OnePlace
  BY DEF IInv
<1>2. CASE UNCHANGED <<toUdp, sentUnits>>
  BY <1>2 DEF Forwarded
<1>3. ASSUME NEW d \in Conns, ClientSend(d) PROVE [Forwarding(c)!Next]_<<sentUnits[c], Forwarded(c)>>
  <2>1. c = d
    BY DEF OneClient
  <2>2. sentUnits[c] \in Nat /\ sentUnits'[c] = sentUnits[c] + 1
    BY <1>1, <1>3, <2>1, ServerProxyAssumption DEF ClientSend, TypeOK, ClientTypes
  <2>3. Forwarded(c)' = Forwarded(c)
    BY <1>3 DEF ClientSend, udpVars, Forwarded
  <2>4. sentUnits'[c] > sentUnits[c]
    BY <2>2
  <2>5. QED
    BY <2>3, <2>4 DEF Forwarding!Next, Forwarding!Send
<1>4. ASSUME NEW d \in Conns, ClientClose(d) PROVE UNCHANGED <<toUdp, sentUnits>>
  BY <1>4 DEF ClientClose, udpVars
<1>5. ASSUME NEW d \in Conns, SessionThread(d) PROVE [Forwarding(c)!Next]_<<sentUnits[c], Forwarded(c)>>
  <2>1. c = d
    BY DEF OneClient
  <2>2. CASE Forward(d) /\ ~UNCHANGED toUdp
    BY <1>1, <2>1, <2>2, ForwardDelivers DEF Forwarding!Next
  <2>3. CASE ~Forward(d) \/ UNCHANGED toUdp
    <3>1. UNCHANGED <<toUdp, sentUnits>>
      BY <1>5, <2>3 DEF SessionThread, CheckCancelled, Read, ReadTimeout, ReadClosed, Forward, EraseBegins, EraseEnds,
                        SessionStep, clientVars
    <3>2. QED
      BY <1>2, <3>1
  <2>4. QED
    BY <2>2, <2>3
<1>6. CASE ~\E d \in Conns : ClientSend(d) \/ ClientClose(d) \/ SessionThread(d)
  <2>1. Rests(c)
    BY <1>1, <1>6, OtherStepsRest
  <2>2. QED
    BY <1>2, <2>1 DEF Rests
<1>7. QED
  BY <1>2, <1>3, <1>4, <1>5, <1>6

-----------------------------------------------------------------------------
(* The theorems *)

\* The proxy as start() leaves it.
LEMMA InitHolds == ASSUME Init PROVE IInv
<1>1. TypeOK
  <2>1. \A S : <<>> \in Seq(S)
    BY EmptySeq
  <2>2. 0 \in 0..MaxUnits /\ 0 \in 0..MaxReplies /\ 0 \in 0..BufSize
    BY ServerProxyAssumption
  <2>3. ClientTypes
    BY <2>1, <2>2 DEF Init, ClientTypes
  <2>4. UdpTypes
    BY <2>1, <2>2 DEF Init, UdpTypes
  <2>5. ReactorTypes
    BY DEF Init, ReactorTypes
  <2>6. ThreadTypes
    BY <2>1, <2>2 DEF Init, ThreadTypes
  <2>7. QED
    BY <2>3, <2>4, <2>5, <2>6 DEF TypeOK
<1>2. \A c \in Conns : ~Waits(c)
  BY DEF Init, Waits
<1>3. OnePlace
  BY <1>2 DEF Init, OnePlace, Registering
<1>4. ThreadsAreKept /\ Removed /\ OneIsCancelled
  BY DEF Init, ThreadsAreKept, Runs, Removed, OneIsCancelled
<1>5. RaceNeedsALeaver /\ RegisteredHasThread
  BY DEF Init, RaceNeedsALeaver, RegisteredHasThread
<1>6. QED
  BY <1>1, <1>3, <1>4, <1>5 DEF IInv

\* No step of the proxy or of its environment breaks the inductive invariant.
LEMMA InvariantKept == ASSUME IInv, [Next]_vars PROVE IInv'
<1>1. TypeOK'
  BY TypesKept DEF IInv
<1>2. QED
  BY <1>1, OnePlaceKept, ThreadsAreKeptKept, RemovedKept, OneIsCancelledKept, RaceKept, EntriesKept DEF IInv

\* The inductive invariant holds in every state.
THEOREM Invariant == Spec => []IInv
<1>1. Init => IInv
  BY InitHolds
<1>2. IInv /\ [Next]_vars => IInv'
  BY InvariantKept
<1>3. QED
  BY <1>1, <1>2, PTL DEF Spec

\* Every variable has its type, whatever fails and whatever a race does.
THEOREM TypeCorrect == Spec => []TypeOK
<1>1. IInv => TypeOK
  BY DEF IInv
<1>2. QED
  BY <1>1, Invariant, PTL

\* As long as no client leaves, tcp_sessions_ is used by one thread at a time, also
\* while stop() cancels the threads.
THEOREM RacesAlwaysNeedALeaver == Spec => []RaceNeedsALeaver
<1>1. IInv => RaceNeedsALeaver
  BY DEF IInv
<1>2. QED
  BY <1>1, Invariant, PTL

\* After stop() no thread of a client runs, nobody is registered and no dispatch is
\* under way.
THEOREM StopLeavesNothing == Spec => []QuietAfterStop
<1>1. ASSUME IInv PROVE QuietAfterStop
  <2>1. SUFFICES ASSUME ~raced, stopper = "done"
                 PROVE  /\ \A c \in Conns : task[c] \in {"none", "done"}
                        /\ \A k \in Keys : sessions[k] = None
                        /\ reactor \in {"select", "exited"}
    BY DEF QuietAfterStop
  <2>2. tasks = <<>> /\ reactor \in {"select", "exited"}
    BY <1>1, <2>1 DEF IInv, Removed, ThreadsAreKept, TypeOK, ReactorTypes
  <2>3. \A c \in Conns : ~Kept(c)
    BY <2>2 DEF Kept
  <2>4. \A c \in Conns : task[c] \in {"none", "done"}
    BY <1>1, <2>1, <2>3 DEF IInv, ThreadsAreKept, Runs
  <2>5. \A k \in Keys : sessions[k] = None
    BY <1>1, <2>1, <2>2, <2>4 DEF IInv, RegisteredHasThread, TypeOK, ReactorTypes
  <2>6. QED
    BY <2>2, <2>4, <2>5
<1>2. QED
  BY <1>1, Invariant, PTL

\* remove_handler has waited for the loop of handle_udp_input: no session is written to
\* any more.
THEOREM NoReplyAfterRemoval == Spec => NoReplyAfterHandlerRemoved
<1> DEFINE Silent == stopper \in {"acceptor", "tasks", "join", "done"} => UNCHANGED outbox
<1>1. ASSUME IInv, Next PROVE Silent
  <2> USE DEF clientVars, udpVars, reactorVars, threadVars
  <2>1. ASSUME NEW k \in Keys, Broadcast(k) PROVE Silent
    BY <1>1, <2>1 DEF IInv, Removed, Broadcast
  <2>2. CASE Environment
    BY <2>2 DEF Environment, Connect, ClientSend, ClientClose, ReplyArrives
  <2>3. CASE Accept \/ AcceptFails \/ Register \/ Spawn
    BY <2>3 DEF Accept, AcceptFails, Register, Spawn
  <2>4. CASE UdpInput \/ UdpInputEmpty \/ UdpInputFails \/ UdpInputBlocks
    BY <2>4 DEF UdpInput, UdpInputEmpty, UdpInputFails, UdpInputBlocks
  <2>5. CASE BroadcastEnds \/ ReactorExits \/ Sigint \/ Crash \/ Terminated
    BY <2>5 DEF BroadcastEnds, ReactorExits, Sigint, Crash, Terminated, vars
  <2>6. ASSUME NEW c \in Conns, SessionThread(c) PROVE Silent
    BY <1>1, <2>6, ThreadMoves DEF IInv
  <2>7. CASE StopBegins \/ StopperRuns
    BY <2>7 DEF StopBegins, StopperRuns, RemoveUdpHandler, CloseAcceptor, CancelTask, JoinTask, EndLoop, StopperStep
  <2>8. QED
    BY <1>1, <2>1, <2>2, <2>3, <2>4, <2>5, <2>6, <2>7 DEF Next, ReactorThread
<1>2. IInv /\ [Next]_vars => [Silent]_vars
  BY <1>1
<1>3. QED
  BY <1>2, Invariant, PTL DEF Spec, NoReplyAfterHandlerRemoved

\* tcp_sessions_ and the clients' threads agree in both directions, if no client comes
\* back from the endpoint of a reset connection, or there is one only.
THEOREM MapAlwaysAgrees == ASSUME ~ReuseKeys \/ OneClient PROVE Spec => []MapAgreesWithThreads
<1>1. Init => KeysInv
  BY DEF Init, KeysInv, OwnKeys, ForwardingIsRegistered
<1>2. IInv /\ KeysInv /\ [Next]_vars => KeysInv'
  BY KeysKept
<1>3. IInv /\ KeysInv => MapAgreesWithThreads
  BY DEF IInv, KeysInv, MapAgreesWithThreads
<1>4. QED
  BY <1>1, <1>2, <1>3, Invariant, PTL DEF Spec

\* The units of a proxy's only client are read, sent and go out in the order of their
\* numbers.
THEOREM DataStayInOrder == ASSUME OneClient PROVE Spec => []StreamInv
<1>1. Init => StreamInv
  BY InitStream
<1>2. IInv /\ StreamInv /\ [Next]_vars => StreamInv'
  BY StreamKept DEF IInv
<1>3. QED
  BY <1>1, <1>2, Invariant, PTL DEF Spec

\* A proxy with one client implements an ordered channel that may lose: what forwardTcpToUdp
\* sends is never invented, repeated or reordered. With more clients it does not.
THEOREM ForwardsAlwaysInOrder == ASSUME OneClient PROVE Spec => ForwardsInOrder
<1> DEFINE Step == \A c \in Conns : [Forwarding(c)!Next]_<<sentUnits[c], Forwarded(c)>>
<1>1. Init => \A c \in Conns : Forwarding(c)!Init
  <2> SUFFICES ASSUME Init, NEW c \in Conns PROVE Forwarding(c)!Init
    OBVIOUS
  <2>1. sentUnits[c] = 0 /\ FlattenSeq(toUdp) = <<>>
    BY DEF Init, FlattenSeq
  <2>2. Forwarded(c) = <<>>
    BY <2>1 DEF Forwarded
  <2>3. QED
    BY <2>1, <2>2 DEF Forwarding!Init
<1>2. IInv /\ IInv' /\ StreamInv /\ StreamInv' /\ [Next]_vars => [Step]_vars
  BY ForwardingStep
<1>3. QED
  BY <1>1, <1>2, Invariant, DataStayInOrder, PTL DEF Spec, ForwardsInOrder
=============================================================================

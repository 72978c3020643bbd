---------------------------- MODULE ProxyChain -----------------------------
(***************************************************************************)
(* The chain of the README: TCP clients - TcpServerProxy - UDP network -   *)
(* TcpClientProxy - the TCP echo server.  It composes ServerProxy (whose   *)
(* variables it takes over), ClientProxy (CP, whose variables are cp...)   *)
(* and EchoServer (ES, es...), which shares the TCP connections with CP.   *)
(* The network takes datagrams from the sender's history and gives them to *)
(* the receiver's socket; Net says what it may do to them.  Both ends see  *)
(* one UDP endpoint of the other: the server proxy sends everything from   *)
(* the one socket of its udp_client_.                                      *)
(***************************************************************************)
EXTENDS ServerProxy

CONSTANTS
    Proxy,      \* the UDP endpoint of the server proxy
    AnyZero,    \* "any:0"
    Links,      \* TCP connections of the client proxy to the server
    Net,        \* what the network may do: subset of {"loss", "reorder", "dup"}
    EchoBufSize,\* size of the buffer of an echo thread, in units
    EchoFaults  \* what writes of the echo server may do

VARIABLES
    there,      \* there[i]: how often datagram i of toUdp has arrived
    back,       \* back[i]: how often datagram i of cpOut has arrived
    cpIn, cpOut, cpBindings, cpSender, cpRegistered, cpLink, cpToServer, cpFromServer,
    cpUdpReg, cpLoopEnded, cpReactor, cpStopper,
    esListening, esTask, esTaken, esChunk, esCancelled, esTasks, esStopper

cpOnlyVars == <<cpIn, cpOut, cpBindings, cpSender, cpRegistered, cpUdpReg, cpLoopEnded, cpReactor, cpStopper>>
linkVars == <<cpLink, cpToServer, cpFromServer>>
esVars == <<esListening, esTask, esTaken, esChunk, esCancelled, esTasks, esStopper>>
chainVars == <<vars, there, back, cpOnlyVars, linkVars, esVars>>

\* "echo [" and "]", as units of the stream
Opening == <<"echo [", 0>>
Closing == <<"]", 0>>

\* What can be in a datagram or on a connection of the chain.
ChainUnits == ((Conns \cup Links \cup {Proxy}) \X (1..MaxUnits)) \cup {Opening, Closing}

ASSUME ChainAssumption ==
    /\ Proxy # AnyZero
    /\ None \notin Links \cup {Proxy, AnyZero}
    /\ EchoBufSize \in Nat \ {0}
    /\ Net \subseteq {"loss", "reorder", "dup"}
    /\ EchoFaults \subseteq {"partial", "slow"}
    /\ UNION {[1..n -> ChainUnits] : n \in 0..BufSize} \subseteq Replies

CP == INSTANCE ClientProxy WITH
    Sources <- {Proxy}, Conns <- Links, Faults <- {},
    Units <- ChainUnits,
    udpIn <- cpIn, udpOut <- cpOut, bindings <- cpBindings, udpSender <- cpSender, registered <- cpRegistered,
    link <- cpLink, toServer <- cpToServer, fromServer <- cpFromServer,
    udpReg <- cpUdpReg, loopEnded <- cpLoopEnded, reactor <- cpReactor, stopper <- cpStopper,
    serverUp <- esListening, arrived <- [s \in {Proxy} |-> 0], answered <- [l \in Links |-> 0]

ES == INSTANCE EchoServer WITH
    Conns <- Links, BufSize <- EchoBufSize, Faults <- EchoFaults,
    link <- cpLink, toServer <- cpToServer, fromServer <- cpFromServer, listening <- esListening, task <- esTask,
    taken <- esTaken, chunk <- esChunk, cancelled <- esCancelled, tasks <- esTasks, stopper <- esStopper

ChainInit ==
    /\ Init
    /\ ES!ServerInit
    /\ CP!Init
    /\ there = <<>>
    /\ back = <<>>

\* Datagram i may arrive now: in order and once, but for what Net allows.
MayArrive(i, arrivals) ==
    /\ "reorder" \in Net \/ \A j \in i + 1 .. Len(arrivals) : arrivals[j] = 0
    /\ {"loss", "reorder"} \cap Net # {} \/ \A j \in 1..i - 1 : arrivals[j] > 0
    /\ arrivals[i] = 0 \/ ("dup" \in Net /\ arrivals[i] = 1)

\* A step of the server proxy; what it sends enters the network.
AtServerProxy(step) ==
    /\ step
    /\ there' = IF toUdp' = toUdp THEN there ELSE Append(there, 0)
    /\ UNCHANGED <<back, cpOnlyVars, linkVars, esVars>>

\* A step of the client proxy; what it sends enters the network.
AtClientProxy(step) ==
    /\ step
    /\ back' = IF cpOut' = cpOut THEN back ELSE Append(back, 0)
    /\ UNCHANGED <<vars, there, esVars>>

\* A step of the echo server.
AtServer(step) == step /\ UNCHANGED <<vars, there, back, cpOnlyVars>>

Clients ==
    \/ \E c \in Conns, k \in Keys : AtServerProxy(Connect(c, k))
    \/ \E c \in Conns : AtServerProxy(ClientSend(c)) \/ AtServerProxy(ClientClose(c))

\* ProxyChainTest::TearDown, after the clients have gone: the server, the client proxy and
\* the server proxy are stopped one after the other.
TearDown ==
    \/ (\A c \in Conns : link[c] \notin {"idle", "open"}) /\ AtServer(ES!CloseAcceptor)
    \/ esStopper = "done" /\ AtClientProxy(CP!StopBegins)
    \/ cpStopper = "done" /\ cpReactor = "exited" /\ AtServerProxy(StopBegins)

ArriveThere(i) ==
    /\ MayArrive(i, there)
    /\ there' = [there EXCEPT ![i] = @ + 1]
    /\ cpIn' = Append(cpIn, [from |-> Proxy, data |-> toUdp[i]])
    /\ UNCHANGED <<vars, back, cpOut, cpBindings, cpSender, cpRegistered, cpUdpReg, cpLoopEnded, cpReactor, cpStopper,
                   linkVars, esVars>>

ArriveBack(i) ==
    /\ MayArrive(i, back)
    /\ back' = [back EXCEPT ![i] = @ + 1]
    /\ fromUdp' = Append(fromUdp, cpOut[i].data)
    /\ UNCHANGED <<clientVars, inbox, outbox, backlog, toUdp, nReplies, reactorVars, sessions, threadVars, raced,
                   there, cpOnlyVars, linkVars, esVars>>

ChainTerminated == Terminated /\ UNCHANGED chainVars

ChainNext ==
    \/ Clients
    \/ AtServerProxy(ReactorThread) \/ AtServerProxy(ReactorExits)
    \/ \E c \in Conns : AtServerProxy(SessionThread(c))
    \/ AtServerProxy(StopperRuns) \/ AtServerProxy(Crash)
    \/ AtClientProxy(CP!ReactorThread) \/ AtClientProxy(CP!RemoveUdpHandler)
    \/ \E l \in Links : AtServer(ES!Accept(l)) \/ AtServer(ES!TaskThread(l))
    \/ AtServer(ES!StopperRuns)
    \/ \E i \in 1..Len(there) : ArriveThere(i)
    \/ \E i \in 1..Len(back) : ArriveBack(i)
    \/ TearDown
    \/ ChainTerminated

ChainSpec == ChainInit /\ [][ChainNext]_chainVars

\* All threads of both proxies and the server run, the network delivers what it has not
\* lost, and TearDown, once begun, goes on.
ChainFairSpec ==
    /\ ChainSpec
    /\ WF_chainVars(AtServerProxy(ReactorThread))
    /\ WF_chainVars(AtServerProxy(ReactorExits) \/ AtServerProxy(StopperRuns))
    /\ \A c \in Conns : WF_chainVars(AtServerProxy(SessionThread(c)))
    /\ WF_chainVars(AtClientProxy(CP!ReactorThread))
    /\ WF_chainVars(AtClientProxy(CP!RemoveUdpHandler))
    /\ \A l \in Links : WF_chainVars(AtServer(ES!Accept(l)) \/ AtServer(ES!TaskThread(l)))
    /\ WF_chainVars(AtServer(ES!StopperRuns))
    /\ WF_chainVars(\E i \in 1..Len(there) : ArriveThere(i))
    /\ WF_chainVars(\E i \in 1..Len(back) : ArriveBack(i))
    /\ WF_chainVars(esStopper # "idle" /\ TearDown)

-----------------------------------------------------------------------------
(* Properties *)

IsMark(u) == u \in {Opening, Closing}
Content(s) == FlattenSeq([i \in 1..Len(s) |-> IF IsMark(s[i]) THEN <<>> ELSE <<s[i]>>])
Numbers(s) == [i \in 1..Len(Content(s)) |-> Content(s)[i][2]]

\* One client on a network that loses nothing: the client gets back the beginning
\* of what it wrote (README: "as if they were directly connected").
EchoIsPrefix ==
    \A c \in Conns : Content(outbox[c]) = [i \in 1..Len(Content(outbox[c])) |-> <<c, i>>]

\* Something was lost on the way: a later datagram has arrived.
Skipped(arrivals) == \E i, j \in 1..Len(arrivals) : i < j /\ arrivals[i] = 0 /\ arrivals[j] > 0
Lossless == ~Skipped(there) /\ ~Skipped(back)

\* One client, and the network has lost nothing: what the client is sent is the beginning
\* of a row of "echo [...]", none of them empty, that hold what it wrote, from its first
\* unit on - however the reads of the server and of both proxies have cut the stream.
EchoIsFramed ==
    Lossless => \A c \in Conns :
        /\ Content(outbox[c]) = [i \in 1..Len(Content(outbox[c])) |-> <<c, i>>]
        /\ \A i \in 1..Len(outbox[c]) :
             /\ outbox[c][i] = Opening <=> i = 1 \/ outbox[c][i - 1] = Closing
             /\ outbox[c][i] = Closing => ~IsMark(outbox[c][i - 1])

\* Again and again the client has got back all it wrote, as long as it stays, the network
\* has lost nothing, nobody is stopped and the server has not given up a write.
EchoArrives ==
    []<>(\A c \in Conns : \/ Len(Content(outbox[c])) = sentUnits[c]
                           \/ ~Lossless
                           \/ link[c] # "open" \/ esStopper # "idle"
                           \/ \E l \in Links : esTask[l] \in {"close", "done"} /\ esChunk[l] # <<>>)

\* TearDown comes to its end, with what is still under way between the three: no stop waits
\* for data, a connection or a thread of a server that is no longer there.
TearDownEnds == esStopper # "idle" ~> (stopper = "done" /\ reactor = "exited") \/ raced

\* One client on a network that loses datagrams but keeps their order: the round
\* trip is an ordered channel, end to end.
Client == CHOOSE c \in Conns : TRUE
RoundTrip == INSTANCE OrderedChannel WITH sent <- sentUnits[Client], delivered <- Numbers(outbox[Client])
RoundTripIsOrdered == RoundTrip!RelaySpec

\* A client is sent nothing but answers to what it wrote itself.
AnswersArePrivate == \A c \in Conns : \A i \in 1..Len(Content(outbox[c])) : Content(outbox[c])[i][1] = c

\* When a client closes its connection the server sees its own one closed.
CloseReachesServer ==
    (\E c \in Conns : link[c] = "fin" /\ sentUnits[c] > 0)
        ~> (\A l \in Links : cpLink[l] # "open") \/ stopper # "idle"
=============================================================================

---------------------------- MODULE ClientProxy ----------------------------
(***************************************************************************)
(* TcpClientProxy (src/libtcpclientproxy) on the AceUdpServer of libudp.   *)
(*                                                                         *)
(* One reactor thread does everything: it takes a datagram from the UDP    *)
(* socket and writes it to the TCP connection bound to the datagram's      *)
(* source (connecting first if there is none), and it takes what the TCP   *)
(* server writes on a connection and sends it as a datagram to the bound   *)
(* source.  Another thread may call stop().  A handler blocks the reactor  *)
(* until it returns, so each is one action.  The UDP peers and the TCP     *)
(* server are the environment.                                             *)
(***************************************************************************)
EXTENDS Naturals, Sequences

CONSTANTS
    Sources,    \* UDP endpoints datagrams come from
    AnyZero,    \* "any:0", the key of a message no sender was read for
    Conns,      \* TCP connections the proxy may open
    None,       \* "no connection", "no key"
    Units,      \* units of data
    BufSize,    \* size of the read buffers, in units
    MaxUnits,   \* bound: units a source, or the server on one connection, sends
    Faults      \* which system calls may fail: subset of FaultKinds

FaultKinds == {"recv", "checksum", "connect", "register", "partial", "send", "restart"}
Endpoints == Sources \cup {AnyZero}

ASSUME ClientProxyAssumption ==
    /\ AnyZero \notin Sources
    /\ None \notin Conns \cup Endpoints
    /\ BufSize \in Nat \ {0}
    /\ MaxUnits \in Nat
    /\ Faults \subseteq FaultKinds
    /\ (Sources \cup Conns) \X (1..MaxUnits) \subseteq Units

VARIABLES
    udpIn,      \* datagrams waiting at the UDP socket
    udpOut,     \* datagrams sent
    bindings,   \* BindingManager::bindings_: key -> connection, None where there is none
    udpSender,  \* UdpTcpBinding::udp_sender_ of the binding that owns a connection
    registered, \* connections whose binding is registered with the reactor
    link,       \* link[c]: the TCP connection, as the server left it
    toServer,   \* toServer[c]: units written to the server
    fromServer, \* fromServer[c]: units the server wrote and no read() has taken
    udpReg,     \* is the UDP server registered with the reactor?
    loopEnded,  \* end_reactor_event_loop() has been called
    reactor,    \* where the reactor thread is
    stopper,    \* where the thread that calls stop() is
    serverUp,   \* does the TCP server accept connections?
    arrived,    \* arrived[s]: highest number given to a unit from s
    answered    \* answered[c]: number of units the server wrote on c

udpVars     == <<udpIn, udpOut>>
bindingVars == <<bindings, udpSender, registered>>
tcpVars     == <<link, toServer, fromServer>>
loopVars    == <<udpReg, loopEnded, reactor, stopper>>
envVars     == <<serverUp, arrived, answered>>
systemVars  == <<udpVars, bindingVars, tcpVars, loopVars>>
vars        == <<systemVars, envVars>>

Smaller(m, n) == IF m <= n THEN m ELSE n
Prefix(s, n) == SubSeq(s, 1, n)
Unused == {c \in Conns : link[c] = "unused"}

Init ==
    /\ udpIn = <<>>
    /\ udpOut = <<>>
    /\ bindings = [k \in Endpoints |-> None]
    /\ udpSender = [c \in Conns |-> None]
    /\ registered = {}
    /\ link = [c \in Conns |-> "unused"]
    /\ toServer = [c \in Conns |-> <<>>]
    /\ fromServer = [c \in Conns |-> <<>>]
    /\ udpReg = TRUE
    /\ loopEnded = FALSE
    /\ reactor = "run"
    /\ stopper = "idle"
    /\ serverUp = TRUE
    /\ arrived = [s \in Sources |-> 0]
    /\ answered = [c \in Conns |-> 0]

-----------------------------------------------------------------------------
(* The reactor thread: AceUdpServer::handle_input -> handle_client *)

\* handle_events finishes its round of dispatches even after end_reactor_event_loop().
Running == reactor = "run"
Datagram == Head(udpIn)

\* Faulty variant: the datagram stays in the socket.
TakeDatagram_Peek ==
    /\ Running /\ udpReg /\ udpIn # <<>>
    /\ UNCHANGED <<udpIn, udpOut, loopVars>>

\* Faulty variant: handle_input returns -1, the reactor drops the UDP server.
TakeDatagram_Failing ==
    /\ Running /\ udpReg /\ udpIn # <<>>
    /\ udpIn' = Tail(udpIn)
    /\ udpReg' = FALSE
    /\ UNCHANGED <<udpOut, loopEnded, reactor, stopper>>

TakeDatagram ==
    /\ Running /\ udpReg /\ udpIn # <<>>
    /\ udpIn' = Tail(udpIn)
    /\ UNCHANGED <<udpOut, loopVars>>

\* read_from fails: readUdpMessage throws, handle_client logs.
ReadFails ==
    /\ "recv" \in Faults
    /\ TakeDatagram
    /\ UNCHANGED <<bindingVars, tcpVars>>

\* Faulty variant: the key leaves out what tells two sources apart.
Message_OneKey ==
    {[key |-> CHOOSE s \in Sources : TRUE, data |-> Prefix(Datagram.data, Smaller(BufSize, Len(Datagram.data)))]}

\* What readUdpMessage returns: the sender's key and the data, cut at the buffer's
\* size. For an empty datagram, or one that vanishes between select and recv, the
\* sender is never read and stays Endpoint{}, and the data are empty.
Message ==
    IF Datagram.data = <<>>
    THEN {[key |-> AnyZero, data |-> <<>>]}
    ELSE {[key |-> Datagram.from, data |-> Prefix(Datagram.data, Smaller(BufSize, Len(Datagram.data)))]}
         \cup (IF "checksum" \in Faults THEN {[key |-> AnyZero, data |-> <<>>]} ELSE {})

\* sendToTcpServer: what a write of data on c adds to the stream. A connection the
\* server has left takes nothing, whatever write() returns; nobody looks.
Written(c, data, up) ==
    IF ~up THEN {0}
    ELSE {Len(data)} \cup (IF "partial" \in Faults THEN 0..Len(data) ELSE {})

WriteToServer(c, data, up) ==
    \E n \in Written(c, data, up) : toServer' = [toServer EXCEPT ![c] = @ \o Prefix(data, n)]

\* getOrCreateBinding finds a binding.
ForwardOnBinding ==
    /\ TakeDatagram
    /\ \E m \in Message :
        /\ bindings[m.key] # None
        /\ WriteToServer(bindings[m.key], m.data, link[bindings[m.key]] = "open")
    /\ UNCHANGED <<bindingVars, link, fromServer>>

\* Faulty variant: bindings_ is not looked at.
NoBinding_Unchecked(key) == TRUE

NoBinding(key) == bindings[key] = None

\* Faulty variant: the binding does not keep the sender.
StoreBinding_NoSender(key, c) == bindings' = [bindings EXCEPT ![key] = c] /\ UNCHANGED udpSender

\* The binding keeps the sender, bindings_ the binding.
StoreBinding(key, c) ==
    /\ bindings' = [bindings EXCEPT ![key] = c]
    /\ udpSender' = [udpSender EXCEPT ![c] = key]

\* Faulty variant: the binding is not registered.
RegisterWithReactor_Never(c) == UNCHANGED registered

\* register_handler may fail: nobody looks.
RegisterWithReactor(c) ==
    \/ registered' = registered \cup {c}
    \/ "register" \in Faults /\ UNCHANGED registered

\* getOrCreateBinding finds none: BindingFactory connects, binds and registers; then
\* the write.
ConnectAndForward(c) ==
    /\ TakeDatagram
    /\ serverUp /\ c \in Unused
    /\ \E m \in Message :
        /\ NoBinding(m.key)
        /\ StoreBinding(m.key, c)
        /\ WriteToServer(c, m.data, TRUE)
    /\ RegisterWithReactor(c)
    /\ link' = [link EXCEPT ![c] = "open"]
    /\ UNCHANGED fromServer

\* The connect fails: createBinding throws, handle_client logs, the datagram is gone.
ConnectFails ==
    /\ TakeDatagram
    /\ ~serverUp \/ "connect" \in Faults
    /\ \E m \in Message : NoBinding(m.key)
    /\ UNCHANGED <<bindingVars, tcpVars>>

HandleDatagram == ReadFails \/ ForwardOnBinding \/ (\E c \in Conns : ConnectAndForward(c)) \/ ConnectFails

-----------------------------------------------------------------------------
(* The reactor thread: UdpTcpBinding::handle_input of the binding on c *)

\* Faulty variant: the answer goes to some bound source.
ForwardAnswer_Anyone(c) ==
    /\ Running /\ c \in registered /\ fromServer[c] # <<>>
    /\ LET n == Smaller(BufSize, Len(fromServer[c])) IN
       /\ \E s \in Sources :
            /\ bindings[s] # None
            /\ udpOut' = Append(udpOut, [to |-> s, data |-> Prefix(fromServer[c], n)])
       /\ fromServer' = [fromServer EXCEPT ![c] = SubSeq(@, n + 1, Len(@))]
    /\ UNCHANGED <<udpIn, bindingVars, link, toServer, loopVars>>

\* Data: one datagram to the bound source, the result of write_to is not looked at
\* (nothing can be sent to any:0).
ForwardAnswer(c) ==
    /\ Running /\ c \in registered /\ fromServer[c] # <<>>
    /\ LET n == Smaller(BufSize, Len(fromServer[c])) IN
       /\ \/ /\ udpSender[c] # AnyZero
             /\ udpOut' = Append(udpOut, [to |-> udpSender[c], data |-> Prefix(fromServer[c], n)])
          \/ /\ udpSender[c] = AnyZero \/ "send" \in Faults
             /\ UNCHANGED udpOut
       /\ fromServer' = [fromServer EXCEPT ![c] = SubSeq(@, n + 1, Len(@))]
    /\ UNCHANGED <<udpIn, bindingVars, link, toServer, loopVars>>

\* Faulty variant: the binding unregisters before everything has been read.
ServerLeft_Early(c) ==
    /\ Running /\ c \in registered /\ link[c] = "closed"
    /\ registered' = registered \ {c}
    /\ UNCHANGED <<udpVars, bindings, udpSender, tcpVars, loopVars>>

\* ConnectionClosed or Error: the binding unregisters, and stays in bindings_.
ServerLeft(c) ==
    /\ Running /\ c \in registered /\ fromServer[c] = <<>> /\ link[c] = "closed"
    /\ registered' = registered \ {c}
    /\ UNCHANGED <<udpVars, bindings, udpSender, tcpVars, loopVars>>

-----------------------------------------------------------------------------
(* Stopping: AceUdpServer::stop *)

\* end_reactor_event_loop(), by stop() or by SignalRegistration::handle_signal.
EndLoop(from, to) ==
    /\ stopper = from
    /\ stopper' = to
    /\ loopEnded' = TRUE
    /\ UNCHANGED <<udpVars, bindingVars, tcpVars, udpReg, reactor>>

StopBegins == EndLoop("idle", "handler")

Sigint == ~loopEnded /\ EndLoop("idle", "idle")

\* remove_handler; stop_all_tasks has nothing to do, handle_client returns no task.
RemoveUdpHandler ==
    /\ stopper = "handler"
    /\ stopper' = "done"
    /\ udpReg' = FALSE
    /\ UNCHANGED <<udpVars, bindingVars, tcpVars, loopEnded, reactor>>

\* Faulty variant: the loop goes on as long as there is a handler.
ReactorExits_WhenEmpty ==
    /\ reactor = "run" /\ loopEnded /\ ~udpReg
    /\ reactor' = "exited"
    /\ UNCHANGED <<udpVars, bindingVars, tcpVars, udpReg, loopEnded, stopper>>

ReactorExits ==
    /\ reactor = "run" /\ loopEnded
    /\ reactor' = "exited"
    /\ UNCHANGED <<udpVars, bindingVars, tcpVars, udpReg, loopEnded, stopper>>

ReactorThread == HandleDatagram \/ (\E c \in Conns : ForwardAnswer(c) \/ ServerLeft(c)) \/ ReactorExits
Stopping == StopBegins \/ Sigint \/ RemoveUdpHandler
System == ReactorThread \/ Stopping

-----------------------------------------------------------------------------
(* The UDP peers and the TCP server *)

\* A datagram arrives; its units are numbered in the order they arrive (an empty
\* datagram uses a number up).
Arrive(s, n) ==
    LET used == IF n = 0 THEN 1 ELSE n IN
    /\ arrived[s] + used <= MaxUnits
    /\ arrived' = [arrived EXCEPT ![s] = @ + used]
    /\ udpIn' = Append(udpIn, [from |-> s, data |-> [i \in 1..n |-> <<s, arrived[s] + i>>]])
    /\ UNCHANGED <<udpOut, bindingVars, tcpVars, loopVars, serverUp, answered>>

ServerWrites(c) ==
    /\ link[c] = "open" /\ answered[c] < MaxUnits
    /\ answered' = [answered EXCEPT ![c] = @ + 1]
    /\ fromServer' = [fromServer EXCEPT ![c] = Append(@, <<c, answered[c] + 1>>)]
    /\ UNCHANGED <<udpVars, bindingVars, link, toServer, loopVars, serverUp, arrived>>

\* The server closes a connection: FIN, or RST, which loses what is still on its way.
ServerCloses(c) ==
    /\ link[c] = "open"
    /\ link' = [link EXCEPT ![c] = "closed"]
    /\ \E n \in 0..Len(fromServer[c]) : fromServer' = [fromServer EXCEPT ![c] = Prefix(@, n)]
    /\ UNCHANGED <<udpVars, bindingVars, toServer, loopVars, envVars>>

\* The server ends, and may come back.
ServerRestarts ==
    /\ "restart" \in Faults
    /\ serverUp' = ~serverUp
    /\ link' = [c \in Conns |-> IF link[c] = "open" /\ serverUp THEN "closed" ELSE link[c]]
    /\ UNCHANGED <<udpVars, bindingVars, toServer, fromServer, loopVars, arrived, answered>>

Environment ==
    \/ \E s \in Sources, n \in 0..BufSize + 1 : Arrive(s, n)
    \/ \E c \in Conns : ServerWrites(c) \/ ServerCloses(c)
    \/ ServerRestarts

Terminated == stopper = "done" /\ reactor = "exited" /\ UNCHANGED vars

Next == (System /\ UNCHANGED envVars) \/ Environment \/ Terminated

Spec == Init /\ [][Next]_vars

\* The event loop serves every ready handle in each round, and ends when told to;
\* main() calls stop() once start() has returned.
Fairness ==
    /\ WF_vars(HandleDatagram /\ UNCHANGED envVars)
    /\ \A c \in Conns : WF_vars((ForwardAnswer(c) \/ ServerLeft(c)) /\ UNCHANGED envVars)
    /\ WF_vars(ReactorExits /\ UNCHANGED envVars)
    /\ WF_vars(reactor = "exited" /\ StopBegins /\ UNCHANGED envVars)
    /\ WF_vars(RemoveUdpHandler /\ UNCHANGED envVars)

FairSpec == Spec /\ Fairness

-----------------------------------------------------------------------------
(* Properties *)

Datagrams == [from : Sources, data : Seq(Units)]

TypeOK ==
    /\ udpIn \in Seq(Datagrams)
    /\ udpOut \in Seq([to : Sources, data : Seq(Units)])
    /\ bindings \in [Endpoints -> Conns \cup {None}]
    /\ udpSender \in [Conns -> Endpoints \cup {None}]
    /\ registered \subseteq Conns
    /\ link \in [Conns -> {"unused", "open", "closed"}]
    /\ toServer \in [Conns -> Seq(Units)]
    /\ fromServer \in [Conns -> Seq(Units)]
    /\ udpReg \in BOOLEAN /\ loopEnded \in BOOLEAN /\ serverUp \in BOOLEAN
    /\ reactor \in {"run", "exited"}
    /\ stopper \in {"idle", "handler", "done"}
    /\ arrived \in [Sources -> 0..MaxUnits]
    /\ answered \in [Conns -> 0..MaxUnits]

\* bindings_ and the bindings' own udp_sender_ agree, in both directions: no two
\* sources share a connection, and no connection is without its binding.
BindingsAgree ==
    /\ \A k \in Endpoints : bindings[k] # None => udpSender[bindings[k]] = k
    /\ \A c \in Conns : link[c] # "unused" => udpSender[c] \in Endpoints /\ bindings[udpSender[c]] = c

\* The reactor watches every open connection, so that what the server writes is
\* seen (BindingFactory registers each binding; it fails only with "register").
OpenIsWatched ==
    "register" \notin Faults => \A c \in Conns : link[c] = "open" => c \in registered

\* A connection carries the data of the source it is bound to and of no other.
SourcesSeparate ==
    \A c \in Conns : \A i \in 1..Len(toServer[c]) : toServer[c][i][1] = udpSender[c]

\* An answer goes to the source whose connection the server wrote it on.
AnswersGoHome ==
    \A i \in 1..Len(udpOut) : \A j \in 1..Len(udpOut[i].data) : udpOut[i].data[j][1] = bindings[udpOut[i].to]

\* A binding is for life: no key is ever bound again (removeBinding has no caller).
BindingIsForLife == [][\A k \in Endpoints : bindings[k] # None => bindings'[k] = bindings[k]]_vars

\* Every binding is that of an endpoint that has sent a datagram.
BoundToSender == \A k \in Endpoints : bindings[k] # None => k \in Sources

\* A datagram with data whose source has no connection the proxy still watches is
\* written to an open one, if the server accepts connections.
ReconnectsAfterClose ==
    [][\A s \in Sources :
         (/\ udpIn # <<>> /\ udpIn' = Tail(udpIn)
          /\ Datagram.from = s /\ Datagram.data # <<>>
          /\ bindings[s] \notin registered /\ serverUp)
            => bindings'[s] # None /\ link'[bindings'[s]] = "open"]_vars

\* One direction of the tunnel: for each source, what arrives and what is written
\* on its connection are an ordered channel that may lose.
Relayed(s) == IF bindings[s] = None THEN <<>> ELSE [i \in 1..Len(toServer[bindings[s]]) |-> toServer[bindings[s]][i][2]]
Channel(s) == INSTANCE OrderedChannel WITH sent <- arrived[s], delivered <- Relayed(s)
RelaysInOrder ==
    /\ \A s \in Sources : Channel(s)!Init
    /\ [][\A s \in Sources : [Channel(s)!Next]_<<arrived[s], Relayed(s)>>]_vars

\* Every datagram is taken from the socket as long as the proxy runs.
DatagramsAreTaken == udpIn # <<>> ~> udpIn = <<>> \/ loopEnded

\* What the server writes on a connection the reactor watches is taken, even if the
\* server closes it right after.
AnswersAreTaken ==
    \A c \in Conns : (c \in registered /\ fromServer[c] # <<>>) ~> fromServer[c] = <<>> \/ loopEnded

\* stop(), or SIGINT, ends the event loop and stop() returns.
StopReturns == loopEnded ~> stopper = "done" /\ reactor = "exited"
=============================================================================

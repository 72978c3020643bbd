-------------------------- MODULE ServerLifecycle --------------------------
(***************************************************************************)
(* How a server (IBlockingServer) is created, started and stopped:         *)
(*   background  startServer (src/background) creates and runs it in a     *)
(*               thread of its own, BackgroundServer::stop() ends it from  *)
(*               the caller's thread, which may be at once;                *)
(*   foreground  main() creates it, start() blocks, SIGINT makes start()   *)
(*               return, main() calls stop().                              *)
(* The kinds of servers are AceTcpServer ("tcp"), AceUdpServer ("udp"),    *)
(* TcpClientProxy ("clientProxy", which delegates to an AceUdpServer) and  *)
(* TcpServerProxy ("serverProxy", whose start() makes an AceTcpServer).    *)
(***************************************************************************)
EXTENDS Naturals

CONSTANTS
    Kinds,      \* the kinds of servers considered
    Modes,      \* "background", "foreground"
    MaxInputs,  \* bound: dispatches of handlers
    BindFails,  \* may the address be taken?
    RegisterFails \* may the registration of a UDP handler with the reactor fail?

ASSUME LifecycleAssumption ==
    /\ Kinds \subseteq {"tcp", "udp", "clientProxy", "serverProxy"}
    /\ Modes \subseteq {"background", "foreground"}
    /\ MaxInputs \in Nat
    /\ BindFails \in BOOLEAN /\ RegisterFails \in BOOLEAN

VARIABLES
    kind,       \* what is being run
    mode,       \* and how
    server,     \* where the thread is that creates and runs the server
    caller,     \* where the thread is that stops it
    frame,      \* does the call of startServer live, with the runner the thread refers to?
    registered, \* handlers registered with the reactor: "udp", "acceptor"
    regFlag,    \* TcpServerProxy::reactor_registered_
    tcpServer,  \* TcpServerProxy::tcp_server_ is set
    signal,     \* SignalRegistration is registered for SIGINT
    loopEnded,  \* end_reactor_event_loop() has been called
    stopped,    \* AceUdpServer::stopped_
    tasks,      \* number of tasks in tasks_ of the acceptor or of the UDP server
    inputs      \* number of dispatches so far

vars == <<kind, mode, server, caller, frame, registered, regFlag, tcpServer, signal, loopEnded, stopped, tasks, inputs>>

Handlers == {"udp", "acceptor"}

IsUdp == kind \in {"udp", "clientProxy"}

Init ==
    /\ kind \in Kinds
    /\ mode \in Modes
    /\ server = "create"
    /\ caller = IF mode = "background" THEN "wait" ELSE "blocked"
    /\ frame = (mode = "background")
    /\ registered = {}
    /\ regFlag = FALSE
    /\ tcpServer = FALSE
    /\ signal = FALSE
    /\ loopEnded = FALSE
    /\ stopped = FALSE
    /\ tasks = 0
    /\ inputs = 0

-----------------------------------------------------------------------------
(* The thread that creates and runs the server *)

ServerStep(from, to) ==
    /\ server = from
    /\ server' = to
    /\ UNCHANGED <<kind, mode, stopped>>

\* The constructors. AceTcpServer opens its acceptor here; all but TcpServerProxy
\* register for SIGINT here.
Create ==
    /\ ServerStep("create", IF mode = "background" THEN "publish" ELSE "start")
    /\ registered' = IF kind = "tcp" THEN {"acceptor"} ELSE {}
    /\ signal' = (kind # "serverProxy")
    /\ UNCHANGED <<caller, frame, regFlag, tcpServer, loopEnded, tasks, inputs>>

\* The address is taken, or the acceptor cannot be registered: the constructor throws, in
\* a thread that catches nothing.
CreateFails ==
    /\ BindFails /\ kind # "serverProxy"
    /\ ServerStep("create", "terminated")
    /\ UNCHANGED <<caller, frame, registered, regFlag, tcpServer, signal, loopEnded, tasks, inputs>>

\* promise.set_value(server)
Publish ==
    /\ ServerStep("publish", "call")
    /\ UNCHANGED <<caller, frame, registered, regFlag, tcpServer, signal, loopEnded, tasks, inputs>>

\* runner(*server): runner is a parameter of startServer, captured by reference.
CallRunner ==
    /\ \/ ServerStep("call", "start")
       \/ ~frame /\ ServerStep("call", "terminated")
    /\ UNCHANGED <<caller, frame, registered, regFlag, tcpServer, signal, loopEnded, tasks, inputs>>

\* Where start() goes on when the UDP handler has not been registered: AceUdpServer looks at
\* no result, TcpServerProxy leaves its flag as it is.
Unregistered == IF kind = "serverProxy" THEN "make" ELSE "loop"

\* Faulty variant: every server registers a UDP handler.
Start_AlwaysUdp ==
    /\ \/ ServerStep("start", IF kind = "serverProxy" THEN "flag" ELSE "loop") /\ registered' = registered \cup {"udp"}
       \/ RegisterFails /\ ServerStep("start", Unregistered) /\ UNCHANGED registered
    /\ UNCHANGED <<caller, frame, regFlag, tcpServer, signal, loopEnded, tasks, inputs>>

\* start(): AceUdpServer and TcpServerProxy register their UDP handler first, which may fail.
Start ==
    /\ \/ kind = "tcp" /\ ServerStep("start", "loop") /\ UNCHANGED registered
       \/ IsUdp /\ ServerStep("start", "loop") /\ registered' = registered \cup {"udp"}
       \/ kind = "serverProxy" /\ ServerStep("start", "flag") /\ registered' = registered \cup {"udp"}
       \/ RegisterFails /\ kind # "tcp" /\ ServerStep("start", Unregistered) /\ UNCHANGED registered
    /\ UNCHANGED <<caller, frame, regFlag, tcpServer, signal, loopEnded, tasks, inputs>>

\* reactor_registered_ = true, once register_handler has returned 0
SetRegFlag ==
    /\ ServerStep("flag", "make")
    /\ regFlag' = TRUE
    /\ UNCHANGED <<caller, frame, registered, tcpServer, signal, loopEnded, tasks, inputs>>

\* create_tcp_server with the shared reactor; it throws as in CreateFails.
MakeTcpServer ==
    /\ \/ /\ ServerStep("make", "assign")
          /\ registered' = registered \cup {"acceptor"}
          /\ signal' = TRUE
       \/ /\ BindFails
          /\ ServerStep("make", "terminated")
          /\ UNCHANGED <<registered, signal>>
    /\ UNCHANGED <<caller, frame, regFlag, tcpServer, loopEnded, tasks, inputs>>

\* tcp_server_ = ...
AssignTcpServer ==
    /\ ServerStep("assign", "loop")
    /\ tcpServer' = TRUE
    /\ UNCHANGED <<caller, frame, registered, regFlag, signal, loopEnded, tasks, inputs>>

\* handle_events takes the token, finds handles ready and calls the first handler. It does
\* so only until end_reactor_event_loop() has been called; the round that has begun goes on.
RoundBegins ==
    /\ ~loopEnded /\ inputs < MaxInputs
    /\ \E handler \in registered : ServerStep("loop", handler)
    /\ inputs' = inputs + 1
    /\ UNCHANGED <<caller, frame, registered, regFlag, tcpServer, signal, loopEnded, tasks>>

\* Another one is called in the same round.
Dispatch ==
    /\ inputs < MaxInputs
    /\ \E handler \in registered : ServerStep("round", handler)
    /\ inputs' = inputs + 1
    /\ UNCHANGED <<caller, frame, registered, regFlag, tcpServer, signal, loopEnded, tasks>>

\* Which handler returns a task: the acceptor's one thread for each client, UdpEchoHandler
\* a CompletedTask whether it could read and answer or not; the handlers of the proxies'
\* UDP sockets none.
GivesTask(handler) == handler = "acceptor" \/ kind = "udp"

\* It returns, tasks_ keeps its task until stop_all_tasks().
DispatchEnds ==
    /\ server \in Handlers
    /\ ServerStep(server, "round")
    /\ tasks' = IF GivesTask(server) THEN tasks + 1 ELSE tasks
    /\ UNCHANGED <<caller, frame, registered, regFlag, tcpServer, signal, loopEnded, inputs>>

\* The round is over and the token free.
RoundEnds ==
    /\ ServerStep("round", "loop")
    /\ UNCHANGED <<caller, frame, registered, regFlag, tcpServer, signal, loopEnded, tasks, inputs>>

\* run_reactor_event_loop returns, also if its end was asked for before it began.
LoopEnds ==
    /\ loopEnded
    /\ ServerStep("loop", "exited")
    /\ caller' = IF caller = "blocked" THEN "stop" ELSE caller
    /\ UNCHANGED <<frame, registered, regFlag, tcpServer, signal, loopEnded, tasks, inputs>>

Alive == server # "terminated"

\* SignalRegistration::handle_signal
Sigint ==
    /\ signal /\ ~loopEnded /\ Alive
    /\ loopEnded' = TRUE
    /\ UNCHANGED <<kind, mode, server, caller, frame, registered, regFlag, tcpServer, signal, stopped, tasks, inputs>>

-----------------------------------------------------------------------------
(* The thread that stops the server *)

CallerStep(from, to) ==
    /\ Alive
    /\ caller = from
    /\ caller' = to
    /\ UNCHANGED <<kind, mode, server, tcpServer, signal, inputs>>

\* future.get() returns; startServer's parameters and locals are destroyed.
ReturnBackground ==
    /\ server \notin {"create", "publish"}
    /\ CallerStep("wait", "running")
    /\ frame' = FALSE
    /\ UNCHANGED <<registered, regFlag, loopEnded, stopped, tasks>>

CallStop ==
    /\ CallerStep("running", "stop")
    /\ UNCHANGED <<frame, registered, regFlag, loopEnded, stopped, tasks>>

\* Faulty variant: remove_handler waits for nothing.
TokenFree_Ignored == TRUE

TokenFree == server \notin Handlers \cup {"round"}

\* stop_all_tasks: each task is stopped, then tasks_ is cleared; meanwhile the reactor's
\* thread may do what it does.
StopAllTasks(next) ==
    /\ CallerStep("tasks", next)
    /\ tasks' = 0

\* Faulty variant: the acceptor is not closed.
StopTcp_KeepsAcceptor ==
    /\ kind = "tcp"
    /\ \/ CallerStep("stop", "endLoop") /\ TokenFree /\ UNCHANGED <<registered, loopEnded, tasks>>
       \/ CallerStep("endLoop", "join") /\ loopEnded' = TRUE /\ UNCHANGED <<registered, tasks>>
    /\ UNCHANGED <<frame, regFlag, stopped>>

\* AceTcpServer::stop: acceptor_.close() with its tasks, then end_reactor_event_loop().
StopTcp ==
    /\ kind = "tcp"
    /\ \/ CallerStep("stop", "tasks") /\ TokenFree /\ registered' = {} /\ UNCHANGED <<loopEnded, tasks>>
       \/ StopAllTasks("endLoop") /\ UNCHANGED <<registered, loopEnded>>
       \/ CallerStep("endLoop", "join") /\ loopEnded' = TRUE /\ UNCHANGED <<registered, tasks>>
    /\ UNCHANGED <<frame, regFlag, stopped>>

\* AceUdpServer::stop, and TcpClientProxy::stop: end_reactor_event_loop(), remove_handler,
\* stop_all_tasks.
StopUdp ==
    /\ IsUdp
    /\ \/ CallerStep("stop", "remove") /\ ~stopped /\ loopEnded' = TRUE /\ UNCHANGED <<registered, stopped, tasks>>
       \/ CallerStep("remove", "tasks") /\ TokenFree /\ registered' = {} /\ UNCHANGED <<loopEnded, stopped, tasks>>
       \/ StopAllTasks("join") /\ stopped' = TRUE /\ UNCHANGED <<registered, loopEnded>>
    /\ UNCHANGED <<frame, regFlag>>

\* Faulty variant: the TCP server is never stopped.
StopServerProxy_UdpOnly ==
    /\ kind = "serverProxy"
    /\ CallerStep("stop", "join") /\ (regFlag => TokenFree)
    /\ registered' = IF regFlag THEN registered \ {"udp"} ELSE registered
    /\ regFlag' = FALSE
    /\ UNCHANGED <<frame, loopEnded, stopped, tasks>>

\* TcpServerProxy::stop: the UDP handler if the flag is set, the TCP server if there is one.
StopServerProxy ==
    /\ kind = "serverProxy"
    /\ \/ /\ CallerStep("stop", "stopTcp") /\ (regFlag => TokenFree)
          /\ registered' = IF regFlag THEN registered \ {"udp"} ELSE registered
          /\ regFlag' = FALSE
          /\ UNCHANGED <<loopEnded, tasks>>
       \/ CallerStep("stopTcp", "join") /\ ~tcpServer /\ UNCHANGED <<registered, regFlag, loopEnded, tasks>>
       \/ /\ CallerStep("stopTcp", "tasks") /\ tcpServer /\ TokenFree
          /\ registered' = registered \ {"acceptor"}
          /\ UNCHANGED <<regFlag, loopEnded, tasks>>
       \/ StopAllTasks("endLoop") /\ UNCHANGED <<registered, regFlag, loopEnded>>
       \/ CallerStep("endLoop", "join") /\ loopEnded' = TRUE /\ UNCHANGED <<registered, regFlag, tasks>>
    /\ UNCHANGED <<frame, stopped>>

\* thread_.join(); in the foreground stop() just returns.
Join ==
    /\ mode = "background" => server = "exited"
    /\ CallerStep("join", "joined")
    /\ UNCHANGED <<frame, registered, regFlag, loopEnded, stopped, tasks>>

\* The server is destroyed; ~AceUdpServer calls stop() again, which returns at once.
Destroy ==
    /\ IsUdp => stopped
    /\ CallerStep("joined", "destroyed")
    /\ UNCHANGED <<frame, registered, regFlag, loopEnded, stopped, tasks>>

-----------------------------------------------------------------------------
ServerThread ==
    \/ Create \/ CreateFails \/ Publish \/ CallRunner
    \/ Start \/ SetRegFlag \/ MakeTcpServer \/ AssignTcpServer
    \/ RoundBegins \/ Dispatch \/ DispatchEnds \/ RoundEnds

CallerThread == ReturnBackground \/ StopTcp \/ StopUdp \/ StopServerProxy \/ Join \/ Destroy

Terminated == (caller = "destroyed" \/ ~Alive) /\ UNCHANGED vars

Next == ServerThread \/ LoopEnds \/ CallerThread \/ CallStop \/ Sigint \/ Terminated

Spec == Init /\ [][Next]_vars

\* Both threads run; nobody has to call stop() or to press Ctrl+C.
FairSpec == Spec /\ WF_vars(ServerThread) /\ WF_vars(LoopEnds) /\ WF_vars(CallerThread)

-----------------------------------------------------------------------------
(* Properties *)

PlaceTypes ==
    /\ kind \in Kinds
    /\ mode \in Modes
    /\ server \in {"create", "publish", "call", "start", "flag", "make", "assign", "loop", "round",
                   "exited", "terminated"} \cup Handlers
    /\ caller \in {"blocked", "wait", "running", "stop", "stopTcp", "remove", "tasks", "endLoop", "join",
                   "joined", "destroyed"}
    /\ registered \subseteq Handlers

FlagTypes ==
    /\ frame \in BOOLEAN /\ regFlag \in BOOLEAN /\ tcpServer \in BOOLEAN
    /\ signal \in BOOLEAN /\ loopEnded \in BOOLEAN /\ stopped \in BOOLEAN

CountTypes ==
    /\ inputs \in 0..MaxInputs
    /\ tasks \in 0..inputs

OwnByKind ==
    /\ "udp" \in registered => kind # "tcp"
    /\ "acceptor" \in registered \/ regFlag \/ tcpServer => kind \in {"tcp", "serverProxy"}

TypeOK == PlaceTypes /\ FlagTypes /\ CountTypes /\ OwnByKind

Over == caller \in {"joined", "destroyed"} \/ ~Alive

\* stop(), called at any time after the server has been published, ends the thread
\* that runs it, and the caller can join it (IBlockingServer.h:13).
StopEnds == caller = "stop" ~> Over

\* So it does, but a TcpServerProxy's start() must have got as far as its TCP server; and
\* SIGINT ends a server that main() runs: start() returns, stop() returns.
Told == (caller = "stop" /\ (kind = "serverProxy" => tcpServer)) \/ (mode = "foreground" /\ loopEnded)
EndsWhenTold == Told ~> Over

\* stop_all_tasks() has tasks_ for itself: no handler is being dispatched that could append
\* to it, and none is later, so a server that is joined with its acceptor closed has no task
\* left that runs. (A TcpServerProxy stopped too early never closes it.)
TasksAreStopped ==
    /\ caller = "tasks" /\ server \in Handlers => ~GivesTask(server)
    /\ caller \in {"joined", "destroyed"} /\ "acceptor" \notin registered => tasks = 0

\* When stop() has returned and the thread has ended, no handler is left in the
\* reactor: the server is destroyed next, and a reactor that outlives it calls what
\* is still registered.
JoinedIsUnregistered == caller = "joined" => registered = {}

\* So it is in the foreground, and with an AceTcpServer, which registers its
\* acceptor before anybody can call stop().
CleanEnd == (kind = "tcp" \/ mode = "foreground") => JoinedIsUnregistered

\* The thread calls a runner that still exists.
RunnerExists == server = "call" => frame
=============================================================================

---------------------- MODULE ServerLifecycleProofs ----------------------
(***************************************************************************)
(* Proofs about ServerLifecycle, for every set of kinds of servers and of  *)
(* ways to run them, with addresses that may be taken or not, handlers     *)
(* that may fail to be registered or not, and any number of dispatches:    *)
(* the types, that stop_all_tasks() has tasks_ for itself, and which       *)
(* servers leave no handler behind.                                        *)
(***************************************************************************)
EXTENDS ServerLifecycle, TLAPS

-----------------------------------------------------------------------------
(* The inductive invariant *)

InLoop == server \in {"loop", "round", "exited"} \cup Handlers
HandlersRemoved == caller \in {"tasks", "endLoop", "join", "joined", "destroyed"}
TasksCleared == caller \in {"endLoop", "join", "joined", "destroyed"}

\* A handler that is dispatched has a dispatch of its own, and the acceptor is dispatched
\* only while it is registered. No UDP handler is registered before start().
Dispatches ==
    /\ server \in Handlers => tasks < inputs
    /\ server = "acceptor" => "acceptor" \in registered
    /\ server = "create" => registered = {}
    /\ server \in {"publish", "call", "start"} => "udp" \notin registered
    /\ server \in {"flag", "make", "assign"} => kind = "serverProxy"

\* Who stops a server has it from its thread, or from its main() when start() has returned.
Called ==
    /\ caller \notin {"wait", "blocked"} => server \notin {"create", "publish"}
    /\ mode = "foreground" => caller \notin {"wait", "running"}
    /\ mode = "foreground" /\ caller # "blocked" => server = "exited"

\* An AceTcpServer registers nothing once its acceptor is closed ...
TcpStopped ==
    kind = "tcp" =>
        /\ HandlersRemoved => registered = {} /\ server \notin Handlers
        /\ TasksCleared => tasks = 0

\* ... an AceUdpServer may, but its loop has been told to end and begins no round.
UdpStopped ==
    IsUdp =>
        /\ HandlersRemoved \/ caller = "remove" => loopEnded
        /\ HandlersRemoved => server \notin Handlers \cup {"round"}
        /\ TasksCleared => tasks = 0
        /\ mode = "foreground" /\ HandlersRemoved => registered = {}

\* A TcpServerProxy's loop runs once its TCP server is set, and the flag if its UDP handler
\* has been registered ...
ServerProxyRuns ==
    kind = "serverProxy" =>
        /\ tcpServer <=> InLoop
        /\ /\ InLoop \/ server \in {"make", "assign"}
           /\ caller \in {"blocked", "stop"} /\ mode = "foreground"
           => ("udp" \in registered => regFlag)

\* ... and stop() then removes both handlers. Stopped before, it leaves no task either,
\* as its acceptor, which it does not close, has been dispatched if there is one.
ServerProxyStopped ==
    kind = "serverProxy" =>
        /\ caller = "tasks" => tcpServer /\ "acceptor" \notin registered
        /\ tasks # 0 /\ "acceptor" \notin registered => caller = "tasks"
        /\ caller = "stopTcp" /\ mode = "foreground" => registered \subseteq {"acceptor"}
        /\ HandlersRemoved /\ mode = "foreground" => registered = {}

IInv ==
    /\ TypeOK
    /\ Dispatches
    /\ Called
    /\ TcpStopped
    /\ UdpStopped
    /\ ServerProxyRuns
    /\ ServerProxyStopped

-----------------------------------------------------------------------------
(* Types *)

\* Both threads stay at a place they have, and only handlers are registered.
LEMMA PlaceTypesKept ==
    ASSUME IInv, [Next]_vars
    PROVE  PlaceTypes'
<1> USE DEF IInv, TypeOK, Handlers, PlaceTypes
<1>1. CASE Create \/ CreateFails \/ Publish \/ CallRunner
  BY <1>1 DEF Create, CreateFails, Publish, CallRunner, ServerStep
<1>2. CASE Start \/ SetRegFlag
  BY <1>2 DEF Start, Unregistered, SetRegFlag, IsUdp, ServerStep
<1>3. CASE MakeTcpServer \/ AssignTcpServer
  BY <1>3 DEF MakeTcpServer, AssignTcpServer, ServerStep
<1>4. CASE RoundBegins \/ Dispatch
  BY <1>4 DEF RoundBegins, Dispatch, ServerStep
<1>5. CASE DispatchEnds
  BY <1>5 DEF DispatchEnds, ServerStep, GivesTask
<1>6. CASE RoundEnds \/ LoopEnds \/ Sigint
  BY <1>6 DEF RoundEnds, LoopEnds, Sigint, ServerStep
<1>7. CASE ReturnBackground \/ CallStop \/ Join \/ Destroy
  BY <1>7 DEF ReturnBackground, CallStop, Join, Destroy, CallerStep
<1>8. CASE StopTcp
  BY <1>8 DEF StopTcp, StopAllTasks, CallerStep, TokenFree
<1>9. CASE StopUdp
  BY <1>9 DEF StopUdp, StopAllTasks, CallerStep, TokenFree
<1>10. CASE StopServerProxy
  BY <1>10 DEF StopServerProxy, StopAllTasks, CallerStep, TokenFree
<1>11. CASE Terminated \/ UNCHANGED vars
  BY <1>11 DEF Terminated, vars
<1>12. QED
  BY <1>1, <1>2, <1>3, <1>4, <1>5, <1>6, <1>7, <1>8, <1>9, <1>10, <1>11 DEF Next, ServerThread, CallerThread

\* The flags are flags.
LEMMA FlagTypesKept ==
    ASSUME IInv, [Next]_vars
    PROVE  FlagTypes'
<1> USE DEF IInv, TypeOK, FlagTypes
<1>1. CASE Create \/ CreateFails \/ Publish \/ CallRunner
  BY <1>1 DEF Create, CreateFails, Publish, CallRunner, ServerStep
<1>2. CASE Start \/ SetRegFlag
  BY <1>2 DEF Start, Unregistered, SetRegFlag, IsUdp, ServerStep
<1>3. CASE MakeTcpServer \/ AssignTcpServer
  BY <1>3 DEF MakeTcpServer, AssignTcpServer, ServerStep
<1>4. CASE RoundBegins \/ Dispatch
  BY <1>4 DEF RoundBegins, Dispatch, ServerStep
<1>5. CASE DispatchEnds
  BY <1>5 DEF DispatchEnds, ServerStep, GivesTask
<1>6. CASE RoundEnds \/ LoopEnds \/ Sigint
  BY <1>6 DEF RoundEnds, LoopEnds, Sigint, ServerStep
<1>7. CASE ReturnBackground \/ CallStop \/ Join \/ Destroy
  BY <1>7 DEF ReturnBackground, CallStop, Join, Destroy, CallerStep
<1>8. CASE StopTcp
  BY <1>8 DEF StopTcp, StopAllTasks, CallerStep, TokenFree
<1>9. CASE StopUdp
  BY <1>9 DEF StopUdp, StopAllTasks, CallerStep, TokenFree
<1>10. CASE StopServerProxy
  BY <1>10 DEF StopServerProxy, StopAllTasks, CallerStep, TokenFree
<1>11. CASE Terminated \/ UNCHANGED vars
  BY <1>11 DEF Terminated, vars
<1>12. QED
  BY <1>1, <1>2, <1>3, <1>4, <1>5, <1>6, <1>7, <1>8, <1>9, <1>10, <1>11 DEF Next, ServerThread, CallerThread

\* Every task in tasks_ is that of a dispatch.
LEMMA CountTypesKept ==
    ASSUME IInv, [Next]_vars
    PROVE  CountTypes'
<1> USE DEF IInv, TypeOK, Handlers, PlaceTypes, CountTypes, Dispatches
<1>1. CASE Create \/ CreateFails \/ Publish \/ CallRunner
  BY <1>1 DEF Create, CreateFails, Publish, CallRunner, ServerStep
<1>2. CASE Start \/ SetRegFlag
  BY <1>2 DEF Start, Unregistered, SetRegFlag, IsUdp, ServerStep
<1>3. CASE MakeTcpServer \/ AssignTcpServer
  BY <1>3 DEF MakeTcpServer, AssignTcpServer, ServerStep
<1>4. CASE RoundBegins \/ Dispatch
  BY LifecycleAssumption, <1>4 DEF RoundBegins, Dispatch, ServerStep
<1>5. CASE DispatchEnds
  BY <1>5 DEF DispatchEnds, ServerStep, GivesTask
<1>6. CASE RoundEnds \/ LoopEnds \/ Sigint
  BY <1>6 DEF RoundEnds, LoopEnds, Sigint, ServerStep
<1>7. CASE ReturnBackground \/ CallStop \/ Join \/ Destroy
  BY <1>7 DEF ReturnBackground, CallStop, Join, Destroy, CallerStep
<1>8. CASE StopTcp
  BY <1>8 DEF StopTcp, StopAllTasks, CallerStep, TokenFree
<1>9. CASE StopUdp
  BY <1>9 DEF StopUdp, StopAllTasks, CallerStep, TokenFree
<1>10. CASE StopServerProxy
  BY <1>10 DEF StopServerProxy, StopAllTasks, CallerStep, TokenFree
<1>11. CASE Terminated \/ UNCHANGED vars
  BY <1>11 DEF Terminated, vars
<1>12. QED
  BY <1>1, <1>2, <1>3, <1>4, <1>5, <1>6, <1>7, <1>8, <1>9, <1>10, <1>11 DEF Next, ServerThread, CallerThread

\* Each kind of server has its own handlers and flags.
LEMMA OwnByKindKept ==
    ASSUME IInv, [Next]_vars
    PROVE  OwnByKind'
<1> USE DEF IInv, TypeOK, IsUdp, OwnByKind, Dispatches
<1>1. CASE Create \/ CreateFails \/ Publish \/ CallRunner
  BY <1>1 DEF Create, CreateFails, Publish, CallRunner, ServerStep
<1>2. CASE Start \/ SetRegFlag
  BY <1>2 DEF Start, Unregistered, SetRegFlag, IsUdp, ServerStep
<1>3. CASE MakeTcpServer \/ AssignTcpServer
  BY <1>3 DEF MakeTcpServer, AssignTcpServer, ServerStep
<1>4. CASE RoundBegins \/ Dispatch
  BY <1>4 DEF RoundBegins, Dispatch, ServerStep
<1>5. CASE DispatchEnds
  BY <1>5 DEF DispatchEnds, ServerStep, GivesTask
<1>6. CASE RoundEnds \/ LoopEnds \/ Sigint
  BY <1>6 DEF RoundEnds, LoopEnds, Sigint, ServerStep
<1>7. CASE ReturnBackground \/ CallStop \/ Join \/ Destroy
  BY <1>7 DEF ReturnBackground, CallStop, Join, Destroy, CallerStep
<1>8. CASE StopTcp
  BY <1>8 DEF StopTcp, StopAllTasks, CallerStep, TokenFree
<1>9. CASE StopUdp
  BY <1>9 DEF StopUdp, StopAllTasks, CallerStep, TokenFree
<1>10. CASE StopServerProxy
  BY <1>10 DEF StopServerProxy, StopAllTasks, CallerStep, TokenFree
<1>11. CASE Terminated \/ UNCHANGED vars
  BY <1>11 DEF Terminated, vars
<1>12. QED
  BY <1>1, <1>2, <1>3, <1>4, <1>5, <1>6, <1>7, <1>8, <1>9, <1>10, <1>11 DEF Next, ServerThread, CallerThread

-----------------------------------------------------------------------------
(* The threads and what is registered *)

\* remove_handler waits for a dispatch under way, so who is dispatched stays registered.
LEMMA DispatchesKept ==
    ASSUME IInv, [Next]_vars
    PROVE  Dispatches'
<1> USE DEF IInv, TypeOK, Handlers, PlaceTypes, CountTypes, OwnByKind, Dispatches, Called, IsUdp
<1>1. CASE Create \/ CreateFails \/ Publish \/ CallRunner
  BY <1>1 DEF Create, CreateFails, Publish, CallRunner, ServerStep
<1>2. CASE Start \/ SetRegFlag
  BY LifecycleAssumption, <1>2 DEF Start, Unregistered, SetRegFlag, IsUdp, ServerStep
<1>3. CASE MakeTcpServer \/ AssignTcpServer
  BY <1>3 DEF MakeTcpServer, AssignTcpServer, ServerStep
<1>4. CASE RoundBegins \/ Dispatch
  BY <1>4 DEF RoundBegins, Dispatch, ServerStep
<1>5. CASE DispatchEnds
  BY <1>5 DEF DispatchEnds, ServerStep, GivesTask
<1>6. CASE RoundEnds \/ LoopEnds \/ Sigint
  BY <1>6 DEF RoundEnds, LoopEnds, Sigint, ServerStep
<1>7. CASE ReturnBackground \/ CallStop \/ Join \/ Destroy
  BY <1>7 DEF ReturnBackground, CallStop, Join, Destroy, CallerStep
<1>8. CASE StopTcp
  BY <1>8 DEF StopTcp, StopAllTasks, CallerStep, TokenFree
<1>9. CASE StopUdp
  BY <1>9 DEF StopUdp, StopAllTasks, CallerStep, TokenFree
<1>10. CASE StopServerProxy
  BY <1>10 DEF StopServerProxy, StopAllTasks, CallerStep, TokenFree
<1>11. CASE Terminated \/ UNCHANGED vars
  BY <1>11 DEF Terminated, vars
<1>12. QED
  BY <1>1, <1>2, <1>3, <1>4, <1>5, <1>6, <1>7, <1>8, <1>9, <1>10, <1>11 DEF Next, ServerThread, CallerThread

\* stop() is called on a server that has been handed over: published, or back from start().
LEMMA CalledKept ==
    ASSUME IInv, [Next]_vars
    PROVE  Called'
<1> USE DEF IInv, TypeOK, Handlers, PlaceTypes, Called, Alive
<1>1. CASE Create \/ CreateFails \/ Publish \/ CallRunner
  BY <1>1 DEF Create, CreateFails, Publish, CallRunner, ServerStep
<1>2. CASE Start \/ SetRegFlag
  BY <1>2 DEF Start, Unregistered, SetRegFlag, IsUdp, ServerStep
<1>3. CASE MakeTcpServer \/ AssignTcpServer
  BY <1>3 DEF MakeTcpServer, AssignTcpServer, ServerStep
<1>4. CASE RoundBegins \/ Dispatch
  BY <1>4 DEF RoundBegins, Dispatch, ServerStep
<1>5. CASE DispatchEnds
  BY <1>5 DEF DispatchEnds, ServerStep, GivesTask
<1>6. CASE RoundEnds \/ LoopEnds \/ Sigint
  BY <1>6 DEF RoundEnds, LoopEnds, Sigint, ServerStep
<1>7. CASE ReturnBackground \/ CallStop \/ Join \/ Destroy
  BY <1>7 DEF ReturnBackground, CallStop, Join, Destroy, CallerStep
<1>8. CASE StopTcp
  BY <1>8 DEF StopTcp, StopAllTasks, CallerStep, TokenFree
<1>9. CASE StopUdp
  BY <1>9 DEF StopUdp, StopAllTasks, CallerStep, TokenFree
<1>10. CASE StopServerProxy
  BY <1>10 DEF StopServerProxy, StopAllTasks, CallerStep, TokenFree
<1>11. CASE Terminated \/ UNCHANGED vars
  BY <1>11 DEF Terminated, vars
<1>12. QED
  BY <1>1, <1>2, <1>3, <1>4, <1>5, <1>6, <1>7, <1>8, <1>9, <1>10, <1>11 DEF Next, ServerThread, CallerThread

\* acceptor_.close() leaves the loop of an AceTcpServer nothing to dispatch.
LEMMA TcpStoppedKept ==
    ASSUME IInv, [Next]_vars
    PROVE  TcpStopped'
<1> USE DEF IInv, TypeOK, Handlers, PlaceTypes, OwnByKind, IsUdp, HandlersRemoved, TasksCleared, Dispatches, Called, TcpStopped
<1>1. CASE Create \/ CreateFails \/ Publish \/ CallRunner
  BY <1>1 DEF Create, CreateFails, Publish, CallRunner, ServerStep
<1>2. CASE Start \/ SetRegFlag
  BY <1>2 DEF Start, Unregistered, SetRegFlag, IsUdp, ServerStep
<1>3. CASE MakeTcpServer \/ AssignTcpServer
  BY <1>3 DEF MakeTcpServer, AssignTcpServer, ServerStep
<1>4. CASE RoundBegins \/ Dispatch
  BY <1>4 DEF RoundBegins, Dispatch, ServerStep
<1>5. CASE DispatchEnds
  BY <1>5 DEF DispatchEnds, ServerStep, GivesTask
<1>6. CASE RoundEnds \/ LoopEnds \/ Sigint
  BY <1>6 DEF RoundEnds, LoopEnds, Sigint, ServerStep
<1>7. CASE ReturnBackground \/ CallStop \/ Join \/ Destroy
  BY <1>7 DEF ReturnBackground, CallStop, Join, Destroy, CallerStep
<1>8. CASE StopTcp
  BY <1>8 DEF StopTcp, StopAllTasks, CallerStep, TokenFree
<1>9. CASE StopUdp
  BY <1>9 DEF StopUdp, StopAllTasks, CallerStep, TokenFree
<1>10. CASE StopServerProxy
  BY <1>10 DEF StopServerProxy, StopAllTasks, CallerStep, TokenFree
<1>11. CASE Terminated \/ UNCHANGED vars
  BY <1>11 DEF Terminated, vars
<1>12. QED
  BY <1>1, <1>2, <1>3, <1>4, <1>5, <1>6, <1>7, <1>8, <1>9, <1>10, <1>11 DEF Next, ServerThread, CallerThread

\* After end_reactor_event_loop() a late start() may register, but no round begins.
LEMMA UdpStoppedKept ==
    ASSUME IInv, [Next]_vars
    PROVE  UdpStopped'
<1> USE DEF IInv, Handlers, IsUdp, HandlersRemoved, TasksCleared, Dispatches, Called, UdpStopped
<1>1. CASE Create \/ CreateFails \/ Publish \/ CallRunner
  BY <1>1 DEF Create, CreateFails, Publish, CallRunner, ServerStep
<1>2. CASE Start \/ SetRegFlag
  BY <1>2 DEF Start, Unregistered, SetRegFlag, IsUdp, ServerStep
<1>3. CASE MakeTcpServer \/ AssignTcpServer
  BY <1>3 DEF MakeTcpServer, AssignTcpServer, ServerStep
<1>4. CASE RoundBegins \/ Dispatch
  BY <1>4 DEF RoundBegins, Dispatch, ServerStep
<1>5. CASE DispatchEnds
  BY <1>5 DEF DispatchEnds, ServerStep, GivesTask
<1>6. CASE RoundEnds \/ LoopEnds \/ Sigint
  BY <1>6 DEF RoundEnds, LoopEnds, Sigint, ServerStep
<1>7. CASE ReturnBackground \/ CallStop \/ Join \/ Destroy
  BY <1>7 DEF ReturnBackground, CallStop, Join, Destroy, CallerStep
<1>8. CASE StopTcp
  BY <1>8 DEF StopTcp, StopAllTasks, CallerStep, TokenFree
<1>9. CASE StopUdp
  <2>1. CASE caller = "stop"
    BY <1>9, <2>1 DEF StopUdp, StopAllTasks, CallerStep
  <2>2. CASE caller = "remove"
    BY <1>9, <2>2 DEF StopUdp, StopAllTasks, CallerStep, TokenFree
  <2>3. CASE caller = "tasks"
    <3>1. tasks' = 0 /\ UNCHANGED <<kind, mode, server, registered>>
      BY <1>9, <2>3 DEF StopUdp, StopAllTasks, CallerStep
    <3>2. IsUdp /\ loopEnded'
      BY <1>9, <2>3 DEF StopUdp, StopAllTasks, CallerStep
    <3>3. QED
      BY <2>3, <3>1, <3>2
  <2>4. QED
    BY <1>9, <2>1, <2>2, <2>3 DEF StopUdp, StopAllTasks, CallerStep
<1>10. CASE StopServerProxy
  BY <1>10 DEF StopServerProxy, StopAllTasks, CallerStep, TokenFree
<1>11. CASE Terminated \/ UNCHANGED vars
  BY <1>11 DEF Terminated, vars
<1>12. QED
  BY <1>1, <1>2, <1>3, <1>4, <1>5, <1>6, <1>7, <1>8, <1>9, <1>10, <1>11 DEF Next, ServerThread, CallerThread

\* start() sets the flag, if it could register, then the TCP server, then runs the loop.
LEMMA ServerProxyRunsKept ==
    ASSUME IInv, [Next]_vars
    PROVE  ServerProxyRuns'
<1> USE DEF IInv, TypeOK, Handlers, PlaceTypes, IsUdp, InLoop, HandlersRemoved, Dispatches, Called, ServerProxyRuns
<1>1. CASE Create \/ CreateFails \/ Publish \/ CallRunner
  BY <1>1 DEF Create, CreateFails, Publish, CallRunner, ServerStep
<1>2. CASE Start \/ SetRegFlag
  BY <1>2 DEF Start, Unregistered, SetRegFlag, IsUdp, ServerStep
<1>3. CASE MakeTcpServer \/ AssignTcpServer
  BY <1>3 DEF MakeTcpServer, AssignTcpServer, ServerStep
<1>4. CASE RoundBegins \/ Dispatch
  BY <1>4 DEF RoundBegins, Dispatch, ServerStep
<1>5. CASE DispatchEnds
  BY <1>5 DEF DispatchEnds, ServerStep, GivesTask
<1>6. CASE RoundEnds \/ LoopEnds \/ Sigint
  BY <1>6 DEF RoundEnds, LoopEnds, Sigint, ServerStep
<1>7. CASE ReturnBackground \/ CallStop \/ Join \/ Destroy
  BY <1>7 DEF ReturnBackground, CallStop, Join, Destroy, CallerStep
<1>8. CASE StopTcp
  BY <1>8 DEF StopTcp, StopAllTasks, CallerStep, TokenFree
<1>9. CASE StopUdp
  BY <1>9 DEF StopUdp, StopAllTasks, CallerStep, TokenFree
<1>10. CASE StopServerProxy
  BY <1>10 DEF StopServerProxy, StopAllTasks, CallerStep, TokenFree
<1>11. CASE Terminated \/ UNCHANGED vars
  BY <1>11 DEF Terminated, vars
<1>12. QED
  BY <1>1, <1>2, <1>3, <1>4, <1>5, <1>6, <1>7, <1>8, <1>9, <1>10, <1>11 DEF Next, ServerThread, CallerThread

\* stop() finds the TCP server set if the loop is reached, and the flag if there is a UDP
\* handler to remove.
LEMMA ServerProxyStoppedKept ==
    ASSUME IInv, [Next]_vars
    PROVE  ServerProxyStopped'
<1> USE DEF IInv, TypeOK, Handlers, PlaceTypes, OwnByKind, Alive, IsUdp, InLoop, HandlersRemoved, Dispatches, Called, ServerProxyRuns, ServerProxyStopped
<1>1. CASE Create \/ CreateFails \/ Publish \/ CallRunner
  BY <1>1 DEF Create, CreateFails, Publish, CallRunner, ServerStep
<1>2. CASE Start \/ SetRegFlag
  BY <1>2 DEF Start, Unregistered, SetRegFlag, IsUdp, ServerStep
<1>3. CASE MakeTcpServer \/ AssignTcpServer
  BY <1>3 DEF MakeTcpServer, AssignTcpServer, ServerStep
<1>4. CASE RoundBegins \/ Dispatch
  BY <1>4 DEF RoundBegins, Dispatch, ServerStep
<1>5. CASE DispatchEnds
  BY <1>5 DEF DispatchEnds, ServerStep, GivesTask
<1>6. CASE RoundEnds \/ LoopEnds \/ Sigint
  BY <1>6 DEF RoundEnds, LoopEnds, Sigint, ServerStep
<1>7. CASE ReturnBackground \/ CallStop \/ Join \/ Destroy
  BY <1>7 DEF ReturnBackground, CallStop, Join, Destroy, CallerStep
<1>8. CASE StopTcp
  BY <1>8 DEF StopTcp, StopAllTasks, CallerStep, TokenFree
<1>9. CASE StopUdp
  BY <1>9 DEF StopUdp, StopAllTasks, CallerStep, TokenFree
<1>10. CASE StopServerProxy
  <2>1. CASE caller = "stop"
    <3>1. caller' = "stopTcp" /\ UNCHANGED <<kind, mode, tasks>>
      BY <1>10, <2>1 DEF StopServerProxy, StopAllTasks, CallerStep
    <3>2. registered' = IF regFlag THEN registered \ {"udp"} ELSE registered
      BY <1>10, <2>1 DEF StopServerProxy, StopAllTasks, CallerStep
    <3>3. "acceptor" \in registered' <=> "acceptor" \in registered
      BY <3>2
    <3>4. mode = "foreground" => registered' \subseteq {"acceptor"}
      BY <1>10, <2>1, <3>2 DEF StopServerProxy
    <3>5. QED
      BY <1>10, <2>1, <3>1, <3>3, <3>4 DEF StopServerProxy
  <2>2. CASE caller = "stopTcp"
    BY <1>10, <2>2 DEF StopServerProxy, StopAllTasks, CallerStep, TokenFree
  <2>3. CASE caller \in {"tasks", "endLoop"}
    BY <1>10, <2>3 DEF StopServerProxy, StopAllTasks, CallerStep
  <2>4. QED
    BY <1>10, <2>1, <2>2, <2>3 DEF StopServerProxy, StopAllTasks, CallerStep
<1>11. CASE Terminated \/ UNCHANGED vars
  BY <1>11 DEF Terminated, vars
<1>12. QED
  BY <1>1, <1>2, <1>3, <1>4, <1>5, <1>6, <1>7, <1>8, <1>9, <1>10, <1>11 DEF Next, ServerThread, CallerThread
-----------------------------------------------------------------------------
(* The theorems *)

\* Nothing runs yet, nothing is registered.
LEMMA InitHolds == ASSUME Init PROVE IInv
<1>1. TypeOK
  <2>1. PlaceTypes /\ CountTypes
    BY LifecycleAssumption DEF Init, PlaceTypes, CountTypes
  <2>2. FlagTypes /\ OwnByKind
    BY DEF Init, FlagTypes, OwnByKind
  <2>3. QED
    BY <2>1, <2>2 DEF TypeOK
<1>2. Dispatches /\ Called
  BY LifecycleAssumption DEF Init, Dispatches, Called, Handlers
<1>3. TcpStopped /\ UdpStopped /\ ServerProxyRuns /\ ServerProxyStopped
  BY LifecycleAssumption DEF Init, TcpStopped, UdpStopped, ServerProxyRuns, ServerProxyStopped,
     IsUdp, InLoop, HandlersRemoved, TasksCleared, Handlers
<1>4. QED
  BY <1>1, <1>2, <1>3 DEF IInv

\* The inductive invariant holds in every state.
THEOREM Invariant == Spec => []IInv
<1>1. Init => IInv
  BY InitHolds
<1>2. IInv /\ [Next]_vars => IInv'
  BY PlaceTypesKept, FlagTypesKept, CountTypesKept, OwnByKindKept, DispatchesKept, CalledKept,
     TcpStoppedKept, UdpStoppedKept, ServerProxyRunsKept, ServerProxyStoppedKept DEF IInv, TypeOK
<1>3. QED
  BY <1>1, <1>2, PTL DEF Spec

\* Every variable has its type, and each kind of server only its own handlers and flags.
THEOREM TypeCorrect == Spec => []TypeOK
<1>1. IInv => TypeOK
  BY DEF IInv
<1>2. QED
  BY <1>1, Invariant, PTL

\* While stop_all_tasks() walks through tasks_ no handler that appends to it is being
\* dispatched, and none is later: a joined server whose acceptor is closed has no task.
THEOREM TasksAreAlwaysStopped == Spec => []TasksAreStopped
<1>1. ASSUME IInv PROVE TasksAreStopped
  <2>1. ASSUME caller = "tasks", server \in Handlers PROVE ~GivesTask(server)
    BY <1>1, <2>1, LifecycleAssumption DEF IInv, TypeOK, PlaceTypes, Dispatches, TcpStopped, UdpStopped,
       ServerProxyStopped, HandlersRemoved, GivesTask, IsUdp, Handlers
  <2>2. ASSUME caller \in {"joined", "destroyed"}, "acceptor" \notin registered PROVE tasks = 0
    BY <1>1, <2>2, LifecycleAssumption DEF IInv, TypeOK, PlaceTypes, TcpStopped, UdpStopped, ServerProxyStopped,
       TasksCleared, IsUdp
  <2>3. QED
    BY <2>1, <2>2 DEF TasksAreStopped
<1>2. QED
  BY <1>1, Invariant, PTL

\* In the foreground, and with an AceTcpServer, no handler outlives the server in the
\* reactor.
THEOREM EndsAreClean == Spec => []CleanEnd
<1>1. ASSUME IInv PROVE CleanEnd
  BY <1>1, LifecycleAssumption DEF IInv, TypeOK, PlaceTypes, TcpStopped, UdpStopped, ServerProxyStopped,
     HandlersRemoved, IsUdp, CleanEnd, JoinedIsUnregistered
<1>2. QED
  BY <1>1, Invariant, PTL
=============================================================================

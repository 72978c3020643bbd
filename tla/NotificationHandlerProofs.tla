--------------------- MODULE NotificationHandlerProofs ---------------------
(***************************************************************************)
(* Proofs about NotificationHandler, for any number of clients, any buffer *)
(* size and any writes that fail: the types, who is in active_sessions_,   *)
(* that nobody misses a request, that the echoes are what a client sent,   *)
(* what stop() leaves behind, and that the server implements               *)
(* NotificationLog.                                                        *)
(***************************************************************************)
EXTENDS NotificationHandler, SequenceLemmas

-----------------------------------------------------------------------------
(* The inductive invariant *)

Kept(c) == \E i \in 1..Len(tasks) : tasks[i] = c
Runs(c) == task[c] \notin {"none", "done"}
Adding(c) == reactor = "register" /\ current = c
Added(c) == reactor = "spawn" /\ current = c

\* A client connects, is added to active_sessions_ by the reactor and then has a thread.
OnePlace ==
    /\ reactor \in {"register", "spawn"} => current \in Clients /\ task[current] = "none"
    /\ \A c \in Clients : task[c] # "none" \/ Adding(c) \/ Added(c) => link[c] # "idle"
    /\ \A c \in Clients : since[c] # None <=> task[c] # "none" \/ Added(c)
    /\ \A c \in Clients : since[c] = None => heard[c] = <<>>

\* Who notifies holds the mutex, and is somewhere in active_sessions_.
OneNotifies ==
    /\ \A c \in Clients : task[c] = "loop" <=> mutex = c
    /\ \A c \in Clients : task[c] = "loop" => next[c] \in 1 .. Len(active) + 1
    /\ mutex # None => log # <<>> /\ log[Len(log)].from = mutex

\* No thread runs that stop() does not know, and none is started any more.
Stopped ==
    /\ \A c \in Clients : Runs(c) => Kept(c)
    /\ stopper # "idle" => ~accReg /\ reactor = "select"
    /\ stopper = "join" => tasks # <<>>
    /\ stopper = "done" => tasks = <<>>

\* How much of the log the i-th session has been told: all of it, or, if the loop has not
\* come to it yet, all but the last entry.
Told(i) == IF mutex # None /\ i >= next[mutex] THEN Len(log) - 1 ELSE Len(log)
LastTold(d) == IF heard[d] = <<>> THEN since[d] ELSE heard[d][Len(heard[d])]

\* What a session was told last is not beyond that; if it can be told, it has missed
\* nothing before.
UpToDate(d, n) ==
    /\ LastTold(d) \in 0..n
    /\ link[d] = "open" /\ d \notin lagging =>
        /\ \A m \in LastTold(d) + 1 .. n : log[m].from = d
        /\ \A m \in since[d] + 1 .. n : log[m].from # d => \E j \in 1..Len(heard[d]) : heard[d][j] = m

AllUpToDate == \A i \in 1..Len(active) : UpToDate(active[i], Told(i))

IInv ==
    /\ TypeOK
    /\ OnePlace
    /\ OneNotifies
    /\ ActiveHaveThreads
    /\ Stopped
    /\ AllUpToDate

-----------------------------------------------------------------------------
(* Types *)

\* What a read takes: at most what there is.
LEMMA SmallerProperties ==
    ASSUME NEW n \in Nat
    PROVE  Smaller(BufSize, n) \in 0..n
BY HandlerAssumption DEF Smaller

\* A write to a client adds to what it has been sent, or to nothing.
LEMMA WriteTypes ==
    ASSUME NEW S, NEW sent \in [Clients -> Seq(S)], NEW d \in Clients, NEW item \in S,
           NEW s2, s2 = sent \/ s2 = [sent EXCEPT ![d] = Append(@, item)]
    PROVE  s2 \in [Clients -> Seq(S)]
<1>1. Append(sent[d], item) \in Seq(S)
  BY AddLast
<1>2. QED
  BY <1>1

\* The clients' steps.
LEMMA ClientTypesKept ==
    ASSUME TypeOK, ClientActions
    PROVE  TypeOK'
<1> USE DEF TypeOK, ClientStep, reactorVars, sharedVars, localVars, stopVars, writtenVars
<1>1. ASSUME NEW c \in Clients, Connect(c) PROVE TypeOK'
  <2>1. ClientTypes'
    BY <1>1 DEF Connect, ClientTypes
  <2>2. QED
    BY <1>1, <2>1 DEF Connect, SharedTypes, ThreadTypes, WrittenTypes
<1>2. ASSUME NEW c \in Clients, ClientSend(c) PROVE TypeOK'
  <2>1. sentUnits[c] + 1 \in 1..MaxUnits /\ sentUnits[c] + 1 \in 0..MaxUnits
    BY <1>2, HandlerAssumption DEF ClientSend, ClientTypes
  <2>2. Append(inbox[c], sentUnits[c] + 1) \in Seq(1..MaxUnits)
    BY <2>1, AddLast DEF ClientTypes
  <2>3. ClientTypes'
    BY <1>2, <2>1, <2>2 DEF ClientSend, ClientTypes
  <2>4. QED
    BY <1>2, <2>3 DEF ClientSend, SharedTypes, ThreadTypes, WrittenTypes
<1>3. ASSUME NEW c \in Clients, ClientClose(c) PROVE TypeOK'
  <2>1. \A n \in 0..Len(inbox[c]) : SubSeq(inbox[c], 1, n) \in Seq(1..MaxUnits)
    BY PrefixType DEF ClientTypes
  <2>2. ClientTypes'
    BY <1>3, <2>1 DEF ClientClose, ClientTypes
  <2>3. QED
    BY <1>3, <2>2 DEF ClientClose, SharedTypes, ThreadTypes, WrittenTypes
<1>4. QED
  BY <1>1, <1>2, <1>3 DEF ClientActions

\* The reactor's thread: whom it adds is a client.
LEMMA ReactorTypesKept ==
    ASSUME TypeOK, OnePlace, ReactorThread
    PROVE  TypeOK'
<1> USE DEF TypeOK, ReactorStep, clientVars, localVars, writtenVars
<1>1. ASSUME NEW c \in Clients, Accept(c) PROVE TypeOK'
  BY <1>1 DEF Accept, ClientTypes, SharedTypes, ThreadTypes, WrittenTypes
<1>2. CASE AddSession
  <2>1. current \in Clients
    BY <1>2 DEF AddSession, OnePlace
  <2>2. active' \in Seq(Clients)
    BY <1>2, <2>1, AddLast DEF AddSession, SharedTypes
  <2>3. Len(log) \in Nat
    BY LenProperties DEF WrittenTypes
  <2>4. SharedTypes' /\ WrittenTypes'
    BY <1>2, <2>2, <2>3 DEF AddSession, SharedTypes, WrittenTypes
  <2>5. QED
    BY <1>2, <2>4 DEF AddSession, ClientTypes, ThreadTypes
<1>3. CASE Spawn
  <2>1. tasks' \in Seq(Clients)
    BY <1>3, AddLast DEF Spawn, OnePlace, ThreadTypes
  <2>2. ThreadTypes' /\ SharedTypes'
    BY <1>3, <2>1 DEF Spawn, ThreadTypes, SharedTypes
  <2>3. QED
    BY <1>3, <2>2 DEF Spawn, ClientTypes, WrittenTypes
<1>4. QED
  BY <1>1, <1>2, <1>3 DEF ReactorThread

\* remove_session takes the client's one place out of active_sessions_.
LEMMA WithoutProperties ==
    ASSUME active \in Seq(Clients), NEW c \in Clients,
           \A i, j \in 1..Len(active) : i # j => active[i] # active[j],
           NEW k \in 1..Len(active), active[k] = c
    PROVE  /\ Without(c) \in Seq(Clients) /\ Len(active) \in Nat /\ Len(Without(c)) = Len(active) - 1
           /\ \A i \in 1 .. k - 1 : Without(c)[i] = active[i]
           /\ \A i \in k .. Len(active) - 1 : Without(c)[i] = active[i + 1]
<1>1. Len(active) \in Nat
  BY LenProperties
<1>2. \A j \in 1 .. k - 1 : active[j] # c
  BY <1>1
<1>3. k = CHOOSE i \in 1..Len(active) : active[i] = c /\ \A j \in 1 .. i - 1 : active[j] # c
  BY <1>2
<1>4. Without(c) = RemoveAt(active, k)
  BY <1>3 DEF Without
<1>5. /\ RemoveAt(active, k) \in Seq(Clients) /\ Len(RemoveAt(active, k)) = Len(active) - 1
      /\ \A i \in 1 .. k - 1 : RemoveAt(active, k)[i] = active[i]
      /\ \A i \in k .. Len(active) - 1 : RemoveAt(active, k)[i] = active[i + 1]
  BY TakeOut
<1>6. QED
  BY <1>1, <1>4, <1>5

\* A client's thread.
LEMMA SessionTypesKept ==
    ASSUME TypeOK, ActiveHaveThreads, OneNotifies, NEW c \in Clients, SessionThread(c)
    PROVE  TypeOK'
<1> USE DEF TypeOK, ThreadStep, clientVars, reactorVars, sharedVars, localVars, stopVars, writtenVars
<1>1. CASE CheckCancelled(c) \/ ReadTimeout(c) \/ ReadClosed(c)
  BY <1>1 DEF CheckCancelled, ReadTimeout, ReadClosed, ClientTypes, SharedTypes, ThreadTypes, WrittenTypes
<1>2. CASE Read(c)
  <2> DEFINE n == Smaller(BufSize, Len(inbox[c]))
  <2>1. inbox[c] \in Seq(1..MaxUnits) /\ n \in 0..Len(inbox[c])
    BY SmallerProperties, LenProperties DEF ClientTypes
  <2>2. SubSeq(inbox[c], 1, n) \in Seq(1..MaxUnits) /\ SubSeq(inbox[c], n + 1, Len(inbox[c])) \in Seq(1..MaxUnits)
    BY <2>1, PrefixType, RestType
  <2> HIDE DEF n
  <2>3. /\ inbox' = [inbox EXCEPT ![c] = SubSeq(@, n + 1, Len(@))]
        /\ message' = [message EXCEPT ![c] = SubSeq(inbox[c], 1, n)]
    BY <1>2 DEF Read, n
  <2>4. ClientTypes'
    BY <1>2, <2>2, <2>3 DEF Read, ClientTypes
  <2>5. ThreadTypes'
    BY <1>2, <2>2, <2>3 DEF Read, ThreadTypes
  <2>6. QED
    BY <1>2, <2>4, <2>5 DEF Read, SharedTypes, WrittenTypes
<1>3. CASE SendEcho(c)
  <2>1. echoes' = echoes \/ echoes' = [echoes EXCEPT ![c] = Append(@, message[c])]
    BY <1>3 DEF SendEcho, Write
  <2>2. echoes' \in [Clients -> Seq(Seq(1..MaxUnits))]
    BY <2>1, WriteTypes DEF WrittenTypes, ThreadTypes
  <2>3. WrittenTypes'
    BY <1>3, <2>2 DEF SendEcho, Write, WrittenTypes
  <2>4. QED
    BY <1>3, <2>3 DEF SendEcho, ClientTypes, SharedTypes, ThreadTypes
<1>4. CASE LockSessions(c)
  <2>1. [from |-> c, data |-> message[c]] \in Requests
    BY DEF Requests, ThreadTypes
  <2>2. log' \in Seq(Requests)
    BY <1>4, <2>1, AddLast DEF LockSessions, WrittenTypes
  <2>3. WrittenTypes'
    BY <1>4, <2>2 DEF LockSessions, WrittenTypes
  <2>4. QED
    BY <1>4, <2>3 DEF LockSessions, ClientTypes, SharedTypes, ThreadTypes
<1>5. CASE Notify(c)
  <2>1. next[c] \in 1..Len(active) /\ next[c] + 1 \in Nat
    BY <1>5, LenProperties DEF Notify, OneNotifies, SharedTypes, ThreadTypes
  <2>2. active[next[c]] \in Clients
    BY <2>1, ElementOfSeq DEF SharedTypes
  <2>3. Len(log) \in Nat
    BY LenProperties DEF WrittenTypes
  <2>4. \/ heard' = heard
        \/ heard' = [heard EXCEPT ![active[next[c]]] = Append(@, Len(log))]
    BY <1>5 DEF Notify, Write
  <2>5. heard' \in [Clients -> Seq(Nat)]
    BY <2>2, <2>3, <2>4, WriteTypes DEF WrittenTypes
  <2>6. WrittenTypes'
    BY <1>5, <2>2, <2>5 DEF Notify, Write, WrittenTypes
  <2>7. ThreadTypes'
    BY <1>5, <2>1 DEF Notify, ThreadTypes
  <2>8. QED
    BY <1>5, <2>6, <2>7 DEF Notify, ClientTypes, SharedTypes
<1>6. CASE UnlockSessions(c)
  BY <1>6 DEF UnlockSessions, ClientTypes, SharedTypes, ThreadTypes, WrittenTypes
<1>7. CASE RemoveSession(c)
  <2>1. Without(c) \in Seq(Clients)
    <3>1. CASE \E i \in 1..Len(active) : active[i] = c
      BY <3>1, WithoutProperties DEF ActiveHaveThreads, SharedTypes
    <3>2. CASE ~\E i \in 1..Len(active) : active[i] = c
      BY <3>2 DEF Without, SharedTypes
    <3>3. QED
      BY <3>1, <3>2
  <2>2. SharedTypes'
    BY <1>7, <2>1 DEF RemoveSession, SharedTypes
  <2>3. QED
    BY <1>7, <2>2 DEF RemoveSession, ClientTypes, ThreadTypes, WrittenTypes
<1>8. QED
  BY <1>1, <1>2, <1>3, <1>4, <1>5, <1>6, <1>7 DEF SessionThread

\* The thread that stops the server.
LEMMA StopperTypesKept ==
    ASSUME TypeOK, Stopped, CloseAcceptor \/ StopperRuns
    PROVE  TypeOK'
<1> USE DEF TypeOK, StopperStep, sharedVars, localVars, writtenVars
<1>1. CASE CloseAcceptor
  BY <1>1 DEF CloseAcceptor, ClientTypes, SharedTypes, ThreadTypes, WrittenTypes
<1>2. CASE CancelTask
  <2>1. Head(tasks) \in Clients
    BY <1>2, TakeFirst DEF CancelTask, ThreadTypes
  <2>2. QED
    BY <1>2, <2>1 DEF CancelTask, ClientTypes, SharedTypes, ThreadTypes, WrittenTypes
<1>3. CASE JoinTask
  <2>1. Tail(tasks) \in Seq(Clients)
    BY <1>3, TakeFirst DEF JoinTask, Stopped, ThreadTypes
  <2>2. QED
    BY <1>3, <2>1 DEF JoinTask, ClientTypes, SharedTypes, ThreadTypes, WrittenTypes
<1>4. CASE StopReturns
  BY <1>4 DEF StopReturns, ClientTypes, SharedTypes, ThreadTypes, WrittenTypes
<1>5. QED
  BY <1>1, <1>2, <1>3, <1>4 DEF StopperRuns

\* Every step keeps the types.
LEMMA TypesKept ==
    ASSUME IInv, [Next]_vars
    PROVE  TypeOK'
<1>1. CASE UNCHANGED vars
  BY <1>1 DEF IInv, vars, clientVars, reactorVars, sharedVars, localVars, stopVars, writtenVars,
     TypeOK, ClientTypes, SharedTypes, ThreadTypes, WrittenTypes
<1>2. QED
  BY <1>1, ClientTypesKept, ReactorTypesKept, SessionTypesKept, StopperTypesKept DEF IInv, Next, Terminated

-----------------------------------------------------------------------------
(* What each part of the invariant needs of a step *)

\* A step of a client's thread that has nothing to do with active_sessions_.
Quiet(c) == CheckCancelled(c) \/ Read(c) \/ ReadTimeout(c) \/ ReadClosed(c) \/ SendEcho(c)

\* A step that leaves the threads of the clients and active_sessions_ alone.
Aside == ClientActions \/ CloseAcceptor \/ StopperRuns \/ Terminated \/ UNCHANGED vars

watchedVars == <<active, mutex, heard, log, since>>

\* Such a thread stays at work, and at most finds its client slow.
LEMMA QuietMoves ==
    ASSUME TypeOK, NEW c \in Clients, Quiet(c)
    PROVE  /\ UNCHANGED <<link, reactorVars, stopVars, next, watchedVars>>
           /\ task[c] \in {"check", "read", "echo"}
           /\ task' = [task EXCEPT ![c] = task'[c]]
           /\ task'[c] \in {"check", "read", "echo", "notify", "remove"}
           /\ lagging \subseteq lagging'
<1> USE DEF TypeOK, ThreadTypes, ThreadStep, reactorVars, stopVars, sharedVars, localVars, writtenVars, watchedVars
<1>1. CASE CheckCancelled(c)
  BY <1>1 DEF CheckCancelled
<1>2. CASE Read(c)
  BY <1>2 DEF Read
<1>3. CASE ReadTimeout(c) \/ ReadClosed(c)
  BY <1>3 DEF ReadTimeout, ReadClosed
<1>4. CASE SendEcho(c)
  BY <1>4 DEF SendEcho, Write
<1>5. QED
  BY <1>1, <1>2, <1>3, <1>4 DEF Quiet

\* A client's connection only moves on, and what is kept about the client stays.
LEMMA AsideMoves ==
    ASSUME TypeOK, Aside
    PROVE  /\ UNCHANGED <<reactor, current, task, next, watchedVars, lagging>>
           /\ \A d \in Clients : link[d] # "idle" => link'[d] # "idle" /\ (link'[d] = "open" => link[d] = "open")
<1> USE DEF TypeOK, ClientTypes, clientVars, reactorVars, stopVars, sharedVars, localVars, writtenVars, watchedVars
<1>1. CASE ClientActions
  <2>1. UNCHANGED <<reactor, current, task, next, watchedVars, lagging>>
    BY <1>1 DEF ClientActions, Connect, ClientSend, ClientClose, ClientStep
  <2>2. ASSUME NEW d \in Clients, link[d] # "idle"
        PROVE  link'[d] # "idle" /\ (link'[d] = "open" => link[d] = "open")
    BY <1>1, <2>2 DEF ClientActions, Connect, ClientSend, ClientClose
  <2>3. QED
    BY <2>1, <2>2
<1>2. CASE CloseAcceptor
  BY <1>2 DEF CloseAcceptor, StopperStep
<1>3. CASE StopperRuns
  BY <1>3 DEF StopperRuns, CancelTask, JoinTask, StopReturns, StopperStep
<1>4. CASE Terminated \/ UNCHANGED vars
  BY <1>4 DEF Terminated, vars
<1>5. QED
  BY <1>1, <1>2, <1>3, <1>4 DEF Aside

Steps ==
    \/ Aside
    \/ \E c \in Clients : Accept(c)
    \/ AddSession \/ Spawn
    \/ \E c \in Clients : Quiet(c) \/ LockSessions(c) \/ Notify(c) \/ UnlockSessions(c) \/ RemoveSession(c)

\* Every step is one of these.
LEMMA NextIsSteps == ASSUME [Next]_vars PROVE Steps
BY DEF Next, ReactorThread, SessionThread, Steps, Aside, Quiet

-----------------------------------------------------------------------------
(* Clients, the mutex and the threads *)

\* The reactor takes up a client that has no thread, adds it and starts the thread.
LEMMA OnePlaceKept ==
    ASSUME IInv, [Next]_vars
    PROVE  OnePlace'
<1>0. TypeOK /\ OnePlace /\ OneNotifies /\ ActiveHaveThreads
  BY DEF IInv
<1> USE DEF ThreadStep, ReactorStep, clientVars, reactorVars, stopVars, sharedVars, localVars, writtenVars, watchedVars
<1>1. CASE Aside
  BY <1>0, <1>1, AsideMoves DEF OnePlace, Adding, Added
<1>2. ASSUME NEW c \in Clients, Accept(c) PROVE OnePlace'
  BY <1>0, <1>2 DEF Accept, OnePlace, Adding, Added
<1>3. CASE AddSession
  <2>1. current \in Clients /\ Adding(current) /\ Added(current)' /\ ~\E c \in Clients : Added(c)
    BY <1>0, <1>3 DEF AddSession, OnePlace, Adding, Added
  <2>2. /\ \A c \in Clients : since'[c] = IF c = current THEN Len(log) ELSE since[c]
        /\ Len(log) \in Nat
    BY <1>0, <1>3, LenProperties DEF AddSession, TypeOK, WrittenTypes
  <2>3. \A c \in Clients : since'[c] # None <=> task'[c] # "none" \/ Added(c)'
    BY <1>0, <1>3, <2>1, <2>2, HandlerAssumption DEF AddSession, OnePlace, Added
  <2>4. QED
    BY <1>0, <1>3, <2>1, <2>2, <2>3, HandlerAssumption DEF AddSession, OnePlace, Adding, Added
<1>4. CASE Spawn
  <2>1. current \in Clients /\ \A c \in Clients : task'[c] = IF c = current THEN "check" ELSE task[c]
    BY <1>0, <1>4 DEF Spawn, OnePlace, TypeOK, ThreadTypes
  <2>2. QED
    BY <1>0, <1>4, <2>1 DEF Spawn, OnePlace, Adding, Added
<1>5. ASSUME NEW c \in Clients, Quiet(c) PROVE OnePlace'
  <2>1. \A d \in Clients : task'[d] = "none" <=> task[d] = "none"
    BY <1>0, <1>5, QuietMoves DEF TypeOK, ThreadTypes
  <2>2. UNCHANGED <<link, reactor, current, since, heard>>
    BY <1>0, <1>5, QuietMoves
  <2>3. QED
    BY <1>0, <2>1, <2>2 DEF OnePlace, Adding, Added
<1>6. ASSUME NEW c \in Clients, LockSessions(c) \/ UnlockSessions(c) \/ RemoveSession(c) PROVE OnePlace'
  BY <1>0, <1>6 DEF LockSessions, UnlockSessions, RemoveSession, OnePlace, Adding, Added, TypeOK, ThreadTypes
<1>7. ASSUME NEW c \in Clients, Notify(c) PROVE OnePlace'
  <2>1. active[next[c]] \in Clients
    BY <1>0, <1>7, ElementOfSeq, LenProperties DEF Notify, OneNotifies, TypeOK, SharedTypes, ThreadTypes
  <2>2. \A i \in 1..Len(active) : since[active[i]] # None
    BY <1>0, ElementOfSeq DEF ActiveHaveThreads, OnePlace, Added, TypeOK, SharedTypes
  <2>3. next[c] \in 1..Len(active)
    BY <1>0, <1>7, LenProperties DEF Notify, OneNotifies, TypeOK, SharedTypes, ThreadTypes
  <2>4. \A d \in Clients : since[d] = None => heard'[d] = heard[d]
    BY <1>0, <1>7, <2>1, <2>2, <2>3 DEF Notify, Write, TypeOK, WrittenTypes
  <2>5. QED
    BY <1>0, <1>7, <2>4 DEF Notify, OnePlace, Adding, Added
<1>8. QED
  BY <1>1, <1>2, <1>3, <1>4, <1>5, <1>6, <1>7, NextIsSteps DEF Steps

\* While a thread notifies, sessions_mutex_ keeps everybody else from notifying, adding
\* and removing.
LEMMA OneNotifiesKept ==
    ASSUME IInv, [Next]_vars
    PROVE  OneNotifies'
<1>0. TypeOK /\ OnePlace /\ OneNotifies
  BY DEF IInv
<1> USE DEF ThreadStep, ReactorStep, clientVars, reactorVars, stopVars, sharedVars, localVars, writtenVars, watchedVars
<1>1. CASE Aside
  BY <1>0, <1>1, AsideMoves DEF OneNotifies
<1>2. ASSUME NEW c \in Clients, Accept(c) PROVE OneNotifies'
  BY <1>0, <1>2 DEF Accept, OneNotifies
<1>3. CASE AddSession
  <2>1. mutex = None /\ mutex' = None /\ task' = task
    BY <1>3 DEF AddSession
  <2>2. \A c \in Clients : task[c] # "loop"
    BY <1>0, <2>1, HandlerAssumption DEF OneNotifies
  <2>3. QED
    BY <2>1, <2>2, HandlerAssumption DEF OneNotifies
<1>4. CASE Spawn
  <2>1. current \in Clients /\ \A c \in Clients : task'[c] = IF c = current THEN "check" ELSE task[c]
    BY <1>0, <1>4 DEF Spawn, OnePlace, TypeOK, ThreadTypes
  <2>2. QED
    BY <1>0, <1>4, <2>1 DEF Spawn, OneNotifies, OnePlace
<1>5. ASSUME NEW c \in Clients, Quiet(c) PROVE OneNotifies'
  BY <1>0, <1>5, QuietMoves DEF OneNotifies, TypeOK, ThreadTypes
<1>6. ASSUME NEW c \in Clients, LockSessions(c) PROVE OneNotifies'
  <2>1. /\ mutex = None /\ mutex' = c /\ active' = active
        /\ \A d \in Clients : task'[d] = IF d = c THEN "loop" ELSE task[d]
        /\ next'[c] = 1
    BY <1>0, <1>6 DEF LockSessions, TypeOK, ThreadTypes
  <2>2. \A d \in Clients : task[d] # "loop"
    BY <1>0, <2>1, HandlerAssumption DEF OneNotifies
  <2>3. [from |-> c, data |-> message[c]] \in Requests
    BY <1>0 DEF TypeOK, Requests, ThreadTypes
  <2>4. Len(log') = Len(log) + 1 /\ Len(log) \in Nat /\ log'[Len(log) + 1] = [from |-> c, data |-> message[c]]
    BY <1>0, <1>6, <2>3, AddLast DEF LockSessions, TypeOK, WrittenTypes
  <2>5. log' # <<>> /\ log'[Len(log')].from = c
    BY <2>4, EmptySeq
  <2>6. 1 \in 1 .. Len(active') + 1
    BY <1>0, <2>1, LenProperties DEF TypeOK, SharedTypes
  <2>7. QED
    BY <2>1, <2>2, <2>5, <2>6 DEF OneNotifies
<1>7. ASSUME NEW c \in Clients, Notify(c) PROVE OneNotifies'
  <2>1. \A d \in Clients : task[d] = "loop" => d = c
    BY <1>0, <1>7 DEF Notify, OneNotifies
  <2>2. next'[c] = next[c] + 1 /\ next[c] + 1 \in 1 .. Len(active) + 1
    BY <1>0, <1>7, LenProperties DEF Notify, OneNotifies, TypeOK, SharedTypes, ThreadTypes
  <2>3. UNCHANGED <<active, mutex, task, log>>
    BY <1>7 DEF Notify
  <2>4. QED
    BY <1>0, <2>1, <2>2, <2>3 DEF OneNotifies
<1>8. ASSUME NEW c \in Clients, UnlockSessions(c) PROVE OneNotifies'
  <2>1. mutex = c /\ mutex' = None /\ \A d \in Clients : task'[d] = IF d = c THEN "check" ELSE task[d]
    BY <1>0, <1>8 DEF UnlockSessions, OneNotifies, TypeOK, ThreadTypes
  <2>2. QED
    BY <1>0, <2>1, HandlerAssumption DEF OneNotifies
<1>9. ASSUME NEW c \in Clients, RemoveSession(c) PROVE OneNotifies'
  <2>1. mutex = None /\ mutex' = None /\ \A d \in Clients : task'[d] = IF d = c THEN "done" ELSE task[d]
    BY <1>0, <1>9 DEF RemoveSession, TypeOK, ThreadTypes
  <2>2. QED
    BY <1>0, <2>1, HandlerAssumption DEF OneNotifies
<1>10. QED
  BY <1>1, <1>2, <1>3, <1>4, <1>5, <1>6, <1>7, <1>8, <1>9, NextIsSteps DEF Steps

\* A client is added once, before its thread starts, and its thread takes it out as it
\* ends.
LEMMA ActiveKept ==
    ASSUME IInv, [Next]_vars
    PROVE  ActiveHaveThreads'
<1>0. TypeOK /\ OnePlace /\ ActiveHaveThreads
  BY DEF IInv
<1> USE DEF ThreadStep, ReactorStep, clientVars, reactorVars, stopVars, sharedVars, localVars, writtenVars, watchedVars
<1>1. CASE Aside
  BY <1>0, <1>1, AsideMoves DEF ActiveHaveThreads
<1>2. ASSUME NEW c \in Clients, Accept(c) PROVE ActiveHaveThreads'
  BY <1>0, <1>2 DEF Accept, ActiveHaveThreads
<1>3. CASE AddSession
  <2>1. current \in Clients /\ task[current] = "none" /\ reactor = "register" /\ reactor' = "spawn"
    BY <1>0, <1>3 DEF AddSession, OnePlace
  <2>2. /\ Len(active) \in Nat /\ Len(active') = Len(active) + 1
        /\ \A i \in 1..Len(active) : active'[i] = active[i]
        /\ active'[Len(active) + 1] = current
    BY <1>0, <1>3, <2>1, AddLast DEF AddSession, TypeOK, SharedTypes
  <2>3. \A i \in 1..Len(active) : active[i] # current
    BY <1>0, <2>1 DEF ActiveHaveThreads
  <2>4. \A i, j \in 1..Len(active') : i # j => active'[i] # active'[j]
    BY <1>0, <2>2, <2>3 DEF ActiveHaveThreads
  <2>5. \A c \in Clients : (\E i \in 1..Len(active') : active'[i] = c) <=> (\E i \in 1..Len(active) : active[i] = c) \/ c = current
    BY <2>2
  <2>6. task' = task /\ current' = current
    BY <1>3 DEF AddSession
  <2>7. QED
    BY <1>0, <2>1, <2>4, <2>5, <2>6 DEF ActiveHaveThreads
<1>4. CASE Spawn
  <2>1. current \in Clients /\ \A c \in Clients : task'[c] = IF c = current THEN "check" ELSE task[c]
    BY <1>0, <1>4 DEF Spawn, OnePlace, TypeOK, ThreadTypes
  <2>2. reactor = "spawn" /\ reactor' = "select" /\ active' = active
    BY <1>4 DEF Spawn
  <2>3. QED
    BY <1>0, <2>1, <2>2 DEF ActiveHaveThreads
<1>5. ASSUME NEW c \in Clients, Quiet(c) PROVE ActiveHaveThreads'
  <2>1. \A d \in Clients : task'[d] \notin {"none", "done"} <=> task[d] \notin {"none", "done"}
    BY <1>0, <1>5, QuietMoves DEF TypeOK, ThreadTypes
  <2>2. UNCHANGED <<reactor, current, active>>
    BY <1>0, <1>5, QuietMoves
  <2>3. QED
    BY <1>0, <2>1, <2>2 DEF ActiveHaveThreads
<1>6. ASSUME NEW c \in Clients, LockSessions(c) \/ Notify(c) \/ UnlockSessions(c) PROVE ActiveHaveThreads'
  <2>1. \A d \in Clients : task'[d] \notin {"none", "done"} <=> task[d] \notin {"none", "done"}
    BY <1>0, <1>6 DEF LockSessions, Notify, UnlockSessions, TypeOK, ThreadTypes
  <2>2. UNCHANGED <<reactor, current, active>>
    BY <1>6 DEF LockSessions, Notify, UnlockSessions
  <2>3. QED
    BY <1>0, <2>1, <2>2 DEF ActiveHaveThreads
<1>7. ASSUME NEW c \in Clients, RemoveSession(c) PROVE ActiveHaveThreads'
  <2>1. /\ task[c] = "remove" /\ \A d \in Clients : task'[d] = IF d = c THEN "done" ELSE task[d]
        /\ active' = Without(c) /\ UNCHANGED <<reactor, current>>
    BY <1>0, <1>7 DEF RemoveSession, TypeOK, ThreadTypes
  <2>2. PICK k \in 1..Len(active) : active[k] = c
    BY <1>0, <2>1 DEF ActiveHaveThreads
  <2>3. /\ Len(active) \in Nat /\ Len(active') = Len(active) - 1
        /\ \A i \in 1 .. k - 1 : active'[i] = active[i]
        /\ \A i \in k .. Len(active) - 1 : active'[i] = active[i + 1]
    BY <1>0, <2>1, <2>2, WithoutProperties DEF ActiveHaveThreads, TypeOK, SharedTypes
  <2>4. \A i, j \in 1..Len(active') : i # j => active'[i] # active'[j]
    <3>1. ASSUME NEW i \in 1..Len(active'), NEW j \in 1..Len(active'), i # j PROVE active'[i] # active'[j]
      <4>1. PICK p \in 1..Len(active) : active'[i] = active[p] /\ p = IF i < k THEN i ELSE i + 1
        BY <2>3
      <4>2. PICK q \in 1..Len(active) : active'[j] = active[q] /\ q = IF j < k THEN j ELSE j + 1
        BY <2>3
      <4>3. p # q
        BY <3>1, <4>1, <4>2, <2>3
      <4>4. QED
        BY <1>0, <4>1, <4>2, <4>3 DEF ActiveHaveThreads
    <3>2. QED
      BY <3>1
  <2>5. \A d \in Clients : (\E i \in 1..Len(active') : active'[i] = d) <=> (\E i \in 1..Len(active) : active[i] = d) /\ d # c
    <3>1. ASSUME NEW i \in 1..Len(active') PROVE \E p \in 1..Len(active) : active[p] = active'[i] /\ p # k
      <4>1. CASE i < k
        BY <2>3, <4>1
      <4>2. CASE i >= k
        <5>1. i + 1 \in 1..Len(active) /\ i + 1 # k /\ active'[i] = active[i + 1]
          BY <2>3, <4>2
        <5>2. QED
          BY <5>1
      <4>3. QED
        BY <2>3, <4>1, <4>2
    <3>2. ASSUME NEW p \in 1..Len(active), p # k PROVE \E i \in 1..Len(active') : active'[i] = active[p]
      <4>1. CASE p < k
        BY <2>3, <4>1
      <4>2. CASE p > k
        <5>1. p - 1 \in 1..Len(active') /\ p - 1 \in k .. Len(active) - 1 /\ (p - 1) + 1 = p
          BY <2>3, <4>2
        <5>2. active'[p - 1] = active[p]
          BY <2>3, <5>1
        <5>3. QED
          BY <5>1, <5>2
      <4>3. QED
        BY <2>3, <3>2, <4>1, <4>2
    <3>3. \A p \in 1..Len(active) : p # k => active[p] # c
      BY <1>0, <2>2 DEF ActiveHaveThreads
    <3>4. QED
      BY <2>2, <3>1, <3>2, <3>3
  <2>6. ~(reactor = "spawn" /\ current = c)
    BY <1>0, <2>1 DEF OnePlace
  <2>7. QED
    BY <1>0, <2>1, <2>4, <2>5, <2>6 DEF ActiveHaveThreads
<1>8. QED
  BY <1>1, <1>2, <1>3, <1>4, <1>5, <1>6, <1>7, NextIsSteps DEF Steps

\* tasks_ has every thread that runs until stop_all_tasks() has joined it.
LEMMA StoppedKept ==
    ASSUME IInv, [Next]_vars
    PROVE  Stopped'
<1>0. TypeOK /\ OnePlace /\ Stopped
  BY DEF IInv
<1> USE DEF ThreadStep, ReactorStep, StopperStep, ClientStep,
            clientVars, reactorVars, stopVars, sharedVars, localVars, writtenVars, watchedVars
<1>1. CASE ClientActions
  BY <1>0, <1>1 DEF ClientActions, Connect, ClientSend, ClientClose, Stopped, Runs, Kept
<1>2. ASSUME NEW c \in Clients, Accept(c) PROVE Stopped'
  BY <1>0, <1>2 DEF Accept, Stopped, Runs, Kept
<1>3. CASE AddSession
  BY <1>0, <1>3 DEF AddSession, Stopped, Runs, Kept
<1>4. CASE Spawn
  <2>1. current \in Clients /\ \A c \in Clients : task'[c] = IF c = current THEN "check" ELSE task[c]
    BY <1>0, <1>4 DEF Spawn, OnePlace, TypeOK, ThreadTypes
  <2>2. /\ Len(tasks) \in Nat /\ Len(tasks') = Len(tasks) + 1
        /\ \A i \in 1..Len(tasks) : tasks'[i] = tasks[i]
        /\ tasks'[Len(tasks) + 1] = current
    BY <1>0, <1>4, <2>1, AddLast DEF Spawn, TypeOK, ThreadTypes
  <2>3. \A c \in Clients : Kept(c)' <=> Kept(c) \/ c = current
    BY <2>2 DEF Kept
  <2>4. stopper = "idle" /\ stopper' = stopper
    BY <1>0, <1>4 DEF Spawn, Stopped
  <2>5. QED
    BY <1>0, <2>1, <2>3, <2>4 DEF Stopped, Runs
<1>5. ASSUME NEW c \in Clients, Quiet(c) PROVE Stopped'
  <2>1. \A d \in Clients : Runs(d)' <=> Runs(d)
    BY <1>0, <1>5, QuietMoves DEF Runs, TypeOK, ThreadTypes
  <2>2. UNCHANGED <<reactor, accReg, tasks, stopper>>
    BY <1>0, <1>5, QuietMoves
  <2>3. QED
    BY <1>0, <2>1, <2>2 DEF Stopped, Kept
<1>6. ASSUME NEW c \in Clients, LockSessions(c) \/ Notify(c) \/ UnlockSessions(c) \/ RemoveSession(c) PROVE Stopped'
  <2>1. \A d \in Clients : Runs(d)' => Runs(d)
    BY <1>0, <1>6 DEF LockSessions, Notify, UnlockSessions, RemoveSession, Runs, TypeOK, ThreadTypes
  <2>2. UNCHANGED <<reactor, accReg, tasks, stopper>>
    BY <1>6 DEF LockSessions, Notify, UnlockSessions, RemoveSession
  <2>3. QED
    BY <1>0, <2>1, <2>2 DEF Stopped, Kept
<1>7. CASE CloseAcceptor \/ CancelTask \/ StopReturns
  BY <1>0, <1>7 DEF CloseAcceptor, CancelTask, StopReturns, Stopped, Runs, Kept
<1>8. CASE JoinTask
  <2>1. /\ Len(tasks) \in Nat \ {0} /\ Len(tasks') = Len(tasks) - 1
        /\ Head(tasks) = tasks[1]
        /\ \A i \in 1..Len(tasks') : tasks'[i] = tasks[i + 1]
    BY <1>0, <1>8, TakeFirst DEF JoinTask, Stopped, TypeOK, ThreadTypes
  <2>2. \A d \in Clients : Kept(d) => Kept(d)' \/ d = tasks[1]
    <3>1. ASSUME NEW d \in Clients, NEW i \in 1..Len(tasks), tasks[i] = d, i # 1 PROVE Kept(d)'
      <4>1. i - 1 \in 1..Len(tasks') /\ tasks'[i - 1] = d
        BY <2>1, <3>1
      <4>2. QED
        BY <4>1 DEF Kept
    <3>2. QED
      BY <3>1 DEF Kept
  <2>3. task[tasks[1]] = "done" /\ stopper' = "tasks" /\ UNCHANGED <<task, accReg, reactor>>
    BY <1>8, <2>1 DEF JoinTask
  <2>4. stopper # "idle"
    BY <1>8 DEF JoinTask
  <2>5. QED
    BY <1>0, <2>2, <2>3, <2>4 DEF Stopped, Runs
<1>9. CASE Terminated \/ UNCHANGED vars
  BY <1>0, <1>9 DEF Terminated, vars, Stopped, Runs, Kept
<1>10. QED
  BY <1>1, <1>2, <1>3, <1>4, <1>5, <1>6, <1>7, <1>8, <1>9, NextIsSteps DEF Steps, Aside, StopperRuns

-----------------------------------------------------------------------------
(* Who has been told what *)

\* Who is in active_sessions_ has joined.
LEMMA ActiveHaveJoined ==
    ASSUME TypeOK, OnePlace, ActiveHaveThreads, NEW i \in 1..Len(active)
    PROVE  active[i] \in Clients /\ since[active[i]] \in Nat
<1>1. active[i] \in Clients
  BY ElementOfSeq DEF TypeOK, SharedTypes
<1>2. task[active[i]] \notin {"none", "done"} \/ Added(active[i])
  BY <1>1 DEF ActiveHaveThreads, Added
<1>3. since[active[i]] # None
  BY <1>1, <1>2 DEF OnePlace
<1>4. QED
  BY <1>1, <1>3 DEF TypeOK, WrittenTypes

\* A session stays up to date if nothing is written to it and it has nothing more to be told.
LEMMA StaysUpToDate ==
    ASSUME IInv, NEW i \in 1..Len(active),
           active'[i] = active[i], Told(i)' = Told(i),
           heard'[active[i]] = heard[active[i]], since'[active[i]] = since[active[i]],
           \A m \in 1..Len(log) : log'[m] = log[m],
           link'[active[i]] = "open" => link[active[i]] = "open",
           lagging \subseteq lagging'
    PROVE  UpToDate(active[i], Told(i))'
<1>1. UpToDate(active[i], Told(i)) /\ active[i] \in Clients /\ since[active[i]] \in Nat
  BY ActiveHaveJoined DEF IInv, AllUpToDate
<1>2. LastTold(active[i])' = LastTold(active[i])
  BY DEF LastTold
<1>3. Len(log) \in Nat /\ Told(i) \in Int /\ Told(i) <= Len(log)
  BY LenProperties DEF IInv, TypeOK, WrittenTypes, Told
<1>4. LastTold(active[i]) \in 0..Told(i)
  BY <1>1 DEF UpToDate
<1>5. /\ \A m \in LastTold(active[i]) + 1 .. Told(i) : log'[m] = log[m]
      /\ \A m \in since[active[i]] + 1 .. Told(i) : log'[m] = log[m]
  BY <1>1, <1>3, <1>4
<1>6. ASSUME link'[active[i]] = "open", active[i] \notin lagging'
      PROVE  /\ \A m \in LastTold(active[i]) + 1 .. Told(i) : log'[m].from = active[i]
             /\ \A m \in since[active[i]] + 1 .. Told(i) :
                    log'[m].from # active[i] => \E j \in 1..Len(heard[active[i]]) : heard[active[i]][j] = m
  <2>1. link[active[i]] = "open" /\ active[i] \notin lagging
    BY <1>6
  <2>2. QED
    BY <1>1, <1>5, <2>1 DEF UpToDate
<1>7. QED
  BY <1>2, <1>4, <1>6 DEF UpToDate

\* sessions_mutex_ makes a round of notifications one step: nobody joins or leaves
\* between the entry in the log and the last write.
LEMMA AllUpToDateKept ==
    ASSUME IInv, [Next]_vars
    PROVE  AllUpToDate'
<1>0. TypeOK /\ OnePlace /\ OneNotifies /\ ActiveHaveThreads /\ AllUpToDate
  BY DEF IInv
<1>a. /\ Len(log) \in Nat /\ Len(active) \in Nat
      /\ \A i \in 1..Len(active) : active[i] \in Clients /\ since[active[i]] \in Nat /\ link[active[i]] # "idle"
  <2>1. \A i \in 1..Len(active) : active[i] \in Clients /\ since[active[i]] \in Nat
    BY <1>0, ActiveHaveJoined
  <2>2. \A i \in 1..Len(active) : link[active[i]] # "idle"
    BY <1>0, <2>1 DEF ActiveHaveThreads, OnePlace, Added
  <2>3. QED
    BY <1>0, <2>1, <2>2, LenProperties DEF TypeOK, WrittenTypes, SharedTypes
<1> USE DEF ThreadStep, ReactorStep, clientVars, reactorVars, stopVars, sharedVars, localVars, writtenVars, watchedVars
<1>1. CASE Aside
  <2>1. /\ UNCHANGED <<active, mutex, next, heard, log, since, lagging>>
        /\ \A i \in 1..Len(active) : link'[active[i]] = "open" => link[active[i]] = "open"
    BY <1>0, <1>1, <1>a, AsideMoves
  <2>2. \A i : Told(i)' = Told(i)
    BY <2>1 DEF Told
  <2>3. QED
    BY <2>1, <2>2, StaysUpToDate DEF AllUpToDate
<1>2. ASSUME NEW c \in Clients, Accept(c) \/ Quiet(c) PROVE AllUpToDate'
  <2>1. UNCHANGED <<link, active, mutex, next, heard, log, since>> /\ lagging \subseteq lagging'
    BY <1>0, <1>2, QuietMoves DEF Accept
  <2>2. \A i : Told(i)' = Told(i)
    BY <2>1 DEF Told
  <2>3. QED
    BY <2>1, <2>2, StaysUpToDate DEF AllUpToDate
<1>3. CASE Spawn
  <2>1. UNCHANGED <<link, active, mutex, next, heard, log, since, lagging>>
    BY <1>3 DEF Spawn
  <2>2. \A i : Told(i)' = Told(i)
    BY <2>1 DEF Told
  <2>3. QED
    BY <2>1, <2>2, StaysUpToDate DEF AllUpToDate
<1>4. CASE AddSession
  <2>1. /\ current \in Clients /\ reactor = "register" /\ mutex = None
        /\ task[current] = "none" /\ since[current] = None /\ heard[current] = <<>>
    BY <1>0, <1>4 DEF AddSession, OnePlace, Added
  <2>2. /\ Len(active') = Len(active) + 1
        /\ \A i \in 1..Len(active) : active'[i] = active[i]
        /\ active'[Len(active) + 1] = current
    BY <1>0, <1>4, <2>1, AddLast DEF AddSession, TypeOK, SharedTypes
  <2>3. UNCHANGED <<link, mutex, next, heard, log, lagging>>
    BY <1>4 DEF AddSession
  <2>4. \A i : Told(i)' = Told(i) /\ Told(i) = Len(log)
    BY <2>1, <2>3 DEF Told
  <2>5. \A d \in Clients : since'[d] = IF d = current THEN Len(log) ELSE since[d]
    BY <1>0, <1>4 DEF AddSession, TypeOK, WrittenTypes
  <2>6. \A i \in 1..Len(active) : active[i] # current
    BY <1>a, <2>1, HandlerAssumption
  <2>7. \A i \in 1..Len(active) : UpToDate(active[i], Told(i))'
    BY <1>a, <2>2, <2>3, <2>4, <2>5, <2>6, StaysUpToDate
  <2>8. ASSUME NEW i \in 1..Len(active'), i = Len(active) + 1 PROVE UpToDate(active[i], Told(i))'
    <3>1. active'[i] = current /\ Told(i)' = Len(log) /\ since'[current] = Len(log) /\ heard'[current] = <<>>
      BY <2>1, <2>2, <2>3, <2>4, <2>5, <2>8
    <3>2. LastTold(active[i])' = Len(log)
      BY <3>1 DEF LastTold
    <3>3. QED
      BY <1>a, <3>1, <3>2 DEF UpToDate
  <2>9. QED
    <3>1. \A i \in 1..Len(active') : i \in 1..Len(active) \/ i = Len(active) + 1
      BY <1>a, <2>2
    <3>2. QED
      BY <2>7, <2>8, <3>1 DEF AllUpToDate
<1>5. ASSUME NEW c \in Clients, LockSessions(c) PROVE AllUpToDate'
  <2>1. /\ mutex = None /\ mutex' = c /\ next'[c] = 1
        /\ UNCHANGED <<link, active, heard, since, lagging>>
    BY <1>0, <1>5 DEF LockSessions, TypeOK, ThreadTypes
  <2>2. [from |-> c, data |-> message[c]] \in Requests
    BY <1>0 DEF TypeOK, Requests, ThreadTypes
  <2>3. Len(log') = Len(log) + 1 /\ \A m \in 1..Len(log) : log'[m] = log[m]
    BY <1>0, <1>5, <2>2, AddLast DEF LockSessions, TypeOK, WrittenTypes
  <2>4. \A i \in 1..Len(active) : Told(i)' = Told(i)
    BY <1>a, <2>1, <2>3, HandlerAssumption DEF Told
  <2>5. QED
    BY <2>1, <2>3, <2>4, StaysUpToDate DEF AllUpToDate
<1>6. ASSUME NEW c \in Clients, UnlockSessions(c) PROVE AllUpToDate'
  <2>1. /\ mutex = c /\ mutex' = None /\ next[c] > Len(active)
        /\ UNCHANGED <<link, active, next, heard, log, since, lagging>>
    BY <1>0, <1>6 DEF UnlockSessions, OneNotifies
  <2>2. next[c] \in Nat
    BY <1>0 DEF TypeOK, ThreadTypes
  <2>3. \A i \in 1..Len(active) : Told(i)' = Told(i)
    BY <1>a, <2>1, <2>2 DEF Told
  <2>4. QED
    BY <2>1, <2>3, StaysUpToDate DEF AllUpToDate
<1>7. ASSUME NEW c \in Clients, RemoveSession(c) PROVE AllUpToDate'
  <2>1. /\ mutex = None /\ active' = Without(c)
        /\ UNCHANGED <<link, mutex, heard, log, since, lagging>>
    BY <1>7 DEF RemoveSession
  <2>2. \A i : Told(i) = Len(log) /\ Told(i)' = Len(log)
    BY <2>1 DEF Told
  <2>3. task[c] = "remove"
    BY <1>7 DEF RemoveSession
  <2>4. PICK k \in 1..Len(active) : active[k] = c
    BY <1>0, <2>3 DEF ActiveHaveThreads
  <2>5. /\ Len(active') = Len(active) - 1
        /\ \A i \in 1 .. k - 1 : active'[i] = active[i]
        /\ \A i \in k .. Len(active) - 1 : active'[i] = active[i + 1]
    BY <1>0, <2>1, <2>4, WithoutProperties DEF ActiveHaveThreads, TypeOK, SharedTypes
  <2>6. ASSUME NEW i \in 1..Len(active') PROVE UpToDate(active[i], Told(i))'
    <3>1. PICK p \in 1..Len(active) : active'[i] = active[p]
      <4>1. CASE i < k
        BY <1>a, <2>5, <4>1
      <4>2. CASE i >= k
        BY <1>a, <2>5, <4>2
      <4>3. QED
        BY <1>a, <2>5, <4>1, <4>2
    <3>2. UpToDate(active[p], Len(log))
      BY <1>0, <2>2 DEF AllUpToDate
    <3>3. LastTold(active[i])' = LastTold(active[p])
      BY <2>1, <3>1 DEF LastTold
    <3>4. QED
      BY <2>1, <2>2, <3>1, <3>2, <3>3 DEF UpToDate
  <2>7. QED
    BY <2>6 DEF AllUpToDate
<1>8. ASSUME NEW c \in Clients, Notify(c) PROVE AllUpToDate'
  <2>1. PICK k \in 1..Len(active) : k = next[c]
    BY <1>0, <1>8, <1>a DEF Notify, OneNotifies, TypeOK, ThreadTypes
  <2>2. PICK d \in Clients : d = active[k]
    BY <1>a
  <2>3. /\ mutex = c /\ mutex' = c /\ next'[c] = k + 1
        /\ UNCHANGED <<link, active, log, since>> /\ lagging \subseteq lagging'
        /\ since[d] \in Nat
    BY <1>0, <1>8, <1>a, <2>1, <2>2 DEF Notify, Write, OneNotifies, TypeOK, ThreadTypes
  <2>4. log # <<>> /\ log[Len(log)].from = c /\ c # None
    BY <1>0, <2>3, HandlerAssumption DEF OneNotifies
  <2>5. Told(k) = Len(log) - 1 /\ Told(k)' = Len(log)
    BY <1>a, <2>1, <2>3, <2>4 DEF Told
  <2>6. \A i \in 1..Len(active) : i # k => Told(i)' = Told(i)
    BY <1>a, <2>1, <2>3, <2>4 DEF Told
  <2>7. ASSUME NEW i \in 1..Len(active), i # k PROVE UpToDate(active[i], Told(i))'
    <3>1. active[i] # d /\ active[i] \in Clients
      BY <1>0, <1>a, <2>2, <2>7 DEF ActiveHaveThreads
    <3>2. heard'[active[i]] = heard[active[i]]
      BY <1>0, <1>8, <2>1, <2>2, <3>1 DEF Notify, Write, TypeOK, WrittenTypes
    <3>3. QED
      BY <1>a, <2>3, <2>6, <2>7, <3>2, StaysUpToDate
  <2>8. UpToDate(d, Len(log) - 1)
    BY <1>0, <2>2, <2>5 DEF AllUpToDate
  <2>9. LastTold(d) \in 0 .. Len(log) - 1
    BY <2>8 DEF UpToDate
  <2>10. /\ LastTold(d)' \in 0..Len(log)
         /\ link'[d] = "open" /\ d \notin lagging' =>
              /\ \A m \in LastTold(d)' + 1 .. Len(log) : log'[m].from = d
              /\ \A m \in since'[d] + 1 .. Len(log) : log'[m].from # d => \E j \in 1..Len(heard'[d]) : heard'[d][j] = m
    <3>1. CASE d = c
      <4>1. heard' = heard
        BY <1>8, <2>1, <2>2, <3>1 DEF Notify
      <4>2. LastTold(d)' = LastTold(d)
        BY <2>3, <4>1 DEF LastTold
      <4>3. ASSUME NEW m \in Int, m <= Len(log), log[m].from # d PROVE m <= Len(log) - 1
        BY <1>a, <2>4, <3>1, <4>3
      <4>4. ASSUME link[d] = "open", d \notin lagging
            PROVE  \A m \in LastTold(d) + 1 .. Len(log) : log[m].from = d
        <5>1. \A m \in LastTold(d) + 1 .. Len(log) - 1 : log[m].from = d
          BY <2>8, <4>4 DEF UpToDate
        <5>2. QED
          BY <1>a, <2>9, <4>3, <5>1
      <4>5. ASSUME link[d] = "open", d \notin lagging, NEW m \in since[d] + 1 .. Len(log), log[m].from # d
            PROVE  \E j \in 1..Len(heard[d]) : heard[d][j] = m
        <5>1. m \in since[d] + 1 .. Len(log) - 1
          BY <1>a, <2>3, <4>3, <4>5
        <5>2. QED
          BY <2>8, <4>5, <5>1 DEF UpToDate
      <4>6. LastTold(d)' \in 0..Len(log)
        BY <1>a, <2>9, <4>2
      <4>7. link'[d] = "open" /\ d \notin lagging' => link[d] = "open" /\ d \notin lagging
        BY <2>3
      <4>8. QED
        BY <2>3, <4>1, <4>2, <4>4, <4>5, <4>6, <4>7
    <3>2. CASE heard' = heard /\ (link[d] # "open" \/ d \in lagging')
      <4>1. LastTold(d)' = LastTold(d)
        BY <2>3, <3>2 DEF LastTold
      <4>2. QED
        BY <1>a, <2>3, <2>9, <3>2, <4>1
    <3>3. CASE link[d] = "open" /\ lagging' = lagging /\ heard' = [heard EXCEPT ![d] = Append(@, Len(log))]
      <4>1. heard'[d] = Append(heard[d], Len(log)) /\ heard[d] \in Seq(Nat)
        BY <1>0, <3>3 DEF TypeOK, WrittenTypes
      <4>2. /\ Len(heard[d]) \in Nat /\ Len(heard'[d]) = Len(heard[d]) + 1
            /\ \A j \in 1..Len(heard[d]) : heard'[d][j] = heard[d][j]
            /\ heard'[d][Len(heard[d]) + 1] = Len(log)
        BY <1>a, <4>1, AddLast
      <4>3. LastTold(d)' = Len(log)
        BY <4>2, EmptySeq DEF LastTold
      <4>4. ASSUME d \notin lagging', NEW m \in since[d] + 1 .. Len(log), log[m].from # d
            PROVE  \E j \in 1..Len(heard'[d]) : heard'[d][j] = m
        <5>1. CASE m = Len(log)
          BY <4>2, <5>1
        <5>2. CASE m # Len(log)
          <6>1. m \in since[d] + 1 .. Len(log) - 1
            BY <1>a, <2>3, <5>2
          <6>2. \E j \in 1..Len(heard[d]) : heard[d][j] = m
            BY <2>8, <3>3, <4>4, <6>1 DEF UpToDate
          <6>3. PICK j \in 1..Len(heard[d]) : heard[d][j] = m
            BY <6>2
          <6>4. j \in 1..Len(heard'[d]) /\ heard'[d][j] = m
            BY <4>2, <6>3
          <6>5. QED
            BY <6>4
        <5>3. QED
          BY <5>1, <5>2
      <4>5. QED
        BY <1>a, <2>3, <4>3, <4>4
    <3>4. QED
      BY <1>8, <2>1, <2>2, <3>1, <3>2, <3>3 DEF Notify, Write
  <2>11. UpToDate(active[k], Told(k))'
    <3>1. active'[k] = d /\ LastTold(active[k])' = LastTold(d)'
      BY <2>2, <2>3 DEF LastTold
    <3>2. QED
      BY <2>5, <2>10, <3>1 DEF UpToDate
  <2>12. QED
    BY <2>3, <2>7, <2>11 DEF AllUpToDate
<1>9. QED
  BY <1>1, <1>2, <1>3, <1>4, <1>5, <1>6, <1>7, <1>8, NextIsSteps DEF Steps

-----------------------------------------------------------------------------
(* The theorems *)

\* The server before the first client.
LEMMA InitHolds == ASSUME Init PROVE IInv
<1>1. \A S : <<>> \in Seq(S) /\ Len(<<>>) = 0
  BY EmptySeq
<1>2. ClientTypes /\ SharedTypes
  BY <1>1, HandlerAssumption DEF Init, ClientTypes, SharedTypes
<1>3. ThreadTypes /\ WrittenTypes
  BY <1>1 DEF Init, ThreadTypes, WrittenTypes
<1>4. OnePlace /\ OneNotifies /\ Stopped
  BY HandlerAssumption DEF Init, OnePlace, Adding, Added, OneNotifies, Stopped, Runs
<1>5. ActiveHaveThreads /\ AllUpToDate
  BY <1>1 DEF Init, ActiveHaveThreads, AllUpToDate
<1>6. QED
  BY <1>2, <1>3, <1>4, <1>5 DEF IInv, TypeOK

\* The inductive invariant holds in every state.
THEOREM Invariant == Spec => []IInv
<1>1. Init => IInv
  BY InitHolds
<1>2. IInv /\ [Next]_vars => IInv'
  BY TypesKept, OnePlaceKept, OneNotifiesKept, ActiveKept, StoppedKept, AllUpToDateKept DEF IInv
<1>3. QED
  BY <1>1, <1>2, PTL DEF Spec

\* Every variable has its type.
THEOREM TypeCorrect == Spec => []TypeOK
<1>1. IInv => TypeOK
  BY DEF IInv
<1>2. QED
  BY <1>1, Invariant, PTL

\* active_sessions_ has each client that has a thread once, and nobody else.
THEOREM ActiveAlwaysHaveThreads == Spec => []ActiveHaveThreads
<1>1. IInv => ActiveHaveThreads
  BY DEF IInv
<1>2. QED
  BY <1>1, Invariant, PTL

\* Between two rounds of notifications nobody whom all writes have reached has missed
\* a request made since it came.
THEOREM NobodyEverMissed == Spec => []NobodyMissed
<1>1. ASSUME IInv PROVE NobodyMissed
  <2>1. SUFFICES ASSUME mutex = None, NEW i \in 1..Len(active),
                        active[i] \notin lagging, link[active[i]] = "open",
                        NEW n \in since[active[i]] + 1 .. Len(log), log[n].from # active[i]
                 PROVE  \E j \in 1..Len(heard[active[i]]) : heard[active[i]][j] = n
    BY DEF NobodyMissed
  <2>2. UpToDate(active[i], Len(log))
    BY <1>1, <2>1 DEF IInv, AllUpToDate, Told
  <2>3. QED
    BY <2>1, <2>2 DEF UpToDate
<1>2. QED
  BY <1>1, Invariant, PTL

\* After stop() no thread of a client is left, and no session.
THEOREM StopLeavesNothing == Spec => []QuietAfterStop
<1>1. ASSUME IInv PROVE QuietAfterStop
  <2> SUFFICES ASSUME stopper = "done" PROVE QuietAfterStop
    BY DEF QuietAfterStop
  <2>1. tasks = <<>> /\ reactor = "select"
    BY <1>1 DEF IInv, Stopped
  <2>2. \A c \in Clients : ~Kept(c)
    BY <2>1 DEF Kept
  <2>3. \A c \in Clients : task[c] \in {"none", "done"}
    BY <1>1, <2>2 DEF IInv, Stopped, Runs
  <2>4. active = <<>>
    <3>1. ASSUME NEW i \in 1..Len(active) PROVE FALSE
      BY <1>1, <2>1, <2>3, ElementOfSeq DEF IInv, ActiveHaveThreads, TypeOK, SharedTypes
    <3>2. active \in Seq(Clients) /\ Len(active) \in Nat
      BY <1>1, LenProperties DEF IInv, TypeOK, SharedTypes
    <3>3. Len(active) = 0
      BY <3>1, <3>2
    <3>4. QED
      BY <3>2, <3>3, EmptySeq
  <2>5. mutex = None
    BY <1>1, <2>3 DEF IInv, OneNotifies, TypeOK, SharedTypes
  <2>6. QED
    BY <2>1, <2>3, <2>4, <2>5 DEF QuietAfterStop
<1>2. QED
  BY <1>1, Invariant, PTL

-----------------------------------------------------------------------------
(* The server implements NotificationLog *)

\* A write is one entry told, or the client lags, or nothing happens.
LEMMA NotifyImplements ==
    ASSUME IInv, NEW c \in Clients, Notify(c)
    PROVE  Log!Next \/ UNCHANGED Log!logVars
<1> USE DEF clientVars, reactorVars, stopVars, sharedVars, Log!logVars
<1>1. PICK k \in 1..Len(active) : k = next[c]
  BY LenProperties DEF IInv, Notify, OneNotifies, TypeOK, SharedTypes, ThreadTypes
<1>2. PICK d \in Clients : d = active[k]
  BY ElementOfSeq DEF IInv, TypeOK, SharedTypes
<1>3. since[d] # None /\ Len(log) \in Nat /\ UNCHANGED <<log, since>>
  <2>1. since[d] \in Nat
    BY <1>2, ActiveHaveJoined DEF IInv
  <2>2. Len(log) \in Nat
    BY LenProperties DEF IInv, TypeOK, WrittenTypes
  <2>3. QED
    BY <2>1, <2>2, HandlerAssumption DEF Notify
<1>4. /\ mutex = c /\ log[Len(log)].from = c
      /\ UpToDate(d, Len(log) - 1)
  <2>1. mutex = c /\ c # None
    BY HandlerAssumption DEF IInv, Notify, OneNotifies
  <2>2. QED
    BY <1>1, <1>2, <2>1 DEF IInv, OneNotifies, AllUpToDate, Told, TypeOK, ThreadTypes
<1>5. CASE heard' = heard /\ lagging' = lagging
  BY <1>3, <1>5
<1>6. CASE heard' = heard /\ lagging' = lagging \cup {d}
  BY <1>3, <1>6 DEF Log!Next, Log!Lag
<1>7. CASE d # c /\ link[d] = "open" /\ lagging' = lagging /\ heard' = [heard EXCEPT ![d] = Append(@, Len(log))]
  <2>1. Log!Last(d) = LastTold(d)
    BY DEF Log!Last, LastTold
  <2>2. LastTold(d) \in 0 .. Len(log) - 1
    BY <1>4 DEF UpToDate
  <2>3. d \in lagging \/ \A m \in LastTold(d) + 1 .. Len(log) - 1 : log[m].from = d
    BY <1>4, <1>7 DEF UpToDate
  <2>4. Len(log) \in Log!Last(d) + 1 .. Len(log)
    BY <1>3, <2>1, <2>2
  <2>5. Log!Hear(d)
    <3>1. d \in lagging \/ \A m \in Log!Last(d) + 1 .. Len(log) - 1 : log[m].from = d
      BY <2>1, <2>3
    <3>2. log[Len(log)].from # d
      BY <1>4, <1>7
    <3>3. QED
      BY <1>3, <1>7, <2>4, <3>1, <3>2 DEF Log!Hear
  <2>6. QED
    BY <2>5 DEF Log!Next
<1>8. QED
  BY <1>1, <1>2, <1>5, <1>6, <1>7 DEF Notify, Write

\* The entry is made under the mutex, by a client that has joined.
LEMMA LockImplements ==
    ASSUME IInv, NEW c \in Clients, LockSessions(c)
    PROVE  Log!Post(c)
<1>1. [from |-> c, data |-> message[c]] \in Requests
  BY DEF IInv, TypeOK, Requests, ThreadTypes
<1>2. /\ log \in Seq(Requests) /\ log' \in Seq(Requests) /\ Len(log) \in Nat /\ Len(log') = Len(log) + 1
      /\ \A i \in 1..Len(log) : log'[i] = log[i]
      /\ log'[Len(log) + 1] = [from |-> c, data |-> message[c]]
  BY <1>1, AddLast DEF IInv, LockSessions, TypeOK, WrittenTypes
<1>3. /\ SubSeq(log', 1, Len(log)) \in Seq(Requests) /\ Len(SubSeq(log', 1, Len(log))) = Len(log)
      /\ \A i \in 1..Len(log) : SubSeq(log', 1, Len(log))[i] = log[i]
  <2>1. \A i \in 1..Len(log) : log'[i] \in Requests
    BY <1>2, ElementOfSeq
  <2>2. QED
    BY <1>2, <2>1, SubSeqProperties
<1>4. SubSeq(log', 1, Len(log)) = log
  BY <1>2, <1>3, SeqEqual
<1>5. since[c] # None
  BY DEF IInv, OnePlace, LockSessions, ThreadStep
<1>6. UNCHANGED <<since, heard, lagging>>
  BY DEF LockSessions, ThreadStep, writtenVars
<1>7. QED
  BY <1>2, <1>4, <1>5, <1>6 DEF Log!Post

\* Every client is told of the requests of all others since it came, each once, in the
\* one order of the log: sessions_mutex_ and the reactor's registration make the server
\* an implementation of NotificationLog.
THEOREM NotifiesAlwaysInOneOrder == Spec => NotifiesInOneOrder
<1>1. Init => Log!Init
  BY DEF Init, Log!Init
<1>2. IInv /\ [Next]_vars => [Log!Next]_(Log!logVars)
  <2> SUFFICES ASSUME IInv, [Next]_vars PROVE Log!Next \/ UNCHANGED Log!logVars
    OBVIOUS
  <2> USE DEF ThreadStep, ReactorStep, writtenVars, watchedVars, Log!logVars
  <2>1. CASE Aside
    BY <2>1, AsideMoves DEF IInv
  <2>2. ASSUME NEW c \in Clients, Accept(c) PROVE UNCHANGED Log!logVars
    BY <2>2 DEF Accept
  <2>3. CASE AddSession
    <3>1. current \in Clients /\ since[current] = None
      BY <2>3 DEF IInv, AddSession, OnePlace, Added
    <3>2. Log!Join(current)
      BY <2>3, <3>1 DEF AddSession, Log!Join
    <3>3. QED
      BY <3>1, <3>2 DEF Log!Next
  <2>4. CASE Spawn
    BY <2>4 DEF Spawn
  <2>5. ASSUME NEW c \in Clients, Quiet(c) PROVE Log!Next \/ UNCHANGED Log!logVars
    <3>1. UNCHANGED <<log, since, heard>> /\ (lagging' = lagging \/ lagging' = lagging \cup {c})
      BY <2>5 DEF Quiet, CheckCancelled, Read, ReadTimeout, ReadClosed, SendEcho, Write
    <3>2. QED
      BY <3>1 DEF Log!Next, Log!Lag
  <2>6. ASSUME NEW c \in Clients, LockSessions(c) PROVE Log!Next
    BY <2>6, LockImplements DEF Log!Next
  <2>7. ASSUME NEW c \in Clients, Notify(c) PROVE Log!Next \/ UNCHANGED Log!logVars
    BY <2>7, NotifyImplements
  <2>8. ASSUME NEW c \in Clients, UnlockSessions(c) \/ RemoveSession(c) PROVE UNCHANGED Log!logVars
    BY <2>8 DEF UnlockSessions, RemoveSession
  <2>9. QED
    BY <2>1, <2>2, <2>3, <2>4, <2>5, <2>6, <2>7, <2>8, NextIsSteps DEF Steps
<1>3. QED
  BY <1>1, <1>2, Invariant, PTL DEF Spec, NotifiesInOneOrder, Log!Spec

-----------------------------------------------------------------------------
(* What is echoed *)

Echoed(c) == FlattenSeq(echoes[c])

\* The numbers behind k, in a row.
RowBehind(s, k) == \A i \in 1..Len(s) : s[i] = k + i

\* How much the thread of c has read and not yet echoed.
Taken(c) == IF task[c] = "echo" THEN Len(message[c]) ELSE 0

\* What c wrote is, in this order, what has been echoed, what its thread is about to
\* echo and what no read() has taken; once c has closed, nothing is echoed any more.
StreamOf(c) ==
    /\ RowBehind(Echoed(c), 0) /\ Len(Echoed(c)) <= sentUnits[c]
    /\ link[c] # "closed" =>
        /\ task[c] = "echo" => RowBehind(message[c], Len(Echoed(c)))
        /\ RowBehind(inbox[c], Len(Echoed(c)) + Taken(c))
        /\ Len(Echoed(c)) + Taken(c) + Len(inbox[c]) = sentUnits[c]

EchoInv == \A c \in Clients \ lagging : StreamOf(c)

\* The lengths are numbers.
LEMMA StreamTypes ==
    ASSUME TypeOK, NEW c \in Clients
    PROVE  /\ Echoed(c) \in Seq(1..MaxUnits) /\ Len(Echoed(c)) \in Nat
           /\ message[c] \in Seq(1..MaxUnits) /\ Len(message[c]) \in Nat
           /\ inbox[c] \in Seq(1..MaxUnits) /\ Len(inbox[c]) \in Nat
           /\ sentUnits[c] \in Nat /\ Taken(c) \in Nat
<1>1. /\ message[c] \in Seq(1..MaxUnits) /\ Len(message[c]) \in Nat
      /\ inbox[c] \in Seq(1..MaxUnits) /\ Len(inbox[c]) \in Nat
  BY LenProperties DEF TypeOK, ClientTypes, ThreadTypes
<1>2. sentUnits[c] \in Nat
  BY HandlerAssumption DEF TypeOK, ClientTypes
<1>3. Echoed(c) \in Seq(1..MaxUnits) /\ Len(Echoed(c)) \in Nat
  BY FlattenType, LenProperties DEF Echoed, TypeOK, WrittenTypes
<1>4. QED
  BY <1>1, <1>2, <1>3 DEF Taken

\* A step that has nothing to do with the data of c.
LEMMA StreamUntouched ==
    ASSUME NEW c \in Clients, StreamOf(c),
           echoes'[c] = echoes[c], inbox'[c] = inbox[c], sentUnits'[c] = sentUnits[c],
           task'[c] = "echo" <=> task[c] = "echo", task[c] = "echo" => message'[c] = message[c],
           link'[c] # "closed" => link[c] # "closed"
    PROVE  StreamOf(c)'
<1>1. Echoed(c)' = Echoed(c) /\ Taken(c)' = Taken(c)
  BY DEF Echoed, Taken
<1>2. QED
  BY <1>1 DEF StreamOf, RowBehind

\* Another number at the end.
LEMMA RowGrows ==
    ASSUME NEW S, NEW s \in Seq(S), NEW k \in Nat, RowBehind(s, k), NEW x \in S, x = k + Len(s) + 1
    PROVE  RowBehind(Append(s, x), k) /\ Len(Append(s, x)) = Len(s) + 1
<1>1. /\ Len(s) \in Nat /\ Len(Append(s, x)) = Len(s) + 1
      /\ \A i \in 1..Len(s) : Append(s, x)[i] = s[i]
      /\ Append(s, x)[Len(s) + 1] = x
  BY AddLast
<1>2. ASSUME NEW i \in 1 .. Len(s) + 1 PROVE Append(s, x)[i] = k + i
  <2>1. CASE i \in 1..Len(s)
    BY <1>1, <2>1 DEF RowBehind
  <2>2. CASE i = Len(s) + 1
    BY <1>1, <2>2
  <2>3. QED
    BY <1>1, <2>1, <2>2
<1>3. QED
  BY <1>1, <1>2 DEF RowBehind

\* Two rows, one behind the other.
LEMMA RowsJoin ==
    ASSUME NEW S, NEW s \in Seq(S), NEW t \in Seq(S), NEW k \in Nat, RowBehind(s, k), RowBehind(t, k + Len(s))
    PROVE  RowBehind(s \o t, k) /\ Len(s \o t) = Len(s) + Len(t)
<1>1. /\ Len(s) \in Nat /\ Len(t) \in Nat /\ Len(s \o t) = Len(s) + Len(t)
      /\ \A i \in 1 .. Len(s) + Len(t) : (s \o t)[i] = IF i <= Len(s) THEN s[i] ELSE t[i - Len(s)]
  BY ConcatProperties, LenProperties
<1>2. ASSUME NEW i \in 1 .. Len(s) + Len(t) PROVE (s \o t)[i] = k + i
  <2>1. CASE i <= Len(s)
    <3>1. i \in 1..Len(s)
      BY <1>1, <2>1
    <3>2. QED
      BY <1>1, <2>1, <3>1 DEF RowBehind
  <2>2. CASE ~(i <= Len(s))
    <3>1. i - Len(s) \in 1..Len(t) /\ k + Len(s) + (i - Len(s)) = k + i
      BY <1>1, <2>2
    <3>2. (s \o t)[i] = t[i - Len(s)]
      BY <1>1, <2>2
    <3>3. t[i - Len(s)] = k + Len(s) + (i - Len(s))
      BY <3>1 DEF RowBehind
    <3>4. QED
      BY <3>1, <3>2, <3>3
  <2>3. QED
    BY <2>1, <2>2
<1>3. QED
  BY <1>1, <1>2 DEF RowBehind

\* A row cut in two.
LEMMA RowCut ==
    ASSUME NEW S, NEW s \in Seq(S), NEW k \in Nat, RowBehind(s, k), NEW n \in 0..Len(s)
    PROVE  /\ RowBehind(SubSeq(s, 1, n), k) /\ Len(SubSeq(s, 1, n)) = n
           /\ RowBehind(SubSeq(s, n + 1, Len(s)), k + n) /\ Len(SubSeq(s, n + 1, Len(s))) = Len(s) - n
<1>1. Len(s) \in Nat /\ n \in Nat /\ n <= Len(s) /\ \A i \in 1..Len(s) : s[i] \in S
  BY ElementOfSeq, LenProperties
<1>2. Len(SubSeq(s, 1, n)) = n /\ \A i \in 1..n : SubSeq(s, 1, n)[i] = s[i]
  <2>1. \A i \in 1..n : s[i] \in S
    BY <1>1
  <2>2. QED
    BY <1>1, <2>1, SubSeqProperties
<1> DEFINE r == SubSeq(s, n + 1, Len(s))
<1>3. Len(r) = Len(s) - n /\ \A i \in 1 .. Len(s) - n : r[i] = s[n + i]
  <2>1. \A i \in n + 1 .. Len(s) : s[i] \in S
    BY <1>1
  <2>2. /\ Len(r) = IF n + 1 <= Len(s) THEN Len(s) - (n + 1) + 1 ELSE 0
        /\ \A i \in 1 .. Len(s) - (n + 1) + 1 : r[i] = s[n + 1 + i - 1]
    BY <1>1, <2>1, SubSeqProperties
  <2> HIDE DEF r
  <2>3. \A i \in 1 .. Len(s) - n : i \in 1 .. Len(s) - (n + 1) + 1 /\ n + 1 + i - 1 = n + i
    BY <1>1
  <2>4. QED
    BY <1>1, <2>2, <2>3
<1> HIDE DEF r
<1>4. RowBehind(SubSeq(s, 1, n), k)
  BY <1>1, <1>2 DEF RowBehind
<1>5. ASSUME NEW i \in 1 .. Len(s) - n PROVE r[i] = k + n + i
  <2>1. n + i \in 1..Len(s) /\ k + (n + i) = k + n + i
    BY <1>1
  <2>2. QED
    BY <1>3, <2>1 DEF RowBehind
<1>6. RowBehind(r, k + n)
  BY <1>3, <1>5 DEF RowBehind
<1>7. QED
  BY <1>2, <1>3, <1>4, <1>6 DEF r

LEMMA ClientSendStream ==
    ASSUME TypeOK, TypeOK', NEW c \in Clients, ClientSend(c), StreamOf(c)
    PROVE  StreamOf(c)'
<1>1. /\ link[c] = "open" /\ sentUnits'[c] = sentUnits[c] + 1
      /\ inbox'[c] = Append(inbox[c], sentUnits[c] + 1)
      /\ UNCHANGED <<link, task, message, echoes>>
  BY DEF ClientSend, ClientStep, localVars, writtenVars, TypeOK, ClientTypes
<1>2. Echoed(c)' = Echoed(c) /\ Taken(c)' = Taken(c)
  BY <1>1 DEF Echoed, Taken
<1> DEFINE k == Len(Echoed(c)) + Taken(c)
<1>3. k \in Nat /\ RowBehind(inbox[c], k) /\ k + Len(inbox[c]) = sentUnits[c]
  BY <1>1, StreamTypes DEF StreamOf
<1>4. sentUnits[c] + 1 \in 1..MaxUnits
  BY HandlerAssumption DEF ClientSend, TypeOK, ClientTypes
<1>5. /\ inbox[c] \in Seq(1..MaxUnits) /\ Len(inbox[c]) \in Nat /\ sentUnits[c] \in Nat
      /\ Len(Echoed(c)) \in Nat /\ Taken(c) \in Nat
  BY StreamTypes
<1>6. RowBehind(inbox'[c], k) /\ Len(inbox'[c]) = Len(inbox[c]) + 1
  <2> HIDE DEF k
  <2>1. sentUnits[c] + 1 = k + Len(inbox[c]) + 1
    BY <1>3
  <2>2. /\ inbox[c] \in Seq(1..MaxUnits) /\ k \in Nat /\ RowBehind(inbox[c], k)
        /\ sentUnits[c] + 1 \in 1..MaxUnits
    BY <1>3, <1>4, <1>5
  <2>3. /\ RowBehind(Append(inbox[c], sentUnits[c] + 1), k)
        /\ Len(Append(inbox[c], sentUnits[c] + 1)) = Len(inbox[c]) + 1
    BY <2>1, <2>2, RowGrows, Zenon
  <2>4. QED
    BY <1>1, <2>3
<1>7. Len(Echoed(c)) <= sentUnits[c] + 1 /\ k + Len(inbox'[c]) = sentUnits'[c]
  <2>1. Len(Echoed(c)) <= sentUnits[c]
    BY DEF StreamOf
  <2>2. Len(Echoed(c)) <= sentUnits[c] + 1
    BY <1>5, <2>1
  <2> HIDE DEF k
  <2>3. k + (Len(inbox[c]) + 1) = sentUnits[c] + 1
    BY <1>3, <1>5
  <2>4. QED
    BY <1>1, <1>6, <2>2, <2>3
<1>8. QED
  BY <1>1, <1>2, <1>6, <1>7 DEF StreamOf

\* read() takes what comes next.
LEMMA ReadStream ==
    ASSUME TypeOK, NEW c \in Clients, Read(c), StreamOf(c)
    PROVE  StreamOf(c)'
<1> DEFINE n == Smaller(BufSize, Len(inbox[c]))
<1>1. /\ task[c] = "read" /\ task'[c] = "echo"
      /\ message'[c] = SubSeq(inbox[c], 1, n)
      /\ inbox'[c] = SubSeq(inbox[c], n + 1, Len(inbox[c]))
      /\ UNCHANGED <<link, sentUnits, echoes>>
  BY DEF Read, ThreadStep, writtenVars, TypeOK, ClientTypes, ThreadTypes
<1>2. inbox[c] \in Seq(1..MaxUnits) /\ Len(inbox[c]) \in Nat /\ Len(Echoed(c)) \in Nat /\ sentUnits[c] \in Nat
  BY StreamTypes
<1>3. n \in 0..Len(inbox[c])
  BY <1>2, SmallerProperties
<1> HIDE DEF n
<1>4. Echoed(c)' = Echoed(c)
  BY <1>1 DEF Echoed
<1>5. ASSUME link[c] # "closed" PROVE /\ RowBehind(inbox[c], Len(Echoed(c)))
                                      /\ Len(Echoed(c)) + Len(inbox[c]) = sentUnits[c]
  BY <1>1, <1>2, <1>5 DEF StreamOf, Taken
<1>6. ASSUME link[c] # "closed"
      PROVE  /\ RowBehind(message'[c], Len(Echoed(c))) /\ Len(message'[c]) = n
             /\ RowBehind(inbox'[c], Len(Echoed(c)) + n) /\ Len(inbox'[c]) = Len(inbox[c]) - n
  BY <1>1, <1>2, <1>3, <1>5, <1>6, RowCut
<1>7. Taken(c)' = Len(message'[c])
  BY <1>1 DEF Taken
<1>8. ASSUME link[c] # "closed" PROVE Len(Echoed(c)) + n + Len(inbox'[c]) = sentUnits[c]
  <2>1. Len(inbox'[c]) = Len(inbox[c]) - n
    BY <1>6, <1>8
  <2>2. Len(Echoed(c)) + Len(inbox[c]) = sentUnits[c]
    BY <1>5, <1>8
  <2>3. \A e, l, m \in Nat : m <= l => e + m + (l - m) = e + l
    OBVIOUS
  <2>4. Len(Echoed(c)) \in Nat /\ Len(inbox[c]) \in Nat /\ n \in Nat /\ n <= Len(inbox[c])
    BY <1>2, <1>3
  <2>5. Len(Echoed(c)) + n + (Len(inbox[c]) - n) = Len(Echoed(c)) + Len(inbox[c])
    BY <2>3, <2>4
  <2>6. QED
    BY <2>1, <2>2, <2>5
<1>9. QED
  BY <1>1, <1>4, <1>6, <1>7, <1>8 DEF StreamOf

\* The echo of what was read goes behind what has been echoed.
LEMMA SendEchoStream ==
    ASSUME TypeOK, OnePlace, NEW c \in Clients, SendEcho(c), c \notin lagging', StreamOf(c)
    PROVE  StreamOf(c)'
<1>1. /\ task[c] = "echo" /\ task'[c] = "notify"
      /\ UNCHANGED <<link, sentUnits, inbox, message>>
      /\ \/ link[c] = "open" /\ echoes'[c] = Append(echoes[c], message[c])
         \/ link[c] # "open" /\ echoes'[c] = echoes[c]
  BY DEF SendEcho, Write, ThreadStep, localVars, TypeOK, ThreadTypes, WrittenTypes
<1>2. /\ Echoed(c) \in Seq(1..MaxUnits) /\ Len(Echoed(c)) \in Nat
      /\ message[c] \in Seq(1..MaxUnits) /\ Len(message[c]) \in Nat
      /\ inbox[c] \in Seq(1..MaxUnits) /\ Len(inbox[c]) \in Nat /\ sentUnits[c] \in Nat
  BY StreamTypes
<1>3. Taken(c) = Len(message[c]) /\ Taken(c)' = 0
  BY <1>1 DEF Taken
<1>4. CASE link[c] = "open"
  <2>1. Echoed(c)' = Echoed(c) \o message[c]
    <3>1. echoes[c] \in Seq(Seq(1..MaxUnits)) /\ message[c] \in Seq(1..MaxUnits)
      BY <1>2 DEF TypeOK, WrittenTypes
    <3>2. FlattenSeq(Append(echoes[c], message[c])) = FlattenSeq(echoes[c]) \o message[c]
      BY <3>1, FlattenAppend, Zenon
    <3>3. QED
      BY <1>1, <1>4, <3>2 DEF Echoed
  <2>2. /\ RowBehind(Echoed(c), 0) /\ RowBehind(message[c], Len(Echoed(c)))
        /\ RowBehind(inbox[c], Len(Echoed(c)) + Len(message[c]))
        /\ Len(Echoed(c)) + Len(message[c]) + Len(inbox[c]) = sentUnits[c]
    BY <1>1, <1>3, <1>4 DEF StreamOf
  <2>3. 0 + Len(Echoed(c)) = Len(Echoed(c))
    BY <1>2
  <2>4. RowBehind(Echoed(c)', 0) /\ Len(Echoed(c)') = Len(Echoed(c)) + Len(message[c])
    BY <1>2, <2>1, <2>2, <2>3, RowsJoin
  <2>5. /\ Len(Echoed(c)) + Len(message[c]) <= sentUnits[c]
        /\ Len(Echoed(c)) + Len(message[c]) + 0 = Len(Echoed(c)) + Len(message[c])
    <3>1. Len(Echoed(c)) + Len(message[c]) + Len(inbox[c]) = sentUnits[c]
      BY <2>2
    <3>2. \A k, m, n, sum \in Nat : k + m + n = sum => k + m <= sum /\ k + m + 0 = k + m
      OBVIOUS
    <3>3. Len(Echoed(c)) \in Nat /\ Len(message[c]) \in Nat /\ Len(inbox[c]) \in Nat /\ sentUnits[c] \in Nat
      BY <1>2
    <3>4. QED
      BY <3>1, <3>2, <3>3, Zenon
  <2>6. QED
    BY <1>1, <1>3, <2>2, <2>4, <2>5 DEF StreamOf
<1>5. CASE link[c] = "closed"
  <2>1. Echoed(c)' = Echoed(c)
    BY <1>1, <1>5 DEF Echoed
  <2>2. QED
    BY <1>1, <1>5, <2>1 DEF StreamOf
<1>6. link[c] # "idle"
  BY <1>1 DEF OnePlace
<1>7. QED
  BY <1>4, <1>5, <1>6 DEF TypeOK, ClientTypes

\* A client that leaves, or that the acceptor turns away, is echoed nothing more.
LEMMA ClosedStream ==
    ASSUME NEW c \in Clients, StreamOf(c), link'[c] = "closed", echoes'[c] = echoes[c], sentUnits'[c] = sentUnits[c]
    PROVE  StreamOf(c)'
<1>1. Echoed(c)' = Echoed(c)
  BY DEF Echoed
<1>2. QED
  BY <1>1 DEF StreamOf

\* Every step keeps the streams.
LEMMA EchoKept ==
    ASSUME IInv, IInv', EchoInv, [Next]_vars
    PROVE  EchoInv'
<1>0. TypeOK /\ TypeOK' /\ OnePlace
  BY DEF IInv
<1> USE DEF ThreadStep, ReactorStep, StopperStep, ClientStep, clientVars, reactorVars, stopVars, sharedVars,
            localVars, writtenVars
<1>1. lagging \subseteq lagging'
  BY DEF Next, ClientActions, Connect, ClientSend, ClientClose, ReactorThread, Accept, AddSession, Spawn, SessionThread,
         CheckCancelled, Read, ReadTimeout, ReadClosed, SendEcho, Write, LockSessions, Notify, UnlockSessions,
         RemoveSession, CloseAcceptor, StopperRuns, CancelTask, JoinTask, StopReturns, Terminated, vars
<1> SUFFICES ASSUME NEW c \in Clients, c \notin lagging', StreamOf(c) PROVE StreamOf(c)'
  BY <1>1 DEF EchoInv
<1>2. ASSUME NEW e \in Clients, Connect(e) PROVE StreamOf(c)'
  <2>1. UNCHANGED <<echoes, inbox, sentUnits, task, message>> /\ (link'[c] # "closed" => link[c] # "closed")
    BY <1>0, <1>2 DEF Connect, TypeOK, ClientTypes
  <2>2. QED
    BY <2>1, StreamUntouched
<1>3. ASSUME NEW e \in Clients, ClientSend(e) PROVE StreamOf(c)'
  <2>1. CASE e = c
    BY <1>0, <1>3, <2>1, ClientSendStream
  <2>2. CASE e # c
    <3>1. /\ UNCHANGED <<echoes, link, task, message>>
          /\ inbox'[c] = inbox[c] /\ sentUnits'[c] = sentUnits[c]
      BY <1>0, <1>3, <2>2 DEF ClientSend, TypeOK, ClientTypes
    <3>2. QED
      BY <3>1, StreamUntouched
  <2>3. QED
    BY <2>1, <2>2
<1>4. ASSUME NEW e \in Clients, ClientClose(e) PROVE StreamOf(c)'
  <2>1. UNCHANGED <<echoes, sentUnits, task, message>>
    BY <1>4 DEF ClientClose
  <2>2. CASE e = c
    <3>1. link'[c] = "closed"
      BY <1>0, <1>4, <2>2 DEF ClientClose, TypeOK, ClientTypes
    <3>2. QED
      BY <2>1, <3>1, ClosedStream
  <2>3. CASE e # c
    <3>1. inbox'[c] = inbox[c] /\ link'[c] = link[c]
      BY <1>0, <1>4, <2>3 DEF ClientClose, TypeOK, ClientTypes
    <3>2. QED
      BY <2>1, <3>1, StreamUntouched
  <2>4. QED
    BY <2>2, <2>3
<1>5. CASE ReactorThread
  <2>1. UNCHANGED <<echoes, inbox, sentUnits, message, link>>
    BY <1>5 DEF ReactorThread, Accept, AddSession, Spawn
  <2>2. task'[c] = "echo" <=> task[c] = "echo"
    BY <1>0, <1>5 DEF ReactorThread, Accept, AddSession, Spawn, TypeOK, ThreadTypes, OnePlace
  <2>3. QED
    BY <2>1, <2>2, StreamUntouched
<1>6. ASSUME NEW e \in Clients, Read(e) PROVE StreamOf(c)'
  <2>1. CASE e = c
    BY <1>0, <1>6, <2>1, ReadStream
  <2>2. CASE e # c
    <3>1. /\ UNCHANGED <<echoes, link, sentUnits>>
          /\ inbox'[c] = inbox[c] /\ task'[c] = task[c] /\ message'[c] = message[c]
      BY <1>0, <1>6, <2>2 DEF Read, TypeOK, ClientTypes, ThreadTypes
    <3>2. QED
      BY <3>1, StreamUntouched
  <2>3. QED
    BY <2>1, <2>2
<1>7. ASSUME NEW e \in Clients, SendEcho(e) PROVE StreamOf(c)'
  <2>1. CASE e = c
    BY <1>0, <1>7, <2>1, SendEchoStream
  <2>2. CASE e # c
    <3>1. /\ UNCHANGED <<inbox, link, sentUnits, message>>
          /\ echoes'[c] = echoes[c] /\ task'[c] = task[c]
      BY <1>0, <1>7, <2>2 DEF SendEcho, Write, TypeOK, ThreadTypes, WrittenTypes
    <3>2. QED
      BY <3>1, StreamUntouched
  <2>3. QED
    BY <2>1, <2>2
<1>8. ASSUME NEW e \in Clients,
             \/ CheckCancelled(e) \/ ReadTimeout(e) \/ ReadClosed(e)
             \/ LockSessions(e) \/ Notify(e) \/ UnlockSessions(e) \/ RemoveSession(e)
      PROVE  StreamOf(c)'
  <2>1. UNCHANGED <<echoes, inbox, sentUnits, message, link>>
    BY <1>8 DEF CheckCancelled, ReadTimeout, ReadClosed, LockSessions, Notify, UnlockSessions, RemoveSession
  <2>2. task'[c] = "echo" <=> task[c] = "echo"
    BY <1>0, <1>8 DEF CheckCancelled, ReadTimeout, ReadClosed, LockSessions, Notify, UnlockSessions, RemoveSession,
                      TypeOK, ThreadTypes
  <2>3. QED
    BY <2>1, <2>2, StreamUntouched
<1>9. CASE CloseAcceptor
  <2>1. UNCHANGED <<echoes, inbox, sentUnits, task, message>> /\ (link'[c] # "closed" => link[c] # "closed")
    BY <1>9 DEF CloseAcceptor
  <2>2. QED
    BY <2>1, StreamUntouched
<1>10. CASE StopperRuns \/ Terminated \/ UNCHANGED vars
  <2>1. UNCHANGED <<echoes, inbox, sentUnits, task, message, link>>
    BY <1>10 DEF StopperRuns, CancelTask, JoinTask, StopReturns, Terminated, vars
  <2>2. QED
    BY <2>1, StreamUntouched
<1>11. QED
  BY <1>2, <1>3, <1>4, <1>5, <1>6, <1>7, <1>8, <1>9, <1>10 DEF Next, ClientActions, SessionThread

\* What is echoed to a client is, in order and without a gap, what it wrote: nothing the
\* tasks, the mutex or stop() do to the other clients comes between.
THEOREM EchoesAreAlwaysTheStream == Spec => []EchoesAreTheStream
<1>1. Init => EchoInv
  <2> SUFFICES ASSUME Init, NEW c \in Clients PROVE StreamOf(c)
    BY DEF EchoInv
  <2>1. Echoed(c) = <<>>
    BY DEF Init, Echoed, FlattenSeq
  <2>2. QED
    BY <2>1 DEF Init, StreamOf, RowBehind, Taken
<1>2. IInv /\ IInv' /\ EchoInv /\ [Next]_vars => EchoInv'
  BY EchoKept
<1>3. IInv /\ EchoInv => EchoesAreTheStream
  <2> SUFFICES ASSUME IInv, EchoInv, NEW c \in Clients \ lagging
               PROVE  /\ Echoed(c) = [i \in 1..Len(Echoed(c)) |-> i]
                      /\ Len(Echoed(c)) <= sentUnits[c]
    BY DEF EchoesAreTheStream, Echoed
  <2>1. Echoed(c) \in Seq(1..MaxUnits) /\ Len(Echoed(c)) \in Nat
    BY StreamTypes DEF IInv
  <2>2. \A i \in 1..Len(Echoed(c)) : Echoed(c)[i] = i
    BY <2>1 DEF EchoInv, StreamOf, RowBehind
  <2>3. Len(Echoed(c)) <= sentUnits[c]
    BY DEF EchoInv, StreamOf
  <2>4. Echoed(c) = [i \in 1..Len(Echoed(c)) |-> i]
    BY <2>1, <2>2
  <2>5. QED
    BY <2>3, <2>4
<1>4. QED
  BY <1>1, <1>2, <1>3, Invariant, PTL DEF Spec
=============================================================================

# Verification of tcp-udp

TLA+ models of the TCP-over-UDP proxy pair, of the servers and clients it is tested with, of the library
code they stand on and of the programs from their command line to their end; TLC runs on small instances; and machine-checked proofs
about both proxies, the notifying server and its self-validating client, the life of all servers and the programs.
Paths are relative to the repository; `lib*` are directories of `src/`.

## 1. The system

```
 TCP client 1 --+                                              +-- TCP connection of source 1 -- TCP server
 TCP client 2 --+--> TcpServerProxy ---- UDP datagrams ----> TcpClientProxy
 ...          --+<--                <----                      (one connection per UDP source)
```

`TcpServerProxy` accepts TCP connections and sends what they carry as datagrams to one peer.
`TcpClientProxy` receives datagrams and writes them to a TCP server, on one connection per UDP source, and sends
what the server writes back to that source. Nothing numbers, acknowledges or repeats a datagram, and nothing in a
datagram says which TCP client it belongs to.

### Inventory

| Component | State it keeps | Operations | Talks to | What is hard | What makes it correct |
|---|---|---|---|---|---|
| TCP server proxy (`libtcpserverproxy`) | `tcp_sessions_` (key to session), the forwarder's one `tcp_buffer_`, `reactor_registered_`, `tcp_server_` | accept and register a client, forward its data, distribute a datagram to all clients, unregister, `stop` | acceptor and tasks of `libtcp`, `AceUdpClient`, the reactor | three kinds of threads share a map and a buffer without a lock; `stop` joins threads that run on | the map agrees with the threads; datagrams are stretches of one client's stream, in order; `stop` returns and leaves nothing running |
| TCP client proxy (`libtcpclientproxy`) | `bindings_`, each binding's `udp_sender_` and connection, registrations with the reactor | datagram in, answer out, connection closed by the server, `stop` | `AceUdpServer`, `AceTcpClient`, the reactor | four pieces of state set one after the other with a failing call between any two; a binding that outlives its connection | sources never share a connection; answers go home; the stream of each source keeps its order |
| The chain of both | what is in the network | datagrams arrive, are lost, are reordered; the test's TearDown | both proxies, the echo server | loss, order, no identity of clients; servers stopped one after the other with data between them | each direction and the round trip are ordered lossy channels; what is not lost arrives; TearDown ends |
| TCP server library (`libtcp/server`) | registration of the acceptor, `tasks_`, `cancelled_` of each task | `handle_input`, `stop` | the reactor, handlers | `stop` against a dispatch under way; a failed `accept` | all threads joined; the acceptor survives |
| TCP client library (`libtcp/client`) | the stream | connect, read, write, disconnect | client proxy, clients | no timeout on connect or write | - |
| UDP libraries (`libudp`) | the socket, `stopped_`, registration, `tasks_` | `handle_input`, `send_to`, `receive_from`, `stop` | the reactor, handlers | a datagram that vanishes between select and read; `stop` clears `tasks_` while a dispatch may append to it | the handler stays registered until `stop`; no task is left |
| Background servers (`background`) | the thread, the published server | `startServer`, `stop` | every kind of server | `stop` at any point of `start`; references into a frame that is gone | `stop` ends the thread |
| Signal handling | registration for SIGINT | SIGINT ends the event loop | every server | the signal comes before the loop | `start` returns |
| Notifying server (`libtcp/examples/NotificationHandler`) | `active_sessions_`, `sessions_mutex_` | add, echo, notify all others, remove | acceptor and tasks | iteration with writes under a mutex, while clients come and go and `stop` joins | one order of notifications for all; nobody misses one; `stop` returns |
| Notifiable client | `running_`, `current_sequence_number_`, `client_sequence_numbers_` | sender and receiver threads, validation, `start`, `stop` | the notifying server | messages joined or cut by reads | no false alarms, no message silently skipped |
| TCP echo handler, `tcp_echo_server` | each thread's buffer, `cancelled_` | read, frame, write, close | acceptor and tasks | a read takes whatever the stream holds; a write that times out ends the session | a row of whole frames that hold the stream; `stop` ends |
| UDP echo handler, `udp_echo_server` | none between calls | echo one datagram | UDP server | a task for every datagram | the tasks are stopped |
| Command line and endpoints (`libargsparser`, `common/Endpoint.h`) | what `std::cin` holds, the endpoints | take arguments, ask, validate, clear, parse | every main | what one reader leaves in `std::cin` for the next; the end of the input; a port that wraps; options that change the count of arguments | what is used is what was given |
| Port cleanup | none | is the port in use, kill | every server's main | kills before everything is parsed | kills on the port listened on only |
| Socket I/O (`SocketIO`, `IOResult`) | none | read, write, map errno | everything | partial writes, timeouts | each caller does with a code what it must: EchoArrives |
| Logging, unused mains, scripts | outside the program | - | - | - | - |

The list of hazards, each at its line, is in `PROJECT.json`.

## 2. Modules

| Module | Models | Lines to read beside it |
|---|---|---|
| `ServerProxy` | TCP server proxy with acceptor and tasks, threads `reactor`, `task[c]`, `stopper` | `ServerProxyUdpHandler.cpp`, `ServerProxyClientHandler.cpp`, `UdpForwarder.cpp`, `AceTcpServerAcceptor.cpp`, `RunningTask.h` |
| `ClientProxy` | TCP client proxy on `AceUdpServer` | `ClientProxyUdpHandler.cpp`, `UdpSessionHandler.cpp`, `BindingManager.cpp`, `BindingFactory.cpp`, `UdpTcpBinding.cpp` |
| `SocketIO` | what `recv` and `send` return, and the code `from_size` makes of it | `SocketIO.cpp` |
| `EchoServer` | `TcpEchoHandler` on the acceptor and its tasks: acceptor, threads, `stop` | `TcpEchoHandler.cpp`, `AceTcpServerAcceptor.cpp`, `AceTcpClientSession.cpp` |
| `ProxyChain` | both proxies, by EXTENDS of the first and INSTANCE of the second, a UDP network, `EchoServer` (INSTANCE, sharing the TCP connections with `ClientProxy`), `TearDown` of the test | `tests/proxy/ProxyChainTest` |
| `OrderedChannel` | abstract: what one direction of the tunnel promises (`Spec`), and what a relay of several does (`RelaySpec`) | - |
| `ServerLifecycle` | creation, start, stop and destruction of all four kinds of servers | `BackgroundRunner.h`, `BackgroundServer.h`, the servers' `start` and `stop` |
| `Configuration` | arguments, prompts, port cleanup, parsing | `ArgsParser.cpp`, `InteractiveConfigurator.cpp`, `UserInputHandler.cpp`, `PortCleanup.cpp` |
| `Programs` | `main()` of the programs: `Configuration`, then `ServerLifecycle`, both by EXTENDS | the mains |
| `NotificationHandler` | the notifying server | `NotificationHandler.cpp` |
| `NotificationLog` | abstract: what it promises its clients | - |
| `NotifiableClient` | the self-validating client | `NotifiableClient.cpp` |
| `ClientProxyProofs`, `ServerProxyProofs`, `NotificationHandlerProofs`, `NotifiableClientProofs`, `ServerLifecycleProofs`, `ProxyChainProofs` | theorems about the module of that name | - |
| `ProgramsProofs` | theorems about `Configuration` and `Programs` | - |
| `SequenceLemmas` | what the models' queues and lists do to a sequence, least and greatest numbers, induction, `FlattenSeq` | - |
| `MC...` | constants of the instances that TLC checks | - |

### How state and actions correspond to the code

*Granularity.* A handler that runs in the only thread that can see its state is one action: so everything the
client proxy does for one datagram (`HandleDatagram`: read, look up, connect, store, register, write) is a single
step, with the failure of each call as a disjunct and the early returns of the code. Where threads share state a
handler is cut at each access to it, and between the cuts others may run: in `ServerProxy` a client's thread checks
`cancelled_` (`CheckCancelled`), reads into the shared buffer (`Read`), sends from it (`Forward`), and erases its key
(`EraseBegins`, `EraseEnds`, two steps because the map has no lock); the reactor thread inserts (`Register`), starts
the thread (`Spawn`) and visits the map key by key (`UdpInput`, `Broadcast`, `BroadcastEnds`); the stopper removes the
UDP handler, then the acceptor, then cancels and joins one task after the other.

*The reactor* runs one handler at a time. `remove_handler` from another thread waits for the token, so it is enabled
only between dispatches (`TokenFree`). `end_reactor_event_loop` needs no token. `ServerLifecycle` knows rounds as well: one call
of `handle_events` holds the token for all handlers that were ready, and ends its round even if the end of the loop has been
asked for meanwhile. A thread that waits for the token gets it in the end because the dispatches are bounded (`MaxInputs`);
ACE hands the token out in order.

*A datagram that `select` has seen and `recv` does not find* is the fault "checksum" of both proxies. The client proxy's read
then times out; `receive_from` of the server proxy has no timeout, so the reactor thread waits inside, token in hand
(`UdpInputBlocks`), until another datagram comes.

*The echo server* answers `echo [` and `]` around what a read has returned: the two marks are units of the stream like any
other, so that it shows where reads have cut it. Reads and writes go through `SocketIO`: what the call may return, then
`FromSize`, then what the handler does with the code. Its branch for a connection that the client proxy has closed is there and
is not reached in the chain, since the client proxy closes nothing before the end of the process.

*Data* are numbered units: the n-th unit a client sends is `<<c, n>>`, so that a lost, repeated, reordered or foreign
unit is told from the right one. A buffer of 2048 bytes is a buffer of one or two units, with clients that write more.
A datagram or a read is a sequence of units and may be empty.

*Undefined behaviour.* `tcp_sessions_` is used by several threads without a lock. When a thread enters while
another one writes, the history variable `raced` is set and what follows is arbitrary, up to a crash (`Crash`).
Properties that speak of the map are stated `~raced => ...`: they say what the code does until that happens. The race
itself is shown by `sp_map_race.cfg`.

*Configuration.* A word is what the code can tell of it: the address before a colon, what `std::stoi` makes of the text
behind it, what a number prompt makes of the word; a flag is a word whose address is one of `Flags`, those that begin with `--`. `std::cin` is the sequence of lines typed, the line it is in (`at`) and
whether its word has been extracted (`wordRead`): so the newline that a number leaves, the line that `clear_cin_buffer` drops
and the end of the input are all there. A line holds one word. The property `ConfiguredAsTyped` says in terms of the
lines typed alone what the endpoints must be.

*Notifiable client.* A message of the server is four pieces: the beginning of its keyword, the rest of the header, the
beginning of the text and the rest of it. A read returns an interval of pieces. This is as much as decides whether a keyword is
found, whether a header parses, and whether a text was cut, and it is why nothing is modelled by characters. `Turn` is one turn of the
loop of `process_response`; the handler makes as many as there are pieces in the read.

## 3. Runs

| Run | Asks | Answer |
|---|---|---|
| `sp_sessions` | Two clients at once, one answer, which may fail to be received, be dropped for its checksum or be written in part, `stop` and SIGINT at any time: does `tcp_sessions_` agree with the threads, and what does a race on it take? Is anything left after `stop`, or anything sent after the UDP handler is removed? | agrees until a race, which takes a client that leaves; nothing |
| `sp_stream` | One client writes more than the buffer; two answers, accept and send may fail: are the datagrams its stream in order (`OrderedChannel`), are both directions served, does `stop` return? | yes |
| `cp_bindings` | Two sources, room for three connections, connects that may fail: is every open connection registered with the reactor, do data cross over? | registered; never |
| `cp_faults` | Every call may fail, the server may close and restart: do `bindings_` and the bindings agree at every failing call, is each source served by an ordered lossy channel, is everything taken, does `stop` return? | yes |
| `pg_programs` | Every program with arguments of every kind or a user who types anything, then its server, in the foreground and the background, `stop` at any time, the address may be taken, the UDP handler may fail to be registered: is the configuration what was given, does the server end once it is told to, is it unregistered, are its tasks stopped with `tasks_` in nobody else's hands? | yes, with the restrictions of section 4 |
| `pc_lossy` | Client, both proxies, echo server, a network that loses, until the end of `TearDown`: is the round trip an `OrderedChannel` end to end, are the echoes whole frames that hold the stream, does what is not lost come back, does `TearDown` end? | yes |
| `nh_clients` | Two that send, one whose writes may fail, all come and go, `stop` at any time: is there one order, is anybody missed, is the list of sessions right? | one order; nobody; right |
| `nh_live` | More requests than one read takes: is the echo the stream, are requests notified, does `stop` return? | yes |
| `nc_reads` | Reads join messages and end inside them: which are validated, which passed over, and why? | exactly those that `SkippedForAReason` allows |
| `sp_shared_buffer` | Two clients and the forwarder's one buffer | **violated**: a client's datagram carries another's data |
| `cp_server_restart` | The server closes a connection and goes on accepting | **violated**: the source is never connected again |
| `lc_early_stop` | A `TcpServerProxy` in the background is stopped at any time after it has been published | **violated**: a `stop` before it has a TCP server ends nothing |

### Bounds, and why they are enough

- *Two clients* (`sp_sessions`) or *three* (`nh_clients`, with symmetry) are enough for what threads can do to each
  other in pairs, with the reactor and the stopper beside them; the third of the notifying server is the one that only
  listens while two rounds of notifications compete. Symmetry is used only where all properties are safety properties.
- *Three units with a buffer of two* (`sp_stream`, `nh_live`): a read fills the buffer, and a rest is left for the next.
- *Three connections for two sources* (`cp_bindings`): a third would be there if a source could get a second one.
  Its one fault is a failing connect, so that a source is tried again while another is bound. `cp_faults` has one source, two connections
  and every fault: a failed connect is followed by another, and a message whose sender could not be read is bound to `any:0`, the second key
  of `bindings_`. Two sources with all faults have too many states; the theorems speak of those.
- *Two units* in `pc_lossy`: they may travel in one datagram or in two, of which the first can be lost, on the way
  there and on the way back. The echo thread's buffer holds one unit, so that what came in one datagram is echoed in two
  frames; the proxies' buffers hold four, so that both frames may come back in one datagram, or a part of one. There is one
  connection to the server: it closes, for good, when a write of the server times out.
- `MaxSaid = 3`, `MaxNum = 2` in `nc_reads`: a number can be missing among those notified; a message can stand before, inside and
  behind a read that joins or cuts, and two of a kind can stand beside one of the other. `BufSize = 9` pieces: a read may take two
  messages and part of a third.
- `MaxInputs = 2` in `pg_programs`: a dispatch before and one after `stop` begins. `MaxLines = 3`: the three answers of a
  proxy, or a wrong one and the two numbers of a demo server; the lines are one that is a number in both ranges, one in the
  second only, one in neither, a blank, an endpoint and a malformed one, in every order. The input may end anywhere.
  `pg_retry.cfg` goes to five lines.
- Endpoints do not come back in the passing runs of `ServerProxy` (`ReuseKeys = FALSE`); `sp_key_reuse.cfg` lets them.

### Fairness

Weak fairness for each thread of the program, and no more: a thread that can run does run. For handlers, it is the
reactor's loop that justifies it: `select` reports a ready handle again until it is read. The reactor thread is fair as a
whole in `ServerProxy` (between ready handles the choice is free), and per handle in `ClientProxy`, where the
select reactor goes round all ready handles before it selects again. Nothing is assumed of users, of clients, of servers that
close, of SIGINT or of the first call of `stop`; a `stop` is fair only after `start` has returned by itself, as in `main`, and
the three `stop`s of `TearDown` only once the first has been called.
Assumed of the environment: in `pc_lossy` a network that may lose still delivers a later datagram or this one; in `nc_reads` the server takes what the client writes, without which the client's `stop`
may wait for ever in a write that has no timeout.

Deadlock is checked in all runs: where the bounded environment has nothing left to do, an explicit step says so.

## 4. Where code and documents, or the code and what one expects, part

Listed as findings, each with its run:

- `sp_shared_buffer`: session threads read into the one `tcp_buffer_` and send from it without a lock
  (`UdpForwarder.cpp:12`). Between one thread's read and its send another overwrites the buffer. README.md:17 promises
  that connections are forwarded over UDP.
- `cp_server_restart`: a closed connection unregisters from the reactor but stays in `bindings_`, and
  `getOrCreateBinding` returns it for ever (`BindingManager.cpp:15`). README.md:18 promises forwarding to the actual server.
- `lc_early_stop`: `TcpServerProxy::stop` looks at `tcp_server_` only (`TcpServerProxy.cpp:51`). If `start`, in its own thread,
  has not made it yet, nothing ends the event loop that `start` enters afterwards, and the join waits for ever.
  `IBlockingServer.h:13` says of `stop`: "call from another thread to end immediately".

Further configurations, outside the list of runs, end in a counterexample too. Each checks one property:

| Configuration | Property | Shows |
|---|---|---|
| `sp_map_race.cfg` | `MapAccessesSerialized` | a client's thread erases from `tcp_sessions_` while the reactor thread iterates over it |
| `sp_key_reuse.cfg` | `OpenIsRegistered` | a client that comes back from the endpoint of its reset connection is unregistered by the old thread |
| `sp_accept_fails.cfg` | `ClientIsAccepted` | after one failed `accept` the reactor drops the acceptor |
| `sp_recv_fails.cfg` | `RepliesAreTaken` | after one failed `receive_from` the reactor drops the UDP handler, and answers stay in the socket |
| `sp_checksum.cfg` | `StopReturns` | a datagram that is dropped after `select` has seen it leaves the reactor thread in `receive_from`, and `stop` waits for its token (`IBlockingServer.h:13`) |
| `cp_empty_datagram.cfg` | `BoundToSender` | a datagram without data is bound to `any:0` and gets a connection |
| `lc_runner.cfg` | `RunnerExists` | the background thread may call a runner whose frame has returned (`BackgroundRunner.h:14`) |
| `lc_left_registered.cfg` | `JoinedIsUnregistered` | a UDP server stopped before it starts stays registered until it is destroyed |
| `pc_two_clients.cfg` | `AnswersArePrivate` | answers go to every client, also to those that did not ask (README.md:21: "as if they were directly connected") |
| `pc_reorder.cfg` | `EchoIsPrefix` | a reordering network reorders the stream |
| `pc_close.cfg` | `CloseReachesServer` | a client's close is not passed on |
| `pg_verbose.cfg` | `ArgumentsAreUsed` | the proxies use their arguments only if there are exactly two (`ArgsParser.cpp:16`): the example of README.md:41, two endpoints and `--verbose`, asks the user |
| `pg_retry.cfg` | `RetryTakesNextAnswer` | after a malformed endpoint the next line typed is dropped, as the rest of a line that is not there |
| `pg_end_of_input.cfg` | `EndOfInputEnds` | at the end of the input a number prompt repeats for ever |
| `pg_port_wraps.cfg` | `PortIsTheOneGiven` | port 81537 on the command line is 16001: that port is cleared and listened on |
| `pg_killed_in_vain.cfg` | `KillsForAServer` | the process on the port is killed, then the endpoint to forward to does not parse |
| `nc_deaf_server.cfg` | `StopReturns` | a server that stops reading keeps the sender in its write, which has no timeout, and `stop` in the join (`ClientFairSpec`: nothing is assumed of the server) |
| `nc_joined.cfg` | `AllAreValidated` | of several notifications in one read only the first is validated (README.md:242: "Handles concatenated messages") |

## 5. Proofs

### The client proxy

`ClientProxyProofs` proves, for any set of sources and connections, any buffer size, any bound and any subset of the faults:

| Theorem | States |
|---|---|
| `Invariant` | the inductive invariant `IInv` holds always |
| `TypeCorrect` | `TypeOK` |
| `BindingsAlwaysAgree` | `bindings_` and the bindings' senders are inverse to each other |
| `SourcesStaySeparate` | a connection carries the data of the source it is bound to |
| `AnswersAlwaysGoHome` | an answer goes to the source whose connection carried it |
| `BindingsAreForLife` | a bound key keeps its connection (no run checks this one) |
| `OpenIsAlwaysWatched` | unless registration fails, every open connection is registered |
| `DataStayInOrder` | the units of a source arrive, wait and are written in the order of their numbers (`OrderInv`) |
| `RelaysAlwaysInOrder` | the proxy implements `OrderedChannel` for every source, whatever fails |

*Assumptions:* `ClientProxyAssumption` only - `any:0` is no source, `None` is neither an endpoint nor a connection, the
buffer has room for one unit, and the units of all sources and connections exist. TLC evaluates it in each run.

*Argument.* None of the properties is inductive alone. `IInv` is `TypeOK`, `BindingsAgree` and

- `UnusedIsFresh`: a connection not yet made is bound to no key, carries nothing and is not registered - without it a new
  connection could bring data of another source with it;
- `InputTagged`: a datagram that waits carries only data of its source - it links the message, which `TakeDatagram` makes from
  the socket, to the key it is stored under;
- `SourcesSeparate`, and `AnswersAreBound`: what the server wrote on a connection is tagged with that connection, and a datagram
  sent goes to a key that is bound; then
- `AnswersGoHome` survives a new binding because bindings are never changed: an answer already sent speaks of a key whose
  entry in `bindings_` is as it was.

`BindingsAreForLife` follows step by step: only `ConnectAndForward` writes `bindings`, and its guard says that the key is free.
The steps of `Next`, singly or in groups that change the same state, have lemmas that preserve `IInv`; a handler's datagram is first shown to be typed and tagged
(a prefix of what a source sent, or nothing), whichever way the read ends. `OpenIsWatched` adds one invariant of its own.

`OrderInv` is about numbers: a datagram holds consecutive ones, the datagrams of a source wait in order, and all that wait come after
all that has been written for that source. It is inductive with `IInv`, which says that a connection is one source's. The refinement then
needs no flattening: what a handler writes is a beginning of the datagram it has taken, so its numbers are `lo..hi` for some `lo` behind
the last one written, or it writes nothing, which is a stutter; and a step that writes nothing for a source but receives from it is a `Send`.

### The server proxy

`ServerProxyProofs`, for any set of clients and endpoints, any buffer, any bounds and any subset of the faults, from `ServerProxyAssumption`:

| Theorem | States |
|---|---|
| `Invariant` | the inductive invariant `IInv` holds always |
| `TypeCorrect` | `TypeOK`, also after a race |
| `RacesAlwaysNeedALeaver` | no two threads are in `tcp_sessions_` at once before a client has left |
| `StopLeavesNothing` | when `stop` has returned (and nothing raced) no thread runs, the map is empty, no dispatch is under way |
| `NoReplyAfterRemoval` | no step writes to a client once the UDP handler is removed |
| `MapAlwaysAgrees` | `~ReuseKeys`, or one client: who forwards is in the map, and who is in the map has a thread |
| `DataStayInOrder` | one client: what went out, what the buffer holds and what waits are consecutive stretches of what it wrote |
| `ForwardsAlwaysInOrder` | one client: the proxy implements `OrderedChannel`, whatever sends fail |

*Argument.* `IInv` is `TypeOK`, `RaceNeedsALeaver`, `RegisteredHasThread` and

- `OnePlace`: a connection is idle, in the backlog, with the reactor or with its thread, and in one of these only;
- `ThreadsAreKept`: a thread that runs is in `tasks_`; so `stop`, which empties `tasks_` one join at a time, leaves none;
- `Removed`: what `stop` has removed is not dispatched at any of its later places;
- `OneIsCancelled`: `stop` cancels one thread and joins it before it cancels the next. This is why `stop` alone makes no
  race: of the threads that erase, those that no client's leaving has ended are one, and the reactor's handlers are gone by then.

`MapAlwaysAgrees` adds `KeysInv`: endpoints are their clients' own (`OwnKeys`), and between the insertion and the start of
the thread the entry is there. With two clients and without `~ReuseKeys` it is false, as `sp_key_reuse.cfg` shows;
the one client of a proxy may keep its endpoint. A step is first
reduced to what it does to the threads (`ThreadMoves`, `AsideMoves`, `NextIsSteps`), so that the preservation of each part has to look at
the steps that matter to it only.

The last two speak of a proxy with one client (`OneClient`), because with two they are false: `sp_shared_buffer.cfg`. `StreamInv` cuts the
client's numbers at two places, `b` and `k`: up to `b` are those that went out (not all of them: a send may fail), from there to `k`
those in the buffer, behind `k` those that wait. `Read` moves `k`, `Forward` moves `b`, and a reset takes some off the end.
`FlattenAppend` says what one more datagram does to the flattened queue.

### The chain

`ProxyChainProofs`, for one client and a network that may lose datagrams but keeps their order (`Setting`), any buffers, any
number of units and of connections to the server, any faults of the server proxy and of the server (the chain has a client proxy
without faults; what those do to order is `RelaysAlwaysInOrder`), from `ServerProxyAssumption` and `ChainAssumption`:

| Theorem | States |
|---|---|
| `ChainInvariant` | the inductive invariant `Chained` holds always |
| `RoundTripIsAlwaysOrdered` | from the client through both proxies to the server and back, the chain implements `OrderedChannel`, whatever of these faults there are, whoever closes or is stopped |
| `EchoIsAlwaysFramed` | `Clean`: unless the network has lost something, the client is sent the beginning of a row of whole frames that hold its stream from the first unit on |

*Assumptions.* `Setting` is what `sp_shared_buffer.cfg`, `pc_two_clients.cfg` and `pc_reorder.cfg` show to be needed. `Clean` excludes the
faults that take something out of the stream without an end of it: a datagram that cannot be sent, one dropped for its checksum, a write
that sends a part. Accepts and receives may still fail, writes of the server may time out, the client may close or reset, and `stop`
and `TearDown` may come at any time. `ChainAssumption` says that the endpoints differ, that the network is one that loses, reorders or
duplicates, and that `Replies` has every datagram the chain can bring.

*Argument.* `EchoIsFramed` says nothing of what is under way, and an echo is made of data that were under way before. `Chained` follows the
stream through all places where it can be: the *way there* - with the client's thread and unread (`Held`), in a datagram (`Going`), written to the
server or read by its thread (`Unanswered`) - and the *way back* - written by the server (`Answers`), in a datagram or a reply about to be written
(`Returning`), sent to the client. There is a number `b` at which they meet: every place of the way back carries a
stretch of the numbers up to `b` (`Down`), every place of the way there one behind it (`Up`), each where the one before it ends.
`Carries` says that the numbers of a stretch rise; and that it is complete, if nothing is missing there. What can be missing
is different from place to place, so there are four flags, each implying the one before: `E0` (nothing lost by the network), `E1` (the client has not gone, which
drops replies), `E2` (the server has not closed, which drops what is written to it), `E3` (there is a connection to the server, or it
still accepts one). A flag that has fallen stays down (`FlagsFall`) - that is what makes the invariant inductive, and why a later
datagram cannot fill an earlier gap. The frames are a matter of three kinds of place, *between*, *begun* and *within*
(`Framed`): a piece leads from one kind to another, so that a datagram or a read may end anywhere in a frame. Where the ways meet it is *between*,
because the server writes whole frames.

Each step moves data from one place to the next, or takes some away. Lemmas on `Down` and `Up` say what that does (`Content` is written with
`FlattenSeq`, so that the content of a concatenation is known without an induction of its own), and each action
has a lemma that names the place it moves. The rest of `Chained`, `Placed`, has the types and says that there is one connection
to the server at most, that only the one client is in `tcp_sessions_`, and that nothing is under way before it has connected.

### The notifying server

`NotificationHandlerProofs`, for any number of clients, any buffer, any writes that fail, from `HandlerAssumption`:

| Theorem | States |
|---|---|
| `Invariant`, `TypeCorrect` | `IInv`, `TypeOK` |
| `ActiveAlwaysHaveThreads` | a session is in `active_sessions_` once, while it has a thread |
| `NobodyEverMissed` | with the mutex free, whoever is listed, with an open connection and no failed write, has heard all requests of others since it came |
| `StopLeavesNothing` | after `stop` no thread, no session and no owner of the mutex is left (no run checks this one) |
| `NotifiesAlwaysInOneOrder` | the handler implements `NotificationLog` |
| `EchoesAreAlwaysTheStream` | the echoes written to a client whose writes all succeeded are the beginning of what it sent |

*Argument.* `IInv` has `OneNotifies` (who is in the loop owns the mutex, and is somewhere in the list) and `AllUpToDate`: a listed
session has been told the whole log, or all but its last entry if the loop has not come to it. `NobodyMissed` is the case of
a free mutex. The refinement maps `AddSession` to `Join`, `LockSessions` to `Post`, a write of `Notify` to `Hear`, or to `Lag` if it fails,
and everything else to a stutter; that a write is a `Hear` of the log's next entry needs `OneNotifies`.
For the echoes, `StreamOf` says where each number of a client is: echoed, with its thread, or not yet read.

### The notifiable client

`NotifiableClientProofs`, for any ids, any numbers of messages and requests, any size of the buffer and any reads - joined, cut or
neither -, from `ClientAssumption`:

| Theorem | States |
|---|---|
| `Invariant`, `TypeCorrect` | `IInv`, `TypeOK` |
| `FalseAlarmsAlwaysFromCuts` | the server says what is right, so the one alarm there is is "cannot parse", and only after a read has ended inside a message |
| `AlwaysValidatedInOrder` | the log of validated messages follows the stream, none twice, and `client_sequence_numbers_` holds the last of each client |
| `AlwaysSkippedForAReason` | a message not validated was cut by a read, stood behind such a remainder, or behind one of its kind in the same read |

*Argument.* `process_response` is a loop inside one step, so there are two invariants. `LoopInv` is kept by each turn: the log rises and stays before the place
where the loop is, what is known is what the log ends with, and every message passed over has its reason. It rests on what `find` makes the end of a
message (`EndProperties`): behind it is a keyword of the other kind or the end of the read, so that only the last
message of a read can fail to parse, and a segment can hide messages of its own kind only (`SegmentRepeats`). `IInv` says what the loop starts from: the numbers of a client rise along
the stream (`NumbersRise`), so none of them is old when its turn comes; and all validated messages lie behind the pieces taken.
The turns are counted, and the induction over them is one over a set of numbers (`NatSetInduction`): the set of those after which
`LoopInv` holds contains 0 and with each number the next. The library's induction rule has an operator for a parameter and cannot be used; this lemma,
from the well-foundedness of `<`, is what stands in for it, also for the lemmas on `FlattenSeq`.

### Servers and programs

`ServerLifecycleProofs`, for any kinds of servers and modes, any number of dispatches, with addresses that may be taken and handlers that may fail to be registered, from `LifecycleAssumption`, and
`ProgramsProofs`, for any programs, command lines, lines typed and local addresses, from `ConfigurationAssumption` and the former:

| Theorem | States |
|---|---|
| `Invariant`, `TypeCorrect` | `IInv`, `TypeOK` of `ServerLifecycle` |
| `TasksAreAlwaysStopped` | when `stop` walks over `tasks_` no dispatch can append to it |
| `EndsAreClean` | an `AceTcpServer`, and any server in the foreground, that is joined has nothing registered |
| `ConfigInvariant`, `ProgramTypesCorrect` | the inductive invariant `CInv` of `Configuration`; `ProgramTypeOK` |
| `AlwaysConfiguredAsTyped` | the endpoints are made of the first lines that answer the questions |
| `ProgramsAreServers` | a program implements `ServerLifecycle` |
| `ProgramsStopTasks`, `ProgramsEndClean` | so the two properties above hold for the programs |

*Argument.* For the servers: where the thread that stops is says what has been removed (`TcpStopped`, `UdpStopped`,
`ServerProxyStopped`), where the other thread can be (`Called`) and that each dispatch has used one of the inputs (`Dispatches`).
An `AceTcpServer` registers only in its constructor, an `AceUdpServer` may still register when it has been removed but then begins
no round, and a `TcpServerProxy` whose UDP handler has been registered has set its flag before anybody in the foreground can stop it
(`ServerProxyRuns`; whose registration has failed has nothing to remove): three reasons, three parts.
For the user: `HostAsked` and `PortAsked` say that no line passed over would have answered the question asked, and
`BothChosen` names the two lines taken and what has become of the one behind them: it is next, was no endpoint, or is `forward`.
That the endpoints are *the* first lines is then that a least number is unique.

Each inductive invariant was checked by TLC, on instances like those of section 3, before it was proved.

*Only model-checked:* all liveness, since fairness is out of the prover's reach. Every invariant, action property and
refinement that a passing run checks is stated by a theorem.

## 6. Not modelled

- What a handler costs in time: `connect`, `send_to` and the client's `write` without timeout are steps that end, but for the
  notifiable client's write, which can block.
- SIGPIPE; a factory that throws inside the background thread beyond the end of the process; memory that grows
  (`tasks_`, `bindings_`).
- The answer of `UdpEchoHandler` (one read, one write, nothing kept between).
- The text of messages, logs and prompts; which processes `lsof` finds on a port (a free choice); `serverproxy/main.cpp`, which is not
  built; `tcpclient`, which writes and reads once, without timeouts, and expects `echohello` (`tcpclient/main.cpp:48`) where
  `TcpEchoHandler.cpp:44` answers `echo [hello]`.
- How ACE resolves the names `any` and `localhost` that the prompts put into the configuration, and lines of several words.

## 7. Plan

Done, in this order: `ServerProxy`, `ClientProxy`, its proofs, `ServerLifecycle`, `ProxyChain` with `OrderedChannel`,
`NotificationHandler` with `NotificationLog`, `NotifiableClient`, `Configuration` with `Programs`, `SocketIO` and `EchoServer` with
the chain's `TearDown`, rounds and tasks in `ServerLifecycle`, then the proofs about `ServerProxy`, `ServerLifecycle`,
`NotificationHandler` with its refinement, `Configuration` with `Programs`, the implementations of `OrderedChannel` by both proxies,
`NotifiableClient`, and the chain as a whole. What could follow:

1. The reactor's thread and the session threads of `EchoServer` as an instance of `ServerProxy`'s acceptor, which would give
   `EchoServer` the theorems on `tasks_` and `stop`.

## 8. Running

```
tlc -workers 2 -config cp_bindings.cfg MCClientProxy
for m in SequenceLemmas ClientProxyProofs ServerProxyProofs ServerLifecycleProofs NotificationHandlerProofs NotifiableClientProofs \
         ProgramsProofs ProxyChainProofs; do
    tlapm $m.tla
done
```

The module of each run is in `PROJECT.json`; the `sp_`, `cp_`, `pc_`, `nh_` and `pg_` configurations belong to the `MC` modules.
`ProxyChainProofs` takes about ten minutes, another proof module up to three; `nc_reads` and `pc_lossy`
take two or three, `sp_sessions`, `sp_stream`, `cp_bindings` and `nh_clients` about one each, the others less.

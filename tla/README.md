# A verification model of starnet

starnet is an actor framework in the style of skynet: services are Lua states,
worker threads run their messages from a two-level queue, a socket thread and a
timer thread feed them, and a Lua library gives handlers coroutines, RPC,
timers and sockets. This directory holds TLA+ models of those parts, translated
from the source, TLC configurations that check them on small instances, and
TLAPS proofs of the safety properties for every value of the constants, all but
three that say what recursive operators compute.

`PROJECT.json` is the index: components, runs, the mutants that show a property
can fail, the map from definitions to source lines, findings, hazards and
theorems.

## The system

| Part | Source | State | Operations |
|---|---|---|---|
| Service table, message queues, dispatch | `starnet.cpp`, `starnet_mq.cpp`, `starnet_worker.cpp`, `starnet_service.cpp` | `services`, a `msgQueue` and `inGlobal` per service, the global queue, `isExiting`, `exited` | Send, NewService, KillService, the worker's batch, OnExit, Clear |
| Worker pool | `starnet_start.cpp` | `sleepCount`, `sleepMtx`, the condition, `exitFlag` | WorkerWait, CheckAndWeakUp, Wait, SetExit, WakeUpAll |
| Timer | `starnet_timer.cpp` | five wheels of lists, 32-bit `time`, `current` | starnet_timeout, starnet_updatetime, timer_shift, timer_execute |
| Host library | `lualib/starnet.lua` | coroutine pool, three session tables, fork queue | call, ret, response, sleep, fork, timeout, dispatch, exit |
| Socket engine | `starnet_socket_server.cpp` | `conns`, `writeBuffers`, epoll | accept, connect, SendBuffer, OnWriteable, ReadData, pause, start, shutdown, close |
| Framing | `lua-netpack.cpp` | half packets per descriptor, a ring of packets | filter, pop, close, pack |
| Cluster | `examples/clusterd.lua` | connections per node, waiting calls, published names | request, the socket handlers, register, unregister |
| Table of connections | `starnet_socket_server.cpp`, Listen and CloseConn of `starnet.cpp` | `conns`, `isBind`, the epoll set, the kernel's descriptors | Listen, Connect, AddUdp, Bind, accept, CloseConn, LingerClose, NotifyClose, CloseAll |
| UDP sockets | `starnet_socket_server.cpp` | default peer, the packed address of a message | ReadUdp, SetUdpAddress, SendUdp, pause, start |
| Names | `starnet_handle.cpp` | `nameMap` | namehandle, findname, removename |
| Shared tables | `starnet_sharedata.cpp`, `lua-sharedata.cpp`, `lualib/starnet/sharedata.lua` | frozen tables, the store with its versions, a weak cache per service | new, update, delete, query, subscribe, index, pairs, copy |
| Serialization | `lua-seri.cpp` | none | pack, unpack, packstring, unpackstring |
| Daemon | `starnet_daemon.cpp` | the pidfile, its lock | daemon_init, daemon_exit |
| Monitor, bindings, configuration, logging | the files of those names | see "Not modelled" | |

How they interact. The socket and timer threads, and services themselves, call
`Send`, which pushes to a service's queue and puts the service in the global
queue unless `inGlobal` says it is there or with a worker. A worker pops a
service, runs a batch of messages through `OnMsg` into `starnet.lua`, and gives
the service back. `starnet.lua` resumes or creates coroutines; what they do
(call, write, sleep) are calls back into the engine from the worker's thread.
The socket engine is therefore entered by the socket thread and by every worker
at once.

What is hard in it: the hand-over of `inGlobal` between senders, workers and a
killer; sleeping workers signalled without the lock; an orderly exit in which
kills, the flag and the broadcast race with the workers; nested spin locks in
`Clear`; the wheel at its level boundaries and at the wrap; coroutines that are
reused; edge-triggered epoll whose mask is computed in one place and applied in
another; descriptor numbers that are given out again while messages about them
are still queued, or while a thread is between the steps of a close; tables of
services and of names behind locks of their own; a cache that trusts version
numbers; a pidfile that is a name, a lock and a content. The list with the lines is under `hazards` in `PROJECT.json`.

What makes each part correct: a service is an actor (one message at a time, in
order, none lost, none after its end); workers sleep only when there is nothing
to do and leave only when all is done; a timeout of n ticks is delivered in the
n-th tick; a request is answered at most once and to the coroutine that waits;
the bytes of a connection arrive whole and in order, a backlog is flushed, input
is read, an end is reported; the engine's table, the descriptors and epoll agree;
datagrams are posted once and answers reach their sender; packets and serialized
values come out as they went in; a remote call ends; a name leads to a service
that lives; a shared table reads like the Lua table it was made from and a query
gives the current one; one daemon runs per pidfile.

## Modules

| Module | Models | State and actions |
|---|---|---|
| `Actor` | what the core promises | mailbox, running, closed |
| `Dispatch` | queues, dispatch loop, life of a service | one variable per field of the C++ classes; each critical section of `servicesLock`, `queueLock`, `globalLock` is one action. `call` is the Send or KillService a thread is in the middle of, `initStack` the OnInit calls it is inside, `pc`, `srv`, `left` a worker's place in `operator()` |
| `Dispatch_proofs` | | proofs about `Dispatch` |
| `Process_proofs` | | proofs about `WorkerPool`, `Names` and `Daemon` |
| `WorkerPool` | sleep, wake-up, shutdown | `Dispatch` with the messages left out (a service is queued or not) and the reads of `sleepCount`, the queue length and `exitFlag` as steps of their own; the test of `isExiting` and `FinishDispatch` are two steps, and `letGo` has the services a kill between them leaves behind |
| `Alarm` | what the timer promises | the ticks left of each pending timeout; set, tick, fire |
| `Timer` | the wheel | slots as sequences of nodes, the sizes of the levels as constants; `timer_shift` empties a slot and `move_list` adds its nodes again one by one, under the lock; the lock is released where `timer_execute` releases it, so timers are set in between |
| `Timer_proofs` | | proofs about `Timer` |
| `Rpc` | `starnet.lua` | the tables under their names, one action per library function; `Script` says which functions a service uses. A worker closes a killed service (`Exit`) and then answers what is left in its queue message by message (`dropMessage`), as `Clear` sends each error under the lock of another queue |
| `Rpc_proofs` | | proofs about `Rpc` |
| `Connection` | one TCP connection | the write buffer, `Conn`, the epoll mask and its pending edge, the kernel's buffers; `pc` per thread between critical sections and system calls. A flush is one `write()` per step, under the lock from `LockBuffer` to `Flushed`, while the peer reads; what was written is kept as pieces of packets |
| `Connection_proofs` | | proofs about `Connection` |
| `Netpack` | framing | the C structures as records; `job` is what `dispatch_socket` is at: a DATA message, a turn of the loop of `push_more` and a call of the handler with the next packet are a step each, a CLOSE message one. `SocketClose` is a close by the service itself, of which no CLOSE message comes: the half packet stays, and `stale` has the numbers whose next connection is parsed behind one |
| `Cluster` | `clusterd.lua`, calls | nodes that call and serve each other, each with its tables under their names; `serving` has the coroutines that wait in `handle_request` for a local service. Of the engine: what is behind each descriptor, how far each connection is set up, its write buffer, the messages on their way to each end (`wire`, in any order) and those queued for clusterd about each descriptor (`mail`). `reused` records that a kernel handed out a number while clusterd had messages about its last connection queued or served a request of it |
| `ClusterNames` | `clusterd.lua`, published names | the two tables; a key is the integer a command comes from or the string given as address |
| `Cluster_proofs` | | proofs about `Cluster` and `ClusterNames` |
| `Engine` | the table of connections | `conns` against the kernel's numbers and the epoll set; a socket is told from the next one with its number; opening is three steps (socket, AddConn, AddEvent), closing up to four (GetConn, RemoveConn, close, RemoveEvent), each an action of the thread that is there. `astray` records that a call met a socket it was not meant for; the model goes no further then |
| `Engine_proofs` | | proofs about `Engine` and `Udp` |
| `Udp` | one datagram socket | receive queue, pending edge, mask, the messages posted with their packed address |
| `Names` | tables of services and names | the two tables, a kill step by step, the exit's snapshot; `late` are names given to an id that was not in the table |
| `Daemon` | the pidfile | name, files, contents and locks; crashes and reused pids; `raced` records an unlink of a file somebody else had open |
| `Seri` | `lua-seri.cpp` | recursive writer and reader over Lua values and bytes of a small base; a message may be cut or followed by another |
| `SharedTable` | the frozen hash table | the nodes as records: the two-pass fill, lookup along the chains, NextKey |
| `Sharedata` | the store of such tables, `sharedata.lua` | generation and version of one name, each service's cache, query and subscription |
| `Lualib` | | `Netpack` and `Sharedata` side by side, with the assumptions on the constants of the latter |
| `Lualib_proofs` | | proofs about `Netpack` and `Sharedata` |
| `MC*` | | the instances for TLC |

`MCProcess`, `MCEngine`, `MCLualib` and `MCCluster` each hold several parts that share no
state: a constant variable chosen in the initial state says which part runs in a
behaviour, and the others stay as they begin. The first part is extended
(`WorkerPool`, `Engine`, `Netpack`, `Cluster`), the others are instantiated; their
properties are listed there under the names they have in the parts' modules, and
the proofs about a part that is instantiated are about its own `Spec`, over the
variables and constants of the MC module.

`Actor` and `Alarm` are abstract specifications. `Dispatch` implements `Actor`
under the mapping `box <- msgQueue`, running and closed derived from the
workers' places and `exited`; `Timer` implements `Alarm` with the time left of
each node computed from its expiry. The modules build on each other by what
they show: `Rpc` and `Cluster` take from `Dispatch` that a service handles one
message at a time and in order, `Rpc` takes a timer as a message that comes some
time, `Netpack` and `Cluster` take the engine's events as given, `Connection` is
one entry of `Engine` and `Sharedata` takes from `SharedTable` what a table
answers.

Abstractions common to all: messages are records of their type, source and
session, without contents; logging and formatting are left out; a handler is any
sequence of library calls. Where a property is about data (bytes of a
connection, length headers) the data is there.

## Runs

Runs that pass:

| Run | Shows | Bounds and why they are enough |
|---|---|---|
| `dispatch_safety` | `OneWorkerPerService`, `NoLostMessage`, `ClosedForGood`, `NoLockCycle`, `ImplementsActor` | two workers (weights -1 and 0), one other thread, two services, two messages: two retiring services that answer each other and a sender between look-up and push. Services are symmetric |
| `dispatch_liveness` | `EveryMessageTaken` | one worker of weight -1 and two services with two messages, so that starvation by the other service is possible |
| `process` | of `WorkerPool`: `SleepCountExact`; `SleepersAreWoken`: when all workers are in `cond_wait` as a sender comes to CheckAndWeakUp, one is woken and gets to work; `ExitDrains`: a worker that is asleep or at work when the broadcast comes leaves only after every killed service has had its OnExit or was let go by `FinishDispatch` after its kill. Of `Names`: `NamesOfLive` (names lead to services that live, and a service whose OnExit may run cannot be found), `ExitKillsAll`. Of `Daemon`: `OneDaemon` (one runs, and the pidfile names it) | two workers, two services, an outside thread, the main thread with the exit; two services, two names, a killing worker and the exit, so that two kills of one service and a name given in the middle of a kill happen; three processes, as many as the race for a file without a name needs |
| `timer_wheel` | `WheelExact`, `ImplementsAlarm` | two near slots and four levels of two slots, so that the time wraps after 32 ticks; delays on both sides of every level, 34 ticks, two timers set at any time |
| `rpc_pair` | `OnePlacePerCoroutine`, `AnswersAreAwaited`, `PoolIsClean` | a client with two sessions that may exit, a server that uses every way of answering |
| `rpc_forks` | `ForksRun` | one service with socket events, sleeps and forks that fork again |
| `conn_stream` | `StreamIntact`, `BacklogExact` (with the warnings that back off) | packets of two bytes through a kernel buffer of one, so that every packet is cut; both priorities, accepted and connecting, two workers |
| `conn_events` | `FlushGoesOn`: a backlog does not stay while EPOLLOUT is registered; `InputIsRead` | a packet twice as long as the kernel buffer, two bytes of input and an end of file, a read size that doubles and halves, two pauses or starts, a close |
| `engine` | of `Engine`: `TablesAgree` (and no socket is forgotten), `ExitCloses`, `BoundIsKept`; of `Udp`: `DatagramsExact` (and answers reach their sender), `NoneUnnoticed` | two workers (symmetric) and the socket thread, two numbers, two sockets and two entries: enough for a number that is closed, given out and entered again while another thread is in the middle of closing it; four datagrams of two peers through a queue of two, empty ones among them |
| `lualib` | of `Netpack`: `PacketsExact` (half packets included), `NoPacketLost`; of `Seri`: `RoundTrip` (and what is refused), `CutIsSeen`; of `SharedTable`: `ReadsAsTable`; of `Sharedata`: `QueryIsCurrent`, `SubscribersCatchUp` | packets of length 0 to 3 on two descriptors of one hash chain, cut everywhere, one failing handler and one connection that ends, by a CLOSE message or closed by the service, anywhere in a packet, a ring of two places that wraps and grows (the code begins with 1024 places; `NetAssumption` asks for two); bytes of base 4, a cookie limit of 4 and a depth of 3, with values on both sides of every boundary (base and limits are parameters of the module); every choice of up to four keys of ten with colliding hashes, and some larger and nested tables; two services, three tables, one deletion |
| `cluster_calls` | of `Cluster`: `ConnectionsKnown`, `CallsPending`, `NothingMisread`, `CallsEnd` (a call whose response, or whose connection's end, is queued for clusterd ends); of `ClusterNames`: `NamesLeadBack` | two nodes that call each other, one twice, with two numbers each, three connections, one of which may break; local services answer at once or late, so that a response is written after its connection has gone. Two names, two services with two keys each. Numbers are handed out early too: what the properties of `Cluster` leave out is in the model |

Outside `Dispatch`, where it is proved by itself, the type invariant of a module
is the first conjunct of one of these properties.

Deadlock checking is on for the dispatch runs. The other models stop when their
bounded inputs are used up, as the program does when nothing happens.

One run finds a violation, `retire_race`. It states what a comment of
`KillService` says (quoted under `findings`) as `RetireIsScheduled`: a kill
between the worker's test of `isExiting` and `FinishDispatch` is never carried
out.

### Claims that are stated and not kept as runs

The modules state further claims of comments and documents, in a section at
their end. TLC refutes each of them within seconds. They are not part of the
regular runs; to see the behaviour, put the definition in place of the
properties of the configuration named here, with the constants changed as given.

| Definition | Claim | Configuration | What happens |
|---|---|---|---|
| `NothingLeftBehind` | `starnet_worker.cpp:10` | `MCDispatch_retire` | a message pushed after `Clear` is neither handled nor answered |
| `CloseIsExclusive` | `starnet_worker.cpp:37` | `MCDispatch_retire` | a worker closes the Lua state in which OnInit still runs |
| `QueueIsServed` | `代码阅读指南.md:138` | `MCProcess`, `Exits = FALSE` | a worker misses the signal between its failed pop and `cond_wait` |
| `ExitCompletes` | `starnet_start.cpp:113` | `MCProcess` | a worker misses the broadcast and the join never returns |
| `AllExitedAtJoin` | `starnet_worker.cpp:55` | `MCProcess` | workers leave with killed services still queued |
| `SleepsLongEnough` | `lualib/starnet.lua:548` | `MCTimer_wheel`, `Delay = {0, 1, 3}`, `MaxTicks = 6`, `MaxLag = 3` | a timer set while the wheel catches up fires early |
| `ErrorWakesCaller` | `starnet_worker.cpp:11`: the error makes the coroutine that waits in call fail | `MCRpc_pair`, `SPECIFICATION LiveSpec`, `MaxSession = 1`, `MaxForks = 0` | `OnMsg` (`starnet_service.cpp:268`) has no branch for PTYPE_ERROR: it never reaches Lua and the caller waits for ever |
| `ErrorsNameTheCaller` | `starnet_worker.cpp:10` | the same | the error for a dropped response goes to the service that answered |
| `ForkNeedsNoMessage` | `missing-skynet-modules.md:52` | `MCRpc_forks`, `MaxForks = 1`, `MaxEvents = 1` | a fork made in a socket handler waits for some other message |
| `BacklogIsFlushed` | `starnet_socket_server.cpp:707` | `MCConnection_events`, `Packet = {p1, p2}`, `PktLen <- Lens`, `Room = 1`, `Ops = {"write"}`, `MaxFlips = 0`, `MaxInput = 0` | EPOLLOUT is switched off under a backlog; with `Opened = {"connect"}` and one packet `OnConnectFinish` does it |
| `ConnectIsReported` | `代码阅读指南.md:280` | the same, `Opened = {"connect"}`, `Ops = {"pause"}`, `MaxFlips = 1` | pause or start during connect: no CONNECT, no ERROR |
| `PeerCloseIsReported` | `代码阅读指南.md:258` | the same, `Ops = {"write"}`, `ReadMin = 2`, `MaxInput = 2` | data and end of file arrive together: no CLOSE |
| `ReadingResumes` | `missing-skynet-modules.md:108` | the same, `Ops = {"write", "pause"}`, `MaxFlips = 2` | a start is undone by an older `epoll_ctl` |
| `ShutdownDisconnects` | `missing-skynet-modules.md:108` | the same, `Ops = {"write", "pause", "linger"}`, `MaxFlips = 1` | shutdown of a paused connection never ends it |
| `NoCallHangs` | `clusterd.lua:59` (what is written before the connection is set up is queued) and `:160` (no call hangs for ever) | `MCCluster_calls`, `SPECIFICATION WorkingSpec`, `MaxConns = 2`, `MaxBreaks = 0` | the first request to a node waits in the write buffer, `OnConnectFinish` (`starnet_socket_server.cpp:198`) switches EPOLLOUT off, and neither it nor what is written behind it is ever sent: the call hangs although no connection breaks and everything else works. `examples/cluster2.lua:9` warns that a call to a node that is not up yet hangs |
| `N!NamedOnce` | `clusterd.lua:21` | `MCCluster_calls` | one service is published under its integer and, by `register` with an address, under its string |

In the modules of the `engine`, `lualib`, `process` and `cluster_calls` runs the
same is said by the condition of a property. Without the condition TLC finds the behaviour:

| Property | Condition | What happens otherwise |
|---|---|---|
| `TablesAgree`, `ExitCloses` | no call has met another socket (`astray`) | `NotifyClose` closes a number that an accept gets before `RemoveEvent`; a service closes a number the socket thread has closed and given out again |
| `BoundIsKept` | the closing call found the entry, marked | `CloseConn` after `NotifyClose` finds no entry and closes a descriptor that `starnet.cpp:293` says the engine does not close; so does a close between AddConn and the mark of `Bind` |
| `NoneUnnoticed` | nothing is left behind an empty datagram | `starnet_socket_server.cpp:301` says it is ignored and reading goes on; the loop ends |
| `DatagramsExact` | the address a datagram goes to has no scope | the packed form of a link-local IPv6 address loses its scope |
| `NamesOfLive` | names given to an id in the table | a name given during or after the kill stays for ever |
| `ExitKillsAll` | services of the snapshot | one created later lives on |
| `OneDaemon` | no unlink of a file another process has open | that process locks a file without a name, and a third one starts |
| `RoundTrip`, `CutIsSeen` | the caller keeps the string | `lua_settop(0)` lets a collection free the bytes being read |
| `ReadsAsTable` | no key 0 | `NextKey` starts over and the iteration does not end |
| `QueryIsCurrent` | no deletion | a table stored after a deletion has a version the cache may know |
| `SubscribersCatchUp` | no deletion, and not the first table of a name | the version of a name that is not there is that of its first table |
| `ExitDrains` | a worker is asleep or at work at the broadcast; services `FinishDispatch` let go after their kill (`letGo`) | all workers leave with killed services queued; the one let go never has its OnExit (run `retire_race`) |
| `PacketsExact` | numbers the service did not close itself amid a packet (`stale`) | `socket.close` and a `socket.shutdown` with nothing to write post no CLOSE, so `netpack.close` is not called and the next connection of that number is parsed behind the half packet of the last |
| `ConnectionsKnown`, `NothingMisread`, `CallsPending`, `CallsEnd` | no number was handed out while clusterd had messages about its last connection queued or served a request of it (`reused`) | `clusterd` ends or misreads the wrong connection; a response written after the await of `handle_request` reaches a peer that did not ask. With a third node a number can be in `node_fd` twice and a call is forgotten (the last two properties hold without the condition in the run's two nodes) |

## Fairness

Liveness is checked under weak fairness of what threads do once they have begun:
a worker in its loop, a thread inside Send or KillService, the socket thread.
Handlers are assumed to return, and a killed service to be closed and its queue
emptied by its worker. Nobody is obliged to send, kill or call exit.
`WorkerPool` needs strong fairness for the lock `sleepMtx`: it is held for a few
instructions and a thread that asks again and again gets it. `Connection`
assumes that the peer reads and that a connect is answered one way or the other.
`cluster_calls` assumes only that clusterd handles its messages; `WorkingSpec`,
under which `NoCallHangs` fails, that all the rest works too. Spurious wake-ups are
possible but never assumed. `Sharedata` assumes that a query that has begun
returns (its steps do not yield) and, strongly, that the subscription's timer
message gets its turn among the other messages of its service, which is what
`EveryMessageTaken` shows of the queues. `Names`, `Daemon`, `Engine`, `Udp`,
`ClusterNames`, `Seri` and `SharedTable` are checked for safety only.

## Proofs

Every theorem is for any sets of threads, services, processes, descriptors,
nodes, peers and names, and for any bounds on messages, sessions or tables. The
assumptions are the named `ASSUME`s of the modules (that the identifiers of
different kinds differ and that bounds are natural numbers); `WorkerPool` and
`Daemon` assume finitely many workers and processes, because they count them.
None of the properties is inductive as it stands. A proof module begins with the
parts of its invariant, has one lemma per action (and, for the larger actions,
one per part that the action can disturb), and ends with the theorems.

### Dispatch core (`Dispatch_proofs`)

* `TypeCorrect`, `SingleWorker`, `MessagesScheduled`, `NoUseAfterExit`,
  `ClearDoesNotDeadlock`: the five invariants of `dispatch_safety`;
* `CoreIsActor`: the refinement `Spec => ActorView!Spec`.

`IInv` joins the invariants with three more: `Marked` (`inGlobal` is true of what
is in the global queue or with a worker, and the queue holds no service twice),
`Located` (a worker that is in OnExit or Clear holds a service whose `exited` is
set; only a thread inside Lua can be inside OnInit) and `Retiring` (a service
leaves the table before it is marked, is marked before it exits, and its id does
not come back). `OneWorkerPerService` rests on `Marked`: a service enters the
queue only by a step that finds `inGlobal` false. `ClosedForGood` rests on the
fact that a retired service keeps `inGlobal` true for ever. `NoLockCycle` rests
on `Retiring`: the Send that Clear makes looks its target up in the table, and a
service in the table is not being cleared, so a worker that begins to wait does
so for a service that waits for nobody. A new wait never closes a cycle.

### Workers, names, the daemon (`Process_proofs`)

* `SleepersCounted`: `SleepCountExact`. `PoolInv` adds `Holding`: a worker
  that processes, or is about to run `FinishDispatch`, has a service. The count is the
  cardinality of a set of workers, those between `sleepCount++` and
  `sleepCount--`; lemmas say how it changes when one enters or leaves the set.
* `NamesLive`, `ExitComplete`: `NamesOfLive` and `ExitKillsAll`. `NamesInv` adds
  what a kill in progress has done at each of its places (`Kills`: a service that
  was erased does not come back, and once its names are removed only a late one
  leads to it) and what the exit's sweep has still before it (`Swept`).
* `DaemonAlone`: `OneDaemon`. `DaemonInv` says that a process which runs has the lock of
  the file it has open, with its pid in it (`Locks`), and that, unless an unlink
  raced, everybody who wants the lock or has it is at the file that has the name
  (`SameFile`). Two daemons would hold the lock of one file. That a fresh file is
  there for every open is a counting argument over the processes.

### Host library (`Rpc_proofs`)

* `RpcOnePlace`, `RpcPoolClean`, `RpcAnswersAwaited`: `OnePlacePerCoroutine`,
  `PoolIsClean` and `AnswersAreAwaited`, for any services, any scripts and any
  bounds on sessions, forks and events.

`RpcInv` has a part for each service (`Local`): no table holds a coroutine twice
and no two tables hold the same one (`Alone`), a coroutine has a request only
while a handler is under way in it (`Clean`), nothing runs in an idle or closed
service and only sessions that were handed out are awaited (`Bounds`). Between services
it says that a request comes from a service and a socket event has no session
(`QueuesPlain`), that a coroutine with a request knows whom to answer (`Owed`),
and, for each session of a service that is not closed, that one thing at most leads to its
answer: a timer, a message in a queue, a closure of `starnet.response` or the
coroutine that handles the request; if there is one, the session is registered
(`AllAwaited`). The argument follows that one thing through the steps: a call
turns nothing into a queued request, dispatch turns the request into a coroutine,
`ret` or the closure turns it into a queued response, and dispatching the
response removes it together with the registration. Sessions only grow, so a
fresh one has nothing under way. A closed service is left out because its
queue and the answers to it may outlive its tables. The model's set of coroutine
names is finite; `FreeCo` shows by counting that one is free whenever the library
would create a coroutine.

### Timer (`Timer_proofs`)

* `TimerWheelExact`: `WheelExact`, for any number of near slots, any size of at
  least two of the levels and any delays below half of the word (what an `int`
  can ask for);
* `TimerImplementsAlarm`: the refinement `Spec => AlarmView!Spec`.

The arithmetic comes first: blocks of ticks nest (`DivDiv`, `Nested`), a time and
the next one are in one block unless the next one begins it (`NextBlock`), and
`timer_shift` picks the level whose block begins while no larger one does
(`CascadeLevel`). `SlotKept` is the heart: a node that is not due and not in the
slot being moved down has the same place before and after a tick, the wrap
included. It needs that no node is half a lap ahead, which is why a delay is an
`int`: then a node in the block of the current time is later than the time and
not a lap behind. `TimerInv` has that as `Ahead`, the places as `Placed`, and
for the refinement what the thread has in hand at each place (`Phases`: what is
dispatched is due, and before `timer_shift` nothing is), that a session names
one node (`Numbered`), and the order (`Ordered`): within a slot and within the
list nodes of one tick are in the order they were set, the list being dispatched
comes before what was set meanwhile, and the list being moved after what is in
the slots already.

### Sockets (`Engine_proofs`)

* `EngineTablesAgree`, `EngineExitCloses`, and the action property
  `EngineBoundKept`. `EngineInv` is types, `OneNumber` (a socket has one
  descriptor) and, until a call goes astray, `Agree`: what holds of the number a
  thread works on at each place between two locks. A thread about to add an entry
  has a socket nobody else has heard of (`Fresh`); an entry stands for the socket
  behind its number, and a closing thread has removed the entry (`Entries`); a
  socket with an entry is registered or on its way (`Registered`), an outside one
  is marked or about to be (`Marked`), a thread that found such an entry knows it
  (`Remembered`); a socket without an entry is about to get one or to be closed
  (`Kept`); and what CloseAll has found is on its list or being closed
  (`Sweeping`). `TablesAgree` speaks only of numbers nobody is at work on; `Agree`
  is what makes it true when the last thread leaves.
* `UdpExact`, `UdpNoticed`: `DatagramsExact` and `NoneUnnoticed`. That the posted
  messages are the accepted datagrams without the empty ones is stated with a
  strictly increasing map of places (`Posted`), which an append extends by one
  pair; `Waiting` relates the receive queue to what was accepted, `Addressed`,
  `Default` and `Reached` follow an address from the packed form to the datagram
  that is sent, `Masked` says when the edge or the mask will bring the reader.

### Connection (`Connection_proofs`)

* `ConnStreamIntact`: `StreamIntact`;
* `ConnBacklogExact`: `BacklogExact`,

for any workers, packets, lengths, priorities, room in the kernel and warning size.

`ConnInv` has, beside the types: `Held`, which says when the socket thread has
the lock, that `written` counts only then, and that outside a flush an empty high
list means an empty low one; `Begun`, that before there is a descriptor nothing
has happened and a managed connection keeps its buffer, because `RemoveConn` takes
the entry out of `conns` first; `Sends`, that what a worker is about to send was
not accepted before and that no other worker sends it; `Lists`, that only the first
object can be partly written, only packets of low priority are on the low list and
none is queued twice; `Total`, that `wbSize` is what is queued and what the flush
has written and not yet subtracted; `Warns`, which ties the next threshold to the
number of warnings; and `InOrder`, that the pieces written and the pieces queued
make the accepted packets (`Whole`). `BacklogExact` is not inductive without
`Total`, since a flush writes object by object and subtracts once; `StreamIntact`
is not without `Lists`, as a packet appended to the high list goes in front of
the low one, which is harmless only if no low packet has begun.

The argument about the stream has two lemmas. `InsertWhole`: a new packet put
between two packets, after all of its priority, leaves the pieces whole
(`Enqueued` for the lists). `SplitWhole`: a write cuts one piece into two
(`SentStream`). The argument about the bytes says that the bytes of a packet are
a slice of as many elements as it is long and that the slices of different objects
are disjoint (`SentBytes`, `QueuedBytes`). `Raise`, which moves the partly written
low packet, changes neither the line nor its bytes.

Two parts of the type invariant came from the proof. `readSize` is at least 1
but not at least `READ_BUFFER_MIN`: for sizes that are not powers of two, halving
`READ_BUFFER_MAX` may go below it. And `input <= received`, without which a byte
from the peer could pass the bound of the input.

### Cluster (`Cluster_proofs`)

* `NamesCorrect`: `NamesLeadBack`, for any names and services; with the
  types of the two tables it is inductive;
* `ClusterKnows`, `ClusterPending`, `ClusterReads`: `ConnectionsKnown`,
  `CallsPending` and `NothingMisread`, for any nodes, descriptors, calls,
  connections and breaks, with both sides of a call in the model.

`ClusterInv` is types (`ClusterTypes`, `CallTypes`) and, while no number was handed
out too early, `Told`, which has four parts.

* `Tables`: for each descriptor, node_fd and in_fd agree with what the kernel has
  behind it up to the messages in its queue (`Fit`: ACCEPT is the first about an
  incoming connection and CLOSE the last about any), no descriptor is in two
  entries, and no end of a connection has two descriptors.
* `Carried`, `Mailed` and `InService`: whatever is in a write buffer, on a
  connection, in a queue or in the hands of `handle_request` is about a call that
  was made, a request goes from the caller to the callee, on the caller's
  connection, and a response comes on the connection that node_fd has
  for the node that sent it.
* `AllPending`: `CallsPending`.

A number that is handed out in time has no message and no request left and is in no
table (`HandedOut`), so that what was true of the others stays true. That a call
stays pending follows its one request or response through the steps: written,
buffered or on its way, queued at the other end, served, and the same way back;
when a connection ends, what was on it is replaced by the end of one side, or the
news of it. Handling a message takes the head of a queue, so that `Mailed` is
carried over a shift by one and `Fit` speaks of the first and the last message.

### Packets (`Lualib_proofs`)

* `PacketsAreExact`: `PacketsExact`;
* `NoPacketIsLost`: `NoPacketLost`,

for any descriptors, packets that fit the header, values of a byte, sizes of the
hash table and of the ring, chunks, errors and closes.

Neither property says anything while a message is being taken apart, and neither
looks inside the ring; that is what `NetInv` adds. For each descriptor
(`ParserOK`) the bytes before the parser's position are `c` whole packets and the
beginning of one more, of which the hash table has the half packet of just that
length and no other (`HalfFor`: none, a first byte, or the size with a part of
the data), and what `push_more` has still before it is the rest of what was read
and begins with a header. Across the descriptors (`Delivered`), the packets the
handler got, the one in hand and those in the ring are the packets taken apart:
in order as long as no handler raised an error (`OrderedIn`, with one descriptor
at a time in the ring), and as many of each as were sent as long as nothing was
closed (`CountedIn`), because after an error the packets of one descriptor come
out behind another's. The ring itself is in `Types`: head and tail are inside the
array, and every place between them has a packet.

A descriptor that the service closed amid a packet is left out of `ParserOK`: its
half packet may be completed by any bytes (`Loose`), and what is shown of it is that
it stays one entry of its own list and that nothing of the other descriptors is
touched.

Three groups of lemmas carry it. Bytes: `Header` and `read_size` are inverse on two
digits (`Digits`), and where a packet is in a stream does not change when the
peer appends one (`Framed`). The hash table: saving and unlinking change the half
packet of one descriptor and keep those of the others in the same list (`Keeps`).
The ring: what it holds is a sequence (`InRing`) to which `push_data` appends,
from which `lpop` takes the first, and which `expand_queue`, wrapped or not,
leaves as it is (`GrowIs`).

### Shared tables (`Lualib_proofs`)

* `QueriesCurrent`: `QueryIsCurrent`. `ShareInv` adds `VersionsBounded` and the
  window of a query: `WindowOpen` (while a query is between its two looks at the
  store, the current state is in its window) and `AnswersFit`. The step that
  needs them is the answer from the cache: without a deletion, equal versions
  mean the same table.

### Only model-checked

* Everything temporal beyond safety: `EveryMessageTaken`, `SleepersAreWoken`,
  `ExitDrains`, `ForksRun`, `FlushGoesOn`, `InputIsRead`, `CallsEnd`,
  `SubscribersCatchUp`. The prover has no liveness under fairness and no ENABLED.
* `RoundTrip`, `CutIsSeen`, `ReadsAsTable`: what the recursive operators of
  `Seri` and `SharedTable` compute, for which induction over the data would be
  needed.

The theorems of the library that take an operator, induction over the naturals
among them, cannot be used with the provers at hand. Where a fact needs induction
(the thresholds of `Connection`) it is applied to a set:
`SetInduction` of `Connection_proofs` says that a set of naturals with 0 and
with the successor of each member has them all, from the least member of its
complement (`Least`), which the well-founded order of the naturals gives.

## Not modelled

* Lua bindings, configuration, environment, logging, memory statistics, entry
  point: argument checks, parsing or output, no interleaving of their own.
* Overload warnings, profile counters and the monitor: they only write to the
  log.
* In the socket engine: `GetSocketInfo` (reads only), `SetNoDelay` (one system
  call), and everything after a call has met another connection's socket: what
  such a call does to the stream of the other connection is unbounded, so the
  model stops there. A full write buffer and a bound datagram socket are not
  combined with the reuse of numbers.
* In shared tables: `isdirty`, whose flag is set when a table is stored and never
  cleared; `exist`, `len`, `hashlen`, which only read.
* At exit: the joins of the monitor, timer and socket threads after the workers.
* On a connection: errors of `read` and `write` on an open connection that the
  peer has reset. The first ends it as an end of file does
  (`starnet_socket_server.cpp:264`), the second is logged and the packet dropped
  (line 534).
* In `clusterd`: the wire format, pushes, name queries, the reload of the
  configuration, a call that fails at once (unknown node, `connect` refused
  locally), the restart of a node, and what a response does that was taken for a
  request.
* In `lua-seri`: the bytes of a real and of a pointer, which are copied.

## Plan

Done, in this order: `Dispatch` with `Actor` and its proofs; `WorkerPool`;
`Timer` with `Alarm`; `Rpc`; `Connection`; `Netpack`; `Cluster` with the proof
about its names; `Engine` and `Udp`; `SharedTable` and `Sharedata`; `Seri`;
`Names` and `Daemon`.

Then proofs: `WorkerPool`, `Names` and `Daemon`; `Sharedata`; `Engine` and `Udp`;
the connections and calls of `Cluster`; the coroutines and sessions of `Rpc`; `Timer` with
`Alarm`; `Connection`; `Netpack`.

Left, and out of reach of the prover for the reasons given under "Only
model-checked": what `Seri` and `SharedTable` compute, and liveness.

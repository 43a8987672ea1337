------------------------------ MODULE Dispatch ------------------------------
(***************************************************************************)
(* The message core of starnet: the service table (starnet.cpp), the       *)
(* two-level message queue (starnet_mq.cpp) and the dispatch loop of the   *)
(* worker threads (starnet_worker.cpp, starnet_service.cpp).               *)
(*                                                                         *)
(* One step is one critical section of the code (queueLock, inGlobalLock,  *)
(* servicesLock) or one access to an atomic flag.  TryEnterGlobal and      *)
(* FinishDispatch nest two locks, but the inner one is taken last and      *)
(* nothing they read can change meanwhile, so each is one step.  Clear     *)
(* keeps queueLock while it sends replies, so it is several steps during   *)
(* which the queue is locked.                                              *)
(*                                                                         *)
(* Any thread may run Starnet::Send, KillService and NewService: a worker  *)
(* while it runs Lua code, and the main, timer and socket threads (External*)
(* here).  Whether an idle worker sleeps and who wakes it is module        *)
(* WorkerPool.                                                             *)
(***************************************************************************)
EXTENDS Integers, Sequences

CONSTANTS Worker,       \* worker threads
          External,     \* main, timer and socket threads
          Service,      \* service ids ++maxId can produce
          NoId,         \* id 0, which is never given to a service
          Weight,       \* [Worker -> -1..3], the table of StartWorker
          MaxMsgs       \* bound on the messages sent (replies of Clear apart)

ASSUME DispatchAssumption ==
  /\ NoId \notin Service
  /\ Worker \cap External = {}
  /\ Weight \in [Worker -> -1..3]
  /\ MaxMsgs \in Nat

VARIABLES services,     \* keys of Starnet::services
          created,      \* ids handed out so far (maxId)
          msgQueue,     \* StarnetMQ::msgQueue of each service
          inGlobal,     \* StarnetMQ::inGlobal
          isExiting,    \* Service::isExiting
          exited,       \* Service::exited
          globalQueue,  \* starnet_mq.cpp's globalQueue
          pc,           \* where each worker is in Worker::operator()
          srv,          \* the service a worker has popped, or NoId
          left,         \* iterations left in ProcessMsgs
          call,         \* the Send or KillService each thread is in
          initStack,    \* services whose OnInit each thread is executing
          sent          \* messages sent so far: the next session number

vars == <<services, created, msgQueue, inGlobal, isExiting, exited,
          globalQueue, pc, srv, left, call, initStack, sent>>
tableVars == <<services, created>>
flagVars == <<isExiting, exited>>
workerVars == <<pc, srv, left>>

Thread == Worker \cup External

\* LUA stands for RESPONSE as well: OnMsg and dropMessage treat them alike.
\* SOCKET stands for all that is sent with source 0 (socket events, timeouts):
\* OnMsg handles it and dropMessage skips it.
MsgType == {"LUA", "SOCKET", "ERROR"}
Message == [type : MsgType, source : Service \cup {NoId}, session : 0..MaxMsgs]
NoMsg == [type |-> "ERROR", source |-> NoId, session |-> 0]

PC == {"pop", "batch", "msg", "handle", "check", "finish", "exit", "clear"}
Op == {"push", "enter", "erase", "mark"}
Idle == [op |-> "idle", dst |-> NoId, msg |-> NoMsg]
CallRec == [op : Op, dst : Service, msg : Message] \cup {Idle}

Init ==
  /\ services = {}
  /\ created = {}
  /\ msgQueue = [s \in Service |-> <<>>]
  /\ inGlobal = [s \in Service |-> FALSE]
  /\ isExiting = [s \in Service |-> FALSE]
  /\ exited = [s \in Service |-> FALSE]
  /\ globalQueue = <<>>
  /\ pc = [w \in Worker |-> "pop"]
  /\ srv = [w \in Worker |-> NoId]
  /\ left = [w \in Worker |-> 0]
  /\ call = [t \in Thread |-> Idle]
  /\ initStack = [t \in Thread |-> <<>>]
  /\ sent = 0

-----------------------------------------------------------------------------
(* Locks and helpers *)

\* Clear holds the queueLock of the service it empties; every other critical
\* section of queueLock is a single step.
Clearing(w, s) == pc[w] = "clear" /\ srv[w] = s
QueueLocked(s) == \E w \in Worker : Clearing(w, s)

\* Bug: the inGlobal test is forgotten.
TryEnterGlobal_NoTest(s) ==
  /\ inGlobal' = [inGlobal EXCEPT ![s] = TRUE]
  /\ globalQueue' = Append(globalQueue, s)

\* if(!inGlobal) { starnet_globalmq_push(srv); inGlobal = true; }
TryEnterGlobal(s) ==
  /\ inGlobal' = [inGlobal EXCEPT ![s] = TRUE]
  /\ globalQueue' = IF inGlobal[s] THEN globalQueue
                                   ELSE Append(globalQueue, s)

SetCall(t, c) == call' = [call EXCEPT ![t] = c]

\* Lua code (a handler, a start script, the OnExit function) is running on t
\* and may call into C; main, timer and socket threads call in at any time.
CanCall(t) ==
  /\ call[t] = Idle
  /\ t \in Worker => initStack[t] # <<>> \/ pc[t] \in {"handle", "exit"}

\* The service in whose name t sends.
Self(t) ==
  CASE initStack[t] # <<>> -> initStack[t][Len(initStack[t])]
    [] initStack[t] = <<>> /\ t \in Worker -> srv[t]
    [] OTHER -> NoId

-----------------------------------------------------------------------------
(* Starnet::Send.  The lookup is the first step; a message to an id that   *)
(* is not in the table is logged and dropped.                              *)

NewMsg(t) == [type    |-> IF Self(t) = NoId THEN "SOCKET" ELSE "LUA",
              source  |-> Self(t),
              session |-> sent + 1]

Send(t, d) ==
  /\ CanCall(t)
  /\ sent < MaxMsgs
  /\ sent' = sent + 1
  /\ IF d \in services
       THEN SetCall(t, [op |-> "push", dst |-> d, msg |-> NewMsg(t)])
       ELSE UNCHANGED call
  /\ UNCHANGED <<tableVars, msgQueue, inGlobal, flagVars, globalQueue,
                 workerVars, initStack>>

\* toSrv->mq.Push(msg)
Push(t) ==
  LET c == call[t] IN
  /\ c.op = "push"
  /\ ~ QueueLocked(c.dst)
  /\ msgQueue' = [msgQueue EXCEPT ![c.dst] = Append(@, c.msg)]
  /\ SetCall(t, [c EXCEPT !.op = "enter", !.msg = NoMsg])
  /\ UNCHANGED <<tableVars, inGlobal, flagVars, globalQueue, workerVars,
                 initStack, sent>>

\* The last step of Send and of KillService.  KillService asks IsInGlobal
\* before it calls TryEnterGlobal, which asks again: together they do what
\* TryEnterGlobal does.
EnterGlobal(t) ==
  /\ call[t].op = "enter"
  /\ TryEnterGlobal(call[t].dst)
  /\ SetCall(t, Idle)
  /\ UNCHANGED <<tableVars, msgQueue, flagVars, workerVars, initStack, sent>>

-----------------------------------------------------------------------------
(* Starnet::KillService, also for each id of KillAllServices' snapshot *)

KillService(t, d) ==
  /\ CanCall(t)
  /\ d \in services
  /\ SetCall(t, [op |-> "erase", dst |-> d, msg |-> NoMsg])
  /\ UNCHANGED <<tableVars, msgQueue, inGlobal, flagVars, globalQueue,
                 workerVars, initStack, sent>>

\* Bug: the id is left in the table when its service retires.
KillErase_Keep(t) ==
  /\ call[t].op = "erase"
  /\ SetCall(t, [call[t] EXCEPT !.op = "mark"])
  /\ UNCHANGED <<tableVars, msgQueue, inGlobal, flagVars, globalQueue,
                 workerVars, initStack, sent>>

\* services.erase(id), a no-op for the second of two concurrent kills
KillErase(t) ==
  /\ call[t].op = "erase"
  /\ services' = services \ {call[t].dst}
  /\ SetCall(t, [call[t] EXCEPT !.op = "mark"])
  /\ UNCHANGED <<created, msgQueue, inGlobal, flagVars, globalQueue,
                 workerVars, initStack, sent>>

\* srv->isExiting = true
KillMark(t) ==
  /\ call[t].op = "mark"
  /\ isExiting' = [isExiting EXCEPT ![call[t].dst] = TRUE]
  /\ SetCall(t, [call[t] EXCEPT !.op = "enter"])
  /\ UNCHANGED <<tableVars, msgQueue, inGlobal, exited, globalQueue,
                 workerVars, initStack, sent>>

-----------------------------------------------------------------------------
(* Starnet::NewService: registered first, then OnInit on the same thread *)

NewService(t, s) ==
  /\ CanCall(t)
  /\ s \notin created
  /\ created' = created \cup {s}
  /\ services' = services \cup {s}
  /\ initStack' = [initStack EXCEPT ![t] = Append(@, s)]
  /\ UNCHANGED <<msgQueue, inGlobal, flagVars, globalQueue, workerVars,
                 call, sent>>

EndInit(t) ==
  /\ initStack[t] # <<>>
  /\ call[t] = Idle
  /\ initStack' = [initStack EXCEPT ![t] = SubSeq(@, 1, Len(@) - 1)]
  /\ UNCHANGED <<tableVars, msgQueue, inGlobal, flagVars, globalQueue,
                 workerVars, call, sent>>

-----------------------------------------------------------------------------
(* Worker::operator() and what it calls *)

\* starnet_globalmq_pop
PopGlobal(w) ==
  /\ pc[w] = "pop"
  /\ globalQueue # <<>>
  /\ srv' = [srv EXCEPT ![w] = Head(globalQueue)]
  /\ globalQueue' = Tail(globalQueue)
  /\ pc' = [pc EXCEPT ![w] = "batch"]
  /\ UNCHANGED <<tableVars, msgQueue, inGlobal, flagVars, left, call,
                 initStack, sent>>

\* The pop returned NULL: the worker comes back to the pop after a wait.
PopNull(w) ==
  /\ pc[w] = "pop"
  /\ globalQueue = <<>>
  /\ UNCHANGED vars

\* Bug: a negative weight is not told apart.
Batch_NoSign(w, len) == IF Weight[w] < 0 THEN Weight[w] ELSE len

\* int n = 1; if(weight >= 0) n = srv->mq.Length() >> weight;
Batch(w, len) == IF Weight[w] < 0 THEN 1 ELSE len \div (2 ^ Weight[w])

StartBatch(w) ==
  /\ pc[w] = "batch"
  /\ ~ QueueLocked(srv[w])
  /\ left' = [left EXCEPT ![w] = Batch(w, Len(msgQueue[srv[w]]))]
  /\ pc' = [pc EXCEPT ![w] = "msg"]
  /\ UNCHANGED <<tableVars, msgQueue, inGlobal, flagVars, globalQueue, srv,
                 call, initStack, sent>>

\* OnMsg knows LUA, RESPONSE and SOCKET; any other type is ignored.
OnMsg(m) == IF m.type \in {"LUA", "SOCKET"} THEN "handle" ELSE "msg"

\* Bug: the newest message is popped.
ProcessMsg_Newest(w) ==
  LET q == msgQueue[srv[w]] IN
  /\ pc[w] = "msg"
  /\ left[w] > 0
  /\ q # <<>>
  /\ ~ QueueLocked(srv[w])
  /\ msgQueue' = [msgQueue EXCEPT ![srv[w]] = SubSeq(q, 1, Len(q) - 1)]
  /\ left' = [left EXCEPT ![w] = @ - 1]
  /\ pc' = [pc EXCEPT ![w] = OnMsg(q[Len(q)])]
  /\ UNCHANGED <<tableVars, inGlobal, flagVars, globalQueue, srv, call,
                 initStack, sent>>

\* One turn of ProcessMsgs: ProcessMsg pops a message and runs OnMsg
ProcessMsg(w) ==
  LET q == msgQueue[srv[w]] IN
  /\ pc[w] = "msg"
  /\ left[w] > 0
  /\ q # <<>>
  /\ ~ QueueLocked(srv[w])
  /\ msgQueue' = [msgQueue EXCEPT ![srv[w]] = Tail(q)]
  /\ left' = [left EXCEPT ![w] = @ - 1]
  /\ pc' = [pc EXCEPT ![w] = OnMsg(Head(q))]
  /\ UNCHANGED <<tableVars, inGlobal, flagVars, globalQueue, srv, call,
                 initStack, sent>>

\* The handler returns to ProcessMsgs.
EndMsg(w) ==
  /\ pc[w] = "handle"
  /\ call[w] = Idle
  /\ initStack[w] = <<>>
  /\ pc' = [pc EXCEPT ![w] = "msg"]
  /\ UNCHANGED <<tableVars, msgQueue, inGlobal, flagVars, globalQueue, srv,
                 left, call, initStack, sent>>

\* ProcessMsgs ends: n messages are done, or Pop found the queue empty.
EndBatch(w) ==
  /\ pc[w] = "msg"
  /\ left[w] = 0 \/ (msgQueue[srv[w]] = <<>> /\ ~ QueueLocked(srv[w]))
  /\ left' = [left EXCEPT ![w] = 0]
  /\ pc' = [pc EXCEPT ![w] = "check"]
  /\ UNCHANGED <<tableVars, msgQueue, inGlobal, flagVars, globalQueue, srv,
                 call, initStack, sent>>

Release(w) == srv' = [srv EXCEPT ![w] = NoId]

\* CheckAndPutGlobal reads isExiting and, if set, exchanges exited.
CheckAndPutGlobal(w) ==
  LET s == srv[w] IN
  /\ pc[w] = "check"
  /\ \/ /\ ~ isExiting[s]
        /\ pc' = [pc EXCEPT ![w] = "finish"]
        /\ UNCHANGED <<srv, exited>>
     \/ /\ isExiting[s]
        /\ exited' = [exited EXCEPT ![s] = TRUE]
        /\ pc' = [pc EXCEPT ![w] = IF exited[s] THEN "pop" ELSE "exit"]
        /\ srv' = [srv EXCEPT ![w] = IF exited[s] THEN NoId ELSE s]
  /\ UNCHANGED <<tableVars, msgQueue, inGlobal, isExiting, globalQueue, left,
                 call, initStack, sent>>

\* Bug: the queue is not looked at again before inGlobal is reset.
FinishDispatch_NoRecheck(w) ==
  /\ pc[w] = "finish"
  /\ inGlobal' = [inGlobal EXCEPT ![srv[w]] = FALSE]
  /\ pc' = [pc EXCEPT ![w] = "pop"]
  /\ Release(w)
  /\ UNCHANGED <<tableVars, msgQueue, flagVars, globalQueue, left, call,
                 initStack, sent>>

\* Back to the global queue if messages are left, else out of it.
FinishDispatch(w) ==
  LET s == srv[w] IN
  /\ pc[w] = "finish"
  /\ ~ QueueLocked(s)
  /\ IF msgQueue[s] # <<>>
       THEN globalQueue' = Append(globalQueue, s) /\ UNCHANGED inGlobal
       ELSE inGlobal' = [inGlobal EXCEPT ![s] = FALSE] /\ UNCHANGED globalQueue
  /\ pc' = [pc EXCEPT ![w] = "pop"]
  /\ Release(w)
  /\ UNCHANGED <<tableVars, msgQueue, flagVars, left, call, initStack, sent>>

\* OnExit has closed the Lua state; Clear takes the queueLock.
OnExit(w) ==
  /\ pc[w] = "exit"
  /\ call[w] = Idle
  /\ initStack[w] = <<>>
  /\ ~ QueueLocked(srv[w])
  /\ pc' = [pc EXCEPT ![w] = "clear"]
  /\ UNCHANGED <<tableVars, msgQueue, inGlobal, flagVars, globalQueue, srv,
                 left, call, initStack, sent>>

\* dropMessage: a request gets a PTYPE_ERROR with its own session.
dropMessage(w, m) ==
  IF m.type # "SOCKET" /\ m.source # NoId /\ m.source \in services
    THEN SetCall(w, [op |-> "push", dst |-> m.source,
                     msg |-> [NoMsg EXCEPT !.session = m.session]])
    ELSE UNCHANGED call

\* One turn of Clear's loop
ClearOne(w) ==
  LET q == msgQueue[srv[w]] IN
  /\ pc[w] = "clear"
  /\ call[w] = Idle
  /\ q # <<>>
  /\ msgQueue' = [msgQueue EXCEPT ![srv[w]] = Tail(q)]
  /\ dropMessage(w, Head(q))
  /\ UNCHANGED <<tableVars, inGlobal, flagVars, globalQueue, workerVars,
                 initStack, sent>>

\* Bug: a retired service gives up its mark and can be queued again.
EndClear_Unmark(w) ==
  /\ pc[w] = "clear"
  /\ call[w] = Idle
  /\ msgQueue[srv[w]] = <<>>
  /\ inGlobal' = [inGlobal EXCEPT ![srv[w]] = FALSE]
  /\ pc' = [pc EXCEPT ![w] = "pop"]
  /\ Release(w)
  /\ UNCHANGED <<tableVars, msgQueue, flagVars, globalQueue, left, call,
                 initStack, sent>>

\* Clear unlocks.  inGlobal is left TRUE: the service is never queued again.
EndClear(w) ==
  /\ pc[w] = "clear"
  /\ call[w] = Idle
  /\ msgQueue[srv[w]] = <<>>
  /\ pc' = [pc EXCEPT ![w] = "pop"]
  /\ Release(w)
  /\ UNCHANGED <<tableVars, msgQueue, inGlobal, flagVars, globalQueue, left,
                 call, initStack, sent>>

-----------------------------------------------------------------------------
CallStep(t) == Push(t) \/ EnterGlobal(t) \/ KillErase(t) \/ KillMark(t)

WorkerStep(w) ==
  \/ PopGlobal(w) \/ StartBatch(w) \/ ProcessMsg(w) \/ EndMsg(w)
  \/ EndBatch(w) \/ CheckAndPutGlobal(w) \/ FinishDispatch(w)
  \/ OnExit(w) \/ ClearOne(w) \/ EndClear(w)

Next ==
  \/ \E t \in Thread, s \in Service :
       Send(t, s) \/ KillService(t, s) \/ NewService(t, s)
  \/ \E t \in Thread : CallStep(t) \/ EndInit(t)
  \/ \E w \in Worker : WorkerStep(w) \/ PopNull(w)

Spec == Init /\ [][Next]_vars

\* Every thread keeps running the code it is in: handlers and start scripts
\* return, spin locks are granted, an idle worker comes back to the pop.  No
\* thread is obliged to start a Send, a KillService or a NewService.
Fairness ==
  /\ \A w \in Worker : WF_vars(WorkerStep(w))
  /\ \A t \in Thread : WF_vars(CallStep(t)) /\ WF_vars(EndInit(t))

LiveSpec == Spec /\ Fairness

-----------------------------------------------------------------------------
(* Safety *)

\* The types of the queues, the workers and the calls in progress, and: a worker holds a
\* service exactly while it is not at the pop of Worker::operator().
TypeOK ==
  /\ services \subseteq created
  /\ created \subseteq Service
  /\ msgQueue \in [Service -> Seq(Message)]
  /\ inGlobal \in [Service -> BOOLEAN]
  /\ isExiting \in [Service -> BOOLEAN]
  /\ exited \in [Service -> BOOLEAN]
  /\ globalQueue \in Seq(Service)
  /\ pc \in [Worker -> PC]
  /\ srv \in [Worker -> Service \cup {NoId}]
  /\ \A w \in Worker : pc[w] = "pop" <=> srv[w] = NoId
  /\ left \in [Worker -> Nat]
  /\ call \in [Thread -> CallRec]
  /\ initStack \in [Thread -> Seq(Service)]
  /\ sent \in 0..MaxMsgs

\* The inGlobal protocol keeps a service in one place: it is at most once in
\* the global queue, or it is with one worker, never both ("true: in the
\* queue, or being processed", starnet_mq.h), so no two workers are ever
\* inside one service.
OneWorkerPerService ==
  \A w \in Worker : srv[w] # NoId =>
    /\ \A v \in Worker : srv[v] = srv[w] => v = w
    /\ \A i \in 1..Len(globalQueue) : globalQueue[i] # srv[w]

\* Some thread has still to call TryEnterGlobal for s.
Entering(s) == \E t \in Thread : call[t].op = "enter" /\ call[t].dst = s

\* No queued message is forgotten: a service with messages that has not begun
\* its exit is scheduled, or the sender that will schedule it is between Push
\* and TryEnterGlobal.
NoLostMessage ==
  \A s \in Service :
    msgQueue[s] # <<>> /\ ~ exited[s] => inGlobal[s] \/ Entering(s)

\* Whoever kills it and whoever still sends to it, no worker handles a message
\* of a service, or runs its OnExit a second time, after its Lua state was
\* handed to OnExit: the retired service stays marked inGlobal for ever.
ClosedForGood ==
  \A s \in Service : exited[s] =>
    /\ inGlobal[s]
    /\ \A i \in 1..Len(globalQueue) : globalQueue[i] # s
    /\ \A w \in Worker : srv[w] = s => pc[w] \in {"exit", "clear"}

\* The worker that clears s is spinning on, or about to take, d's queueLock.
Waits(w, s, d) == Clearing(w, s) /\ call[w].op = "push" /\ call[w].dst = d

\* Clear calls Send while it holds a spin lock, and that Send may need the
\* queueLock of another service that is being cleared.  There is never a set
\* of workers each waiting for the lock of the next.
NoLockCycle ==
  \A C \in SUBSET Service :
    C # {} => \E s \in C : \A w \in Worker, d \in C : ~ Waits(w, s, d)

-----------------------------------------------------------------------------
(* The inductive invariant behind the safety properties *)

\* inGlobal covers the global queue and the hands of the workers.
Marked ==
  /\ \A i \in 1..Len(globalQueue) : inGlobal[globalQueue[i]]
  /\ \A i, j \in 1..Len(globalQueue) : globalQueue[i] = globalQueue[j] => i = j
  /\ \A w \in Worker : srv[w] # NoId => inGlobal[srv[w]]

\* What the program counter of a worker says about its other variables.
Located ==
  \A w \in Worker :
    /\ pc[w] \in {"exit", "clear"} => exited[srv[w]]
    /\ initStack[w] # <<>> => pc[w] \in {"handle", "exit"}

\* A service leaves the table before it is marked, and is marked before it
\* exits; ids are never reused.
Retiring ==
  /\ \A s \in Service : isExiting[s] => s \in created \ services
  /\ \A s \in Service : exited[s] => isExiting[s]
  /\ \A t \in Thread : call[t].op # "idle" => call[t].dst \in created
  /\ \A t \in Thread : call[t].op = "mark" => call[t].dst \notin services

IInv ==
  /\ TypeOK
  /\ Marked
  /\ Located
  /\ Retiring
  /\ OneWorkerPerService
  /\ NoLostMessage
  /\ ClosedForGood
  /\ NoLockCycle

-----------------------------------------------------------------------------
(* Liveness *)

Queued(s, n) ==
  \E i \in 1..Len(msgQueue[s]) : msgQueue[s][i].session = n

\* Every message that is in the queue of a service that has not begun its exit
\* is taken out: by ProcessMsg or, when the service retires first, by Clear.
\* Nothing starves it and Clear's nested locks never stop a worker for ever.
EveryMessageTaken ==
  \A s \in Service, n \in 1..MaxMsgs :
    Queued(s, n) /\ ~ exited[s] ~> ~ Queued(s, n)

-----------------------------------------------------------------------------
(* Refinement: the core implements one actor per service *)

Running == {s \in Service : \E w \in Worker : pc[w] = "handle" /\ srv[w] = s}
Closed == {s \in Service : exited[s]}

ActorView == INSTANCE Actor
               WITH box <- msgQueue, running <- Running, closed <- Closed

\* Messages of a service are handled one at a time, in the order in which they
\* were pushed, and never after the service was closed.
ImplementsActor == ActorView!Spec

-----------------------------------------------------------------------------
(* Claims of the comments that the code does not meet *)

\* starnet.cpp, KillService: an idle service is put back in the global queue
\* "to make sure a worker handles its exit".  So a killed service that has not
\* exited is always scheduled, or its killer has still to schedule it.
RetireIsScheduled ==
  \A s \in Service :
    isExiting[s] /\ ~ exited[s] => inGlobal[s] \/ Entering(s)

\* starnet_worker.cpp, dropMessage: messages a service leaves unhandled when it
\* exits are dropped and answered with PTYPE_ERROR.  So once a worker is done
\* with a retired service no message stays in its queue.
NothingLeftBehind ==
  \A s \in Service :
    exited[s] /\ (\A w \in Worker : srv[w] # s) => msgQueue[s] = <<>>

\* starnet_worker.cpp, CheckAndPutGlobal: lua_close is left to the worker "to
\* avoid running concurrently with a Lua call in progress".  So a thread that
\* is in the Lua state of an exiting service is the only one there.
LuaUsers(s) ==
  {w \in Worker : pc[w] \in {"handle", "exit"} /\ srv[w] = s}
    \cup {t \in Thread : \E i \in 1..Len(initStack[t]) : initStack[t][i] = s}

CloseIsExclusive ==
  \A w \in Worker : pc[w] = "exit" => LuaUsers(srv[w]) = {w}
=============================================================================

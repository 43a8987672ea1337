-------------------------------- MODULE Rpc --------------------------------
(***************************************************************************)
(* Coroutines and sessions: the host library lualib/starnet.lua, as it runs*)
(* in every service, over the message queues of module Dispatch.           *)
(*                                                                         *)
(* By Dispatch's theorems a service handles one message at a time, in the  *)
(* order of its queue, so the queue is one variable here and what happens  *)
(* between two suspensions of Lua code is one step of that service.  A     *)
(* killed service exits in one step and then answers what is left in its   *)
(* queue; the races around that are Dispatch's subject.  What a handler    *)
(* does is open: it may use any function in its script at any time.        *)
(***************************************************************************)
EXTENDS Integers, Sequences, SequencesExt, FiniteSets

CONSTANTS Service,      \* services
          NoId,         \* handle 0
          Script,       \* functions of the library each service's script uses
          MaxSession,   \* bound on the sessions a service generates
          MaxForks,     \* bound on the length of fork_queue
          MaxEvents     \* bound on sends without session and socket events

Nil == -1

ASSUME RpcAssumption ==
  /\ NoId \notin Service /\ Nil \notin Service \cup {NoId}
  /\ Script \in [Service -> SUBSET {"dispatch", "send", "call", "ret",
                    "response", "sleep", "timeout", "fork", "exit"}]
  /\ {MaxSession, MaxForks, MaxEvents} \subseteq Nat

VARIABLES services,     \* ids that can be looked up
          exited,       \* services whose Lua state is closed
          mq,           \* message queue of each service
          timers,       \* <<service, session>> the timer has not delivered yet
          events,       \* sends without session and socket events so far
          handler,      \* services that have registered proto["lua"].dispatch
          sessionGen,   \* Service::sessionGen
          coroutine_pool,
          session_id_coroutine,      \* session -> coroutine
          session_coroutine_id,      \* coroutine -> session, or Nil
          session_coroutine_address, \* coroutine -> source, or Nil
          fork_queue,
          running_thread,            \* the coroutine that runs, 0 if none
          mode,         \* which dispatch function the service is in
          closures      \* <<source, session>> of unused functions response() made

vars == <<services, exited, mq, timers, events, handler, sessionGen,
          coroutine_pool, session_id_coroutine, session_coroutine_id,
          session_coroutine_address, fork_queue, running_thread, mode, closures>>
envVars == <<services, exited, timers, events>>
ctxVars == <<session_coroutine_id, session_coroutine_address>>
ownVars == <<handler, sessionGen, coroutine_pool, session_id_coroutine, ctxVars,
             fork_queue, running_thread, mode, closures>>

\* As many as can be running, waiting or forked at a time; the name of one that
\* nothing can resume any more is used again.
Co == 1..(MaxSession + MaxForks + 1)
Session == 1..MaxSession
MsgType == {"LUA", "RESPONSE", "ERROR", "SOCKET"}
Message == [type : MsgType, source : Service \cup {NoId}, session : 0..MaxSession]

\* A service is created and runs the function given to starnet.start.
Init ==
  /\ services = Service
  /\ exited = {}
  /\ mq = [s \in Service |-> <<>>]
  /\ timers = {}
  /\ events = 0
  /\ handler = {}
  /\ sessionGen = [s \in Service |-> 0]
  /\ coroutine_pool = [s \in Service |-> <<>>]
  /\ session_id_coroutine = [s \in Service |-> <<>>]
  /\ session_coroutine_id = [s \in Service |-> [c \in Co |-> IF c = 1 THEN 0 ELSE Nil]]
  /\ session_coroutine_address =
       [s \in Service |-> [c \in Co |-> IF c = 1 THEN NoId ELSE Nil]]
  /\ fork_queue = [s \in Service |-> <<>>]
  /\ running_thread = [s \in Service |-> 1]
  /\ mode = [s \in Service |-> "start"]
  /\ closures = [s \in Service |-> {}]

-----------------------------------------------------------------------------
(* Helpers *)

Running(s) == running_thread[s] # 0
Runs(s, f) == Running(s) /\ f \in Script[s]
Me(s) == running_thread[s]

\* Starnet::Send: what is sent to an id that is gone is dropped.
Deliver(d, m) ==
  mq' = IF d \in services THEN [mq EXCEPT ![d] = Append(@, m)] ELSE mq

\* The ways in which coroutine c of s can be resumed
Places(s, c) ==
  {<<"pool", i>> : i \in {i \in DOMAIN coroutine_pool[s] : coroutine_pool[s][i] = c}}
  \cup {<<"fork", i>> : i \in {i \in DOMAIN fork_queue[s] : fork_queue[s][i] = c}}
  \cup {<<"session", n>> : n \in {n \in DOMAIN session_id_coroutine[s] :
                                    session_id_coroutine[s][n] = c}}
  \cup (IF running_thread[s] = c THEN {<<"running", 0>>} ELSE {})

\* co_create: the coroutine recycled last, else a new one
NextCo(s) ==
  IF coroutine_pool[s] # <<>> THEN Last(coroutine_pool[s])
  ELSE CHOOSE c \in Co : Places(s, c) = {}
CoCreate(s) ==
  coroutine_pool' = [coroutine_pool EXCEPT ![s] = IF @ = <<>> THEN @ ELSE Front(@)]

\* The coroutine that runs yields, ends or fails: back to suspend and, after
\* dispatch_message only, to the loop over fork_queue.
Back(s) ==
  /\ running_thread' = [running_thread EXCEPT ![s] = 0]
  /\ mode' = [mode EXCEPT ![s] = IF @ \in {"message", "forks"} THEN "forks"
                                                               ELSE "idle"]

\* session_id_coroutine[n] = c and session_id_coroutine[n] = nil
Await(s, n, c) ==
  session_id_coroutine' = [session_id_coroutine EXCEPT ![s] =
    [k \in DOMAIN @ \cup {n} |-> IF k = n THEN c ELSE @[k]]]
Forget(s, n) ==
  session_id_coroutine' = [session_id_coroutine EXCEPT ![s] =
    [k \in DOMAIN @ \ {n} |-> @[k]]]

\* genid
NewSession(s) ==
  /\ sessionGen[s] < MaxSession
  /\ sessionGen' = [sessionGen EXCEPT ![s] = @ + 1]

-----------------------------------------------------------------------------
(* Dispatch of a message: Service::OnMsg, dispatch_message, dispatch_socket *)

Take(s, type) ==
  /\ s \notin exited
  /\ mode[s] = "idle"
  /\ mq[s] # <<>>
  /\ Head(mq[s]).type = type
  /\ mq' = [mq EXCEPT ![s] = Tail(@)]

\* Bug: the session stays registered.
DispatchResponse_Keep(s) ==
  LET n == Head(mq[s]).session
      waits == n \in DOMAIN session_id_coroutine[s] IN
  /\ Take(s, "RESPONSE")
  /\ running_thread' = [running_thread EXCEPT ![s] =
                          IF waits THEN session_id_coroutine[s][n] ELSE 0]
  /\ mode' = [mode EXCEPT ![s] = IF waits THEN "message" ELSE "forks"]
  /\ UNCHANGED <<envVars, handler, sessionGen, coroutine_pool, ctxVars, fork_queue,
                 closures, session_id_coroutine>>

\* A response or a timeout resumes the coroutine that waits for its session.
DispatchResponse(s) ==
  LET n == Head(mq[s]).session
      waits == n \in DOMAIN session_id_coroutine[s] IN
  /\ Take(s, "RESPONSE")
  /\ Forget(s, n)
  /\ running_thread' = [running_thread EXCEPT ![s] =
                          IF waits THEN session_id_coroutine[s][n] ELSE 0]
  /\ mode' = [mode EXCEPT ![s] = IF waits THEN "message" ELSE "forks"]
  /\ UNCHANGED <<envVars, handler, sessionGen, coroutine_pool, ctxVars, fork_queue,
                 closures>>

\* The context a coroutine gets before it first runs f
Begin(s, m, md) ==
  LET c == NextCo(s) IN
  /\ CoCreate(s)
  /\ session_coroutine_id' = [session_coroutine_id EXCEPT ![s][c] = m.session]
  /\ session_coroutine_address' =
       [session_coroutine_address EXCEPT ![s][c] = m.source]
  /\ running_thread' = [running_thread EXCEPT ![s] = c]
  /\ mode' = [mode EXCEPT ![s] = md]

\* A request gets a coroutine; without a handler it is dropped unanswered.
DispatchLua(s) ==
  /\ Take(s, "LUA")
  /\ IF s \in handler
       THEN Begin(s, Head(mq[s]), "message")
       ELSE /\ mode' = [mode EXCEPT ![s] = "forks"]
            /\ UNCHANGED <<coroutine_pool, ctxVars, running_thread>>
  /\ UNCHANGED <<envVars, handler, sessionGen, session_id_coroutine,
                 fork_queue, closures>>

\* dispatch_socket: a coroutine for the event's handler, if it has one
DispatchSocket(s) ==
  /\ Take(s, "SOCKET")
  /\ \/ Begin(s, Head(mq[s]), "socket")
     \/ UNCHANGED <<coroutine_pool, ctxVars, running_thread, mode>>
  /\ UNCHANGED <<envVars, handler, sessionGen, session_id_coroutine,
                 fork_queue, closures>>

\* Service::OnMsg has no branch for PTYPE_ERROR.
DispatchError(s) ==
  /\ Take(s, "ERROR")
  /\ UNCHANGED <<envVars, ownVars>>

\* Bug: the newest forked coroutine runs first.
RunFork_Newest(s) ==
  /\ mode[s] = "forks"
  /\ ~ Running(s)
  /\ IF fork_queue[s] = <<>>
       THEN /\ mode' = [mode EXCEPT ![s] = "idle"]
            /\ UNCHANGED <<running_thread, fork_queue>>
       ELSE /\ running_thread' = [running_thread EXCEPT ![s] = Last(fork_queue[s])]
            /\ fork_queue' = [fork_queue EXCEPT ![s] = Front(@)]
            /\ UNCHANGED mode
  /\ UNCHANGED <<envVars, mq, handler, sessionGen, coroutine_pool,
                 session_id_coroutine, ctxVars, closures>>

\* The loop of dispatch_message over fork_queue
RunFork(s) ==
  /\ mode[s] = "forks"
  /\ ~ Running(s)
  /\ IF fork_queue[s] = <<>>
       THEN /\ mode' = [mode EXCEPT ![s] = "idle"]
            /\ UNCHANGED <<running_thread, fork_queue>>
       ELSE /\ running_thread' = [running_thread EXCEPT ![s] = Head(fork_queue[s])]
            /\ fork_queue' = [fork_queue EXCEPT ![s] = Tail(@)]
            /\ UNCHANGED mode
  /\ UNCHANGED <<envVars, mq, handler, sessionGen, coroutine_pool,
                 session_id_coroutine, ctxVars, closures>>

-----------------------------------------------------------------------------
(* What the coroutine that runs in s may do *)

\* starnet.dispatch("lua", f)
SetHandler(s) ==
  /\ Runs(s, "dispatch")
  /\ handler' = handler \cup {s}
  /\ UNCHANGED <<envVars, mq, sessionGen, coroutine_pool, session_id_coroutine,
                 ctxVars, fork_queue, running_thread, mode, closures>>

\* starnet.send: session 0
SendMsg(s, d) ==
  /\ Runs(s, "send")
  /\ events < MaxEvents
  /\ events' = events + 1
  /\ Deliver(d, [type |-> "LUA", source |-> s, session |-> 0])
  /\ UNCHANGED <<services, exited, timers, ownVars>>

\* starnet.call up to the yield of yield_call
Call(s, d) ==
  /\ Runs(s, "call")
  /\ NewSession(s)
  /\ Deliver(d, [type |-> "LUA", source |-> s, session |-> sessionGen[s] + 1])
  /\ Await(s, sessionGen[s] + 1, Me(s))
  /\ Back(s)
  /\ UNCHANGED <<envVars, handler, coroutine_pool, ctxVars, fork_queue, closures>>

\* What the tables say of a coroutine is out of reach once nothing resumes it.
ClearContext(s, c) ==
  /\ session_coroutine_id' = [session_coroutine_id EXCEPT ![s][c] = Nil]
  /\ session_coroutine_address' = [session_coroutine_address EXCEPT ![s][c] = Nil]

\* The coroutine fails: it is not recycled, and nobody is told.
Fail(s) ==
  /\ Running(s)
  /\ ClearContext(s, Me(s))
  /\ Back(s)
  /\ UNCHANGED <<envVars, mq, handler, sessionGen, coroutine_pool,
                 session_id_coroutine, fork_queue, closures>>

\* starnet.exit: the service is killed and the coroutine yields for good.
ExitSelf(s) ==
  /\ Runs(s, "exit")
  /\ services' = services \ {s}
  /\ ClearContext(s, Me(s))
  /\ Back(s)
  /\ UNCHANGED <<exited, timers, events, mq, handler, sessionGen,
                 coroutine_pool, session_id_coroutine, fork_queue, closures>>

\* Bug: the session is not cleared once it is answered.
Ret_Keep(s) ==
  LET n == session_coroutine_id[s][Me(s)] IN
  /\ Runs(s, "ret")
  /\ n # Nil
  /\ IF n = 0
       THEN UNCHANGED mq
       ELSE Deliver(session_coroutine_address[s][Me(s)],
                    [type |-> "RESPONSE", source |-> s, session |-> n])
  /\ UNCHANGED <<envVars, ownVars>>

\* starnet.ret.  Without a session it raises an error: that is Fail.
Ret(s) ==
  LET n == session_coroutine_id[s][Me(s)] IN
  /\ Runs(s, "ret")
  /\ n # Nil
  /\ session_coroutine_id' = [session_coroutine_id EXCEPT ![s][Me(s)] = Nil]
  /\ IF n = 0
       THEN UNCHANGED mq
       ELSE Deliver(session_coroutine_address[s][Me(s)],
                    [type |-> "RESPONSE", source |-> s, session |-> n])
  /\ UNCHANGED <<envVars, handler, sessionGen, coroutine_pool, session_id_coroutine,
                 session_coroutine_address, fork_queue, running_thread, mode,
                 closures>>

\* starnet.response: the right to answer moves into a function.
Response(s) ==
  LET n == session_coroutine_id[s][Me(s)] IN
  /\ Runs(s, "response")
  /\ n # Nil
  /\ session_coroutine_id' = [session_coroutine_id EXCEPT ![s][Me(s)] = Nil]
  /\ closures' = IF n = 0 THEN closures
                 ELSE [closures EXCEPT ![s] =
                        @ \cup {<<session_coroutine_address[s][Me(s)], n>>}]
  /\ UNCHANGED <<envVars, mq, handler, sessionGen, coroutine_pool,
                 session_id_coroutine, session_coroutine_address, fork_queue,
                 running_thread, mode>>

\* Any coroutine of the service calls that function; it works once.
Answer(s) ==
  /\ Runs(s, "response")
  /\ \E r \in closures[s] :
       /\ Deliver(r[1], [type |-> "RESPONSE", source |-> s, session |-> r[2]])
       /\ closures' = [closures EXCEPT ![s] = @ \ {r}]
  /\ UNCHANGED <<envVars, handler, sessionGen, coroutine_pool, session_id_coroutine,
                 ctxVars, fork_queue, running_thread, mode>>

\* auxtimeout
SetTimer(s) == timers' = timers \cup {<<s, sessionGen[s] + 1>>}

Sleep(s) ==
  /\ Runs(s, "sleep")
  /\ NewSession(s)
  /\ SetTimer(s)
  /\ Await(s, sessionGen[s] + 1, Me(s))
  /\ Back(s)
  /\ UNCHANGED <<services, exited, events, mq, handler, coroutine_pool, ctxVars,
                 fork_queue, closures>>

\* starnet.timeout: a new coroutine waits for the session.
Timeout(s) ==
  /\ Runs(s, "timeout")
  /\ NewSession(s)
  /\ SetTimer(s)
  /\ CoCreate(s)
  /\ Await(s, sessionGen[s] + 1, NextCo(s))
  /\ UNCHANGED <<services, exited, events, mq, handler, ctxVars, fork_queue,
                 running_thread, mode, closures>>

Fork(s) ==
  /\ Runs(s, "fork")
  /\ Len(fork_queue[s]) < MaxForks
  /\ CoCreate(s)
  /\ fork_queue' = [fork_queue EXCEPT ![s] = Append(@, NextCo(s))]
  /\ UNCHANGED <<envVars, mq, handler, sessionGen, session_id_coroutine,
                 ctxVars, running_thread, mode, closures>>

\* Bug: a recycled coroutine keeps the request it was working on.
Finish_Keep(s) ==
  /\ Running(s)
  /\ coroutine_pool' = [coroutine_pool EXCEPT ![s] = Append(@, Me(s))]
  /\ Back(s)
  /\ UNCHANGED <<envVars, mq, handler, sessionGen, ctxVars,
                 session_id_coroutine, fork_queue, closures>>

\* The function ends: the coroutine is cleared (if it has an address, which all
\* but those of fork and timeout have) and recycled.
Finish(s) ==
  LET c == Me(s) IN
  /\ Running(s)
  /\ IF session_coroutine_address[s][c] = Nil
       THEN UNCHANGED ctxVars
       ELSE ClearContext(s, c)
  /\ coroutine_pool' = [coroutine_pool EXCEPT ![s] = Append(@, c)]
  /\ Back(s)
  /\ UNCHANGED <<envVars, mq, handler, sessionGen,
                 session_id_coroutine, fork_queue, closures>>

-----------------------------------------------------------------------------
(* The surroundings *)

\* Starnet::KillService, by another service or by the shutdown
Kill(s) ==
  /\ s \in services
  /\ services' = services \ {s}
  /\ UNCHANGED <<exited, timers, events, mq, ownVars>>

\* The worker closes a killed service.
Exit(s) ==
  /\ s \notin services \cup exited
  /\ mode[s] = "idle"
  /\ exited' = exited \cup {s}
  /\ closures' = [closures EXCEPT ![s] = {}]
  /\ fork_queue' = [fork_queue EXCEPT ![s] = <<>>]
  /\ coroutine_pool' = [coroutine_pool EXCEPT ![s] = <<>>]
  /\ session_id_coroutine' = [session_id_coroutine EXCEPT ![s] = <<>>]
  /\ session_coroutine_id' = [session_coroutine_id EXCEPT ![s] = [c \in Co |-> Nil]]
  /\ session_coroutine_address' =
       [session_coroutine_address EXCEPT ![s] = [c \in Co |-> Nil]]
  /\ UNCHANGED <<services, timers, events, mq, handler, sessionGen,
                 running_thread, mode>>

\* Clear and dropMessage: a request or a response left in the queue of a closed
\* service is answered with an error.
dropMessage(s) ==
  LET m == Head(mq[s])
      told(d) == d \in services /\ d = m.source /\ m.type # "SOCKET"
      err == [type |-> "ERROR", source |-> NoId, session |-> m.session]
  IN
  /\ s \in exited
  /\ mq[s] # <<>>
  /\ mq' = [d \in Service |-> IF d = s THEN Tail(mq[d])
                              ELSE IF told(d) THEN Append(mq[d], err) ELSE mq[d]]
  /\ UNCHANGED <<envVars, ownVars>>

\* The timer delivers (module Timer says when).
TimerFires(s, n) ==
  /\ <<s, n>> \in timers
  /\ timers' = timers \ {<<s, n>>}
  /\ Deliver(s, [type |-> "RESPONSE", source |-> NoId, session |-> n])
  /\ UNCHANGED <<services, exited, events, ownVars>>

\* The socket thread delivers an event.
SocketEvent(s) ==
  /\ events < MaxEvents
  /\ events' = events + 1
  /\ Deliver(s, [type |-> "SOCKET", source |-> NoId, session |-> 0])
  /\ UNCHANGED <<services, exited, timers, ownVars>>

-----------------------------------------------------------------------------
LuaStep(s) ==
  \/ SetHandler(s) \/ Fail(s) \/ Ret(s) \/ Response(s) \/ Answer(s)
  \/ Sleep(s) \/ Timeout(s) \/ Fork(s) \/ Finish(s) \/ ExitSelf(s)
  \/ \E d \in Service : SendMsg(s, d) \/ Call(s, d)

DispatchStep(s) ==
  \/ DispatchResponse(s) \/ DispatchLua(s) \/ DispatchSocket(s)
  \/ DispatchError(s) \/ RunFork(s)

Next ==
  \E s \in Service :
    \/ LuaStep(s) \/ DispatchStep(s)
    \/ Kill(s) \/ Exit(s) \/ dropMessage(s) \/ SocketEvent(s)
    \/ \E n \in Session : TimerFires(s, n)

Spec == Init /\ [][Next]_vars

\* Workers keep dispatching, handlers do not run for ever, and the worker that
\* closes a service empties its queue.
Fairness ==
  \A s \in Service :
    /\ WF_vars(LuaStep(s)) /\ WF_vars(DispatchStep(s))
    /\ WF_vars(Exit(s)) /\ WF_vars(dropMessage(s))

LiveSpec == Spec /\ Fairness

-----------------------------------------------------------------------------
(* Properties *)

\* The types of the tables of starnet.lua, as DispatchResponse, Ret and Finish leave them.
TypeOK ==
  /\ services \subseteq Service
  /\ exited \subseteq Service \ services
  /\ mq \in [Service -> Seq(Message)]
  /\ timers \subseteq Service \X Session
  /\ events \in 0..MaxEvents
  /\ handler \subseteq Service
  /\ sessionGen \in [Service -> 0..MaxSession]
  /\ coroutine_pool \in [Service -> Seq(Co)]
  /\ \A s \in Service : /\ DOMAIN session_id_coroutine[s] \subseteq Session
                        /\ Range(session_id_coroutine[s]) \subseteq Co
  /\ session_coroutine_id \in [Service -> [Co -> 0..MaxSession \cup {Nil}]]
  /\ session_coroutine_address \in
       [Service -> [Co -> Service \cup {NoId, Nil}]]
  /\ fork_queue \in [Service -> Seq(Co)]
  /\ running_thread \in [Service -> {0} \cup Co]
  /\ mode \in [Service -> {"start", "idle", "message", "socket", "forks"}]
  /\ closures \in [Service -> SUBSET (Service \X Session)]

\* A coroutine is never recycled while it waits, never awaited twice, never
\* resumed while it runs: at each moment one table at most leads to it.  (With the
\* types.)
OnePlacePerCoroutine ==
  /\ TypeOK
  /\ \A s \in Service, c \in Co : Cardinality(Places(s, c)) <= 1

\* What can still lead to a response for session n of service s: a timer,
AnswerInTimer(s, n) == {<<"timer", s>> : t \in timers \cap {<<s, n>>}}

\* the request or the response itself, in the queue of service d,
AnswerQueued(d, s, n) ==
  {<<d, "queued", i>> : i \in {i \in DOMAIN mq[d] :
     /\ mq[d][i].session = n
     /\ \/ mq[d][i].type = "LUA" /\ mq[d][i].source = s
        \/ mq[d][i].type = "RESPONSE" /\ d = s}}

\* a closure of starnet.response kept for later,
AnswerInClosure(s, n) ==
  {<<d, "closure">> : d \in {d \in Service : <<s, n>> \in closures[d]}}

\* a coroutine of service d that handles the request
AnswerInCo(d, s, n) ==
  {<<d, "coroutine", c>> : c \in {c \in Co :
     /\ session_coroutine_id[d][c] = n
     /\ session_coroutine_address[d][c] = s
     /\ Places(d, c) # {}}}

Answers(s, n) ==
  (UNION {AnswerQueued(d, s, n) \cup AnswerInCo(d, s, n) : d \in Service})
    \cup AnswerInTimer(s, n) \cup AnswerInClosure(s, n)

\* A request is answered at most once, and as long as an answer can come the
\* coroutine that asked is still registered under that session: no response
\* finds nobody, or somebody else.
AnswersAreAwaited ==
  \A s \in Service \ exited, n \in Session :
    /\ Cardinality(Answers(s, n)) <= 1
    /\ Answers(s, n) # {} => n \in DOMAIN session_id_coroutine[s]

\* A coroutine from the pool does not inherit the request of the handler it ran
\* before, so a forked function can not answer in that handler's name.
PoolIsClean ==
  \A s \in Service, c \in Co :
    Contains(coroutine_pool[s], c) \/ Contains(fork_queue[s], c)
      => session_coroutine_id[s][c] = Nil

Forked(s, c) == Contains(fork_queue[s], c)

\* A forked coroutine runs once a lua message or a response has been or will be
\* dispatched, even if forked functions keep forking.
ForksRun ==
  \A s \in Service, c \in Co :
    /\ Forked(s, c)
    /\ \/ mode[s] \in {"message", "forks"}
       \/ \E i \in DOMAIN mq[s] : mq[s][i].type \in {"LUA", "RESPONSE"}
    ~> ~ Forked(s, c)

-----------------------------------------------------------------------------
(* Claims of the comments and of the guide that the code does not meet *)

\* starnet_worker.cpp, dropMessage: the answer PTYPE_ERROR "lets the coroutine
\* that waits in call fail".
ErrorWakesCaller ==
  \A s \in Service, n \in Session :
    /\ \E i \in DOMAIN mq[s] : mq[s][i].type = "ERROR" /\ mq[s][i].session = n
    /\ n \in DOMAIN session_id_coroutine[s]
    ~> n \notin DOMAIN session_id_coroutine[s]

\* The same comment: PTYPE_ERROR goes to the sender and keeps the session, for
\* "the coroutine that waits in call".  So it names a session its receiver waits on.
ErrorsNameTheCaller ==
  \A s \in Service \ exited : \A i \in DOMAIN mq[s] :
    mq[s][i].type = "ERROR" /\ mq[s][i].session > 0
      => mq[s][i].session \in DOMAIN session_id_coroutine[s]

\* missing-skynet-modules.md: for sleep, fork and timeout alike "the expiry of a
\* timer posts the RESPONSE that resumes the coroutine".  So a forked function
\* needs no other message to run.
ForkNeedsNoMessage ==
  \A s \in Service, c \in Co : Forked(s, c) ~> ~ Forked(s, c)
=============================================================================

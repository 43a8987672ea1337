-------------------------- MODULE Dispatch_proofs --------------------------
(***************************************************************************)
(* Proofs about Dispatch, for any number of workers, threads, services and *)
(* messages.                                                               *)
(***************************************************************************)
EXTENDS Dispatch, TLAPS

\* The number of messages of a turn is a natural number for every weight of
\* StartWorker's table.
LEMMA BatchNat ==
  ASSUME NEW w \in Worker, NEW len \in Nat
  PROVE  Batch(w, len) \in Nat
<1>1. Weight[w] \in -1..3
  BY DispatchAssumption
<1>2. CASE Weight[w] < 0
  BY <1>2 DEF Batch
<1>3. CASE Weight[w] = 0
  BY <1>3 DEF Batch
<1>4. CASE Weight[w] = 1
  BY <1>4 DEF Batch
<1>5. CASE Weight[w] = 2
  BY <1>5 DEF Batch
<1>6. CASE Weight[w] = 3
  BY <1>6 DEF Batch
<1> QED
  BY <1>1, <1>2, <1>3, <1>4, <1>5, <1>6

\* A message built by Send is a message, in the bound of the model.
LEMMA NewMsgType ==
  ASSUME TypeOK, NEW t \in Thread, sent < MaxMsgs
  PROVE  NewMsg(t) \in Message
<1>1. Self(t) \in Service \cup {NoId}
  <2>1. initStack[t] \in Seq(Service)
    BY DEF TypeOK
  <2>2. CASE initStack[t] # <<>>
    <3>1. Len(initStack[t]) \in 1..Len(initStack[t])
      BY <2>1, <2>2
    <3> QED
      BY <2>1, <2>2, <3>1 DEF Self
  <2>3. CASE initStack[t] = <<>> /\ t \in Worker
    BY <2>3 DEF Self, TypeOK
  <2>4. CASE initStack[t] = <<>> /\ t \notin Worker
    BY <2>4 DEF Self
  <2> QED
    BY <2>2, <2>3, <2>4
<1>2. sent + 1 \in 0..MaxMsgs
  BY DispatchAssumption DEF TypeOK
<1> QED
  BY <1>1, <1>2 DEF NewMsg, Message, MsgType

\* NoMsg and Idle have the types of what they stand in for.
LEMMA NoMsgType == NoMsg \in Message /\ Idle \in CallRec
  BY DispatchAssumption DEF NoMsg, Idle, Message, MsgType, CallRec

\* A thread inside Send or KillService has a service as its destination.
LEMMA CallType ==
  ASSUME TypeOK, NEW t \in Thread, call[t].op # "idle"
  PROVE  call[t] \in [op : Op, dst : Service, msg : Message]
  BY DEF TypeOK, CallRec, Idle

\* A worker that is not at the pop has a service, and its queue is a queue.
LEMMA HeldType ==
  ASSUME TypeOK, NEW w \in Worker, pc[w] # "pop"
  PROVE  srv[w] \in Service /\ msgQueue[srv[w]] \in Seq(Message)
  BY DEF TypeOK

\* The initial state (no thread has begun, every queue empty) has the declared types.
LEMMA InitType == Init => TypeOK
  BY NoMsgType, DispatchAssumption DEF Init, TypeOK, PC

\* Every step of a worker, of an external thread or of Clear keeps the types.
LEMMA NextType == TypeOK /\ [Next]_vars => TypeOK'
<1> SUFFICES ASSUME TypeOK, [Next]_vars
             PROVE  TypeOK'
  OBVIOUS
<1> USE NoMsgType DEF TypeOK, tableVars, flagVars, workerVars
<1>1. ASSUME NEW t \in Thread, NEW s \in Service, Send(t, s)
      PROVE  TypeOK'
  <2>1. NewMsg(t) \in Message
    BY <1>1, NewMsgType DEF Send
  <2>2. [op |-> "push", dst |-> s, msg |-> NewMsg(t)] \in CallRec
    BY <2>1 DEF CallRec, Op
  <2>3. sent' \in 0..MaxMsgs
    BY <1>1, DispatchAssumption DEF Send
  <2> QED
    BY <1>1, <2>2, <2>3 DEF Send, SetCall
<1>2. ASSUME NEW t \in Thread, NEW s \in Service, KillService(t, s)
      PROVE  TypeOK'
  BY <1>2 DEF KillService, SetCall, CallRec, Op
<1>3. ASSUME NEW t \in Thread, NEW s \in Service, NewService(t, s)
      PROVE  TypeOK'
  BY <1>3 DEF NewService
<1>4. ASSUME NEW t \in Thread, Push(t)
      PROVE  TypeOK'
  <2>1. call[t] \in [op : Op, dst : Service, msg : Message]
    BY <1>4, CallType DEF Push
  <2>2. [call[t] EXCEPT !.op = "enter", !.msg = NoMsg] \in CallRec
    BY <2>1 DEF CallRec, Op
  <2>3. msgQueue' \in [Service -> Seq(Message)]
    BY <1>4, <2>1 DEF Push
  <2> QED
    BY <1>4, <2>2, <2>3 DEF Push, SetCall
<1>5. ASSUME NEW t \in Thread, EnterGlobal(t)
      PROVE  TypeOK'
  <2>1. call[t].dst \in Service
    BY <1>5, CallType DEF EnterGlobal
  <2>2. globalQueue' \in Seq(Service) /\ inGlobal' \in [Service -> BOOLEAN]
    BY <1>5, <2>1 DEF EnterGlobal, TryEnterGlobal
  <2> QED
    BY <1>5, <2>2 DEF EnterGlobal, SetCall
<1>6. ASSUME NEW t \in Thread, KillErase(t)
      PROVE  TypeOK'
  <2>1. call[t] \in [op : Op, dst : Service, msg : Message]
    BY <1>6, CallType DEF KillErase
  <2>2. [call[t] EXCEPT !.op = "mark"] \in CallRec
    BY <2>1 DEF CallRec, Op
  <2> QED
    BY <1>6, <2>2 DEF KillErase, SetCall
<1>7. ASSUME NEW t \in Thread, KillMark(t)
      PROVE  TypeOK'
  <2>1. call[t] \in [op : Op, dst : Service, msg : Message]
    BY <1>7, CallType DEF KillMark
  <2>2. [call[t] EXCEPT !.op = "enter"] \in CallRec
    BY <2>1 DEF CallRec, Op
  <2> QED
    BY <1>7, <2>2 DEF KillMark, SetCall
<1>8. ASSUME NEW t \in Thread, EndInit(t)
      PROVE  TypeOK'
  BY <1>8 DEF EndInit
<1>9. ASSUME NEW w \in Worker, WorkerStep(w)
      PROVE  TypeOK'
  <2>1. CASE PopGlobal(w)
    <3>1. Head(globalQueue) \in Service /\ Tail(globalQueue) \in Seq(Service)
      BY <2>1 DEF PopGlobal
    <3> QED
      BY <2>1, <3>1, DispatchAssumption DEF PopGlobal, PC
  <2>2. CASE StartBatch(w)
    <3>1. Len(msgQueue[srv[w]]) \in Nat
      BY <2>2, HeldType DEF StartBatch
    <3>2. Batch(w, Len(msgQueue[srv[w]])) \in Nat
      BY <3>1, BatchNat
    <3> QED
      BY <2>2, <3>2 DEF StartBatch, PC
  <2>3. CASE ProcessMsg(w)
    <3>1. srv[w] \in Service /\ Tail(msgQueue[srv[w]]) \in Seq(Message)
      BY <2>3, HeldType DEF ProcessMsg
    <3>2. left[w] - 1 \in Nat
      BY <2>3 DEF ProcessMsg
    <3>3. OnMsg(Head(msgQueue[srv[w]])) \in {"handle", "msg"}
      BY DEF OnMsg
    <3> QED
      BY <2>3, <3>1, <3>2, <3>3 DEF ProcessMsg, PC
  <2>4. CASE EndMsg(w)
    BY <2>4 DEF EndMsg, PC
  <2>5. CASE EndBatch(w)
    BY <2>5 DEF EndBatch, PC
  <2>6. CASE CheckAndPutGlobal(w)
    BY <2>6 DEF CheckAndPutGlobal, PC
  <2>7. CASE FinishDispatch(w)
    <3>1. srv[w] \in Service
      BY <2>7, HeldType DEF FinishDispatch
    <3>2. globalQueue' \in Seq(Service)
      <4>1. Append(globalQueue, srv[w]) \in Seq(Service)
        BY <3>1
      <4> QED
        BY <2>7, <4>1 DEF FinishDispatch
    <3>3. inGlobal' \in [Service -> BOOLEAN]
      <4>1. [inGlobal EXCEPT ![srv[w]] = FALSE] \in [Service -> BOOLEAN]
        OBVIOUS
      <4> QED
        BY <2>7, <4>1 DEF FinishDispatch
    <3> QED
      BY <2>7, <3>2, <3>3 DEF FinishDispatch, Release, PC
  <2>8. CASE OnExit(w)
    BY <2>8 DEF OnExit, PC
  <2>9. CASE ClearOne(w)
    <3> DEFINE m == Head(msgQueue[srv[w]])
    <3>1. /\ srv[w] \in Service
          /\ Tail(msgQueue[srv[w]]) \in Seq(Message)
          /\ m \in Message
      BY <2>9, HeldType DEF ClearOne
    <3>2. [NoMsg EXCEPT !.session = m.session] \in Message
      BY <3>1 DEF Message, NoMsg
    <3>3. call' \in [Thread -> CallRec]
      <4> DEFINE c == [op |-> "push", dst |-> m.source,
                       msg |-> [NoMsg EXCEPT !.session = m.session]]
      <4>1. ASSUME m.source \in services
            PROVE  c \in CallRec
        BY <3>2, <4>1 DEF CallRec, Op
      <4>2. ASSUME c \in CallRec
            PROVE  [call EXCEPT ![w] = c] \in [Thread -> CallRec]
        BY <4>2
      <4> QED
        BY <2>9, <4>1, <4>2 DEF ClearOne, dropMessage, SetCall
    <3> QED
      BY <2>9, <3>1, <3>3 DEF ClearOne
  <2>10. CASE EndClear(w)
    BY <2>10 DEF EndClear, Release, PC
  <2> QED
    BY <1>9, <2>1, <2>2, <2>3, <2>4, <2>5, <2>6, <2>7, <2>8, <2>9, <2>10
       DEF WorkerStep
<1>10. CASE UNCHANGED vars
  BY <1>10 DEF vars
<1> QED
  BY <1>1, <1>2, <1>3, <1>4, <1>5, <1>6, <1>7, <1>8, <1>9, <1>10
     DEF Next, CallStep, PopNull

\* Every state the core can reach has the declared types.
THEOREM TypeCorrect == Spec => []TypeOK
  BY InitType, NextType, PTL DEF Spec

-----------------------------------------------------------------------------
(* The inductive invariant *)

\* A step that lets no worker wait for a new lock makes no cycle.
LEMMA NoNewWait ==
  ASSUME NoLockCycle,
         \A w \in Worker, s \in Service, d \in Service :
           Waits(w, s, d)' => Waits(w, s, d)
  PROVE  NoLockCycle'
<1> SUFFICES ASSUME NEW C \in SUBSET Service, C # {}
             PROVE  \E s \in C : \A w \in Worker, d \in C : ~ Waits(w, s, d)'
  BY DEF NoLockCycle
<1>1. PICK s \in C : \A w \in Worker, d \in C : ~ Waits(w, s, d)
  BY DEF NoLockCycle
<1>2. \A w \in Worker, d \in C : ~ Waits(w, s, d)'
  BY <1>1
<1> QED
  BY <1>2

\* A registered service is not being cleared.
LEMMA RegisteredNotClearing ==
  ASSUME IInv, NEW s \in services, NEW w \in Worker
  PROVE  ~ Clearing(w, s)
  BY DEF IInv, TypeOK, Located, Retiring, Clearing

\* The inductive invariant holds before any worker has started.
LEMMA InitInv == Init => IInv
<1> SUFFICES ASSUME Init
             PROVE  IInv
  OBVIOUS
<1>1. TypeOK
  BY InitType
<1>2. NoLockCycle
  <2>1. \A w \in Worker, s \in Service, d \in Service : ~ Waits(w, s, d)
    BY DEF Init, Waits, Clearing
  <2> QED
    BY <2>1 DEF NoLockCycle
<1>3. Marked /\ OneWorkerPerService
  BY DEF Init, Marked, OneWorkerPerService
<1>4. Located
  BY DEF Init, Located, Thread
<1>5. Retiring
  BY DEF Init, Retiring, Idle
<1>6. NoLostMessage /\ ClosedForGood
  BY DEF Init, NoLostMessage, ClosedForGood
<1> QED
  BY <1>1, <1>2, <1>3, <1>4, <1>5, <1>6 DEF IInv

\* What no conjunct mentions cannot disturb it.
LEMMA FrameMarked ==
  ASSUME Marked, UNCHANGED <<globalQueue, inGlobal, srv>>
  PROVE  Marked'
  BY DEF Marked

\* Located survives a step that leaves the variables it reads alone.
LEMMA FrameLocated ==
  ASSUME Located, UNCHANGED <<pc, srv, exited, initStack>>
  PROVE  Located'
  BY DEF Located

\* Retiring survives a step that leaves the variables it reads alone.
LEMMA FrameRetiring ==
  ASSUME Retiring, UNCHANGED <<services, created, isExiting, exited, call>>
  PROVE  Retiring'
  BY DEF Retiring

\* OneWorkerPerService survives a step that leaves the variables it reads alone.
LEMMA FrameOneWorkerPerService ==
  ASSUME OneWorkerPerService, UNCHANGED <<globalQueue, srv>>
  PROVE  OneWorkerPerService'
  BY DEF OneWorkerPerService

\* NoLostMessage survives a step that leaves the variables it reads alone.
LEMMA FrameNoLostMessage ==
  ASSUME NoLostMessage, UNCHANGED <<msgQueue, inGlobal, exited, call>>
  PROVE  NoLostMessage'
  BY DEF NoLostMessage, Entering

\* ClosedForGood survives a step that leaves the variables it reads alone.
LEMMA FrameClosedForGood ==
  ASSUME ClosedForGood, UNCHANGED <<exited, inGlobal, globalQueue, pc, srv>>
  PROVE  ClosedForGood'
  BY DEF ClosedForGood

\* NoLockCycle survives a step that leaves the variables it reads alone.
LEMMA FrameNoLockCycle ==
  ASSUME NoLockCycle, UNCHANGED <<pc, srv, call>>
  PROVE  NoLockCycle'
  BY DEF NoLockCycle, Waits, Clearing

\* A step keeps the promise of NoLostMessage when it keeps queues and marks and
\* takes no thread away from its TryEnterGlobal.
LEMMA KeepsScheduled ==
  ASSUME NoLostMessage, UNCHANGED <<msgQueue, inGlobal, exited>>,
         \A s \in Service : Entering(s) => Entering(s)'
  PROVE  NoLostMessage'
  BY DEF NoLostMessage

\* Send only starts a call of a thread that was in none.
LEMMA SendInv ==
  ASSUME IInv, TypeOK', NEW t \in Thread, NEW s \in Service, Send(t, s)
  PROVE  IInv'
<1> USE DEF Send, SetCall, CanCall, Idle, IInv, TypeOK, Thread,
           tableVars, flagVars, workerVars
<1>1. Marked' /\ Located' /\ OneWorkerPerService' /\ ClosedForGood'
  BY FrameMarked, FrameLocated, FrameOneWorkerPerService, FrameClosedForGood
<1>2. Retiring'
  <2>1. CASE s \in services
    <3>1. call' = [call EXCEPT ![t] = [op |-> "push", dst |-> s, msg |-> NewMsg(t)]]
      BY <2>1
    <3>2. /\ call'[t].op = "push" /\ call'[t].dst = s
          /\ \A u \in Thread \ {t} : call'[u] = call[u]
      BY <3>1
    <3> QED
      BY <2>1, <3>2 DEF Retiring
  <2>2. CASE s \notin services
    BY <2>2 DEF Retiring
  <2> QED
    BY <2>1, <2>2
<1>3. NoLostMessage'
  <2>1. \A u \in Thread : call[u].op = "enter" => call'[u] = call[u]
    OBVIOUS
  <2>2. \A x \in Service : Entering(x) => Entering(x)'
    BY <2>1 DEF Entering
  <2> QED
    BY <2>2, KeepsScheduled
<1>4. NoLockCycle'
  <2>1. \A v \in Worker, a \in Service, d \in Service :
          Waits(v, a, d)' => Waits(v, a, d)
    BY DEF Waits, Clearing, Located
  <2> QED
    BY <2>1, NoNewWait
<1> QED
  BY <1>1, <1>2, <1>3, <1>4

\* KillService only starts a call of a thread that was in none.
LEMMA KillServiceInv ==
  ASSUME IInv, TypeOK', NEW t \in Thread, NEW s \in Service, KillService(t, s)
  PROVE  IInv'
<1> USE DEF KillService, SetCall, CanCall, Idle, IInv, TypeOK, Thread,
           tableVars, flagVars, workerVars
<1>1. Marked' /\ Located' /\ OneWorkerPerService' /\ ClosedForGood'
  BY FrameMarked, FrameLocated, FrameOneWorkerPerService, FrameClosedForGood
<1>2. Retiring'
  BY DEF Retiring
<1>3. NoLostMessage'
  BY DEF NoLostMessage, Entering
<1>4. NoLockCycle'
  <2>1. \A v \in Worker, a \in Service, d \in Service :
          Waits(v, a, d)' => Waits(v, a, d)
    BY DEF Waits, Clearing
  <2> QED
    BY <2>1, NoNewWait
<1> QED
  BY <1>1, <1>2, <1>3, <1>4

\* NewService registers an id that was never used.
LEMMA NewServiceInv ==
  ASSUME IInv, TypeOK', NEW t \in Thread, NEW s \in Service, NewService(t, s)
  PROVE  IInv'
<1> USE DEF NewService, CanCall, IInv, TypeOK, Thread,
           tableVars, flagVars, workerVars
<1>1. Marked' /\ OneWorkerPerService' /\ NoLostMessage' /\ ClosedForGood' /\ NoLockCycle'
  BY FrameMarked, FrameOneWorkerPerService, FrameNoLostMessage, FrameClosedForGood, FrameNoLockCycle
<1>2. Located'
  BY DEF Located
<1>3. Retiring'
  BY DEF Retiring
<1> QED
  BY <1>1, <1>2, <1>3

\* Push leaves its thread between Push and TryEnterGlobal.
LEMMA PushInv ==
  ASSUME IInv, TypeOK', NEW t \in Thread, Push(t)
  PROVE  IInv'
<1> USE DEF Push, SetCall, IInv, TypeOK, Thread,
           tableVars, flagVars, workerVars
<1>1. Marked' /\ Located' /\ OneWorkerPerService' /\ ClosedForGood'
  BY FrameMarked, FrameLocated, FrameOneWorkerPerService, FrameClosedForGood
<1>2. Retiring'
  BY DEF Retiring
<1>3. NoLostMessage'
  BY DEF NoLostMessage, Entering
<1>4. NoLockCycle'
  <2>1. \A v \in Worker, a \in Service, d \in Service :
          Waits(v, a, d)' => Waits(v, a, d)
    BY DEF Waits, Clearing
  <2> QED
    BY <2>1, NoNewWait
<1> QED
  BY <1>1, <1>2, <1>3, <1>4

\* TryEnterGlobal queues a service that is nowhere else.
LEMMA EnterGlobalInv ==
  ASSUME IInv, TypeOK', NEW t \in Thread, EnterGlobal(t)
  PROVE  IInv'
<1> USE DEF EnterGlobal, TryEnterGlobal, SetCall, Idle, IInv, TypeOK, Thread,
           tableVars, flagVars, workerVars
<1>1. Located'
  BY FrameLocated
<1>2. Marked'
  BY DEF Marked
<1>3. Retiring'
  BY DEF Retiring
<1>4. OneWorkerPerService'
  BY DEF Marked, OneWorkerPerService
<1>5. NoLostMessage'
  BY DEF NoLostMessage, Entering
<1>6. ClosedForGood'
  BY DEF ClosedForGood
<1>7. NoLockCycle'
  <2>1. \A v \in Worker, a \in Service, d \in Service :
          Waits(v, a, d)' => Waits(v, a, d)
    BY DEF Waits, Clearing
  <2> QED
    BY <2>1, NoNewWait
<1> QED
  BY <1>1, <1>2, <1>3, <1>4, <1>5, <1>6, <1>7

\* Erasing an id only makes it unreachable.
LEMMA KillEraseInv ==
  ASSUME IInv, TypeOK', NEW t \in Thread, KillErase(t)
  PROVE  IInv'
<1> USE DEF KillErase, SetCall, IInv, TypeOK, Thread,
           tableVars, flagVars, workerVars
<1>1. Marked' /\ Located' /\ OneWorkerPerService' /\ ClosedForGood'
  BY FrameMarked, FrameLocated, FrameOneWorkerPerService, FrameClosedForGood
<1>2. Retiring'
  BY DEF Retiring
<1>3. NoLostMessage'
  BY DEF NoLostMessage, Entering
<1>4. NoLockCycle'
  <2>1. \A v \in Worker, a \in Service, d \in Service :
          Waits(v, a, d)' => Waits(v, a, d)
    BY DEF Waits, Clearing
  <2> QED
    BY <2>1, NoNewWait
<1> QED
  BY <1>1, <1>2, <1>3, <1>4

\* A service is marked after it was erased.
LEMMA KillMarkInv ==
  ASSUME IInv, TypeOK', NEW t \in Thread, KillMark(t)
  PROVE  IInv'
<1> USE DEF KillMark, SetCall, IInv, TypeOK, Thread,
           tableVars, flagVars, workerVars
<1>1. Marked' /\ Located' /\ OneWorkerPerService' /\ ClosedForGood'
  BY FrameMarked, FrameLocated, FrameOneWorkerPerService, FrameClosedForGood
<1>2. Retiring'
  BY DEF Retiring
<1>3. NoLostMessage'
  BY DEF NoLostMessage, Entering
<1>4. NoLockCycle'
  <2>1. \A v \in Worker, a \in Service, d \in Service :
          Waits(v, a, d)' => Waits(v, a, d)
    BY DEF Waits, Clearing
  <2> QED
    BY <2>1, NoNewWait
<1> QED
  BY <1>1, <1>2, <1>3, <1>4

\* The end of OnInit leaves the scheduling alone.
LEMMA EndInitInv ==
  ASSUME IInv, TypeOK', NEW t \in Thread, EndInit(t)
  PROVE  IInv'
<1> USE DEF EndInit, IInv, TypeOK, Thread,
           tableVars, flagVars, workerVars
<1>1. Marked' /\ Retiring' /\ OneWorkerPerService' /\ NoLostMessage' /\ ClosedForGood' /\ NoLockCycle'
  BY FrameMarked, FrameRetiring, FrameOneWorkerPerService, FrameNoLostMessage, FrameClosedForGood, FrameNoLockCycle
<1>2. Located'
  BY DEF Located
<1> QED
  BY <1>1, <1>2

\* The pop moves a service from the queue to one worker.
LEMMA PopGlobalInv ==
  ASSUME IInv, TypeOK', NEW w \in Worker, PopGlobal(w)
  PROVE  IInv'
<1> USE DEF PopGlobal, IInv, TypeOK, Thread,
           tableVars, flagVars, workerVars
<1>1. Retiring' /\ NoLostMessage'
  BY FrameRetiring, FrameNoLostMessage
<1>2. Marked'
  <2>1. /\ Len(globalQueue') = Len(globalQueue) - 1
        /\ \A i \in 1..Len(globalQueue') : globalQueue'[i] = globalQueue[i + 1]
        /\ Len(globalQueue) > 0 /\ srv'[w] = globalQueue[1]
    OBVIOUS
  <2>2. \A i \in 1..Len(globalQueue') : i + 1 \in 1..Len(globalQueue)
    BY <2>1
  <2>3. \A i \in 1..Len(globalQueue') : inGlobal'[globalQueue'[i]]
    BY <2>1, <2>2 DEF Marked
  <2>4. \A i, j \in 1..Len(globalQueue') : globalQueue'[i] = globalQueue'[j] => i = j
    <3> SUFFICES ASSUME NEW i \in 1..Len(globalQueue'), NEW j \in 1..Len(globalQueue'),
                        globalQueue'[i] = globalQueue'[j]
                 PROVE  i = j
      OBVIOUS
    <3>1. globalQueue[i + 1] = globalQueue[j + 1]
      BY <2>1
    <3>2. i + 1 = j + 1
      BY <2>2, <3>1 DEF Marked
    <3> QED
      BY <3>2
  <2>5. \A v \in Worker : srv'[v] # NoId => inGlobal'[srv'[v]]
    <3>1. inGlobal'[srv'[w]]
      BY <2>1 DEF Marked
    <3>2. \A v \in Worker \ {w} : srv'[v] = srv[v]
      OBVIOUS
    <3> QED
      BY <3>1, <3>2 DEF Marked
  <2> QED
    BY <2>3, <2>4, <2>5 DEF Marked
<1>3. Located'
  BY DEF ClosedForGood, Located
<1>4. OneWorkerPerService'
  <2>1. /\ Len(globalQueue') = Len(globalQueue) - 1
        /\ \A i \in 1..Len(globalQueue') : globalQueue'[i] = globalQueue[i + 1]
        /\ Len(globalQueue) > 0 /\ srv'[w] = globalQueue[1]
    OBVIOUS
  <2> QED
    BY <2>1 DEF Marked, OneWorkerPerService
<1>5. ClosedForGood'
  <2>1. /\ Len(globalQueue') = Len(globalQueue) - 1
        /\ \A i \in 1..Len(globalQueue') : globalQueue'[i] = globalQueue[i + 1]
        /\ Len(globalQueue) > 0 /\ srv'[w] = globalQueue[1]
    OBVIOUS
  <2> QED
    BY <2>1 DEF Marked, ClosedForGood
<1>6. NoLockCycle'
  <2>1. \A v \in Worker, a \in Service, d \in Service :
          Waits(v, a, d)' => Waits(v, a, d)
    BY DEF Waits, Clearing
  <2> QED
    BY <2>1, NoNewWait
<1> QED
  BY <1>1, <1>2, <1>3, <1>4, <1>5, <1>6

\* Reading the queue length schedules nothing.
LEMMA StartBatchInv ==
  ASSUME IInv, TypeOK', NEW w \in Worker, StartBatch(w)
  PROVE  IInv'
<1> USE DEF StartBatch, IInv, TypeOK, Thread,
           tableVars, flagVars, workerVars
<1>1. Marked' /\ Retiring' /\ OneWorkerPerService' /\ NoLostMessage'
  BY FrameMarked, FrameRetiring, FrameOneWorkerPerService, FrameNoLostMessage
<1>2. Located'
  BY DEF Located
<1>3. ClosedForGood'
  BY DEF ClosedForGood
<1>4. NoLockCycle'
  <2>1. \A v \in Worker, a \in Service, d \in Service :
          Waits(v, a, d)' => Waits(v, a, d)
    BY DEF Waits, Clearing
  <2> QED
    BY <2>1, NoNewWait
<1> QED
  BY <1>1, <1>2, <1>3, <1>4

\* ProcessMsg only takes a message out of the queue.
LEMMA ProcessMsgInv ==
  ASSUME IInv, TypeOK', NEW w \in Worker, ProcessMsg(w)
  PROVE  IInv'
<1> USE DEF ProcessMsg, OnMsg, IInv, TypeOK, Thread,
           tableVars, flagVars, workerVars
<1>1. Marked' /\ Retiring' /\ OneWorkerPerService'
  BY FrameMarked, FrameRetiring, FrameOneWorkerPerService
<1>2. Located'
  BY DEF Located
<1>3. NoLostMessage'
  BY DEF NoLostMessage, Entering
<1>4. ClosedForGood'
  BY DEF ClosedForGood
<1>5. NoLockCycle'
  <2>1. \A v \in Worker, a \in Service, d \in Service :
          Waits(v, a, d)' => Waits(v, a, d)
    BY DEF Waits, Clearing
  <2> QED
    BY <2>1, NoNewWait
<1> QED
  BY <1>1, <1>2, <1>3, <1>4, <1>5

\* The return of a handler schedules nothing.
LEMMA EndMsgInv ==
  ASSUME IInv, TypeOK', NEW w \in Worker, EndMsg(w)
  PROVE  IInv'
<1> USE DEF EndMsg, IInv, TypeOK, Thread,
           tableVars, flagVars, workerVars
<1>1. Marked' /\ Retiring' /\ OneWorkerPerService' /\ NoLostMessage'
  BY FrameMarked, FrameRetiring, FrameOneWorkerPerService, FrameNoLostMessage
<1>2. Located'
  BY DEF Located
<1>3. ClosedForGood'
  BY DEF ClosedForGood
<1>4. NoLockCycle'
  <2>1. \A v \in Worker, a \in Service, d \in Service :
          Waits(v, a, d)' => Waits(v, a, d)
    BY DEF Waits, Clearing
  <2> QED
    BY <2>1, NoNewWait
<1> QED
  BY <1>1, <1>2, <1>3, <1>4

\* The end of a turn schedules nothing.
LEMMA EndBatchInv ==
  ASSUME IInv, TypeOK', NEW w \in Worker, EndBatch(w)
  PROVE  IInv'
<1> USE DEF EndBatch, IInv, TypeOK, Thread,
           tableVars, flagVars, workerVars
<1>1. Marked' /\ Retiring' /\ OneWorkerPerService' /\ NoLostMessage'
  BY FrameMarked, FrameRetiring, FrameOneWorkerPerService, FrameNoLostMessage
<1>2. Located'
  BY DEF Located
<1>3. ClosedForGood'
  BY DEF ClosedForGood
<1>4. NoLockCycle'
  <2>1. \A v \in Worker, a \in Service, d \in Service :
          Waits(v, a, d)' => Waits(v, a, d)
    BY DEF Waits, Clearing
  <2> QED
    BY <2>1, NoNewWait
<1> QED
  BY <1>1, <1>2, <1>3, <1>4

\* A service that begins its exit is with one worker, and it had not exited.
LEMMA CheckAndPutGlobalInv ==
  ASSUME IInv, TypeOK', NEW w \in Worker, CheckAndPutGlobal(w)
  PROVE  IInv'
<1> USE DEF CheckAndPutGlobal, IInv, TypeOK, Thread,
           tableVars, flagVars, workerVars
<1>1. ~ exited[srv[w]] /\ srv[w] \in Service
  BY DEF ClosedForGood
<1>2. srv' = srv
  BY <1>1
<1>3. \/ pc' = [pc EXCEPT ![w] = "finish"] /\ exited' = exited
      \/ /\ pc' = [pc EXCEPT ![w] = "exit"]
         /\ exited' = [exited EXCEPT ![srv[w]] = TRUE]
         /\ isExiting[srv[w]]
  BY <1>1
<1>4. Marked' /\ OneWorkerPerService'
  BY <1>2 DEF Marked, OneWorkerPerService
<1>5. Located'
  BY <1>2, <1>3, <1>1 DEF Located
<1>6. Retiring'
  BY <1>3 DEF Retiring
<1>7. NoLostMessage'
  BY <1>3 DEF NoLostMessage, Entering
<1>8. ClosedForGood'
  <2>1. /\ inGlobal[srv[w]]
        /\ \A i \in 1..Len(globalQueue) : globalQueue[i] # srv[w]
        /\ \A v \in Worker : srv[v] = srv[w] => v = w
    BY <1>1, DispatchAssumption DEF Marked, OneWorkerPerService
  <2>2. CASE exited' = exited /\ pc' = [pc EXCEPT ![w] = "finish"]
    <3>1. \A v \in Worker : exited[srv[v]] => v # w /\ pc'[v] = pc[v]
      BY <1>1, <2>2
    <3> QED
      BY <1>2, <2>2, <3>1 DEF ClosedForGood
  <2>3. CASE /\ pc' = [pc EXCEPT ![w] = "exit"]
             /\ exited' = [exited EXCEPT ![srv[w]] = TRUE]
    <3> SUFFICES ASSUME NEW s \in Service, exited'[s]
                 PROVE  /\ inGlobal[s]
                        /\ \A i \in 1..Len(globalQueue) : globalQueue[i] # s
                        /\ \A v \in Worker :
                             srv[v] = s => pc'[v] \in {"exit", "clear"}
      BY <1>2 DEF ClosedForGood
    <3>1. CASE s = srv[w]
      BY <2>1, <2>3, <3>1
    <3>2. CASE s # srv[w]
      BY <2>3, <3>2 DEF ClosedForGood
    <3> QED
      BY <3>1, <3>2
  <2> QED
    BY <1>3, <2>2, <2>3
<1>9. NoLockCycle'
  <2>1. \A v \in Worker, a \in Service, d \in Service :
          Waits(v, a, d)' => Waits(v, a, d)
    BY <1>2, <1>3 DEF Waits, Clearing
  <2> QED
    BY <2>1, NoNewWait
<1> QED
  BY <1>4, <1>5, <1>6, <1>7, <1>8, <1>9

\* FinishDispatch clears inGlobal of a service that is nowhere else and has no message.
LEMMA FinishDispatchInv ==
  ASSUME IInv, TypeOK', NEW w \in Worker, FinishDispatch(w)
  PROVE  IInv'
<1> USE DEF FinishDispatch, Release, IInv, TypeOK, Thread,
           tableVars, flagVars, workerVars
<1>1. /\ srv[w] \in Service
      /\ ~ exited[srv[w]]
      /\ inGlobal[srv[w]]
      /\ \A i \in 1..Len(globalQueue) : globalQueue[i] # srv[w]
      /\ \A v \in Worker : srv[v] = srv[w] => v = w
  BY DispatchAssumption DEF ClosedForGood, Marked, OneWorkerPerService
<1>2. srv' = [srv EXCEPT ![w] = NoId] /\ pc' = [pc EXCEPT ![w] = "pop"]
  OBVIOUS
<1>3. /\ \A v \in Worker : srv'[v] # NoId => srv'[v] = srv[v] /\ v # w
      /\ \A v \in Worker : srv'[v] # NoId => srv'[v] # srv[w]
  BY <1>1, <1>2
<1>4. Located'
  BY <1>2 DEF Located
<1>5. Retiring'
  BY DEF Retiring
<1>6. NoLockCycle'
  <2>1. \A v \in Worker, a \in Service, d \in Service :
          Waits(v, a, d)' => Waits(v, a, d)
    BY <1>2 DEF Waits, Clearing
  <2> QED
    BY <2>1, NoNewWait
<1>7. CASE msgQueue[srv[w]] # <<>>
  <2>1. inGlobal' = inGlobal /\ globalQueue' = Append(globalQueue, srv[w])
    BY <1>7
  <2>2. /\ Len(globalQueue') = Len(globalQueue) + 1
        /\ globalQueue'[Len(globalQueue')] = srv[w]
        /\ \A i \in 1..Len(globalQueue) : globalQueue'[i] = globalQueue[i]
    BY <2>1, <1>1
  <2>3. \A i \in 1..Len(globalQueue') :
          i = Len(globalQueue') \/ i \in 1..Len(globalQueue)
    BY <2>2
  <2>4. Marked'
    <3>1. \A i \in 1..Len(globalQueue') : inGlobal'[globalQueue'[i]]
      BY <1>1, <2>1, <2>2, <2>3 DEF Marked
    <3>2. \A i, j \in 1..Len(globalQueue') :
            globalQueue'[i] = globalQueue'[j] => i = j
      <4> SUFFICES ASSUME NEW i \in 1..Len(globalQueue'),
                          NEW j \in 1..Len(globalQueue'),
                          globalQueue'[i] = globalQueue'[j], i # j
                   PROVE  FALSE
        OBVIOUS
      <4>1. CASE i \in 1..Len(globalQueue) /\ j \in 1..Len(globalQueue)
        BY <2>2, <4>1 DEF Marked
      <4>2. CASE i = Len(globalQueue') /\ j \in 1..Len(globalQueue)
        BY <1>1, <2>2, <4>2
      <4>3. CASE j = Len(globalQueue') /\ i \in 1..Len(globalQueue)
        BY <1>1, <2>2, <4>3
      <4> QED
        BY <2>3, <4>1, <4>2, <4>3
    <3>3. \A v \in Worker : srv'[v] # NoId => inGlobal'[srv'[v]]
      BY <1>3, <2>1 DEF Marked
    <3> QED
      BY <3>1, <3>2, <3>3 DEF Marked
  <2>5. OneWorkerPerService'
    <3> SUFFICES ASSUME NEW v \in Worker, srv'[v] # NoId
                 PROVE  /\ \A u \in Worker : srv'[u] = srv'[v] => u = v
                        /\ \A i \in 1..Len(globalQueue') :
                             globalQueue'[i] # srv'[v]
      BY DEF OneWorkerPerService
    <3>1. srv'[v] = srv[v] /\ srv[v] # srv[w] /\ srv[v] # NoId
      BY <1>3
    <3>2. \A u \in Worker : srv'[u] = srv'[v] => u = v
      BY <1>3, <3>1 DEF OneWorkerPerService
    <3>3. \A i \in 1..Len(globalQueue') : globalQueue'[i] # srv'[v]
      <4>1. \A i \in 1..Len(globalQueue) : globalQueue[i] # srv[v]
        BY <3>1 DEF OneWorkerPerService
      <4> QED
        BY <2>2, <2>3, <3>1, <4>1
    <3> QED
      BY <3>2, <3>3
  <2>6. NoLostMessage'
    BY <2>1, FrameNoLostMessage
  <2>7. ClosedForGood'
    <3> SUFFICES ASSUME NEW s \in Service, exited[s]
                 PROVE  /\ inGlobal'[s]
                        /\ \A i \in 1..Len(globalQueue') : globalQueue'[i] # s
                        /\ \A v \in Worker :
                             srv'[v] = s => pc'[v] \in {"exit", "clear"}
      BY DEF ClosedForGood
    <3>1. s # srv[w] /\ s # NoId
      BY <1>1, DispatchAssumption
    <3>2. \A i \in 1..Len(globalQueue') : globalQueue'[i] # s
      <4>1. \A i \in 1..Len(globalQueue) : globalQueue[i] # s
        BY DEF ClosedForGood
      <4> QED
        BY <2>2, <2>3, <3>1, <4>1
    <3>3. \A v \in Worker : srv'[v] = s => pc'[v] \in {"exit", "clear"}
      BY <1>2, <3>1 DEF ClosedForGood
    <3> QED
      BY <2>1, <3>2, <3>3 DEF ClosedForGood
  <2> QED
    BY <1>4, <1>5, <1>6, <2>4, <2>5, <2>6, <2>7
<1>8. CASE msgQueue[srv[w]] = <<>>
  <2>1. /\ globalQueue' = globalQueue
        /\ inGlobal' = [inGlobal EXCEPT ![srv[w]] = FALSE]
    BY <1>8
  <2>2. Marked'
    BY <1>1, <1>3, <2>1 DEF Marked
  <2>3. OneWorkerPerService'
    BY <1>3, <2>1 DEF OneWorkerPerService
  <2>4. NoLostMessage'
    <3> SUFFICES ASSUME NEW s \in Service, msgQueue[s] # <<>>, ~ exited[s]
                 PROVE  inGlobal'[s] \/ Entering(s)'
      BY DEF NoLostMessage
    <3>1. s # srv[w] /\ (inGlobal[s] \/ Entering(s))
      BY <1>8 DEF NoLostMessage
    <3>2. Entering(s)' <=> Entering(s)
      BY DEF Entering
    <3>3. inGlobal'[s] = inGlobal[s]
      BY <2>1, <3>1
    <3> QED
      BY <3>1, <3>2, <3>3
  <2>5. ClosedForGood'
    <3> SUFFICES ASSUME NEW s \in Service, exited[s]
                 PROVE  /\ inGlobal'[s]
                        /\ \A i \in 1..Len(globalQueue) : globalQueue[i] # s
                        /\ \A v \in Worker :
                             srv'[v] = s => pc'[v] \in {"exit", "clear"}
      BY <2>1 DEF ClosedForGood
    <3>1. s # srv[w] /\ s # NoId
      BY <1>1, DispatchAssumption
    <3> QED
      BY <1>2, <2>1, <3>1 DEF ClosedForGood
  <2> QED
    BY <1>4, <1>5, <1>6, <2>2, <2>3, <2>4, <2>5
<1> QED
  BY <1>7, <1>8

\* Clear starts with no reply under way.
LEMMA OnExitInv ==
  ASSUME IInv, TypeOK', NEW w \in Worker, OnExit(w)
  PROVE  IInv'
<1> USE DEF OnExit, Idle, IInv, TypeOK, Thread,
           tableVars, flagVars, workerVars
<1>1. Marked' /\ Retiring' /\ OneWorkerPerService' /\ NoLostMessage'
  BY FrameMarked, FrameRetiring, FrameOneWorkerPerService, FrameNoLostMessage
<1>2. Located'
  BY DEF Located
<1>3. ClosedForGood'
  BY DEF ClosedForGood
<1>4. NoLockCycle'
  <2>1. \A v \in Worker, a \in Service, d \in Service :
          Waits(v, a, d)' => Waits(v, a, d)
    BY DEF Waits, Clearing
  <2> QED
    BY <2>1, NoNewWait
<1> QED
  BY <1>1, <1>2, <1>3, <1>4

\* Clear's reply goes to a registered service, which is not being cleared.
LEMMA ClearOneInv ==
  ASSUME IInv, TypeOK', NEW w \in Worker, ClearOne(w)
  PROVE  IInv'
<1> USE DEF ClearOne, dropMessage, SetCall, Idle, IInv, TypeOK, Thread,
           tableVars, flagVars, workerVars
<1>1. Marked' /\ Located' /\ OneWorkerPerService' /\ ClosedForGood'
  BY DEF Marked, Located, OneWorkerPerService, ClosedForGood
<1>2. /\ \A u \in Thread \ {w} : call'[u] = call[u]
      /\ \/ call'[w] = call[w]
         \/ call'[w].op = "push" /\ call'[w].dst \in services
  OBVIOUS
<1>3. Retiring'
  <2>1. \A u \in Thread :
          /\ call'[u].op # "idle" => call'[u].dst \in created
          /\ call'[u].op = "mark" => call'[u].dst \notin services
    <3> TAKE u \in Thread
    <3>1. CASE call'[u] = call[u]
      BY <3>1 DEF Retiring
    <3>2. CASE call'[u].op = "push" /\ call'[u].dst \in services
      BY <3>2
    <3> QED
      BY <1>2, <3>1, <3>2
  <2> QED
    BY <2>1 DEF Retiring
<1>4. NoLostMessage'
  <2>1. \A s \in Service : Entering(s) => Entering(s)'
    BY <1>2 DEF Entering
  <2>2. exited[srv[w]] /\ exited' = exited
    BY DEF Located
  <2>3. \A s \in Service : s # srv[w] => msgQueue'[s] = msgQueue[s]
    OBVIOUS
  <2> QED
    BY <2>1, <2>2, <2>3 DEF NoLostMessage
<1>5. NoLockCycle'
  <2> SUFFICES ASSUME NEW C \in SUBSET Service, C # {}
               PROVE  \E s \in C : \A v \in Worker, d \in C : ~ Waits(v, s, d)'
    BY DEF NoLockCycle
  <2>1. PICK s \in C : \A v \in Worker, d \in C : ~ Waits(v, s, d)
    BY DEF NoLockCycle
  <2>2. CASE \A v \in Worker, d \in C : ~ Waits(v, s, d)'
    BY <2>2
  <2>3. CASE \E v \in Worker, d \in C : Waits(v, s, d)'
    <3>1. PICK d \in C : d \in services
      BY <2>1, <2>3, <1>2 DEF Waits, Clearing
    <3>2. \A v \in Worker : ~ Clearing(v, d)
      BY <3>1, RegisteredNotClearing
    <3>3. \A v \in Worker, e \in C : ~ Waits(v, d, e)'
      BY <3>2 DEF Waits, Clearing
    <3> QED
      BY <3>3
  <2> QED
    BY <2>2, <2>3
<1> QED
  BY <1>1, <1>3, <1>4, <1>5

\* The retired service stays marked.
LEMMA EndClearInv ==
  ASSUME IInv, TypeOK', NEW w \in Worker, EndClear(w)
  PROVE  IInv'
<1> USE DEF EndClear, Release, IInv, TypeOK, Thread,
           tableVars, flagVars, workerVars
<1>1. Retiring' /\ NoLostMessage'
  BY FrameRetiring, FrameNoLostMessage
<1>2. Marked'
  BY DEF Marked
<1>3. Located'
  BY DEF Located
<1>4. OneWorkerPerService'
  BY DEF OneWorkerPerService
<1>5. ClosedForGood'
  <2>1. \A v \in Worker : srv'[v] # NoId =>
          v # w /\ srv'[v] = srv[v] /\ pc'[v] = pc[v]
    OBVIOUS
  <2>2. \A s \in Service : s # NoId
    BY DispatchAssumption
  <2> QED
    BY <2>1, <2>2 DEF ClosedForGood
<1>6. NoLockCycle'
  <2>1. \A v \in Worker, a \in Service, d \in Service :
          Waits(v, a, d)' => Waits(v, a, d)
    BY DEF Waits, Clearing
  <2> QED
    BY <2>1, NoNewWait
<1> QED
  BY <1>1, <1>2, <1>3, <1>4, <1>5, <1>6

\* IInv is preserved by every step.
LEMMA NextInv == IInv /\ [Next]_vars => IInv'
<1> SUFFICES ASSUME IInv, [Next]_vars
             PROVE  IInv'
  OBVIOUS
<1>1. TypeOK'
  BY NextType DEF IInv
<1>2. ASSUME NEW t \in Thread, NEW s \in Service,
             Send(t, s) \/ KillService(t, s) \/ NewService(t, s)
      PROVE  IInv'
  BY <1>1, <1>2, SendInv, KillServiceInv, NewServiceInv
<1>3. ASSUME NEW t \in Thread, CallStep(t) \/ EndInit(t)
      PROVE  IInv'
  BY <1>1, <1>3, PushInv, EnterGlobalInv, KillEraseInv, KillMarkInv, EndInitInv
     DEF CallStep
<1>4. ASSUME NEW w \in Worker, WorkerStep(w)
      PROVE  IInv'
  BY <1>1, <1>4, PopGlobalInv, StartBatchInv, ProcessMsgInv, EndMsgInv,
     EndBatchInv, CheckAndPutGlobalInv, FinishDispatchInv, OnExitInv,
     ClearOneInv, EndClearInv
     DEF WorkerStep
<1>5. CASE UNCHANGED vars
  BY <1>1, <1>5, FrameMarked, FrameLocated, FrameRetiring, FrameNoLockCycle,
     FrameOneWorkerPerService, FrameNoLostMessage, FrameClosedForGood
     DEF vars, IInv
<1> QED
  BY <1>2, <1>3, <1>4, <1>5 DEF Next, PopNull

\* The inductive invariant of the dispatch core holds in every reachable state.
LEMMA Invariance == Spec => []IInv
  BY InitInv, NextInv, PTL DEF Spec

\* However many threads send, kill and dispatch, a service is never with two
\* workers, nor with a worker and in the global queue at once.
THEOREM SingleWorker == Spec => []OneWorkerPerService
<1>1. IInv => OneWorkerPerService
  BY DEF IInv
<1> QED
  BY <1>1, Invariance, PTL

\* The race between Push / TryEnterGlobal and FinishDispatch never leaves a
\* message in a queue nobody will look at.
THEOREM MessagesScheduled == Spec => []NoLostMessage
<1>1. IInv => NoLostMessage
  BY DEF IInv
<1> QED
  BY <1>1, Invariance, PTL

\* After a worker has begun OnExit of a service no worker ever enters its Lua
\* state again.
THEOREM NoUseAfterExit == Spec => []ClosedForGood
<1>1. IInv => ClosedForGood
  BY DEF IInv
<1> QED
  BY <1>1, Invariance, PTL

\* Sending under the queueLock in Clear cannot deadlock the workers.
THEOREM ClearDoesNotDeadlock == Spec => []NoLockCycle
<1>1. IInv => NoLockCycle
  BY DEF IInv
<1> QED
  BY <1>1, Invariance, PTL

-----------------------------------------------------------------------------
(* Refinement *)

\* A step that starts and ends no handler, closes nothing and leaves the queues
\* alone is invisible in the actor view.
LEMMA Invisible ==
  ASSUME UNCHANGED <<msgQueue, exited, srv>>,
         \A w \in Worker : pc'[w] = "handle" <=> pc[w] = "handle"
  PROVE  UNCHANGED ActorView!actorVars
  BY DEF ActorView!actorVars, Running, Closed

\* The service of a worker that is not in a handler is not running.
LEMMA NotRunning ==
  ASSUME IInv, NEW w \in Worker, srv[w] # NoId, pc[w] # "handle"
  PROVE  srv[w] \notin Running
  BY DEF IInv, OneWorkerPerService, Running

\* Every step of the core is a step of the actors or changes nothing there.
LEMMA StepRefines ==
  IInv /\ [Next]_vars => [ActorView!Next]_ActorView!actorVars
<1> SUFFICES ASSUME IInv, [Next]_vars
             PROVE  ActorView!Next \/ UNCHANGED ActorView!actorVars
  OBVIOUS
<1>0. TypeOK /\ TypeOK'
  BY NextType DEF IInv
<1> USE <1>0 DEF tableVars, flagVars, workerVars
<1>1. ASSUME NEW t \in Thread, NEW s \in Service,
             Send(t, s) \/ KillService(t, s) \/ NewService(t, s)
      PROVE  UNCHANGED ActorView!actorVars
  BY <1>1, Invisible DEF Send, KillService, NewService
<1>2. ASSUME NEW t \in Thread, Push(t)
      PROVE  ActorView!Next
  <2>1. call[t].dst \in Service /\ call[t].msg \in Message
    BY <1>2, CallType DEF Push
  <2>2. UNCHANGED <<Running, Closed>>
    BY <1>2 DEF Push, Running, Closed
  <2>3. ActorView!Deliver(call[t].dst, call[t].msg)
    BY <1>2, <2>2 DEF Push, ActorView!Deliver
  <2> QED
    BY <2>1, <2>3 DEF ActorView!Next
<1>3. ASSUME NEW t \in Thread,
             \/ EnterGlobal(t) \/ KillErase(t) \/ KillMark(t) \/ EndInit(t)
      PROVE  UNCHANGED ActorView!actorVars
  BY <1>3, Invisible DEF EnterGlobal, KillErase, KillMark, EndInit
<1>4. ASSUME NEW w \in Worker, PopGlobal(w)
      PROVE  UNCHANGED ActorView!actorVars
  <2>1. Running' = Running
    <3>1. pc[w] # "handle" /\ pc'[w] # "handle"
      BY <1>4 DEF PopGlobal, TypeOK
    <3>2. \A v \in Worker : v # w => srv'[v] = srv[v] /\ pc'[v] = pc[v]
      BY <1>4 DEF PopGlobal, TypeOK
    <3> QED
      BY <3>1, <3>2 DEF Running
  <2> QED
    BY <1>4, <2>1 DEF PopGlobal, ActorView!actorVars, Closed
<1>5. ASSUME NEW w \in Worker, StartBatch(w) \/ EndBatch(w) \/ OnExit(w)
      PROVE  UNCHANGED ActorView!actorVars
  BY <1>5, Invisible DEF StartBatch, EndBatch, OnExit, TypeOK
<1>6. ASSUME NEW w \in Worker, ProcessMsg(w)
      PROVE  ActorView!Next
  <2> DEFINE s == srv[w]
  <2>1. s \in Service /\ s \notin Running /\ s # NoId
    BY <1>6, HeldType, NotRunning, DispatchAssumption DEF ProcessMsg
  <2>2. s \notin Closed
    BY <1>6 DEF ProcessMsg, IInv, ClosedForGood, Closed
  <2>3. Closed' = Closed
    BY <1>6 DEF ProcessMsg, Closed
  <2>4. \A v \in Worker : v # w => pc'[v] = pc[v] /\ srv'[v] = srv[v]
    BY <1>6 DEF ProcessMsg, TypeOK
  <2>5. srv'[w] = s /\ pc[w] # "handle" /\ pc'[w] \in {"handle", "msg"}
    BY <1>6 DEF ProcessMsg, OnMsg, TypeOK
  <2>6. CASE pc'[w] = "handle"
    <3>1. Running' = Running \cup {s}
      BY <2>1, <2>4, <2>5, <2>6 DEF Running
    <3>2. ActorView!Take(s)
      BY <1>6, <2>1, <2>2, <2>3, <3>1 DEF ProcessMsg, ActorView!Take
    <3> QED
      BY <2>1, <3>2 DEF ActorView!Next
  <2>7. CASE pc'[w] = "msg"
    <3>1. Running' = Running
      BY <2>4, <2>5, <2>7 DEF Running
    <3>2. ActorView!Discard(s)
      BY <1>6, <2>1, <2>3, <3>1 DEF ProcessMsg, ActorView!Discard
    <3> QED
      BY <2>1, <3>2 DEF ActorView!Next
  <2> QED
    BY <2>5, <2>6, <2>7
<1>7. ASSUME NEW w \in Worker, EndMsg(w)
      PROVE  ActorView!Next
  <2> DEFINE s == srv[w]
  <2>1. s \in Service /\ s \in Running /\ s # NoId
    BY <1>7, HeldType, DispatchAssumption DEF EndMsg, Running
  <2>2. \A v \in Worker : v # w => pc'[v] = pc[v] /\ srv[v] # s
    BY <1>7, <2>1 DEF EndMsg, TypeOK, IInv, OneWorkerPerService
  <2>3. Running' = Running \ {s}
    <3>1. srv' = srv /\ pc'[w] = "msg"
      BY <1>7 DEF EndMsg, TypeOK
    <3> QED
      BY <2>2, <3>1 DEF Running
  <2>4. ActorView!Done(s)
    BY <1>7, <2>1, <2>3 DEF EndMsg, ActorView!Done, Closed
  <2> QED
    BY <2>1, <2>4 DEF ActorView!Next
<1>8. ASSUME NEW w \in Worker, CheckAndPutGlobal(w)
      PROVE  ActorView!Next \/ UNCHANGED ActorView!actorVars
  <2> DEFINE s == srv[w]
  <2>1. s \in Service /\ s \notin Running /\ ~ exited[s]
    BY <1>8, HeldType, NotRunning, DispatchAssumption
       DEF CheckAndPutGlobal, IInv, ClosedForGood
  <2>2. srv' = srv /\ msgQueue' = msgQueue
    BY <1>8, <2>1 DEF CheckAndPutGlobal, TypeOK
  <2>3. Running' = Running
    BY <1>8, <2>1, <2>2 DEF CheckAndPutGlobal, TypeOK, Running
  <2>4. CASE exited' = exited
    BY <2>2, <2>3, <2>4 DEF ActorView!actorVars, Closed
  <2>5. CASE exited' = [exited EXCEPT ![s] = TRUE]
    <3>1. Closed' = Closed \cup {s} /\ s \notin Closed
      BY <2>1, <2>5 DEF Closed, TypeOK
    <3>2. ActorView!Close(s)
      BY <2>1, <2>2, <2>3, <3>1 DEF ActorView!Close
    <3> QED
      BY <2>1, <3>2 DEF ActorView!Next
  <2> QED
    BY <1>8, <2>4, <2>5 DEF CheckAndPutGlobal
<1>9. ASSUME NEW w \in Worker, FinishDispatch(w) \/ EndClear(w)
      PROVE  UNCHANGED ActorView!actorVars
  <2>1. pc[w] # "handle" /\ pc'[w] = "pop" /\ srv'[w] = NoId
    BY <1>9 DEF FinishDispatch, EndClear, Release, TypeOK
  <2>2. \A v \in Worker : v # w => srv'[v] = srv[v] /\ pc'[v] = pc[v]
    BY <1>9 DEF FinishDispatch, EndClear, Release, TypeOK
  <2>3. Running' = Running
    BY <2>1, <2>2 DEF Running
  <2> QED
    BY <1>9, <2>3 DEF FinishDispatch, EndClear, ActorView!actorVars, Closed
<1>10. ASSUME NEW w \in Worker, ClearOne(w)
       PROVE  ActorView!Next
  <2>1. srv[w] \in Service /\ srv[w] \notin Running
    BY <1>10, HeldType, NotRunning, DispatchAssumption DEF ClearOne
  <2>2. UNCHANGED <<Running, Closed>>
    BY <1>10 DEF ClearOne, Running, Closed
  <2>3. ActorView!Discard(srv[w])
    BY <1>10, <2>1, <2>2 DEF ClearOne, ActorView!Discard
  <2> QED
    BY <2>1, <2>3 DEF ActorView!Next
<1>11. CASE UNCHANGED vars
  BY <1>11 DEF vars, ActorView!actorVars, Running, Closed
<1> QED
  BY <1>1, <1>2, <1>3, <1>4, <1>5, <1>6, <1>7, <1>8, <1>9, <1>10, <1>11
     DEF Next, CallStep, WorkerStep, PopNull

\* The core implements one actor per service: messages are handled one at a
\* time, in the order in which they were pushed, never after the close.
THEOREM CoreIsActor == Spec => ImplementsActor
<1>1. Init => ActorView!Init
  BY DEF Init, ActorView!Init, Running, Closed
<1> QED
  BY <1>1, StepRefines, Invariance, PTL DEF Spec, ImplementsActor, ActorView!Spec
=============================================================================

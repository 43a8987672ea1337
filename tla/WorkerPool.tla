----------------------------- MODULE WorkerPool -----------------------------
(***************************************************************************)
(* How workers fall asleep, are woken and leave: StarnetStart's WorkerWait,*)
(* CheckAndWeakUp, WakeUpAll and Wait (starnet_start.cpp) around the loop  *)
(* of Worker::operator() (starnet_worker.cpp).                             *)
(*                                                                         *)
(* The dispatch of one service is a single "work" phase here; module       *)
(* Dispatch looks inside it.  sleepMtx is held across two steps only by a  *)
(* worker that has counted itself asleep and not yet reached cond_wait, so *)
(* the mutex needs no variable.  CheckAndWeakUp takes no lock at all ("un- *)
(* safe" in the source): each of its reads and the signal is a step.       *)
(***************************************************************************)
EXTENDS Integers, Sequences, FiniteSets

CONSTANTS Worker,       \* worker threads
          External,     \* timer and socket threads
          Service,      \* services
          None,         \* no service
          Exits         \* whether a global exit may be requested

ASSUME PoolAssumption ==
  /\ IsFiniteSet(Worker)
  /\ None \notin Service
  /\ Exits \in BOOLEAN

VARIABLES globalQueue,  \* runnable services
          inGlobal,     \* services queued or being processed (or exited)
          retired,      \* services KillAllServices has killed
          exited,       \* services whose OnExit has run
          letGo,        \* retired services that FinishDispatch let go with an empty queue
          exitFlag,     \* StarnetStart::exitFlag
          sleepCount,   \* StarnetStart::sleepCount
          pc,           \* where each worker is
          srv,          \* what each worker is processing
          main,         \* where the main thread is in Wait
          wake,         \* where each thread is in CheckAndWeakUp
          seen          \* the sleepCount each thread has read there

vars == <<globalQueue, inGlobal, retired, exited, letGo, exitFlag, sleepCount,
          pc, srv, main, wake, seen>>
queueVars == <<globalQueue, inGlobal, retired, exited, letGo>>
wakeVars == <<wake, seen>>

Main == "main"
Thread == Worker \cup External \cup {Main}

PC == {"pop", "test", "lock", "wait", "asleep", "woken", "work", "finish", "gone"}
MainPC == {"run", "kill", "setexit", "broadcast", "join", "joined"}
WakePC == {"no", "zero", "count", "compare", "signal"}

Init ==
  /\ globalQueue = <<>>
  /\ inGlobal = {}
  /\ retired = {}
  /\ exited = {}
  /\ letGo = {}
  /\ exitFlag = FALSE
  /\ sleepCount = 0
  /\ pc = [w \in Worker |-> "pop"]
  /\ srv = [w \in Worker |-> None]
  /\ main = "run"
  /\ wake = [t \in Thread |-> "no"]
  /\ seen = [t \in Thread |-> 0]

Goto(w, p) == pc' = [pc EXCEPT ![w] = p]

\* sleepMtx is free: no worker is between sleepCount++ and cond_wait.
MtxFree == \A w \in Worker : pc[w] # "wait"

-----------------------------------------------------------------------------
(* Worker::operator() *)

PopGlobal(w) ==
  /\ pc[w] = "pop"
  /\ IF globalQueue # <<>>
       THEN /\ srv' = [srv EXCEPT ![w] = Head(globalQueue)]
            /\ globalQueue' = Tail(globalQueue)
            /\ Goto(w, "work")
       ELSE /\ Goto(w, "test")
            /\ UNCHANGED <<srv, globalQueue>>
  /\ UNCHANGED <<inGlobal, retired, exited, letGo, exitFlag, sleepCount, main,
                 wakeVars>>

\* if(start->IsExit()) break;
TestExit(w) ==
  /\ pc[w] = "test"
  /\ Goto(w, IF exitFlag THEN "gone" ELSE "lock")
  /\ UNCHANGED <<queueVars, exitFlag, sleepCount, srv, main, wakeVars>>

\* CheckAndPutGlobal reads isExiting: OnExit for a retired service, else it goes on
\* to FinishDispatch.  No lock is held in between.
CheckAndPutGlobal(w) ==
  LET s == srv[w] IN
  /\ pc[w] = "work"
  /\ wake[w] = "no"
  /\ \/ /\ s \in retired
        /\ exited' = exited \cup {s}
        /\ srv' = [srv EXCEPT ![w] = None]
        /\ Goto(w, "pop")
     \/ /\ s \notin retired
        /\ Goto(w, "finish")
        /\ UNCHANGED <<exited, srv>>
  /\ UNCHANGED <<globalQueue, inGlobal, retired, letGo, exitFlag, sleepCount,
                 main, wakeVars>>

\* FinishDispatch: the service goes back if messages are left.  If not, it is idle,
\* also when it was retired since isExiting was read.
FinishDispatch(w) ==
  LET s == srv[w] IN
  /\ pc[w] = "finish"
  /\ \/ globalQueue' = Append(globalQueue, s) /\ UNCHANGED <<inGlobal, letGo>>
     \/ /\ inGlobal' = inGlobal \ {s}
        /\ letGo' = letGo \cup ({s} \cap retired)
        /\ UNCHANGED globalQueue
  /\ srv' = [srv EXCEPT ![w] = None]
  /\ Goto(w, "pop")
  /\ UNCHANGED <<retired, exited, exitFlag, sleepCount, main, wakeVars>>

-----------------------------------------------------------------------------
(* StarnetStart::WorkerWait *)

\* pthread_mutex_lock; sleepCount++
LockAndCount(w) ==
  /\ pc[w] = "lock"
  /\ MtxFree
  /\ sleepCount' = sleepCount + 1
  /\ Goto(w, "wait")
  /\ UNCHANGED <<queueVars, exitFlag, srv, main, wakeVars>>

\* pthread_cond_wait releases sleepMtx and joins the waiters in one step.
CondWait(w) ==
  /\ pc[w] = "wait"
  /\ Goto(w, "asleep")
  /\ UNCHANGED <<queueVars, exitFlag, sleepCount, srv, main, wakeVars>>

\* POSIX lets a waiter return without a signal.
SpuriousWake(w) ==
  /\ pc[w] = "asleep"
  /\ Goto(w, "woken")
  /\ UNCHANGED <<queueVars, exitFlag, sleepCount, srv, main, wakeVars>>

\* Bug: the worker that wakes does not count itself out.
CountOut_Forgotten(w) ==
  /\ pc[w] = "woken"
  /\ MtxFree
  /\ Goto(w, "pop")
  /\ UNCHANGED <<queueVars, exitFlag, sleepCount, srv, main, wakeVars>>

\* cond_wait has sleepMtx again; sleepCount--; pthread_mutex_unlock
CountOut(w) ==
  /\ pc[w] = "woken"
  /\ MtxFree
  /\ sleepCount' = sleepCount - 1
  /\ Goto(w, "pop")
  /\ UNCHANGED <<queueVars, exitFlag, srv, main, wakeVars>>

-----------------------------------------------------------------------------
(* TryEnterGlobal followed by CheckAndWeakUp *)

EnterQueue(s) ==
  /\ s \notin inGlobal
  /\ globalQueue' = Append(globalQueue, s)
  /\ inGlobal' = inGlobal \cup {s}

StartWake(t) == wake' = [wake EXCEPT ![t] = "zero"]

\* Send to an idle service, by a handler or by the timer or socket thread.  A
\* killed service can no longer be looked up.
Send(t, s) ==
  /\ wake[t] = "no"
  /\ t \in External \/ (t \in Worker /\ pc[t] = "work")
  /\ s \notin retired
  /\ EnterQueue(s)
  /\ StartWake(t)
  /\ UNCHANGED <<retired, exited, letGo, exitFlag, sleepCount, pc, srv, main,
                 seen>>

\* if(sleepCount == 0) return;
ReadZero(t) ==
  /\ wake[t] = "zero"
  /\ wake' = [wake EXCEPT ![t] = IF sleepCount = 0 THEN "no" ELSE "count"]
  /\ UNCHANGED <<queueVars, exitFlag, sleepCount, pc, srv, main, seen>>

\* workerNum - sleepCount ...
ReadCount(t) ==
  /\ wake[t] = "count"
  /\ seen' = [seen EXCEPT ![t] = sleepCount]
  /\ wake' = [wake EXCEPT ![t] = "compare"]
  /\ UNCHANGED <<queueVars, exitFlag, sleepCount, pc, srv, main>>

\* Bug: the length is compared with the number of all workers.
Compare_All(t) ==
  /\ wake[t] = "compare"
  /\ wake' = [wake EXCEPT ![t] =
                IF Cardinality(Worker) <= Len(globalQueue) THEN "signal" ELSE "no"]
  /\ seen' = [seen EXCEPT ![t] = 0]
  /\ UNCHANGED <<queueVars, exitFlag, sleepCount, pc, srv, main>>

\* ... <= starnet_globalmq_length()
Compare(t) ==
  /\ wake[t] = "compare"
  /\ wake' = [wake EXCEPT ![t] =
                IF Cardinality(Worker) - seen[t] <= Len(globalQueue)
                  THEN "signal" ELSE "no"]
  /\ seen' = [seen EXCEPT ![t] = 0]
  /\ UNCHANGED <<queueVars, exitFlag, sleepCount, pc, srv, main>>

\* pthread_cond_signal, without sleepMtx: lost if nobody is in cond_wait
Signal(t) ==
  /\ wake[t] = "signal"
  /\ wake' = [wake EXCEPT ![t] = "no"]
  /\ \/ \E w \in Worker : pc[w] = "asleep" /\ Goto(w, "woken")
     \/ (\A w \in Worker : pc[w] # "asleep") /\ UNCHANGED pc
  /\ UNCHANGED <<queueVars, exitFlag, sleepCount, srv, main, seen>>

WakeStep(t) == ReadZero(t) \/ ReadCount(t) \/ Compare(t) \/ Signal(t)

-----------------------------------------------------------------------------
(* StarnetStart::Wait, on the main thread *)

RequestExit ==
  /\ Exits
  /\ main = "run"
  /\ main' = "kill"
  /\ UNCHANGED <<queueVars, exitFlag, sleepCount, pc, srv, wakeVars>>

\* KillAllServices: one KillService; an idle service is queued for its exit.  (A worker
\* that reads the mark before inGlobal is read leaves inGlobal as it is, so the mark
\* and that reading are one step.)
KillService(s) ==
  /\ main = "kill"
  /\ wake[Main] = "no"
  /\ s \notin retired
  /\ retired' = retired \cup {s}
  /\ IF s \notin inGlobal
       THEN EnterQueue(s) /\ StartWake(Main)
       ELSE UNCHANGED <<globalQueue, inGlobal, wake>>
  /\ UNCHANGED <<exited, letGo, exitFlag, sleepCount, pc, srv, main, seen>>

KillsDone ==
  /\ main = "kill"
  /\ wake[Main] = "no"
  /\ retired = Service
  /\ main' = "setexit"
  /\ UNCHANGED <<queueVars, exitFlag, sleepCount, pc, srv, wakeVars>>

SetExit ==
  /\ main = "setexit"
  /\ exitFlag' = TRUE
  /\ main' = "broadcast"
  /\ UNCHANGED <<queueVars, sleepCount, pc, srv, wakeVars>>

\* Bug: one worker is signalled where all have to be.
WakeUpAll_One ==
  /\ main = "broadcast"
  /\ MtxFree
  /\ \/ \E w \in Worker : pc[w] = "asleep" /\ Goto(w, "woken")
     \/ (\A w \in Worker : pc[w] # "asleep") /\ UNCHANGED pc
  /\ main' = "join"
  /\ UNCHANGED <<queueVars, exitFlag, sleepCount, srv, wakeVars>>

\* lock; pthread_cond_broadcast; unlock
WakeUpAll ==
  /\ main = "broadcast"
  /\ MtxFree
  /\ pc' = [w \in Worker |-> IF pc[w] = "asleep" THEN "woken" ELSE pc[w]]
  /\ main' = "join"
  /\ UNCHANGED <<queueVars, exitFlag, sleepCount, srv, wakeVars>>

Join ==
  /\ main = "join"
  /\ \A w \in Worker : pc[w] = "gone"
  /\ main' = "joined"
  /\ UNCHANGED <<queueVars, exitFlag, sleepCount, pc, srv, wakeVars>>

MainStep ==
  (\E s \in Service : KillService(s)) \/ KillsDone \/ SetExit \/ WakeUpAll \/ Join

WorkerStep(w) ==
  \/ PopGlobal(w) \/ TestExit(w) \/ CheckAndPutGlobal(w) \/ FinishDispatch(w)
  \/ LockAndCount(w) \/ CondWait(w) \/ CountOut(w)

Next ==
  \/ \E w \in Worker : WorkerStep(w) \/ SpuriousWake(w)
  \/ \E t \in Thread, s \in Service : Send(t, s)
  \/ \E t \in Thread : WakeStep(t)
  \/ RequestExit
  \/ MainStep

Spec == Init /\ [][Next]_vars

\* Threads keep running, handlers return, sleepMtx is granted (it is only held
\* for a few instructions).  A sleeping worker is not promised a spurious
\* wake-up, and nobody is obliged to send or to ask for the exit.
Fairness ==
  /\ \A w \in Worker : WF_vars(WorkerStep(w)) /\ SF_vars(LockAndCount(w))
                                              /\ SF_vars(CountOut(w))
  /\ \A t \in Thread : WF_vars(WakeStep(t))
  /\ WF_vars(MainStep) /\ SF_vars(WakeUpAll)

LiveSpec == Spec /\ Fairness

-----------------------------------------------------------------------------
(* Properties that hold *)

\* The types of the threads, of sleepCount and of the global queue.
TypeOK ==
  /\ globalQueue \in Seq(Service)
  /\ inGlobal \subseteq Service
  /\ retired \subseteq Service
  /\ exited \subseteq retired /\ letGo \subseteq retired
  /\ exitFlag \in BOOLEAN
  /\ sleepCount \in 0..Cardinality(Worker)
  /\ pc \in [Worker -> PC]
  /\ srv \in [Worker -> Service \cup {None}]
  /\ main \in MainPC
  /\ wake \in [Thread -> WakePC]
  /\ seen \in [Thread -> 0..Cardinality(Worker)]

\* The number CheckAndWeakUp bases its decision on is, at every moment, the
\* number of workers inside WorkerWait's critical sections: no wake-up, early
\* or spurious, makes it drift.  (With the types.)
SleepCountExact ==
  /\ TypeOK
  /\ sleepCount = Cardinality({w \in Worker : pc[w] \in {"wait", "asleep", "woken"}})

Busy == \E w \in Worker : pc[w] = "work"

\* If all workers are in cond_wait when the thread that has queued a service
\* comes to CheckAndWeakUp, one is woken and a worker gets to process.
SleepersAreWoken ==
  /\ \E t \in Thread : wake[t] = "zero"
  /\ globalQueue # <<>>
  /\ \A w \in Worker : pc[w] = "asleep"
  ~> Busy

\* Every worker that is in cond_wait when WakeUpAll broadcasts, or has a service
\* then, drains the global queue before it leaves: with one such worker, a killed
\* service misses its OnExit only if a worker had read isExiting before the kill and
\* let the service go in FinishDispatch after it.
ExitDrains ==
  \A w \in Worker :
    (main = "broadcast" /\ pc[w] \in {"asleep", "work", "finish"})
      ~> (pc[w] = "gone" /\ retired = exited \cup letGo)

-----------------------------------------------------------------------------
(* Claims of the comments and of the guide that the code does not meet *)

\* The guide: an idle worker sleeps in WorkerWait and "is woken by CheckAnd-
\* WeakUp".  So a queued service is eventually processed.
QueueIsServed == (globalQueue # <<>>) ~> Busy

\* starnet_start.cpp, Wait: the flag is set and "all workers are woken by a
\* broadcast (they leave once the queue is empty)".  So an exit completes.
ExitCompletes == (main = "kill") ~> (main = "joined")

\* starnet_worker.cpp, operator(): workers leave when the queue is empty and
\* the flag is set, "which guarantees that the OnExit of all services has been
\* processed".
AllExitedAtJoin == main = "joined" => exited = Service
=============================================================================

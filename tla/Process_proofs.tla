--------------------------- MODULE Process_proofs ---------------------------
(***************************************************************************)
(* Proofs about the parts of a process: WorkerPool for any number of       *)
(* workers, threads and services, Names for any number of threads, names   *)
(* and services, Daemon for any finite set of processes.                   *)
(***************************************************************************)
EXTENDS MCProcess, TLAPS, FiniteSetTheorems

-----------------------------------------------------------------------------
(* WorkerPool *)

\* The workers between sleepCount++ and sleepCount--.
Sleepers == {w \in Worker : pc[w] \in {"wait", "asleep", "woken"}}

\* A worker that processes has a service, which it may put back into the queue.
Holding == \A w \in Worker : pc[w] \in {"work", "finish"} => srv[w] \in Service

\* The inductive invariant; the range of sleepCount in TypeOK follows from its value.
PoolInv == SleepCountExact /\ Holding

\* A subset of the workers is finite, and no larger than their number.
LEMMA WorkersCounted ==
    ASSUME NEW S \in SUBSET Worker
    PROVE  /\ IsFiniteSet(S) /\ Cardinality(S) \in 0 .. Cardinality(Worker)
           /\ \A w \in S : Cardinality(S \ {w}) = Cardinality(S) - 1
           /\ \A w \in Worker \ S : Cardinality(S \cup {w}) = Cardinality(S) + 1
<1>1. IsFiniteSet(Worker) /\ IsFiniteSet(S) /\ Cardinality(S) <= Cardinality(Worker)
  BY PoolAssumption, FS_Subset
<1>2. Cardinality(S) \in Nat /\ Cardinality(Worker) \in Nat
  BY <1>1, FS_CardinalityType
<1>3. \A w \in S : Cardinality(S \ {w}) = Cardinality(S) - 1
  BY <1>1, FS_RemoveElement
<1>4. \A w \in Worker \ S : Cardinality(S \cup {w}) = Cardinality(S) + 1
  BY <1>1, FS_AddElement
<1> QED
  BY <1>1, <1>2, <1>3, <1>4

\* All workers begin at the pop, outside WorkerWait.
LEMMA PoolInit == Init => PoolInv
<1> SUFFICES ASSUME Init PROVE PoolInv
  OBVIOUS
<1>1. Sleepers = {}
  BY DEF Init, Sleepers
<1>2. sleepCount = Cardinality(Sleepers)
  BY <1>1, FS_EmptySet DEF Init
<1>3. 0 \in 0 .. Cardinality(Worker)
  BY WorkersCounted
<1>4. globalQueue \in Seq(Service) /\ main \in MainPC
  BY DEF Init, MainPC
<1>5. /\ pc \in [Worker -> PC] /\ srv \in [Worker -> Service \cup {None}]
      /\ wake \in [Thread -> WakePC]
  BY DEF Init, PC, WakePC
<1>6. seen \in [Thread -> 0 .. Cardinality(Worker)] /\ sleepCount \in 0 .. Cardinality(Worker)
  BY <1>3 DEF Init
<1>7. TypeOK
  BY <1>4, <1>5, <1>6 DEF Init, TypeOK
<1> QED
  BY <1>2, <1>7 DEF PoolInv, SleepCountExact, Holding, Init, Sleepers

\* A step that moves no worker in or out of the critical sections, and leaves the
\* count alone, keeps it exact.
LEMMA CountKept ==
    ASSUME PoolInv, TypeOK', Holding', UNCHANGED sleepCount, Sleepers' = Sleepers
    PROVE  PoolInv'
  BY DEF PoolInv, SleepCountExact, Sleepers

\* The worker's own steps outside WorkerWait.
LEMMA LoopStep ==
    ASSUME PoolInv, NEW w \in Worker,
           \/ PopGlobal(w) \/ TestExit(w) \/ CheckAndPutGlobal(w) \/ FinishDispatch(w)
           \/ CondWait(w) \/ SpuriousWake(w)
    PROVE  PoolInv'
<1>0. FinishDispatch(w) =>
        \/ globalQueue' = Append(globalQueue, srv[w]) /\ inGlobal' = inGlobal
        \/ globalQueue' = globalQueue /\ inGlobal' = inGlobal \ {srv[w]}
  BY DEF FinishDispatch
<1> USE DEF PoolInv, SleepCountExact, TypeOK, queueVars, wakeVars, PC, Goto
<1>1. CASE PopGlobal(w)
  <2>1. CASE globalQueue # <<>>
    <3>1. Head(globalQueue) \in Service /\ Tail(globalQueue) \in Seq(Service)
      BY <2>1
    <3>2. TypeOK' /\ Holding'
      BY <1>1, <2>1, <3>1 DEF PopGlobal, Holding
    <3>3. Sleepers' = Sleepers
      BY <1>1, <2>1 DEF PopGlobal, Sleepers
    <3> QED
      BY <1>1, <3>2, <3>3, CountKept DEF PopGlobal
  <2>2. CASE globalQueue = <<>>
    <3>1. TypeOK' /\ Holding'
      BY <1>1, <2>2 DEF PopGlobal, Holding
    <3>2. Sleepers' = Sleepers
      BY <1>1, <2>2 DEF PopGlobal, Sleepers
    <3> QED
      BY <1>1, <3>1, <3>2, CountKept DEF PopGlobal
  <2> QED
    BY <2>1, <2>2
<1>2. CASE TestExit(w)
  <2>1. TypeOK' /\ Holding'
    BY <1>2 DEF TestExit, Holding
  <2>2. Sleepers' = Sleepers
    BY <1>2 DEF TestExit, Sleepers
  <2> QED
    BY <1>2, <2>1, <2>2, CountKept DEF TestExit
<1>3. CASE CheckAndPutGlobal(w)
  <2>1. exited' \subseteq retired' /\ retired' \subseteq Service
    <3>1. retired' = retired /\ (exited' = exited \/ (srv[w] \in retired /\ exited' = exited \cup {srv[w]}))
      BY <1>3 DEF CheckAndPutGlobal
    <3> QED
      BY <3>1
  <2>2. srv[w] \in Service
    BY <1>3 DEF CheckAndPutGlobal, Holding
  <2>3. pc' \in [Worker -> PC] /\ srv' \in [Worker -> Service \cup {None}]
    BY <1>3 DEF CheckAndPutGlobal
  <2>4. Holding'
    BY <1>3, <2>2 DEF CheckAndPutGlobal, Holding
  <2>5. TypeOK'
    BY <1>3, <2>1, <2>3 DEF CheckAndPutGlobal
  <2>6. Sleepers' = Sleepers
    BY <1>3 DEF CheckAndPutGlobal, Sleepers
  <2> QED
    BY <1>3, <2>4, <2>5, <2>6, CountKept DEF CheckAndPutGlobal
<1>6. CASE FinishDispatch(w)
  <2>1. srv[w] \in Service
    BY <1>6 DEF FinishDispatch, Holding
  <2>2. globalQueue' \in Seq(Service) /\ inGlobal' \subseteq Service
    <3>1. CASE globalQueue' = Append(globalQueue, srv[w]) /\ inGlobal' = inGlobal
      BY <3>1, <2>1
    <3>2. CASE globalQueue' = globalQueue /\ inGlobal' = inGlobal \ {srv[w]}
      BY <3>2
    <3> QED
      BY <1>0, <1>6, <3>1, <3>2
  <2>3. letGo' \subseteq retired'
    BY <1>6 DEF FinishDispatch
  <2>4. pc' \in [Worker -> PC] /\ srv' \in [Worker -> Service \cup {None}] /\ Holding'
    BY <1>6 DEF FinishDispatch, Holding
  <2>5. TypeOK'
    BY <1>6, <2>2, <2>3, <2>4 DEF FinishDispatch
  <2>6. Sleepers' = Sleepers
    BY <1>6 DEF FinishDispatch, Sleepers
  <2> QED
    BY <1>6, <2>4, <2>5, <2>6, CountKept DEF FinishDispatch
<1>4. CASE CondWait(w)
  <2>1. TypeOK' /\ Holding'
    BY <1>4 DEF CondWait, Holding
  <2>2. Sleepers' = Sleepers
    BY <1>4 DEF CondWait, Sleepers
  <2> QED
    BY <1>4, <2>1, <2>2, CountKept DEF CondWait
<1>5. CASE SpuriousWake(w)
  <2>1. TypeOK' /\ Holding'
    BY <1>5 DEF SpuriousWake, Holding
  <2>2. Sleepers' = Sleepers
    BY <1>5 DEF SpuriousWake, Sleepers
  <2> QED
    BY <1>5, <2>1, <2>2, CountKept DEF SpuriousWake
<1> QED
  BY <1>1, <1>2, <1>3, <1>4, <1>5, <1>6

\* The two steps that change the count move exactly one worker.
LEMMA CountStep ==
    ASSUME PoolInv, NEW w \in Worker, LockAndCount(w) \/ CountOut(w)
    PROVE  PoolInv'
<1> USE DEF PoolInv, SleepCountExact, TypeOK, queueVars, wakeVars, PC, Goto
<1>0. sleepCount = Cardinality(Sleepers) /\ Sleepers \in SUBSET Worker
  BY DEF Sleepers
<1>1. CASE LockAndCount(w)
  <2>1. Sleepers' = Sleepers \cup {w} /\ w \notin Sleepers
    BY <1>1 DEF LockAndCount, Sleepers
  <2>2. sleepCount' = Cardinality(Sleepers')
    BY <1>0, <1>1, <2>1, WorkersCounted DEF LockAndCount
  <2>3. Sleepers' \in SUBSET Worker
    BY <1>0, <2>1
  <2>4. sleepCount' \in 0 .. Cardinality(Worker)
    BY <2>2, <2>3, WorkersCounted
  <2> QED
    BY <1>1, <2>2, <2>4 DEF LockAndCount, Holding, Sleepers
<1>2. CASE CountOut(w)
  <2>1. Sleepers' = Sleepers \ {w} /\ w \in Sleepers
    BY <1>2 DEF CountOut, Sleepers
  <2>2. sleepCount' = Cardinality(Sleepers')
    BY <1>0, <1>2, <2>1, WorkersCounted DEF CountOut
  <2>3. Sleepers' \in SUBSET Worker
    BY <1>0, <2>1
  <2>4. sleepCount' \in 0 .. Cardinality(Worker)
    BY <2>2, <2>3, WorkersCounted
  <2> QED
    BY <1>2, <2>2, <2>4 DEF CountOut, Holding, Sleepers
<1> QED
  BY <1>1, <1>2

\* Send and CheckAndWeakUp: a signal moves a worker from one place in WorkerWait to
\* the next.
LEMMA WakeUpStep ==
    ASSUME PoolInv, NEW t \in Thread, (\E s \in Service : Send(t, s)) \/ WakeStep(t)
    PROVE  PoolInv'
<1> USE DEF PoolInv, SleepCountExact, TypeOK, queueVars, PC, WakePC, Goto
<1>1. ASSUME NEW s \in Service, Send(t, s) PROVE PoolInv'
  <2>1. globalQueue' \in Seq(Service) /\ inGlobal' \subseteq Service
    BY <1>1 DEF Send, EnterQueue
  <2>2. TypeOK' /\ Holding'
    BY <1>1, <2>1 DEF Send, StartWake, Holding
  <2> QED
    BY <1>1, <2>2, CountKept DEF Send, Sleepers
<1>2. CASE ReadZero(t)
  BY <1>2, CountKept DEF ReadZero, Holding, Sleepers
<1>3. CASE ReadCount(t)
  BY <1>3, CountKept DEF ReadCount, Holding, Sleepers
<1>4. CASE Compare(t)
  <2>1. 0 \in 0 .. Cardinality(Worker)
    BY WorkersCounted
  <2> QED
    BY <1>4, <2>1, CountKept DEF Compare, Holding, Sleepers
<1>5. CASE Signal(t)
  <2>1. CASE UNCHANGED pc
    BY <1>5, <2>1, CountKept DEF Signal, Holding, Sleepers
  <2>2. ASSUME NEW w \in Worker, pc[w] = "asleep", Goto(w, "woken") PROVE PoolInv'
    <3>1. TypeOK' /\ Holding'
      BY <1>5, <2>2 DEF Signal, Holding
    <3>2. Sleepers' = Sleepers
      BY <2>2 DEF Sleepers
    <3> QED
      BY <1>5, <3>1, <3>2, CountKept DEF Signal
  <2> QED
    BY <1>5, <2>1, <2>2 DEF Signal
<1> QED
  BY <1>1, <1>2, <1>3, <1>4, <1>5 DEF WakeStep

\* The main thread: the broadcast moves all that are asleep, none out.
LEMMA ExitStep ==
    ASSUME PoolInv, RequestExit \/ MainStep
    PROVE  PoolInv'
<1> USE DEF PoolInv, SleepCountExact, TypeOK, queueVars, wakeVars, PC, MainPC
<1>1. CASE RequestExit \/ KillsDone \/ SetExit \/ Join
  BY <1>1, CountKept DEF RequestExit, KillsDone, SetExit, Join, Holding, Sleepers
<1>2. ASSUME NEW s \in Service, KillService(s) PROVE PoolInv'
  <2>1. globalQueue' \in Seq(Service) /\ inGlobal' \subseteq Service
    <3>1. CASE s \in inGlobal
      BY <1>2, <3>1 DEF KillService
    <3>2. CASE s \notin inGlobal
      <4>1. globalQueue' = Append(globalQueue, s) /\ inGlobal' = inGlobal \cup {s}
        BY <1>2, <3>2 DEF KillService, EnterQueue
      <4> QED
        BY <4>1
    <3> QED
      BY <3>1, <3>2
  <2>2. wake' \in [Thread -> WakePC]
    BY <1>2 DEF KillService, StartWake, WakePC
  <2>3. TypeOK' /\ Holding'
    BY <1>2, <2>1, <2>2 DEF KillService, Holding
  <2> QED
    BY <1>2, <2>3, CountKept DEF KillService, Sleepers
<1>3. CASE WakeUpAll
  <2>1. TypeOK' /\ Holding'
    BY <1>3 DEF WakeUpAll, Holding
  <2>2. Sleepers' = Sleepers
    BY <1>3 DEF WakeUpAll, Sleepers
  <2> QED
    BY <1>3, <2>1, <2>2, CountKept DEF WakeUpAll
<1> QED
  BY <1>1, <1>2, <1>3 DEF MainStep

\* For any number of workers and senders, and with wake-ups that come early, late or
\* for no reason: sleepCount is the number of workers inside WorkerWait.
THEOREM SleepersCounted == Spec => []SleepCountExact
<1>1. PoolInv /\ [Next]_vars => PoolInv'
  <2> SUFFICES ASSUME PoolInv, [Next]_vars PROVE PoolInv'
    OBVIOUS
  <2>1. CASE Next
    BY <2>1, LoopStep, CountStep, WakeUpStep, ExitStep DEF Next, WorkerStep
  <2>2. CASE UNCHANGED vars
    BY <2>2 DEF vars, PoolInv, SleepCountExact, TypeOK, Holding
  <2> QED
    BY <2>1, <2>2
<1>2. PoolInv => SleepCountExact
  BY DEF PoolInv
<1> QED
  BY <1>1, <1>2, PoolInit, PTL DEF Spec

-----------------------------------------------------------------------------
(* Names *)

\* The types of the tables and of the threads.
NamesTypes ==
    /\ maxId \in 0 .. MaxId /\ services \subseteq 1 .. maxId /\ exiting \subseteq 1 .. maxId
    /\ nameMap \in [Name -> N!Handle \cup {N!NoName}] /\ late \subseteq Name
    /\ place \in [N!Thread -> {"idle", "next", "erase", "removename", "mark"}]
    /\ id \in [N!Thread -> 0 .. MaxId] /\ ids \subseteq 1 .. maxId

\* A kill is for an id that was given out, and once the service is erased its id does
\* not come back; once its names are gone, only a late name can lead to it.
Kills ==
    \A t \in N!Thread :
      /\ place[t] \in {"erase", "removename", "mark"} => id[t] \in 1 .. maxId
      /\ place[t] \in {"removename", "mark"} => id[t] \notin services
      /\ place[t] = "mark" => \A n \in Name \ late : N!findname(n) # id[t]

\* What KillAllServices saw and has not reached is still on its list, or being killed
\* by it.
Swept ==
    place[Main] # "idle" =>
      /\ snapshot \in 0 .. maxId
      /\ \A i \in services : i > snapshot \/ i \in ids \/ (place[Main] = "erase" /\ id[Main] = i)

\* The inductive invariant of the two properties.
NamesInv == NamesTypes /\ Kills /\ Swept /\ NamesOfLive

\* Empty tables, idle threads.
LEMMA NamesInit == N!Init => NamesInv
  BY ProcessAssumption DEF N!Init, NamesInv, NamesTypes, Kills, Swept, NamesOfLive, N!NamesOfLive, N!findname,
     N!Thread, N!Handle, N!NoName

\* An id is never given out twice, so a new service is not one being killed.
LEMMA NewServiceStep == ASSUME NamesInv, N!NewService PROVE NamesInv'
<1> USE DEF NamesInv, N!NewService, N!main
<1>1. NamesTypes'
  BY ProcessAssumption DEF NamesTypes
<1>2. Kills'
  BY DEF NamesTypes, Kills, N!findname
<1>3. Swept'
  BY DEF NamesTypes, Swept, N!Thread
<1>4. NamesOfLive'
  BY DEF NamesTypes, NamesOfLive, N!NamesOfLive, N!findname
<1> QED
  BY <1>1, <1>2, <1>3, <1>4

\* A name given to an id that is not in the table is late; any other leads to a
\* service nobody has erased.
LEMMA NamehandleStep ==
    ASSUME NamesInv, NEW n \in Name, NEW h \in N!Handle, N!namehandle(n, h)
    PROVE  NamesInv'
<1> USE DEF NamesInv, N!namehandle, N!main
<1>1. NamesTypes'
  BY DEF NamesTypes
<1>2. ASSUME NEW m \in Name \ late'
      PROVE  \/ m # n /\ m \in Name \ late /\ N!findname(m)' = N!findname(m)
             \/ m = n /\ N!findname(m)' = h /\ h \in services
  <2>1. CASE m = n
    BY <1>2, <2>1 DEF NamesTypes, N!findname, N!Handle, N!NoName
  <2>2. CASE m # n
    BY <1>2, <2>2 DEF NamesTypes, N!findname
  <2> QED
    BY <2>1, <2>2
<1>3. Kills'
  BY <1>2 DEF NamesTypes, Kills
<1>4. Swept'
  BY DEF Swept
<1>5. NamesOfLive'
  BY <1>2 DEF NamesTypes, NamesOfLive, N!NamesOfLive
<1> QED
  BY <1>1, <1>3, <1>4, <1>5

\* Looking up the id of a service to kill.
LEMMA KillServiceStep ==
    ASSUME NamesInv, NEW t \in Killer, NEW i \in 1 .. MaxId, N!KillService(t, i)
    PROVE  NamesInv'
<1> USE DEF NamesInv, N!KillService, N!Goto, N!main, N!Thread
<1>1. NamesTypes'
  BY DEF NamesTypes
<1>2. Kills'
  BY DEF NamesTypes, Kills, N!findname
<1>3. Swept'
  BY ProcessAssumption DEF NamesTypes, Swept
<1>4. NamesOfLive'
  BY DEF NamesTypes, NamesOfLive, N!NamesOfLive, N!findname
<1> QED
  BY <1>1, <1>2, <1>3, <1>4

\* The service leaves the table, and its killer is on its way to the names.
LEMMA EraseStep == ASSUME NamesInv, NEW t \in N!Thread, N!Erase(t) PROVE NamesInv'
<1> USE DEF NamesInv, N!Erase, N!Goto, N!main
<1>1. NamesTypes'
  BY DEF NamesTypes
<1>2. Kills'
  BY DEF NamesTypes, Kills, N!findname
<1>3. Swept'
  BY DEF NamesTypes, Swept, N!Thread
<1>4. NamesOfLive'
  BY DEF NamesTypes, NamesOfLive, N!NamesOfLive, N!findname
<1> QED
  BY <1>1, <1>2, <1>3, <1>4

\* The names that lead to the service go; the others do not depend on this thread.
LEMMA RemovenameStep == ASSUME NamesInv, NEW t \in N!Thread, N!removename(t) PROVE NamesInv'
<1> USE DEF NamesInv, N!removename, N!Goto, N!main
<1>1. NamesTypes'
  BY DEF NamesTypes
<1>2. ASSUME NEW m \in Name \ late'
      PROVE  \/ N!findname(m)' = 0
             \/ m \in Name \ late /\ N!findname(m)' = N!findname(m) /\ N!findname(m) # id[t]
  BY <1>2 DEF NamesTypes, N!findname
<1>3. id[t] \in 1 .. maxId
  BY DEF Kills
<1>4. Kills'
  BY <1>2, <1>3 DEF NamesTypes, Kills
<1>5. Swept'
  BY DEF NamesTypes, Swept, N!Thread
<1>6. NamesOfLive'
  BY <1>2 DEF NamesTypes, NamesOfLive, N!NamesOfLive
<1> QED
  BY <1>1, <1>4, <1>5, <1>6

\* The mark comes when neither the id nor a name leads to the service.
LEMMA MarkStep == ASSUME NamesInv, NEW t \in N!Thread, N!Mark(t) PROVE NamesInv'
<1> USE DEF NamesInv, N!Mark, N!Goto, N!main
<1>1. NamesTypes'
  <2>1. id[t] \in 1 .. maxId
    BY DEF Kills
  <2>2. exiting' \subseteq 1 .. maxId'
    BY <2>1 DEF NamesTypes
  <2>3. 0 \in 0 .. MaxId
    BY ProcessAssumption
  <2>4. id' \in [N!Thread -> 0 .. MaxId]
    BY <2>3 DEF NamesTypes
  <2> QED
    BY <2>2, <2>4 DEF NamesTypes
<1>2. Kills'
  BY DEF NamesTypes, Kills, N!findname
<1>3. Swept'
  BY DEF NamesTypes, Swept, N!Thread
<1>4. NamesOfLive'
  BY DEF NamesTypes, Kills, NamesOfLive, N!NamesOfLive, N!findname
<1> QED
  BY <1>1, <1>2, <1>3, <1>4

\* The exit takes its snapshot, ...
LEMMA KillAllStep == ASSUME NamesInv, N!KillAllServices PROVE NamesInv'
<1> USE DEF NamesInv, N!KillAllServices, N!Goto, N!Thread
<1>1. NamesTypes'
  BY ProcessAssumption DEF NamesTypes
<1>2. Kills'
  BY DEF NamesTypes, Kills, N!findname
<1>3. Swept'
  BY DEF NamesTypes, Swept
<1>4. NamesOfLive'
  BY DEF NamesTypes, NamesOfLive, N!NamesOfLive, N!findname
<1> QED
  BY <1>1, <1>2, <1>3, <1>4

\* ... and goes through it: an id leaves the list when its kill begins or is not
\* needed.
LEMMA KillNextStep == ASSUME NamesInv, NEW i \in 1 .. MaxId, N!KillNext(i) PROVE NamesInv'
<1> USE DEF NamesInv, N!KillNext, N!Goto, N!Thread
<1>1. NamesTypes'
  BY ProcessAssumption DEF NamesTypes
<1>2. Kills'
  BY DEF NamesTypes, Kills, N!findname
<1>3. Swept'
  BY DEF NamesTypes, Swept
<1>4. NamesOfLive'
  BY DEF NamesTypes, NamesOfLive, N!NamesOfLive, N!findname
<1> QED
  BY <1>1, <1>2, <1>3, <1>4

\* The invariant of the tables of services and names.
LEMMA NamesInvariance == N!Spec => []NamesInv
<1>1. NamesInv /\ [N!Next]_(N!vars) => NamesInv'
  <2> SUFFICES ASSUME NamesInv, [N!Next]_(N!vars) PROVE NamesInv'
    OBVIOUS
  <2>1. CASE N!Next
    BY <2>1, NewServiceStep, NamehandleStep, KillServiceStep, EraseStep, RemovenameStep, MarkStep,
       KillAllStep, KillNextStep DEF N!Next
  <2>2. CASE UNCHANGED N!vars
    BY <2>2 DEF N!vars, NamesInv, NamesTypes, Kills, Swept, NamesOfLive, N!NamesOfLive, N!findname
  <2> QED
    BY <2>1, <2>2
<1> QED
  BY <1>1, NamesInit, PTL DEF N!Spec

\* However kills, names and the exit interleave: a name that was given to a service
\* in the table leads to one that can be addressed or is being killed, and nothing
\* leads to a service that may run OnExit.
THEOREM NamesLive == N!Spec => []NamesOfLive
<1>1. NamesInv => NamesOfLive
  BY DEF NamesInv
<1> QED
  BY <1>1, NamesInvariance, PTL

\* When KillAllServices is through, no service it saw is left, whoever killed it.
THEOREM ExitComplete == N!Spec => []ExitKillsAll
<1>1. NamesInv => ExitKillsAll
  BY DEF NamesInv, Swept, ExitKillsAll, N!ExitKillsAll
<1> QED
  BY <1>1, NamesInvariance, PTL

-----------------------------------------------------------------------------
(* Daemon *)

\* The processes that have passed write_pid's open, or ended: each has made at most
\* one file.
Opened == {p \in Proc : at[p] \notin {"new", "open"}}

\* The types; a file is made by an open, so there are no more than processes.
DaemonTypes ==
    /\ files \in 0 .. Cardinality(Opened) /\ pidfile \in 0 .. files
    /\ content \in [P!File -> Proc \cup {0}] /\ lock \in [P!File -> Proc \cup {0}]
    /\ at \in [Proc -> {"new", "open", "lock", "write", "run", "left", "dead", "other"}]
    /\ fd \in [Proc -> 0 .. files] /\ raced \in BOOLEAN

\* A process that has the lock holds it on the file it has open, and one that has
\* written its pid finds it there.
Locks ==
    \A p \in Proc :
      /\ at[p] \in {"lock", "write", "run"} => fd[p] # 0
      /\ P!Runs(p) => lock[fd[p]] = p
      /\ at[p] = "run" => content[fd[p]] = p

\* While no name was removed under another's feet, all who want the lock or have it
\* are at the file the name stands for.
SameFile == ~raced => \A p \in Proc : at[p] \in {"lock", "write", "run"} => fd[p] = pidfile

\* The inductive invariant: of those at one file, the lock lets one run.
DaemonInv == DaemonTypes /\ Locks /\ SameFile

\* The processes that have opened are a finite set, and all of File is there.
LEMMA OpenedCounted ==
    /\ IsFiniteSet(Opened) /\ Cardinality(Opened) \in Nat
    /\ Cardinality(Opened) <= Cardinality(Proc) /\ Cardinality(Proc) \in Nat
<1>1. IsFiniteSet(Proc) /\ Opened \subseteq Proc
  BY ProcessAssumption DEF Opened
<1> QED
  BY <1>1, FS_Subset, FS_CardinalityType

\* Numbers of files are in File.
LEMMA FileRange == ASSUME DaemonTypes PROVE (1 .. files) \subseteq P!File
<1>1. files \in 0 .. Cardinality(Opened)
  BY DEF DaemonTypes
<1> SUFFICES ASSUME NEW f \in 1 .. files PROVE f \in 1 .. Cardinality(Proc)
  BY DEF P!File, P!Cardinality, Cardinality, P!IsFiniteSet, IsFiniteSet
<1> QED
  BY <1>1, OpenedCounted

\* No process has begun.
LEMMA DaemonInit == P!Init => DaemonInv
<1> SUFFICES ASSUME P!Init PROVE DaemonInv
  OBVIOUS
<1>1. DaemonTypes
  <2>1. files \in 0 .. Cardinality(Opened)
    BY OpenedCounted DEF P!Init
  <2>2. raced \in BOOLEAN
    BY DEF P!Init
  <2> QED
    BY <2>1, <2>2 DEF P!Init, DaemonTypes
<1> QED
  BY <1>1 DEF P!Init, DaemonInv, Locks, SameFile, P!Runs

\* A step that moves a process past the open keeps the bound on the files, and so
\* does any that opens no new one.
LEMMA OpenedGrows ==
    ASSUME DaemonTypes, NEW p \in Proc, NEW x, x \notin {"new", "open"}, at' = [at EXCEPT ![p] = x]
    PROVE  /\ Cardinality(Opened') \in Nat /\ Cardinality(Opened) <= Cardinality(Opened')
           /\ at[p] = "open" => Cardinality(Opened') = Cardinality(Opened) + 1
<1>1. Opened' = Opened \cup {p} /\ (at[p] = "open" => p \notin Opened)
  BY DEF Opened, DaemonTypes
<1>2. IsFiniteSet(Opened) /\ Cardinality(Opened) \in Nat
  BY OpenedCounted
<1> QED
  BY <1>1, <1>2, FS_AddElement

\* So a step that makes no file keeps their bound.
LEMMA FilesBound ==
    ASSUME DaemonTypes, NEW p \in Proc, NEW x, x \notin {"new", "open"}, at' = [at EXCEPT ![p] = x],
           UNCHANGED files
    PROVE  files' \in 0 .. Cardinality(Opened')
<1>1. files \in 0 .. Cardinality(Opened)
  BY DEF DaemonTypes
<1>2. Cardinality(Opened') \in Nat /\ Cardinality(Opened) <= Cardinality(Opened')
  BY OpenedGrows
<1> QED
  BY <1>1, <1>2, OpenedCounted

\* check_pid: the process ends or goes on to the open.
LEMMA CheckPidStep == ASSUME DaemonInv, NEW p \in Proc, P!check_pid(p) PROVE DaemonInv'
<1> USE DEF DaemonInv, P!check_pid, P!Goto
<1>1. DaemonTypes'
  <2>1. at' = [at EXCEPT ![p] = "dead"] \/ at' = [at EXCEPT ![p] = "open"]
    OBVIOUS
  <2>2. CASE at' = [at EXCEPT ![p] = "dead"]
    <3>1. files' \in 0 .. Cardinality(Opened')
      BY <2>2, FilesBound
    <3> QED
      BY <2>2, <3>1 DEF DaemonTypes
  <2>3. CASE at' = [at EXCEPT ![p] = "open"]
    <3>1. Opened' = Opened
      BY <2>3 DEF Opened, DaemonTypes
    <3> QED
      BY <2>3, <3>1 DEF DaemonTypes
  <2> QED
    BY <2>1, <2>2, <2>3
<1>2. Locks' /\ SameFile'
  BY DEF DaemonTypes, Locks, SameFile, P!Runs
<1> QED
  BY <1>1, <1>2

\* The open: a new file only where there was no name, and then nobody is at a file
\* that lost its name, unless raced.
LEMMA OpenStep == ASSUME DaemonInv, NEW p \in Proc, P!Open(p) PROVE DaemonInv'
<1> USE DEF DaemonInv, P!Open, P!Goto
<1>1. DaemonTypes'
  <2>1. files' \in 0 .. Cardinality(Opened') /\ files <= files'
    <3>1. files \in 0 .. Cardinality(Opened)
      BY DEF DaemonTypes
    <3>2. Cardinality(Opened') = Cardinality(Opened) + 1
      BY OpenedGrows
    <3> QED
      BY <3>1, <3>2, OpenedCounted
  <2>2. pidfile' \in 0 .. files'
    BY <2>1 DEF DaemonTypes
  <2> QED
    BY <2>1, <2>2 DEF DaemonTypes
<1>2. pidfile' # 0 /\ (pidfile # 0 => pidfile' = pidfile)
  BY OpenedCounted DEF DaemonTypes
<1>3. Locks'
  BY <1>2 DEF DaemonTypes, Locks, P!Runs
<1>4. SameFile'
  BY <1>2 DEF DaemonTypes, Locks, SameFile
<1> QED
  BY <1>1, <1>3, <1>4

\* A process that ends gives up its own locks only.
LEMMA EndsStep ==
    ASSUME DaemonInv, NEW p \in Proc, P!Ends(p), UNCHANGED <<pidfile, files, content, raced>>
    PROVE  DaemonInv'
<1> USE DEF DaemonInv, P!Ends, P!Goto
<1>1. DaemonTypes'
  <2>1. files' \in 0 .. Cardinality(Opened')
    BY FilesBound
  <2>2. lock' \in [P!File -> Proc \cup {0}]
    BY DEF DaemonTypes
  <2> QED
    BY <2>1, <2>2 DEF DaemonTypes
<1>2. ASSUME NEW q \in Proc, P!Runs(q)'
      PROVE  lock'[fd'[q]] = q
  <2>1. q # p /\ P!Runs(q) /\ fd'[q] = fd[q] /\ fd[q] # 0
    BY <1>2 DEF DaemonTypes, P!Runs, Locks
  <2>2. fd[q] \in P!File
    BY <2>1, FileRange DEF DaemonTypes
  <2> QED
    BY <2>1, <2>2 DEF Locks
<1>3. Locks' /\ SameFile'
  BY <1>2 DEF DaemonTypes, Locks, SameFile, P!Runs
<1> QED
  BY <1>1, <1>3

\* flock: who gets the lock found it free.
LEMMA FlockStep == ASSUME DaemonInv, NEW p \in Proc, P!Flock(p) PROVE DaemonInv'
<1> USE DEF DaemonInv, P!Flock, P!Goto
<1>1. CASE lock[fd[p]] # 0
  BY <1>1, EndsStep
<1>2. CASE lock[fd[p]] = 0
  <2>1. fd[p] # 0 /\ fd[p] \in P!File
    BY FileRange DEF DaemonTypes, Locks
  <2>2. DaemonTypes'
    <3>1. files' \in 0 .. Cardinality(Opened')
      BY <1>2, FilesBound
    <3> QED
      BY <1>2, <3>1 DEF DaemonTypes
  <2>3. ASSUME NEW q \in Proc, P!Runs(q)'
        PROVE  lock'[fd'[q]] = q
    <3>1. CASE q = p
      BY <1>2, <2>1, <3>1 DEF DaemonTypes
    <3>2. CASE q # p
      <4>1. P!Runs(q) /\ lock[fd[q]] = q /\ q # 0
        BY <1>2, <2>3, <3>2, ProcessAssumption DEF DaemonTypes, Locks, P!Runs
      <4>2. fd[q] # fd[p]
        BY <1>2, <4>1
      <4>3. fd' = fd /\ lock' = [lock EXCEPT ![fd[p]] = p]
        BY <1>2
      <4> QED
        BY <4>1, <4>2, <4>3
    <3> QED
      BY <3>1, <3>2
  <2>4. Locks'
    BY <1>2, <2>1, <2>3 DEF DaemonTypes, Locks, P!Runs
  <2>5. SameFile'
    BY <1>2 DEF DaemonTypes, SameFile
  <2> QED
    BY <2>2, <2>4, <2>5
<1> QED
  BY <1>1, <1>2

\* The pid is written to a file that nobody else has the lock of.
LEMMA WriteStep == ASSUME DaemonInv, NEW p \in Proc, P!Write(p) PROVE DaemonInv'
<1> USE DEF DaemonInv, P!Write, P!Goto
<1>1. fd[p] # 0 /\ fd[p] \in P!File
  BY FileRange DEF DaemonTypes, Locks
<1>2. DaemonTypes'
  <2>1. files' \in 0 .. Cardinality(Opened')
    BY FilesBound
  <2> QED
    BY <2>1 DEF DaemonTypes
<1>3. ASSUME NEW q \in Proc, at'[q] = "run"
      PROVE  content'[fd'[q]] = q
  BY <1>1, <1>3 DEF DaemonTypes, Locks, P!Runs
<1>4. Locks'
  BY <1>3 DEF DaemonTypes, Locks, P!Runs
<1>5. SameFile'
  BY DEF DaemonTypes, SameFile
<1> QED
  BY <1>2, <1>4, <1>5

\* The unlink: unless somebody else is at the file, nobody is at any.
LEMMA UnlinkStep == ASSUME DaemonInv, NEW p \in Proc, P!Unlink(p) PROVE DaemonInv'
<1> USE DEF DaemonInv, P!Unlink, P!Goto
<1>1. DaemonTypes'
  <2>1. files' \in 0 .. Cardinality(Opened')
    BY FilesBound
  <2> QED
    BY <2>1 DEF DaemonTypes
<1>2. Locks'
  BY DEF DaemonTypes, Locks, P!Runs
<1>3. SameFile'
  <2> SUFFICES ASSUME ~raced', NEW q \in Proc, at'[q] \in {"lock", "write", "run"} PROVE FALSE
    BY DEF SameFile
  <2>1. ~raced /\ ~ \E r \in Proc \ {p} : fd[r] # 0 /\ fd[r] = pidfile
    OBVIOUS
  <2>2. q # p /\ at[q] \in {"lock", "write", "run"}
    BY DEF DaemonTypes
  <2> QED
    BY <2>1, <2>2 DEF Locks, SameFile
<1> QED
  BY <1>1, <1>2, <1>3

\* The kernel gives a pid away that no daemon has any more.
LEMMA ReuseStep == ASSUME DaemonInv, NEW p \in Proc, P!Reuse(p) PROVE DaemonInv'
<1> USE DEF DaemonInv, P!Reuse, P!Goto
<1>1. DaemonTypes'
  <2>1. files' \in 0 .. Cardinality(Opened')
    BY FilesBound
  <2> QED
    BY <2>1 DEF DaemonTypes
<1>2. Locks' /\ SameFile'
  BY DEF DaemonTypes, Locks, SameFile, P!Runs
<1> QED
  BY <1>1, <1>2

\* For any number of processes, and starts, exits and crashes in any order: unless an
\* exit removed the name of a file another had open, one daemon runs and check_pid
\* finds its pid.
THEOREM DaemonAlone == P!Spec => []OneDaemon
<1>1. DaemonInv /\ [P!Next]_(P!vars) => DaemonInv'
  <2> SUFFICES ASSUME DaemonInv, [P!Next]_(P!vars) PROVE DaemonInv'
    OBVIOUS
  <2>1. ASSUME NEW p \in Proc, P!End(p) PROVE DaemonInv'
    BY <2>1, EndsStep DEF P!End
  <2>2. CASE P!Next
    BY <2>1, <2>2, CheckPidStep, OpenStep, FlockStep, WriteStep, UnlinkStep, ReuseStep DEF P!Next
  <2>3. CASE UNCHANGED P!vars
    BY <2>3 DEF P!vars, DaemonInv, DaemonTypes, Opened, Locks, SameFile, P!Runs
  <2> QED
    BY <2>2, <2>3
<1>2. DaemonInv => OneDaemon
  BY DEF DaemonInv, DaemonTypes, Locks, SameFile, OneDaemon, P!OneDaemon, P!Runs
<1> QED
  BY <1>1, <1>2, DaemonInit, PTL DEF P!Spec
=============================================================================

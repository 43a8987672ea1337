------------------------------- MODULE Names --------------------------------
(***************************************************************************)
(* The table of services and the table of names (starnet_handle.cpp, and   *)
(* NewService, KillService and KillAllServices of starnet.cpp).  Each has  *)
(* a lock of its own; a kill goes through the first, then the second, then *)
(* marks the service, while other threads create, name and kill.  What     *)
(* becomes of a marked service is module Dispatch's.                       *)
(***************************************************************************)
EXTENDS Integers, FiniteSets

CONSTANTS Worker,   \* worker threads
          Main,     \* the main thread, which kills all at exit
          Name,     \* names, without the leading dot
          MaxId     \* bound: services created

VARIABLES maxId,    \* Starnet::maxId
          services, \* the ids in the table of services
          nameMap,  \* the handle each name is registered for, NoName for none
          exiting,  \* the ids marked isExiting
          pc, id,   \* where a thread is in KillService, and for which service
          ids,      \* what KillAllServices has still to kill
          snapshot, \* maxId when it looked, MaxId + 1 before
          late      \* the names registered for a service that was not in the table

vars == <<maxId, services, nameMap, exiting, pc, id, ids, snapshot, late>>
main == <<ids, snapshot>>

Thread == Worker \cup {Main}
NoName == -1
Handle == 0 .. MaxId

Init ==
    /\ maxId = 0 /\ services = {} /\ exiting = {}
    /\ nameMap = [n \in Name |-> NoName] /\ late = {}
    /\ pc = [t \in Thread |-> "idle"] /\ id = [t \in Thread |-> 0]
    /\ ids = {} /\ snapshot = MaxId + 1

\* Ids count from 1; 0 is no service.
NewService ==
    /\ maxId < MaxId /\ maxId' = maxId + 1
    /\ services' = services \cup {maxId'}
    /\ UNCHANGED <<nameMap, exiting, pc, id, main, late>>

\* A name that is taken is refused; whether the handle is a service's is not asked.
namehandle(n, h) ==
    /\ nameMap[n] = NoName
    /\ nameMap' = [nameMap EXCEPT ![n] = h]
    /\ late' = IF h \in services THEN late ELSE late \cup {n}
    /\ UNCHANGED <<maxId, services, exiting, pc, id, main>>

\* 0 for a name that is not there, and for one registered for handle 0.
findname(n) == IF nameMap[n] = NoName THEN 0 ELSE nameMap[n]

-----------------------------------------------------------------------------
(* KillService *)

Goto(t, place, i) == pc' = [pc EXCEPT ![t] = place] /\ id' = [id EXCEPT ![t] = i]

\* By a worker; nothing happens when GetService does not find the id.
KillService(t, i) ==
    /\ t \in Worker /\ pc[t] = "idle" /\ i \in services
    /\ Goto(t, "erase", i)
    /\ UNCHANGED <<maxId, services, nameMap, exiting, main, late>>

\* Mutant: the service is marked before its names are gone.
Erase_Mark(t) ==
    /\ pc[t] = "erase"
    /\ services' = services \ {id[t]}
    /\ exiting' = exiting \cup {id[t]}
    /\ Goto(t, "removename", id[t])
    /\ UNCHANGED <<maxId, nameMap, main, late>>

Erase(t) ==
    /\ pc[t] = "erase"
    /\ services' = services \ {id[t]}
    /\ Goto(t, "removename", id[t])
    /\ UNCHANGED <<maxId, nameMap, exiting, main, late>>

removename(t) ==
    LET held == {n \in Name : nameMap[n] = id[t]} IN
    /\ pc[t] = "removename"
    /\ nameMap' = [n \in Name |-> IF n \in held THEN NoName ELSE nameMap[n]]
    /\ late' = late \ held
    /\ Goto(t, "mark", id[t])
    /\ UNCHANGED <<maxId, services, exiting, main>>

\* srv->isExiting = true: from here on a worker may run OnExit.
Mark(t) ==
    /\ pc[t] = "mark"
    /\ exiting' = exiting \cup {id[t]}
    /\ Goto(t, IF t = Main THEN "next" ELSE "idle", 0)
    /\ UNCHANGED <<maxId, services, nameMap, main, late>>

\* KillAllServices: a snapshot of the ids, ...
KillAllServices ==
    /\ pc[Main] = "idle" /\ snapshot > MaxId
    /\ ids' = services /\ snapshot' = maxId
    /\ Goto(Main, "next", 0)
    /\ UNCHANGED <<maxId, services, nameMap, exiting, late>>

\* Mutant: the loop ends at an id that somebody else has killed.
KillNext_Stop(i) ==
    /\ pc[Main] = "next" /\ i \in ids
    /\ ids' = IF i \in services THEN ids \ {i} ELSE {}
    /\ Goto(Main, IF i \in services THEN "erase" ELSE "next", i)
    /\ UNCHANGED <<maxId, services, nameMap, exiting, snapshot, late>>

\* ... and KillService for each, which skips those that are gone.
KillNext(i) ==
    /\ pc[Main] = "next" /\ i \in ids
    /\ ids' = ids \ {i}
    /\ Goto(Main, IF i \in services THEN "erase" ELSE "next", i)
    /\ UNCHANGED <<maxId, services, nameMap, exiting, snapshot, late>>

Next ==
    \/ NewService \/ KillAllServices
    \/ \E n \in Name, h \in Handle : namehandle(n, h)
    \/ \E t \in Thread : Erase(t) \/ removename(t) \/ Mark(t)
    \/ \E t \in Worker, i \in 1 .. MaxId : KillService(t, i)
    \/ \E i \in 1 .. MaxId : KillNext(i)

Spec == Init /\ [][Next]_vars

-----------------------------------------------------------------------------
(* Properties *)

\* A name leads to a service that can be addressed, to one whose kill is on its way
\* to the names, or was registered for an id that was not (or no longer) there; and
\* when a service is marked, so that its OnExit may run, no id and no name leads to
\* it any more.  Two kills of one service, or a kill and the exit of the process, do
\* not undo each other.
NamesOfLive ==
    /\ \A n \in Name \ late :
         LET h == findname(n) IN
         h = 0 \/ h \in services \/ \E t \in Thread : pc[t] = "removename" /\ id[t] = h
    /\ \A i \in exiting : i \notin services /\ \A n \in Name \ late : findname(n) # i

\* When KillAllServices is through, the services it saw are out of the table, also
\* those that others kill meanwhile; a service created since then lives on.
ExitKillsAll ==
    pc[Main] = "next" /\ ids = {} => \A i \in services : i > snapshot
=============================================================================

----------------------------- MODULE MCProcess ------------------------------
\* The life of a process: its pool of workers (WorkerPool), the tables of services
\* and names (Names), and the pidfile it is started with (Daemon), each on a small
\* instance of its own.  In a behaviour one of them runs and the others stay as they
\* begin.
EXTENDS WorkerPool

CONSTANTS Killer, Name, MaxId, Proc

\* Ids are counted, the main thread is not a worker, and 0 is no pid.
ASSUME ProcessAssumption ==
    /\ MaxId \in Nat /\ Main \notin Killer
    /\ IsFiniteSet(Proc) /\ 0 \notin Proc

VARIABLES part,                                                              \* the part that runs
          maxId, services, nameMap, exiting, place, id, ids, snapshot, late, \* Names
          pidfile, files, content, lock, at, fd, raced                       \* Daemon

N == INSTANCE Names WITH Worker <- Killer, pc <- place
P == INSTANCE Daemon WITH pc <- at

names == <<maxId, services, nameMap, exiting, place, id, ids, snapshot, late>>
daemon == <<pidfile, files, content, lock, at, fd, raced>>

ProcessInit ==
    /\ part \in {"pool", "names", "daemon"}
    /\ Init /\ N!Init /\ P!Init

ProcessNext ==
    \/ part = "pool" /\ Next /\ UNCHANGED <<part, names, daemon>>
    \/ part = "names" /\ N!Next /\ UNCHANGED <<part, vars, daemon>>
    \/ part = "daemon" /\ P!Next /\ UNCHANGED <<part, vars, names>>

\* With the fairness of the pool: the behaviours that satisfy it are the pool's, the
\* other two parts are checked for what their steps reach.
ProcessSpec == ProcessInit /\ [][ProcessNext]_<<part, vars, names, daemon>> /\ Fairness

-----------------------------------------------------------------------------
(* The properties of the instances *)

\* Names: a name leads to a service that can be addressed or is about to lose it, and
\* one that may run OnExit can no longer be found.
NamesOfLive == N!NamesOfLive
\* Names: at exit every service that was there is killed.
ExitKillsAll == N!ExitKillsAll
\* Daemon: at most one daemon runs, and the pidfile names it.
OneDaemon == P!OneDaemon
=============================================================================

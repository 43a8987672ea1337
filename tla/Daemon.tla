------------------------------- MODULE Daemon -------------------------------
(***************************************************************************)
(* The pidfile of the daemon mode (starnet_daemon.cpp, called by Start and *)
(* Wait of starnet.cpp): several processes are started with one pidfile,   *)
(* at the same time or after another has ended or crashed.  A process is   *)
(* its pid; the pidfile is a name in the file system for a file that can   *)
(* be locked and lives on without the name.                                *)
(***************************************************************************)
EXTENDS Integers, FiniteSets

CONSTANTS Proc        \* the processes, as pids (positive numbers)

VARIABLES pidfile,    \* the file behind the name, 0 for none
          files,      \* files made so far
          content,    \* the pid each file holds, 0 when it is empty
          lock,       \* who holds the lock on each file, 0 for nobody
          pc, fd,     \* where a process is, and the file it has open
          raced       \* a name was removed while another process held the file open

vars == <<pidfile, files, content, lock, pc, fd, raced>>

File == 1 .. Cardinality(Proc)

Init ==
    /\ pidfile = 0 /\ files = 0
    /\ content = [f \in File |-> 0] /\ lock = [f \in File |-> 0]
    /\ pc = [p \in Proc |-> "new"] /\ fd = [p \in Proc |-> 0] /\ raced = FALSE

\* kill(pid, 0): the pid is a daemon's, or has been given to another program.
Alive(p) == p \in Proc /\ pc[p] \notin {"new", "dead"}

Goto(p, place) == pc' = [pc EXCEPT ![p] = place]

\* The process is gone: the kernel closes its files, and with them its lock.
Ends(p) ==
    /\ Goto(p, "dead")
    /\ fd' = [fd EXCEPT ![p] = 0]
    /\ lock' = [f \in File |-> IF lock[f] = p THEN 0 ELSE lock[f]]

\* check_pid: refused when the file names a process that is alive.
check_pid(p) ==
    /\ pc[p] = "new"
    /\ Goto(p, IF pidfile # 0 /\ Alive(content[pidfile]) THEN "dead" ELSE "open")
    /\ UNCHANGED <<pidfile, files, content, lock, fd, raced>>

\* Mutant: O_TRUNC.
Open_Truncates(p) ==
    /\ pc[p] = "open"
    /\ files' = IF pidfile = 0 THEN files + 1 ELSE files
    /\ pidfile' = IF pidfile = 0 THEN files' ELSE pidfile
    /\ content' = [content EXCEPT ![pidfile'] = 0]
    /\ fd' = [fd EXCEPT ![p] = pidfile']
    /\ Goto(p, "lock")
    /\ UNCHANGED <<lock, raced>>

\* write_pid, in the child: open, O_CREAT, ...
Open(p) ==
    /\ pc[p] = "open"
    /\ files' = IF pidfile = 0 THEN files + 1 ELSE files
    /\ pidfile' = IF pidfile = 0 THEN files' ELSE pidfile
    /\ fd' = [fd EXCEPT ![p] = pidfile']
    /\ Goto(p, "lock")
    /\ UNCHANGED <<content, lock, raced>>

\* ... flock, without waiting: who does not get it exits, ...
Flock(p) ==
    /\ pc[p] = "lock"
    /\ IF lock[fd[p]] # 0 THEN Ends(p)
       ELSE lock' = [lock EXCEPT ![fd[p]] = p] /\ Goto(p, "write") /\ UNCHANGED fd
    /\ UNCHANGED <<pidfile, files, content, raced>>

\* ... and the pid is written, over what was there.  The descriptor stays open.
Write(p) ==
    /\ pc[p] = "write"
    /\ content' = [content EXCEPT ![fd[p]] = p]
    /\ Goto(p, "run")
    /\ UNCHANGED <<pidfile, files, lock, fd, raced>>

\* Wait, at the end: daemon_exit unlinks the name, whatever file it stands for.
Unlink(p) ==
    /\ pc[p] = "run"
    /\ pidfile' = 0
    /\ raced' = (raced \/ \E q \in Proc \ {p} : fd[q] # 0 /\ fd[q] = pidfile)
    /\ Goto(p, "left")
    /\ UNCHANGED <<files, content, lock, fd>>

\* The process ends: after that, or at any moment by a crash or an exit(1).
End(p) ==
    /\ Alive(p) /\ Ends(p)
    /\ UNCHANGED <<pidfile, files, content, raced>>

\* The kernel gives the pid to another program.
Reuse(p) ==
    /\ pc[p] = "dead" /\ Goto(p, "other")
    /\ UNCHANGED <<pidfile, files, content, lock, fd, raced>>

Next ==
    \E p \in Proc : check_pid(p) \/ Open(p) \/ Flock(p) \/ Write(p) \/ Unlink(p) \/ End(p) \/ Reuse(p)

Spec == Init /\ [][Next]_vars

-----------------------------------------------------------------------------
(* Properties *)

Runs(p) == pc[p] \in {"write", "run"}

\* At most one daemon runs on a pidfile, however starts, exits and crashes overlap,
\* and the pidfile names it, so that check_pid refuses whoever comes later, although
\* the losers of the race for the lock have opened the same file.  This is so as long
\* as no daemon removed the name while another had just opened the file: that one
\* then locks a file without a name, and a third makes a new one.
OneDaemon ==
    ~raced => /\ \A p, q \in Proc : Runs(p) /\ Runs(q) => p = q
              /\ \A p \in Proc : pc[p] = "run" => pidfile # 0 /\ content[pidfile] = p
=============================================================================

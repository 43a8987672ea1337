------------------------------- MODULE Engine -------------------------------
(***************************************************************************)
(* The IO engine's table of connections, conns, against the kernel's table *)
(* of descriptors and its epoll set (starnet_socket_server.cpp, Listen and *)
(* CloseConn of starnet.cpp).  Workers open, bind and close descriptors    *)
(* while the socket thread accepts, meets the end of a connection and, at  *)
(* exit, closes what is there.  Opening is three steps, closing up to      *)
(* four, and the kernel gives a number out again as soon as it is closed.  *)
(* What goes over a connection is module Connection's.                     *)
(***************************************************************************)
EXTENDS Integers, Sequences

CONSTANTS Worker,     \* worker threads
          Socket,     \* the socket thread
          Fd,         \* descriptor numbers
          MaxFiles,   \* bound: sockets made
          MaxConns    \* bound: connections added

ASSUME EngineAssumption == Socket \notin Worker /\ Fd \subseteq Nat /\ {MaxFiles, MaxConns} \subseteq Nat

VARIABLES file,     \* the socket behind each number, 0 for none
          files,    \* sockets made so far
          type,     \* of each socket: "listen", "client", "udp" or "outside"
          epoll,    \* the sockets registered with epoll
          conn,     \* the Conn objects, in the order they were made
          conns,    \* the engine's table: the object of each number, 0 for none
          given,    \* the numbers services know, with the socket they stand for
          leaked,   \* sockets Listen gave up without closing
          closing,  \* the numbers CloseAll has still to go through
          swept,    \* the sockets behind the numbers it found
          pc, reg,  \* where each thread is, and its local variables
          astray    \* a call has met another socket than the one it was for

vars == <<file, files, type, epoll, conn, conns, given, leaked, closing, swept, pc, reg, astray>>
kernel == <<file, files, type, leaked>>
table == <<conn, conns>>
exit == <<closing, swept>>
rest == <<given, exit>>

Thread == Worker \cup {Socket}
FileOf(c) == IF c = 0 THEN 0 ELSE conn[c].file
Outside(f) == f # 0 /\ type[f] = "outside"

\* A thread's local variables: the number and the socket it is busy with; the Conn
\* that GetConn returned; isBind, when it is read there and not before close; the
\* socket whose entry it is, if Bind has marked it; where it goes on after close.
Idle == [fd |-> 0, file |-> 0, type |-> "none", conn |-> 0, early |-> FALSE, bind |-> FALSE,
         found |-> 0, after |-> "idle"]

Init ==
    /\ file = [n \in Fd |-> 0] /\ files = 0 /\ type = [f \in 1 .. MaxFiles |-> "none"]
    /\ epoll = {} /\ conn = <<>> /\ conns = [n \in Fd |-> 0] /\ given = {} /\ leaked = {}
    /\ closing = {} /\ swept = {}
    /\ pc = [t \in Thread |-> "idle"] /\ reg = [t \in Thread |-> Idle] /\ astray = FALSE

\* The thread goes on at a place; at the end it forgets its variables.
Goto(t, place, r) ==
    /\ pc' = [pc EXCEPT ![t] = place]
    /\ reg' = [reg EXCEPT ![t] = IF place \in {"idle", "next", "gone"} THEN Idle ELSE r]
Meets(t, f) == astray' = (astray \/ (f # 0 /\ f # reg[t].file))
CloseFile(t, n) ==
    /\ file' = [file EXCEPT ![n] = 0] /\ epoll' = epoll \ {file[n]}
    /\ Meets(t, IF Outside(file[n]) THEN -1 ELSE file[n])

-----------------------------------------------------------------------------
(* Opening *)

\* The kernel makes a socket and gives it the lowest free number.
NewSocket(n, kind) ==
    /\ files < MaxFiles
    /\ file[n] = 0 /\ \A m \in Fd : file[m] = 0 => n <= m
    /\ files' = files + 1
    /\ file' = [file EXCEPT ![n] = files + 1]
    /\ type' = [type EXCEPT ![files + 1] = kind]

Opens(t, n, kind) ==
    /\ NewSocket(n, kind)
    /\ Goto(t, "add", [Idle EXCEPT !.fd = n, !.file = files + 1, !.type = kind])

\* Listen, Connect and AddUdp on a worker.  (Connect and AddUdp close what they made
\* when they fail.)
Open(t, n, kind) ==
    /\ t \in Worker /\ pc[t] = "idle"
    /\ Opens(t, n, kind)
    /\ UNCHANGED <<epoll, table, rest, leaked, astray>>

\* Listen returns -1 when bind or listen fails, and leaves the socket open.
ListenFails(n) ==
    /\ NewSocket(n, "listen")
    /\ leaked' = leaked \cup {files + 1}
    /\ UNCHANGED <<epoll, table, rest, pc, reg, astray>>

\* Code outside the engine makes a socket, which a service knows and may bind.
MadeOutside(n) ==
    /\ NewSocket(n, "outside")
    /\ given' = given \cup {<<n, files + 1>>}
    /\ UNCHANGED <<epoll, table, exit, leaked, pc, reg, astray>>

\* Bind: the number is open and not managed.
Bind(t, h) ==
    /\ t \in Worker /\ pc[t] = "idle"
    /\ Outside(h[2]) /\ file[h[1]] = h[2] /\ conns[h[1]] = 0
    /\ Goto(t, "add", [Idle EXCEPT !.fd = h[1], !.file = h[2], !.type = "outside"])
    /\ UNCHANGED <<kernel, epoll, table, rest, astray>>

\* emplace: an entry that is there stays.
AddConn(t) ==
    LET r == reg[t] IN
    /\ pc[t] = "add" /\ Len(conn) < MaxConns
    /\ IF conns[r.fd] # 0 THEN UNCHANGED table
       ELSE /\ conn' = Append(conn, [file |-> r.file, type |-> r.type, isBind |-> FALSE])
            /\ conns' = [conns EXCEPT ![r.fd] = Len(conn) + 1]
    /\ Goto(t, IF r.type = "outside" THEN "mark" ELSE "event", r)
    /\ UNCHANGED <<kernel, epoll, rest, astray>>

\* Bind, after AddConn: the entry of the number, whose it may be, becomes isBind.
MarkBind(t) ==
    LET c == conns[reg[t].fd] IN
    /\ pc[t] = "mark"
    /\ conn' = IF c = 0 THEN conn ELSE [conn EXCEPT ![c].isBind = TRUE]
    /\ Meets(t, FileOf(c))
    /\ Goto(t, "event", reg[t])
    /\ UNCHANGED <<kernel, epoll, conns, rest>>

\* EPOLL_CTL_ADD, and the number is returned or posted to the service.
AddEvent(t) ==
    LET f == file[reg[t].fd] IN
    /\ pc[t] = "event"
    /\ epoll' = IF f = 0 THEN epoll ELSE epoll \cup {f}
    /\ astray' = (astray \/ f # reg[t].file)
    /\ given' = given \cup {<<reg[t].fd, reg[t].file>>}
    /\ Goto(t, IF t = Socket THEN "accept" ELSE "idle", Idle)
    /\ UNCHANGED <<kernel, table, exit>>

-----------------------------------------------------------------------------
(* Closing *)

\* GetConn, the first step of every way to close, with what it returned.
GetConn(r, n, early) ==
    LET c == conns[n]
        marking == \E u \in Thread : pc[u] = "mark" /\ reg[u].fd = n
    IN  [r EXCEPT !.fd = n, !.conn = c, !.early = early, !.bind = c # 0 /\ conn[c].isBind,
                  !.found = IF marking THEN 0 ELSE FileOf(c)]

\* CloseConn, or LingerClose with nothing to flush, by a service that knows the
\* number; it can not know whether the socket thread has closed it already.
CloseConn(t, h, linger) ==
    /\ t \in Worker /\ pc[t] = "idle"
    /\ Goto(t, "remove", GetConn([Idle EXCEPT !.file = h[2], !.after = IF linger THEN "del" ELSE "idle"],
                                 h[1], ~linger))
    /\ UNCHANGED <<kernel, epoll, table, rest, astray>>

\* RemoveConn: the entry goes; CloseConn calls RemoveEvent only if there was one.
RemoveConn(t) ==
    LET c == conns[reg[t].fd] IN
    /\ pc[t] = "remove"
    /\ conns' = [conns EXCEPT ![reg[t].fd] = 0]
    /\ Meets(t, FileOf(c))
    /\ Goto(t, "close", [reg[t] EXCEPT !.after = IF @ = "idle" /\ c # 0 THEN "del" ELSE @])
    /\ UNCHANGED <<kernel, epoll, conn, rest>>

\* Mutant: a bound descriptor is closed like any other.
Close_Bound(t) ==
    LET n == reg[t].fd IN
    /\ pc[t] = "close"
    /\ CloseFile(t, n)
    /\ Goto(t, reg[t].after, reg[t])
    /\ UNCHANGED <<files, type, leaked, table, rest>>

\* Mutant: only what has an entry is closed, and the entry is gone.
Close_Managed(t) ==
    LET n == reg[t].fd IN
    /\ pc[t] = "close"
    /\ IF conns[n] = 0 THEN UNCHANGED <<file, epoll, astray>>
       ELSE CloseFile(t, n)
    /\ Goto(t, reg[t].after, reg[t])
    /\ UNCHANGED <<files, type, leaked, table, rest>>

\* close(fd), not for a bound descriptor; the kernel drops its registration.
Close(t) ==
    LET n == reg[t].fd
        isBind == IF reg[t].early THEN reg[t].bind ELSE reg[t].conn # 0 /\ conn[reg[t].conn].isBind
    IN
    /\ pc[t] = "close"
    /\ IF isBind THEN UNCHANGED <<file, epoll, astray>>
       ELSE CloseFile(t, n)
    /\ Goto(t, reg[t].after, reg[t])
    /\ UNCHANGED <<files, type, leaked, table, rest>>

\* RemoveEvent: EPOLL_CTL_DEL for the number, whoever has it now.
RemoveEvent(t) ==
    LET f == file[reg[t].fd] IN
    /\ pc[t] = "del"
    /\ epoll' = epoll \ {f}
    /\ astray' = (astray \/ (f \in epoll /\ (f # reg[t].file \/ conns[reg[t].fd] # 0)))
    /\ Goto(t, "idle", Idle)
    /\ UNCHANGED <<kernel, table, rest>>

-----------------------------------------------------------------------------
(* The socket thread *)

\* epoll_wait returns an event, which carries a number.
EpollWait(n) ==
    /\ pc[Socket] = "idle" /\ file[n] \in epoll
    /\ Goto(Socket, "onevent", [Idle EXCEPT !.fd = n])
    /\ UNCHANGED <<kernel, epoll, table, rest, astray>>

\* OnEvent: GetConn; without an entry the event is dropped, a datagram socket is
\* read and stays (module Udp).
OnEvent ==
    LET n == reg[Socket].fd
        kind == IF conns[n] = 0 THEN "none" ELSE conn[conns[n]].type
    IN
    /\ pc[Socket] = "onevent"
    /\ Goto(Socket, CASE kind \in {"none", "udp"} -> "idle" [] kind = "listen" -> "accept" [] OTHER -> "read",
            GetConn([Idle EXCEPT !.file = FileOf(conns[n])], n, FALSE))
    /\ UNCHANGED <<kernel, epoll, table, rest, astray>>

\* OnAccept, which goes on until no connection is left, or no number for it.
OnAccept ==
    /\ pc[Socket] = "accept"
    /\ \/ \E n \in Fd : Opens(Socket, n, "client") /\ UNCHANGED leaked
       \/ Goto(Socket, "idle", Idle) /\ UNCHANGED kernel
    /\ UNCHANGED <<epoll, table, rest, astray>>

\* ReadData ends at EAGAIN or, at the end of the stream, on an error and on a number
\* that is closed, in NotifyClose; a failed connect is cleaned up in the same way.
ReadData ==
    LET f == file[reg[Socket].fd] IN
    /\ pc[Socket] = "read"
    /\ \/ f # 0 /\ Goto(Socket, "idle", Idle)
       \/ Goto(Socket, "remove", [reg[Socket] EXCEPT !.after = "del"])
    /\ Meets(Socket, f)
    /\ UNCHANGED <<kernel, epoll, table, rest>>

\* Mutant: only the connections are closed.
CloseAll_Clients ==
    /\ pc[Socket] = "idle"
    /\ closing' = {n \in Fd : conns[n] # 0 /\ conn[conns[n]].type = "client"}
    /\ swept' = {FileOf(conns[n]) : n \in {m \in Fd : conns[m] # 0}}
    /\ Goto(Socket, "next", Idle)
    /\ UNCHANGED <<kernel, epoll, table, given, astray>>

\* The exit flag, which can be set at any moment, is seen: CloseAll takes the
\* numbers of the table, ...
CloseAll ==
    /\ pc[Socket] = "idle"
    /\ closing' = {n \in Fd : conns[n] # 0}
    /\ swept' = {FileOf(conns[n]) : n \in closing'}
    /\ Goto(Socket, "next", Idle)
    /\ UNCHANGED <<kernel, epoll, table, given, astray>>

\* ... and for each of them removes the registration, the entry and the socket.
CloseNext(n) ==
    /\ pc[Socket] = "next" /\ n \in closing
    /\ closing' = closing \ {n}
    /\ epoll' = epoll \ {file[n]}
    /\ Goto(Socket, "remove", GetConn([Idle EXCEPT !.file = FileOf(conns[n]), !.after = "next"], n, TRUE))
    /\ UNCHANGED <<kernel, table, given, swept, astray>>

CloseEnd ==
    /\ pc[Socket] = "next" /\ closing = {}
    /\ Goto(Socket, "gone", Idle)
    /\ UNCHANGED <<kernel, epoll, table, rest, astray>>

Steps(t) == AddConn(t) \/ MarkBind(t) \/ AddEvent(t) \/ RemoveConn(t) \/ Close(t) \/ RemoveEvent(t)

\* Once a call has met a socket it was not meant for, the model says no more.
Next ==
    /\ ~astray
    /\ \/ \E t \in Thread : Steps(t)
       \/ \E t \in Worker, n \in Fd, kind \in {"listen", "client", "udp"} : Open(t, n, kind)
       \/ \E t \in Worker, h \in given : Bind(t, h) \/ \E linger \in BOOLEAN : CloseConn(t, h, linger)
       \/ \E n \in Fd : ListenFails(n) \/ MadeOutside(n) \/ EpollWait(n) \/ CloseNext(n)
       \/ OnEvent \/ OnAccept \/ ReadData \/ CloseAll \/ CloseEnd

Spec == Init /\ [][Next]_vars

-----------------------------------------------------------------------------
(* Properties *)

\* The types of the tables, the threads and their local variables.
TypeOK ==
    /\ files \in 0 .. MaxFiles /\ file \in [Fd -> 0 .. files]
    /\ epoll \subseteq {file[n] : n \in Fd} \ {0}
    /\ conns \in [Fd -> 0 .. Len(conn)] /\ Len(conn) <= MaxConns
    /\ given \subseteq Fd \X (1 .. files) /\ closing \subseteq Fd
    /\ \A t \in Thread : pc[t] \in {"idle", "add", "mark", "event", "remove", "close", "del"}
                                    \cup (IF t = Socket THEN {"onevent", "accept", "read", "next", "gone"} ELSE {})

\* A thread is opening or closing a number.
Busy(n) == \E t \in Thread :
    reg[t].fd = n /\ pc[t] \in {"add", "mark", "event", "remove", "close", "del"}

\* As long as no call has met a socket it was not meant for, the three tables agree
\* whenever nobody is at work on a number: an entry stands for the socket that is
\* behind the number now, that socket is registered, and it is marked as bound
\* exactly when it was made outside.  Nor is a socket forgotten: each one the engine
\* made is in the table, in the hands of a thread, or one that Listen left open when
\* it failed.  (With the types.)
TablesAgree ==
    /\ TypeOK
    /\ ~astray => \A n \in Fd : ~Busy(n) =>
         /\ conns[n] # 0 => /\ file[n] = FileOf(conns[n]) /\ file[n] \in epoll
                            /\ conn[conns[n]].isBind <=> Outside(file[n])
         /\ file[n] # 0 /\ ~Outside(file[n]) /\ file[n] \notin leaked => FileOf(conns[n]) = file[n]

\* No call that found the entry of a descriptor made outside, once Bind had marked
\* it, closes that descriptor: it stays its owner's.  (A call that found no entry,
\* or found it too early, does close it.)
BoundIsKept ==
    [][\A n \in Fd : Outside(file[n]) /\ file'[n] # file[n] =>
         \E t \in Thread : reg[t].fd = n /\ pc[t] = "close" /\ reg[t].found # file[n]]_vars

\* When the socket thread has left, every socket that was in the table when it
\* began to leave is closed, whatever workers close and open meanwhile.
ExitCloses ==
    ~astray /\ pc[Socket] = "gone" => \A n \in Fd : file[n] \in swept => Outside(file[n])
=============================================================================

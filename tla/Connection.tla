----------------------------- MODULE Connection -----------------------------
(***************************************************************************)
(* One TCP connection of the IO engine (starnet_socket_server.cpp): its    *)
(* write buffer with two priorities, its edge-triggered epoll interest,    *)
(* reading with pause and resume, connect, graceful and plain close.       *)
(* Worker threads call SendBuffer, PauseRead, ResumeRead, LingerClose and  *)
(* CloseConn while the socket thread serves the events of the same file    *)
(* descriptor.  Each critical section of writeBuffersLock, each unlocked   *)
(* access to Conn and each system call outside a lock is a step of its     *)
(* own.  The connection has its file descriptor to itself: what the reuse  *)
(* of a number does to a service is shown in module Cluster.               *)
(***************************************************************************)
EXTENDS Integers, Sequences, FiniteSets, SequencesExt

CONSTANTS Worker,       \* the worker threads
          Socket,       \* the socket thread
          NoThread,     \* nobody: the owner of a free lock
          Packet,       \* the buffers the services write
          NoPacket,     \* none of them
          PktLen,       \* the length of each, in bytes
          Low,          \* the ones written with write_low
          Room,         \* the capacity of the kernel's send buffer
          WarningSize,  \* WARNING_SIZE
          ReadMin,      \* READ_BUFFER_MIN
          ReadMax,      \* READ_BUFFER_MAX
          Opened,       \* how the connection comes about: "accept", "connect"
          Ops,          \* the operations the services use
          MaxFlips,     \* bound: calls of pause and start
          MaxInput      \* bound: bytes the peer sends before it closes

ASSUME ConnectionAssumption ==
    /\ Socket \notin Worker /\ NoThread \notin Worker \cup {Socket}
    /\ NoPacket \notin Packet /\ PktLen \in [Packet -> Nat \ {0}] /\ Low \subseteq Packet
    /\ Room \in Nat \ {0} /\ WarningSize \in Nat \ {0}
    /\ ReadMin \in Nat \ {0} /\ ReadMax \in Nat /\ ReadMin <= ReadMax
    /\ Opened \subseteq {"accept", "connect"}
    /\ Ops \subseteq {"write", "pause", "linger", "close"}
    /\ MaxFlips \in Nat /\ MaxInput \in Nat

VARIABLES
    fd,        \* the kernel's view: "none", "opening", "up", "failed", "closed"
    conn,      \* the entry of conns: is it there, and its flags
    wb,        \* the entry of writeBuffers
    lock,      \* the owner of writeBuffersLock
    epoll,     \* the registered interest: EPOLLIN, EPOLLOUT
    ready,     \* the descriptor is on epoll's ready list
    ev,        \* the event the socket thread is serving
    room,      \* free bytes in the kernel's send buffer
    wire,      \* the pieces of packets written to the kernel, in order
    input,     \* unread bytes in the kernel's receive buffer
    eof,       \* the receive side has ended (FIN, or shutdown(SHUT_RD))
    received,  \* bytes the peer has sent
    pc,        \* what each thread executes
    reg,       \* its local variables
    accepted,  \* the packets SendBuffer took, in order
    warned,    \* the backlog at each SOCKET_WARNING
    closes,    \* SOCKET CLOSE messages delivered, two standing for more
    flips      \* calls of pause and start so far

send == <<room, wire>>
recv == <<input, eof, received>>
poll == <<epoll, ready, ev>>
log == <<accepted, warned, closes, flips>>
kernel == <<fd, send, recv>>
vars == <<kernel, conn, wb, lock, poll, pc, reg, log>>

Thread == Worker \cup {Socket}
Place == {"idle", "modify", "ctl", "send", "pending", "remove", "erase", "close",
          "event", "finish", "flush", "lock", "write", "flushed", "notify", "read", "readmore"}

\* A WriteObject: the packet and how much of it has been written.
WriteObject == {o \in [pkt : Packet, start : Nat] : o.start < PktLen[o.pkt]}

\* The bytes of an object that are still to be written.
Rest(o) == PktLen[o.pkt] - o.start

\* Bytes from + 1 to to of a packet, as one write() takes them.
Piece(p, from, to) == [pkt |-> p, from |-> from, to |-> to]

\* A new ConnWriteBuffer, and no entry at all.
EmptyBuffer == [there |-> TRUE, high |-> <<>>, low |-> <<>>, size |-> 0, warn |-> 0, closing |-> FALSE]
NoBuffer == [EmptyBuffer EXCEPT !.there = FALSE]
Queued == wb.high # <<>> \/ wb.low # <<>>

Init ==
    /\ fd = "none"
    /\ conn = [managed |-> FALSE, connecting |-> FALSE, paused |-> FALSE, readSize |-> ReadMin]
    /\ wb = NoBuffer
    /\ lock = NoThread
    /\ epoll = [in |-> FALSE, out |-> FALSE] /\ ready = FALSE /\ ev = [in |-> FALSE, out |-> FALSE]
    /\ room = Room /\ wire = <<>> /\ input = 0 /\ eof = FALSE /\ received = 0
    /\ pc = [t \in Thread |-> "idle"]
    /\ reg = [t \in Thread |-> [pkt |-> NoPacket, out |-> FALSE, paused |-> FALSE, written |-> 0]]
    /\ accepted = <<>> /\ warned = <<>> /\ closes = 0 /\ flips = 0

At(t, place) == pc[t] = place
Goto(t, place) == pc' = [pc EXCEPT ![t] = place]
Open == fd \in {"opening", "up", "failed"}
Posts(n) == closes' = IF closes + n > 2 THEN 2 ELSE closes + n

-----------------------------------------------------------------------------
(* The kernel and the peer.  The registration is edge-triggered: it goes to *)
(* the ready list when something it is interested in begins to hold, and    *)
(* when epoll_ctl finds that something does.                                *)

Writable == (room > 0 /\ fd = "up") \/ fd = "failed"
Readable == input > 0 \/ eof \/ fd = "failed"

\* The peer takes a byte, which makes a full buffer writable.
PeerReads ==
    /\ fd = "up" /\ room < Room
    /\ room' = room + 1
    /\ ready' = (ready \/ (room = 0 /\ epoll.out))
    /\ UNCHANGED <<fd, wire, recv, conn, wb, lock, epoll, ev, pc, reg, log>>

\* The peer sends a byte, or closes its side.
PeerSends ==
    /\ fd = "up" /\ ~eof /\ received < MaxInput
    /\ \/ input' = input + 1 /\ received' = received + 1 /\ eof' = eof
       \/ eof' = TRUE /\ UNCHANGED <<input, received>>
    /\ ready' = (ready \/ epoll.in)
    /\ UNCHANGED <<fd, send, conn, wb, lock, epoll, ev, pc, reg, log>>

\* A connection in progress succeeds or fails.
PeerAnswers ==
    /\ fd = "opening"
    /\ fd' \in {"up", "failed"}
    /\ ready' = TRUE
    /\ UNCHANGED <<send, recv, conn, wb, lock, epoll, ev, pc, reg, log>>

-----------------------------------------------------------------------------
(* How the connection begins. *)

\* The socket thread accepts: AddConn, EPOLL_CTL_ADD, ACCEPT message.
OnAccept ==
    /\ "accept" \in Opened /\ fd = "none" /\ At(Socket, "idle")
    /\ fd' = "up"
    /\ conn' = [conn EXCEPT !.managed = TRUE]
    /\ epoll' = [in |-> TRUE, out |-> FALSE]
    /\ UNCHANGED <<send, recv, wb, lock, ready, ev, pc, reg, log>>

\* A worker connects: connect is in progress and EPOLLOUT is requested.  The
\* descriptor is known to nobody else until the call returns.
Connect(w) ==
    /\ "connect" \in Opened /\ fd = "none" /\ At(w, "idle")
    /\ fd' = "opening"
    /\ conn' = [conn EXCEPT !.managed = TRUE, !.connecting = TRUE]
    /\ epoll' = [in |-> TRUE, out |-> TRUE]
    /\ UNCHANGED <<send, recv, wb, lock, ready, ev, pc, reg, log>>

-----------------------------------------------------------------------------
(* ModifyEvent: the paused flag is read first, epoll_ctl comes after.  A   *)
(* worker in SendBuffer holds writeBuffersLock meanwhile, others do not.   *)

ModifyEvent(t) ==
    /\ At(t, "modify")
    /\ reg' = [reg EXCEPT ![t].paused = conn.managed /\ conn.paused]
    /\ Goto(t, "ctl")
    /\ UNCHANGED <<kernel, conn, wb, lock, poll, log>>

\* EPOLL_CTL_MOD replaces the interest and looks at the readiness again.
EpollCtl(t) ==
    /\ At(t, "ctl")
    /\ IF Open THEN /\ epoll' = [in |-> ~reg[t].paused, out |-> reg[t].out]
                    /\ ready' = ((epoll'.in /\ Readable) \/ (epoll'.out /\ Writable))
               ELSE UNCHANGED <<epoll, ready>>
    /\ lock' = IF lock = t THEN NoThread ELSE lock
    /\ Goto(t, IF t = Socket THEN "read" ELSE "idle")
    /\ UNCHANGED <<kernel, conn, wb, ev, reg, log>>

-----------------------------------------------------------------------------
(* Writing. *)

\* Mutant: write() takes one byte, and the rest waits for the next event.
Writes_Chunk(o) == IF fd = "up" /\ room > 0 THEN 1 ELSE 0

\* The bytes of object o that one write() takes: what there is room for, none
\* (EAGAIN) when there is no room or the connection is not up.
Writes(o) == IF fd # "up" THEN 0 ELSE IF room < Rest(o) THEN room ELSE Rest(o)
Puts(o, n) ==
    /\ room' = room - n
    /\ wire' = IF n = 0 THEN wire ELSE Append(wire, Piece(o.pkt, o.start, o.start + n))

\* List q when n bytes of its first object have been written.
AfterWrite(q, n) ==
    IF n = Rest(Head(q)) THEN Tail(q)
    ELSE <<[pkt |-> Head(q).pkt, start |-> Head(q).start + n]>> \o Tail(q)

\* Mutant: a packet written in part stays on the low list.
Raise_Not(low) == [high |-> <<>>, low |-> low]

\* The head of the low list, written in part or not at all, moves to the high one.
Raise(low) == [high |-> <<Head(low)>>, low |-> Tail(low)]

\* Mutant: wbSize is not reduced by what is flushed.
Shrink_Not(size, n) == size

\* wbSize when n bytes have left, never below 0.
Shrink(size, n) == IF n > size THEN 0 ELSE size - n

\* The backlog warning SendBuffer ends with: the threshold doubles each time.
Warn(b) ==
    IF b.size >= WarningSize /\ b.size >= b.warn
    THEN /\ wb' = [b EXCEPT !.warn = IF b.warn = 0 THEN WarningSize * 2 ELSE b.warn * 2]
         /\ warned' = Append(warned, b.size)
    ELSE wb' = b /\ UNCHANGED warned

\* A service calls Write: GetConn finds the connection.
Write(w) ==
    /\ "write" \in Ops /\ At(w, "idle") /\ conn.managed
    /\ \E p \in Packet \ ToSet(accepted) :
         /\ \A t \in Worker : At(t, "send") => reg[t].pkt # p
         /\ reg' = [reg EXCEPT ![w].pkt = p]
    /\ Goto(w, "send")
    /\ UNCHANGED <<kernel, conn, wb, lock, poll, log>>

\* writeBuffers[fd], which makes an entry when there is none.
Buffer == IF wb.there THEN wb ELSE EmptyBuffer
Sending(w) == At(w, "send") /\ lock = NoThread

\* The buffer is closing: -1 to the service.
SendRefused(w) ==
    /\ Sending(w) /\ wb.closing
    /\ Goto(w, "idle")
    /\ UNCHANGED <<kernel, conn, wb, lock, poll, reg, log>>

\* write() fails, on a descriptor closed since GetConn or a failed connect:
\* the packet is logged and dropped.
SendFails(w) ==
    /\ Sending(w) /\ ~wb.closing /\ ~Queued /\ fd \in {"closed", "failed"}
    /\ wb' = Buffer
    /\ Goto(w, "idle")
    /\ UNCHANGED <<kernel, conn, lock, poll, reg, log>>

\* Nothing is queued: write directly.  What the kernel does not take goes to
\* the high list, whatever the priority, and EPOLLOUT is requested under the lock.
EntireWriteWhenEmpty(w) ==
    LET p == reg[w].pkt
        o == [pkt |-> p, start |-> 0]
        n == Writes(o)
    IN  /\ Sending(w) /\ ~wb.closing /\ ~Queued /\ fd \in {"opening", "up"}
        /\ Puts(o, n)
        /\ accepted' = Append(accepted, p)
        /\ IF n = PktLen[p]
           THEN Warn(Buffer) /\ Goto(w, "idle") /\ UNCHANGED <<lock, reg>>
           ELSE /\ Warn([Buffer EXCEPT !.high = <<[o EXCEPT !.start = n]>>, !.size = @ + PktLen[p] - n])
                /\ lock' = w /\ reg' = [reg EXCEPT ![w].out = TRUE] /\ Goto(w, "modify")
        /\ UNCHANGED <<fd, recv, conn, poll, closes, flips>>

\* Something is queued: append to the list of the packet's priority.
EntireWriteWhenNotEmpty(w) ==
    LET p == reg[w].pkt
        o == <<[pkt |-> p, start |-> 0]>>
        b == [wb EXCEPT !.size = @ + PktLen[p]]
    IN  /\ Sending(w) /\ ~wb.closing /\ Queued
        /\ Warn(IF p \in Low THEN [b EXCEPT !.low = @ \o o] ELSE [b EXCEPT !.high = @ \o o])
        /\ accepted' = Append(accepted, p)
        /\ Goto(w, "idle")
        /\ UNCHANGED <<kernel, conn, lock, poll, reg, closes, flips>>

\* The socket thread flushes: GetConn, then the locks, if there is a buffer.
OnWriteable ==
    /\ At(Socket, "flush")
    /\ Goto(Socket, IF conn.managed THEN "lock" ELSE "read")
    /\ UNCHANGED <<kernel, conn, wb, lock, poll, reg, log>>

LockBuffer ==
    /\ At(Socket, "lock") /\ lock = NoThread
    /\ lock' = IF wb.there THEN Socket ELSE lock
    /\ Goto(Socket, IF wb.there THEN "write" ELSE "read")
    /\ UNCHANGED <<kernel, conn, wb, poll, reg, log>>

\* One write() from the high list, from the low one when that is empty.  A packet
\* written whole is followed by the next one; what is left of a low one is raised.
WriteFrontFromList ==
    LET q == IF wb.high # <<>> THEN wb.high ELSE wb.low
        n == Writes(Head(q))
        whole == n = Rest(Head(q))
        left == AfterWrite(q, n)
        lists == IF wb.high # <<>> THEN [high |-> left, low |-> wb.low]
                 ELSE IF whole THEN [high |-> <<>>, low |-> left] ELSE Raise(left)
    IN  /\ At(Socket, "write") /\ Queued
        /\ Puts(Head(q), n)
        /\ wb' = [wb EXCEPT !.high = lists.high, !.low = lists.low]
        /\ reg' = [reg EXCEPT ![Socket].written = @ + n]
        /\ Goto(Socket, IF whole THEN "write" ELSE "flushed")
        /\ UNCHANGED <<fd, recv, conn, lock, poll, log>>

\* The end of OnWriteable: wbSize, the locks, and EPOLLOUT or the end of a shutdown.
Flushed ==
    /\ At(Socket, "flushed") \/ (At(Socket, "write") /\ ~Queued)
    /\ wb' = [wb EXCEPT !.size = Shrink(@, reg[Socket].written)]
    /\ reg' = [reg EXCEPT ![Socket].out = FALSE, ![Socket].written = 0]
    /\ lock' = NoThread
    /\ Goto(Socket, IF Queued THEN "read" ELSE IF wb.closing THEN "notify" ELSE "modify")
    /\ UNCHANGED <<kernel, conn, poll, log>>

\* A closing buffer is flushed: shutdown(SHUT_RD) and a CLOSE message.
Notify ==
    /\ At(Socket, "notify")
    /\ IF Open THEN eof' = TRUE /\ ready' = (ready \/ epoll.in) ELSE UNCHANGED <<eof, ready>>
    /\ Posts(1)
    /\ Goto(Socket, "read")
    /\ UNCHANGED <<fd, send, input, received, conn, wb, lock, epoll, ev, reg, accepted, warned, flips>>

-----------------------------------------------------------------------------
(* The event loop and reading. *)

\* epoll_wait takes the descriptor off the ready list and reports what holds.
EpollWait ==
    /\ At(Socket, "idle") /\ Open /\ ready
    /\ ready' = FALSE
    /\ ev' = [in |-> epoll.in /\ Readable, out |-> epoll.out /\ Writable]
    /\ Goto(Socket, IF ev'.in \/ ev'.out THEN "event" ELSE "idle")
    /\ UNCHANGED <<kernel, conn, wb, lock, epoll, reg, log>>

\* OnEvent and OnRW: a connection that is gone is skipped, a writable one that
\* is connecting has its result, another one is flushed first and read then.
OnEvent ==
    /\ At(Socket, "event")
    /\ Goto(Socket, IF ~conn.managed THEN "idle"
                    ELSE IF ~ev.out THEN "read"
                    ELSE IF conn.connecting THEN "finish" ELSE "flush")
    /\ UNCHANGED <<kernel, conn, wb, lock, poll, reg, log>>

\* The result of connect: back to reading only, or an ERROR message and the end.
OnConnectFinish ==
    /\ At(Socket, "finish")
    /\ IF fd = "up"
       THEN /\ conn' = [conn EXCEPT !.connecting = FALSE]
            /\ reg' = [reg EXCEPT ![Socket].out = FALSE]
            /\ Goto(Socket, "modify")
       ELSE Goto(Socket, "remove") /\ UNCHANGED <<conn, reg>>
    /\ UNCHANGED <<kernel, wb, lock, poll, log>>

\* OnRW goes on to the read part, unless there is nothing to read, the
\* connection is not up yet or reading is paused.
SkipRead ==
    /\ At(Socket, "read") /\ (~ev.in \/ conn.connecting \/ conn.paused)
    /\ Goto(Socket, "idle")
    /\ UNCHANGED <<kernel, conn, wb, lock, poll, reg, log>>

Reading == (At(Socket, "read") /\ ev.in /\ ~conn.connecting /\ ~conn.paused) \/ At(Socket, "readmore")

\* Mutant: one read for each event.
AfterRead_Stop(full) == "idle"

\* A read() that filled the buffer is followed by another one.
AfterRead(full) == IF full THEN "readmore" ELSE "idle"

\* One read() that returns data, and the DATA message.  A full buffer is doubled
\* and read again; a buffer that was not filled may shrink and ends the loop.
ReadData ==
    LET full == input >= conn.readSize
        size == IF full THEN (IF conn.readSize * 2 > ReadMax THEN ReadMax ELSE conn.readSize * 2)
                ELSE IF conn.readSize > ReadMin /\ input * 2 < conn.readSize
                     THEN conn.readSize \div 2 ELSE conn.readSize
    IN  /\ Reading /\ fd = "up" /\ input > 0
        /\ input' = IF full THEN input - conn.readSize ELSE 0
        /\ conn' = [conn EXCEPT !.readSize = size]
        /\ Goto(Socket, AfterRead(full))
        /\ UNCHANGED <<fd, send, eof, received, wb, lock, poll, reg, log>>

\* read() finds nothing: EAGAIN ends the loop.
ReadNothing ==
    /\ Reading /\ fd = "up" /\ input = 0 /\ ~eof
    /\ Goto(Socket, "idle")
    /\ UNCHANGED <<kernel, conn, wb, lock, poll, reg, log>>

\* read() returns 0 or an error: a CLOSE message and the connection is removed.
NotifyClose ==
    /\ Reading
    /\ \/ fd = "up" /\ input = 0 /\ eof
       \/ fd \in {"failed", "closed"}
    /\ Posts(1)
    /\ Goto(Socket, "remove")
    /\ UNCHANGED <<kernel, conn, wb, lock, poll, reg, accepted, warned, flips>>

-----------------------------------------------------------------------------
(* Pause and resume: the flag, then the state of the write buffer under its *)
(* lock, then ModifyEvent outside it.                                       *)

FlipRead(w, paused) ==
    /\ "pause" \in Ops /\ At(w, "idle") /\ conn.managed /\ flips < MaxFlips
    /\ conn' = [conn EXCEPT !.paused = paused]
    /\ flips' = flips + 1
    /\ Goto(w, "pending")
    /\ UNCHANGED <<kernel, wb, lock, poll, reg, accepted, warned, closes>>

PauseRead(w) == FlipRead(w, TRUE)
ResumeRead(w) == FlipRead(w, FALSE)

HasData(w) ==
    /\ At(w, "pending") /\ lock = NoThread
    /\ reg' = [reg EXCEPT ![w].out = Queued]
    /\ Goto(w, "modify")
    /\ UNCHANGED <<kernel, conn, wb, lock, poll, log>>

-----------------------------------------------------------------------------
(* Closing. *)

\* The service shuts the connection down: with no buffer, or an empty one that
\* nobody is closing yet, it is removed at once; a full one is marked.
LingerClose(w) ==
    /\ "linger" \in Ops /\ At(w, "idle") /\ fd # "none" /\ lock = NoThread
    /\ wb' = IF wb.there THEN [wb EXCEPT !.closing = TRUE] ELSE wb
    /\ Goto(w, IF ~wb.closing /\ ~Queued THEN "remove" ELSE "idle")
    /\ UNCHANGED <<kernel, conn, lock, poll, reg, log>>

\* The service closes the connection.
CloseConn(w) ==
    /\ "close" \in Ops /\ At(w, "idle") /\ fd # "none"
    /\ Goto(w, "remove")
    /\ UNCHANGED <<kernel, conn, wb, lock, poll, reg, log>>

\* RemoveConn takes the entry out of conns, then out of writeBuffers.
RemoveConn(t) ==
    /\ At(t, "remove")
    /\ conn' = [conn EXCEPT !.managed = FALSE]
    /\ Goto(t, "erase")
    /\ UNCHANGED <<kernel, wb, lock, poll, reg, log>>

EraseBuffer(t) ==
    /\ At(t, "erase") /\ lock = NoThread
    /\ wb' = NoBuffer
    /\ Goto(t, "close")
    /\ UNCHANGED <<kernel, conn, lock, poll, reg, log>>

\* close(fd) also ends the epoll registration, so RemoveEvent finds nothing.
Close(t) ==
    /\ At(t, "close")
    /\ fd' = "closed"
    /\ epoll' = [in |-> FALSE, out |-> FALSE] /\ ready' = FALSE
    /\ Goto(t, "idle")
    /\ UNCHANGED <<send, recv, conn, wb, lock, ev, reg, log>>

-----------------------------------------------------------------------------
\* The steps a thread takes by itself once it is inside an operation.
Runs(t) == ModifyEvent(t) \/ EpollCtl(t) \/ RemoveConn(t) \/ EraseBuffer(t) \/ Close(t)

WorkerStep(w) ==
    \/ Runs(w) \/ HasData(w)
    \/ SendRefused(w) \/ SendFails(w) \/ EntireWriteWhenEmpty(w) \/ EntireWriteWhenNotEmpty(w)

ServiceCalls(w) ==
    Connect(w) \/ Write(w) \/ PauseRead(w) \/ ResumeRead(w) \/ LingerClose(w) \/ CloseConn(w)

SocketStep ==
    \/ Runs(Socket) \/ EpollWait \/ OnEvent \/ OnConnectFinish \/ Notify
    \/ OnWriteable \/ LockBuffer \/ WriteFrontFromList \/ Flushed
    \/ SkipRead \/ ReadData \/ ReadNothing \/ NotifyClose

Next ==
    \/ OnAccept
    \/ \E w \in Worker : WorkerStep(w) \/ ServiceCalls(w)
    \/ SocketStep
    \/ PeerReads \/ PeerSends \/ PeerAnswers

Spec == Init /\ [][Next]_vars

\* Threads run, the peer reads what is sent and answers a connect.
Fairness ==
    /\ \A w \in Worker : WF_vars(WorkerStep(w))
    /\ WF_vars(SocketStep) /\ WF_vars(PeerReads) /\ WF_vars(PeerAnswers)

LiveSpec == Spec /\ Fairness

-----------------------------------------------------------------------------
(* Properties *)

\* The types of the variables, and: no write object is finished in its list.
TypeOK ==
    /\ fd \in {"none", "opening", "up", "failed", "closed"}
    /\ conn \in [managed : BOOLEAN, connecting : BOOLEAN, paused : BOOLEAN, readSize : 1 .. ReadMax]
    /\ wb \in [there : BOOLEAN, high : Seq(WriteObject), low : Seq(WriteObject), size : Nat, warn : Nat,
               closing : BOOLEAN]
    /\ wb.there \/ wb = NoBuffer
    /\ lock \in Thread \cup {NoThread}
    /\ epoll \in [in : BOOLEAN, out : BOOLEAN] /\ ev \in [in : BOOLEAN, out : BOOLEAN]
    /\ ready \in BOOLEAN /\ eof \in BOOLEAN
    /\ room \in 0 .. Room /\ received \in 0 .. MaxInput /\ input \in 0 .. received
    /\ closes \in 0 .. 2 /\ flips \in 0 .. MaxFlips
    /\ pc \in [Thread -> Place]
    /\ reg \in [Thread -> [pkt : Packet \cup {NoPacket}, out : BOOLEAN, paused : BOOLEAN, written : Nat]]
    /\ accepted \in Seq(Packet)
    /\ wire \in Seq([pkt : Packet, from : Nat, to : Nat])
    /\ warned \in Seq(Nat)

\* What the peer has got or gets when nothing more is written, piece by piece.
Line == wb.high \o wb.low
Stream == wire \o [k \in DOMAIN Line |-> Piece(Line[k].pkt, Line[k].start, PktLen[Line[k].pkt])]

\* Piece b may come after piece a: it continues the packet, or one ends and the
\* next begins.
Follows(a, b) ==
    \/ b.pkt = a.pkt /\ b.from = a.to
    \/ a.to = PktLen[a.pkt] /\ b.from = 0

\* p was accepted before q.
Before(p, q) == \A i, j \in DOMAIN accepted : accepted[i] = p /\ accepted[j] = q => i < j

\* SendBuffer and OnWriteable hand the peer each accepted packet whole, once and
\* in one piece, and packets of one priority in the order they were accepted,
\* however direct writes, partial writes and the two lists interleave.
StreamIntact ==
    conn.managed =>
      LET s == Stream IN
      /\ {s[k].pkt : k \in DOMAIN s} = ToSet(accepted)
      /\ s # <<>> => s[1].from = 0 /\ s[Len(s)].to = PktLen[s[Len(s)].pkt]
      /\ \A k \in 1 .. Len(s) - 1 : Follows(s[k], s[k + 1])
      /\ \A k, l \in DOMAIN s : k < l =>
           IF s[k].pkt = s[l].pkt THEN s[k].to <= s[l].from
           ELSE (s[k].pkt \in Low <=> s[l].pkt \in Low) => Before(s[k].pkt, s[l].pkt)

\* The bytes in the lists, and the threshold of a connection's warnings.
Unwritten ==
    UNION {{<<Line[k].pkt, b>> : b \in Line[k].start + 1 .. PktLen[Line[k].pkt]} : k \in DOMAIN Line}
Threshold[k \in Nat] == IF k = 0 THEN WarningSize ELSE 2 * Threshold[k - 1]

\* wbSize, which socket.info reports and the warnings compare, is what is queued
\* whenever the lock is not with OnWriteable, and the backlog at the k-th warning
\* of a connection was at least 2^(k-1) times WARNING_SIZE, however it rose and
\* drained in between.  (With the types.)
BacklogExact ==
    /\ TypeOK
    /\ lock # Socket => wb.size = Cardinality(Unwritten)
    /\ conn.managed => \A k \in DOMAIN warned : warned[k] >= Threshold[k - 1]

\* While EPOLLOUT stays requested a backlog does not stay: OnWriteable leaves
\* data behind only where a new edge will come.
FlushGoesOn == ~<>[](Queued /\ conn.managed /\ epoll.out /\ fd = "up")

\* Input is not left in the kernel while the connection is read: ReadData never
\* stops where no edge will start it again.
InputIsRead ==
    ~<>[](input > 0 /\ conn.managed /\ ~conn.connecting /\ epoll.in /\ ~conn.paused /\ fd = "up")

-----------------------------------------------------------------------------
(* What the repository says of a connection and the code does not keep. *)

\* A backlog is flushed: OnWriteable says EPOLLOUT stays requested while data is
\* waiting, and clusterd that what is written before connect is done is queued.
BacklogIsFlushed == []<>(~Queued \/ ~conn.managed \/ fd # "up")

\* The end of a connect is reported: CONNECT or ERROR, by OnConnectFinish.
ConnectIsReported ==
    []<>~(conn.managed /\ conn.connecting /\ fd \in {"up", "failed"})

\* The peer's close is reported to the service: read() = 0 gives a CLOSE.
PeerCloseIsReported == []<>(closes > 0 \/ ~conn.managed \/ ~eof \/ conn.paused)

\* ResumeRead, when it has returned, has reading enabled again.
ReadingResumes ==
    (conn.managed /\ Open /\ \A t \in Thread : At(t, "idle")) => (conn.paused \/ epoll.in)

\* A connection that was shut down is cut once its buffer is flushed.
ShutdownDisconnects == []<>~(conn.managed /\ wb.closing)
=============================================================================

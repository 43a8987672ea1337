------------------------------ MODULE Netpack -------------------------------
(***************************************************************************)
(* Packets on a byte stream (lua-netpack.cpp) and the loop of              *)
(* starnet.lua's dispatch_socket that takes them out.  A packet is a       *)
(* header of two digits, its length, and its bytes.  TCP cuts the stream   *)
(* anywhere, between the two bytes of a header too, and several            *)
(* connections share the parser: half packets wait in a hash table of      *)
(* lists, whole ones in a ring that grows when it is full.  A turn of the  *)
(* loop of push_more and a call of the handler are a step each.            *)
(***************************************************************************)
EXTENDS Integers, Sequences, FiniteSets, SequencesExt

CONSTANTS Fd,         \* descriptors: numbers, hashed by hash_fd
          Sent,       \* the packets each peer sends
          Base,       \* the values of a byte, 256 in the code
          QueueSize,  \* QUEUESIZE
          HashSize,   \* HASHSIZE
          MaxChunk,   \* bound: the bytes of one read
          MaxFails,   \* bound: handlers that raise an error
          MaxCloses   \* bound: connections closed and opened again

Byte == 0 .. Base - 1

\* A packet's length is written with two digits; a ring of one place is always full.
ASSUME NetAssumption ==
    /\ Fd \subseteq Nat /\ Base \in Nat \ {0} /\ HashSize \in Nat \ {0}
    /\ QueueSize \in Nat \ {0, 1} /\ MaxChunk \in Nat \ {0}
    /\ \A fd \in Fd : /\ Sent[fd] \in Seq(Seq(Byte))
                     /\ \A k \in DOMAIN Sent[fd] : Len(Sent[fd][k]) < Base * Base
    /\ {MaxFails, MaxCloses} \subseteq Nat

VARIABLES q,       \* the userdata netpack_queue: hash table and ring
          stream,  \* the bytes each peer has sent
          ends,    \* where in its stream each of its packets ends
          read,    \* how much of the stream has been read
          job,     \* what dispatch_socket is at: the packet in hand, bytes to parse
          got,     \* the packets the handler has been called with
          fails,   \* handlers that raised an error so far
          closes,  \* connections closed so far
          stale    \* descriptors in use again with the half packet of an earlier connection

peers == <<stream, ends>>
vars == <<q, peers, read, job, got, fails, closes, stale>>

Drop(s, n) == SubSeq(s, n + 1, Len(s))
Take(s, n) == SubSeq(s, 1, n)

\* netpack.pack: the header before the data.
Header(size) == <<size \div Base, size % Base>>
lpack(data) == Header(Len(data)) \o data

\* netpack.create.
lcreate == [cap |-> QueueSize, head |-> 0, tail |-> 0, ring |-> [k \in 0 .. QueueSize - 1 |-> <<>>],
            hash |-> [h \in 0 .. HashSize - 1 |-> <<>>]]

\* No DATA message is being handled.
Idle == [step |-> "idle", pkt |-> <<>>, left |-> <<>>]

Init ==
    /\ q = lcreate
    /\ stream = [fd \in Fd |-> <<>>] /\ ends = [fd \in Fd |-> <<>>] /\ read = [fd \in Fd |-> 0]
    /\ job = Idle
    /\ got = [fd \in Fd |-> <<>>]
    /\ fails = 0 /\ closes = 0 /\ stale = {}

\* The peer sends its next packet.
PeerSends(fd) ==
    /\ Len(ends[fd]) < Len(Sent[fd])
    /\ LET bytes == stream[fd] \o lpack(Sent[fd][Len(ends[fd]) + 1])
       IN  stream' = [stream EXCEPT ![fd] = bytes] /\ ends' = [ends EXCEPT ![fd] = Append(@, Len(bytes))]
    /\ UNCHANGED <<q, read, job, got, fails, closes, stale>>

-----------------------------------------------------------------------------
(* Half packets.  read = -1: only the first byte of the header is there.   *)

hash_fd(fd) == (fd \div 16777216 + fd \div 4096 + fd) % HashSize
HalfHeader(fd, byte) == [id |-> fd, read |-> -1, header |-> byte, size |-> 0, data |-> <<>>]
HalfPacket(fd, size, data) == [id |-> fd, read |-> Len(data), header |-> 0, size |-> size, data |-> data]

\* The half packet of a descriptor in its list: its place, 0 when there is none.
FindAt(fd) ==
    LET list == q.hash[hash_fd(fd)]
    IN  IF \E k \in DOMAIN list : list[k].id = fd
        THEN CHOOSE k \in DOMAIN list : list[k].id = fd /\ \A j \in 1 .. k - 1 : list[j].id # fd
        ELSE 0

\* The queue without that entry.
Unlink(fd) ==
    IF FindAt(fd) = 0 THEN q ELSE [q EXCEPT !.hash[hash_fd(fd)] = RemoveAt(@, FindAt(fd))]

\* A new entry goes to the front of the list.
save_uncomplete(qq, uc) == [qq EXCEPT !.hash[hash_fd(uc.id)] = <<uc>> \o @]

read_size(buffer) == buffer[1] * Base + buffer[2]

-----------------------------------------------------------------------------
(* The ring of whole packets. *)

\* Mutant: the array only gets longer, although the packets may wrap around.
expand_queue_Realloc(qq, sz) ==
    [qq EXCEPT !.cap = sz, !.ring = [k \in 0 .. sz - 1 |-> IF k < qq.cap THEN qq.ring[k] ELSE <<>>]]

\* Copy to an array of size sz, from its beginning: the part from head to the end
\* of the old array and the part before tail, or the part between the two.
expand_queue(qq, sz) ==
    LET n == IF qq.head > qq.tail THEN qq.cap - qq.head ELSE 0
        copied(k) == IF qq.head > qq.tail
                     THEN IF k < n THEN qq.ring[qq.head + k]
                          ELSE IF k - n <= qq.tail THEN qq.ring[k - n] ELSE <<>>
                     ELSE IF k < qq.tail - qq.head THEN qq.ring[qq.head + k] ELSE <<>>
    IN  [qq EXCEPT !.cap = sz, !.head = 0, !.ring = [k \in 0 .. sz - 1 |-> copied(k)],
                   !.tail = IF qq.head > qq.tail THEN n + qq.tail ELSE qq.tail - qq.head]

\* The place after place k of the ring.
NextPlace(qq, k) == IF k + 1 >= qq.cap THEN k + 1 - qq.cap ELSE k + 1

\* Append a packet; the ring grows when tail would meet head.
push_data(qq, fd, data) ==
    LET room == IF NextPlace(qq, qq.tail) = qq.head THEN expand_queue(qq, qq.cap * 2) ELSE qq
    IN  [room EXCEPT !.ring[room.tail] = <<fd, data>>, !.tail = NextPlace(room, room.tail)]

\* netpack.pop: the ring without its first packet.
lpop(qq) == [qq EXCEPT !.head = NextPlace(qq, qq.head)]

-----------------------------------------------------------------------------
(* netpack.filter on a buffer that is not empty: the new queue, and the    *)
(* packet it returns, if any, with the bytes behind it, which are "more".  *)

Nothing(qq) == [q |-> qq, job |-> Idle]
Returns(qq, fd, data, left) ==
    [q |-> qq, job |-> [step |-> IF left = <<>> THEN "data" ELSE "push", pkt |-> <<fd, data>>, left |-> left]]

\* A half packet is there: complete its header, then fill it.
FillUncomplete(fd, buffer) ==
    LET uc == q.hash[hash_fd(fd)][FindAt(fd)]
        size == IF uc.read < 0 THEN uc.header * Base + buffer[1] ELSE uc.size
        more == IF uc.read < 0 THEN Drop(buffer, 1) ELSE buffer
        need == size - Len(uc.data)
    IN  IF Len(more) < need THEN Nothing(save_uncomplete(Unlink(fd), HalfPacket(fd, size, uc.data \o more)))
        ELSE Returns(Unlink(fd), fd, uc.data \o Take(more, need), Drop(more, need))

\* Nothing is there: the buffer begins with a header.
FilterNew(fd, buffer) ==
    LET size == read_size(buffer)
        data == Drop(buffer, 2)
    IN  IF Len(buffer) = 1 THEN Nothing(save_uncomplete(q, HalfHeader(fd, buffer[1])))
        ELSE IF Len(data) < size THEN Nothing(save_uncomplete(q, HalfPacket(fd, size, data)))
        ELSE Returns(q, fd, Take(data, size), Drop(data, size))

filter_data(fd, buffer) ==
    IF FindAt(fd) = 0 THEN FilterNew(fd, buffer) ELSE FillUncomplete(fd, buffer)

\* A DATA message with the next n bytes of the stream.
DispatchData(fd, n) ==
    LET r == filter_data(fd, SubSeq(stream[fd], read[fd] + 1, read[fd] + n))
    IN  /\ job = Idle /\ read[fd] + n <= Len(stream[fd])
        /\ q' = r.q /\ job' = r.job
        /\ read' = [read EXCEPT ![fd] = @ + n]
        /\ UNCHANGED <<peers, got, fails, closes, stale>>

\* A turn of the loop over the bytes behind the first packet: a whole packet goes to
\* the ring, the end of the buffer to the hash table.
push_more ==
    LET fd == job.pkt[1]
        data == Drop(job.left, 2)
        size == read_size(job.left)
        left == Drop(data, size)
        uc == IF Len(job.left) = 1 THEN HalfHeader(fd, job.left[1]) ELSE HalfPacket(fd, size, data)
    IN  /\ job.step = "push"
        /\ IF Len(job.left) > 1 /\ Len(data) >= size
           THEN /\ q' = push_data(q, fd, Take(data, size))
                /\ job' = [job EXCEPT !.left = left, !.step = IF left = <<>> THEN "more" ELSE "push"]
           ELSE /\ q' = save_uncomplete(q, uc)
                /\ job' = [job EXCEPT !.left = <<>>, !.step = "more"]
        /\ UNCHANGED <<peers, read, got, fails, closes, stale>>

-----------------------------------------------------------------------------
(* dispatch_socket: the handler is called with the first packet and, when  *)
(* there may be more, with the packets of the ring until it is empty.  An  *)
(* error the handler raises leaves the loop, and the ring, as they are.    *)

\* The handler is called with the packet in hand.
Handled ==
    /\ job.step \in {"data", "more"}
    /\ got' = [got EXCEPT ![job.pkt[1]] = Append(@, job.pkt[2])]
    /\ UNCHANGED <<peers, read, closes, stale>>

\* The next packet is popped.
HandlerReturns ==
    /\ Handled
    /\ IF job.step = "more" /\ q.head # q.tail
       THEN job' = [job EXCEPT !.pkt = q.ring[q.head]] /\ q' = lpop(q)
       ELSE job' = Idle /\ q' = q
    /\ UNCHANGED fails

HandlerFails ==
    /\ fails < MaxFails
    /\ Handled
    /\ job' = Idle /\ q' = q
    /\ fails' = fails + 1

\* The stream of a descriptor that is used again begins anew.
Reopened(fd) ==
    /\ job = Idle /\ closes < MaxCloses
    /\ stream' = [stream EXCEPT ![fd] = <<>>] /\ ends' = [ends EXCEPT ![fd] = <<>>]
    /\ read' = [read EXCEPT ![fd] = 0] /\ got' = [got EXCEPT ![fd] = <<>>]
    /\ closes' = closes + 1
    /\ UNCHANGED <<job, fails>>

\* Mutant: the half packet of a closed connection stays.
DispatchClose_Keep(fd) == Reopened(fd) /\ UNCHANGED q /\ stale' = stale \ {fd}

\* A CLOSE message: the half packet is forgotten.
DispatchClose(fd) == Reopened(fd) /\ q' = Unlink(fd) /\ stale' = stale \ {fd}

\* The service itself closes the descriptor (socket.close, or socket.shutdown with
\* nothing left to write): no CLOSE message comes, and what is there of a half packet
\* stays for the connection that gets the number next.  The step is the place in the
\* service's queue from which on the DATA of that number are the next connection's.
SocketClose(fd) ==
    /\ Reopened(fd)
    /\ stale' = IF FindAt(fd) = 0 THEN stale \ {fd} ELSE stale \cup {fd}
    /\ UNCHANGED q

Next ==
    \/ \E fd \in Fd : \/ PeerSends(fd) \/ (\E n \in 1 .. MaxChunk : DispatchData(fd, n))
                      \/ DispatchClose(fd) \/ SocketClose(fd)
    \/ push_more \/ HandlerReturns \/ HandlerFails

Spec == Init /\ [][Next]_vars

-----------------------------------------------------------------------------
(* Properties *)

\* The packets in the ring, in order.
Waiting(qq) == IF qq.tail >= qq.head THEN qq.tail - qq.head ELSE qq.tail - qq.head + qq.cap
Place(qq, k) == IF qq.head + k - 1 >= qq.cap THEN qq.head + k - 1 - qq.cap ELSE qq.head + k - 1
InRing(qq) == [k \in 1 .. Waiting(qq) |-> qq.ring[Place(qq, k)]]

\* The types: the ring's ends are inside it, half packets are not whole.
TypeOK ==
    /\ q.cap \in Nat \ {0, 1} /\ DOMAIN q.ring = 0 .. q.cap - 1
    /\ q.head \in 0 .. q.cap - 1 /\ q.tail \in 0 .. q.cap - 1
    /\ \A h \in DOMAIN q.hash : \A k \in DOMAIN q.hash[h] :
         LET uc == q.hash[h][k]
         IN  uc.id \in Fd /\ (uc.read = -1 \/ (uc.read = Len(uc.data) /\ uc.read < uc.size))
    /\ \A fd \in Fd : read[fd] \in 0 .. Len(stream[fd])
    /\ job.step \in {"idle", "push", "data", "more"} /\ (job.left = <<>> <=> job.step # "push")
    /\ fails \in 0 .. MaxFails /\ closes \in 0 .. MaxCloses /\ stale \subseteq Fd

\* The bytes of the first k packets, and how many packets of fd have been read in full.
Begin(e, k) == IF k = 0 THEN 0 ELSE e[k]
Complete(fd) == CHOOSE k \in 0 .. Len(ends[fd]) :
    /\ Begin(ends[fd], k) <= read[fd]
    /\ k = Len(ends[fd]) \/ ends[fd][k + 1] > read[fd]

\* What is read of an unfinished packet is in one half packet, in its list.
HalfPacketExact(fd) ==
    LET left == SubSeq(stream[fd], Begin(ends[fd], Complete(fd)) + 1, read[fd])
        list == q.hash[hash_fd(fd)]
        Its(h, k) == q.hash[h][k].id = fd
    IN  IF left = <<>> THEN \A h \in DOMAIN q.hash : \A k \in DOMAIN q.hash[h] : ~Its(h, k)
        ELSE \E k \in DOMAIN list :
               /\ left = IF list[k].read = -1 THEN <<list[k].header>> ELSE Header(list[k].size) \o list[k].data
               /\ \A h \in DOMAIN q.hash : \A j \in DOMAIN q.hash[h] : Its(h, j) <=> h = hash_fd(fd) /\ j = k

\* However the streams are cut and mixed, as long as no handler raises an error
\* it has been called, when a DATA message is done, with exactly the packets whose
\* last byte has been read, in order, and what is read of an unfinished one is in one
\* half packet.  Nothing but the types is claimed of a descriptor that the service
\* closed amid a packet: its next connection is parsed behind the half packet of the
\* earlier one.  The other connections of the service are not disturbed by that.
PacketsExact ==
    /\ TypeOK
    /\ \A fd \in Fd \ stale : ~(job.step = "push" /\ job.pkt[1] = fd) => HalfPacketExact(fd)
    /\ fails = 0 /\ job = Idle => \A fd \in Fd \ stale : got[fd] = Take(Sent[fd], Complete(fd))

\* How many packets p of fd the handler has got, is called with next, and wait.
Count(fd, p) ==
    Cardinality({k \in DOMAIN got[fd] : got[fd][k] = p})
      + (IF job.pkt = <<fd, p>> THEN 1 ELSE 0)
      + Cardinality({k \in DOMAIN InRing(q) : InRing(q)[k] = <<fd, p>>})

\* Errors in the handler lose and repeat no packet: each one read in full has been
\* handed to the handler or waits in the ring, through growth and wrap-around.
\* (The packets a closed connection leaves in the ring are handed out later.)
NoPacketLost ==
    closes = 0 /\ job.step # "push" => \A fd \in Fd :
      \A p \in ToSet(Sent[fd]) \cup ToSet(got[fd]) \cup {e[2] : e \in ToSet(InRing(q))} :
        Count(fd, p) = Cardinality({k \in 1 .. Complete(fd) : Sent[fd][k] = p})
=============================================================================

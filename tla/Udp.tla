-------------------------------- MODULE Udp ---------------------------------
(***************************************************************************)
(* One datagram socket of the IO engine (ReadUdp, SetUdpAddress, SendUdp   *)
(* and the two forms of an address in starnet_socket_server.cpp).  The     *)
(* kernel queues datagrams and reports, edge-triggered, that some have     *)
(* come; the socket thread reads until the queue is empty and posts each   *)
(* one to the service, which may pause and resume reading and answers to   *)
(* the address that came with the message.                                 *)
(***************************************************************************)
EXTENDS Integers, Sequences

CONSTANTS Peer,       \* addresses: [family, ip, port, scope]
          Capacity,   \* datagrams the kernel keeps
          MaxArrivals \* bound: datagrams that arrive

VARIABLES queue,      \* the socket's receive queue
          edge,       \* epoll has an event to report
          mask,       \* EPOLLIN is asked for
          paused,     \* conn->paused
          modify,     \* the service is about to call ModifyEvent
          reading,    \* the socket thread is in ReadUdp
          posted,     \* the messages posted to the service
          accepted,   \* the datagrams the kernel has taken in
          arrivals,   \* and those that came
          behind,     \* datagrams are left behind an empty one
          udpAddr,    \* the default peer, packed, with the one it was set to
          sent        \* where the last datagram went and where it was to go

vars == <<queue, edge, mask, paused, modify, reading, posted, accepted, arrivals, behind, udpAddr, sent>>
input == <<queue, posted, accepted, arrivals, behind>>
events == <<edge, mask, paused, modify, reading>>

\* family, port and address in one string; the scope of a link-local address is not
\* part of it.
PackUdpAddress(sa) == <<sa.family, sa.port, sa.ip>>
UnpackUdpAddress(s) == [family |-> s[1], port |-> s[2], ip |-> s[3], scope |-> 0]

Nowhere == [to |-> [family |-> 0, ip |-> 0, port |-> 0, scope |-> 0], meant |-> <<>>]

Init ==
    /\ queue = <<>> /\ edge = FALSE /\ mask = TRUE /\ paused = FALSE /\ modify = FALSE /\ reading = FALSE
    /\ posted = <<>> /\ accepted = <<>> /\ arrivals = 0 /\ behind = FALSE
    /\ udpAddr = <<>> /\ sent = Nowhere

\* A datagram arrives; a full queue drops it, without an event.
Arrive(d) ==
    /\ arrivals < MaxArrivals /\ arrivals' = arrivals + 1
    /\ IF Len(queue) = Capacity THEN UNCHANGED <<queue, accepted, edge, behind>>
       ELSE /\ queue' = Append(queue, d) /\ accepted' = Append(accepted, d)
            /\ edge' = (edge \/ mask)
            /\ behind' = (behind /\ ~mask)
    /\ UNCHANGED <<mask, paused, modify, reading, posted, udpAddr, sent>>

\* The event is taken; OnRW ignores it while reading is paused.
OnRW ==
    /\ edge /\ ~reading
    /\ edge' = FALSE
    /\ reading' = ~paused
    /\ UNCHANGED <<input, mask, paused, modify, udpAddr, sent>>

\* Mutant: one datagram is read for each event.
ReadUdp_Once ==
    /\ reading
    /\ reading' = FALSE
    /\ IF queue = <<>> THEN UNCHANGED <<queue, posted, behind>>
       ELSE /\ queue' = Tail(queue)
            /\ posted' = IF Head(queue).empty THEN posted
                         ELSE Append(posted, [of |-> Head(queue), udpAddr |-> PackUdpAddress(Head(queue).from)])
            /\ behind' = (Head(queue).empty /\ Len(queue) > 1)
    /\ UNCHANGED <<edge, mask, paused, modify, accepted, arrivals, udpAddr, sent>>

\* One recvfrom of ReadUdp: EAGAIN ends the loop, and so does an empty datagram.
ReadUdp ==
    /\ reading
    /\ reading' = (queue # <<>> /\ ~Head(queue).empty)
    /\ IF queue = <<>> THEN UNCHANGED <<queue, posted, behind>>
       ELSE /\ queue' = Tail(queue)
            /\ posted' = IF Head(queue).empty THEN posted
                         ELSE Append(posted, [of |-> Head(queue), udpAddr |-> PackUdpAddress(Head(queue).from)])
            /\ behind' = (Head(queue).empty /\ Len(queue) > 1 /\ ~edge)
    /\ UNCHANGED <<edge, mask, paused, modify, accepted, arrivals, udpAddr, sent>>

\* PauseRead and ResumeRead: the flag, ...
SetPaused(p) ==
    /\ ~modify
    /\ paused' = p /\ modify' = TRUE
    /\ UNCHANGED <<input, edge, mask, reading, udpAddr, sent>>

\* ... and ModifyEvent: EPOLL_CTL_MOD looks at the queue again.
ModifyEvent ==
    /\ modify /\ modify' = FALSE
    /\ mask' = ~paused
    /\ edge' = (~paused /\ queue # <<>>)
    /\ behind' = (behind /\ ~edge')
    /\ UNCHANGED <<queue, posted, accepted, arrivals, paused, reading, udpAddr, sent>>

SetUdpAddress(p) ==
    /\ udpAddr' = <<PackUdpAddress(p), p>>
    /\ UNCHANGED <<input, events, sent>>

\* SendUdp to the default peer, which has to be set.
SendDefault ==
    /\ udpAddr # <<>>
    /\ sent' = [to |-> UnpackUdpAddress(udpAddr[1]), meant |-> <<udpAddr[2]>>]
    /\ UNCHANGED <<input, events, udpAddr>>

\* Mutant: the address of the last datagram is kept, not each message's.
Reply_Last(i) ==
    /\ sent' = [to |-> UnpackUdpAddress(posted[Len(posted)].udpAddr), meant |-> <<posted[i].of.from>>]
    /\ UNCHANGED <<input, events, udpAddr>>

\* SendUdp to the address a message came with, as ParseUdpAddr gives it to Lua; the
\* family is getaddrinfo's reading of the text.
Reply(i) ==
    /\ sent' = [to |-> UnpackUdpAddress(posted[i].udpAddr), meant |-> <<posted[i].of.from>>]
    /\ UNCHANGED <<input, events, udpAddr>>

Next ==
    \/ \E p \in Peer, e \in BOOLEAN : Arrive([from |-> p, empty |-> e])
    \/ OnRW \/ ReadUdp \/ ModifyEvent \/ SendDefault
    \/ \E p \in BOOLEAN : SetPaused(p)
    \/ \E p \in Peer : SetUdpAddress(p)
    \/ \E i \in DOMAIN posted : Reply(i)

Spec == Init /\ [][Next]_vars

-----------------------------------------------------------------------------
(* Properties *)

\* What the kernel has taken in is posted in its order, each datagram once and with
\* its sender's address, except for the empty ones; the rest is still queued.  And a
\* datagram goes where it is meant to: an answer to the sender of its message, not to
\* whoever wrote last, any other to the default peer; only an address that has a
\* scope is not reached.
DatagramsExact ==
    LET taken == Len(accepted) - Len(queue) IN
    /\ taken >= 0 /\ \A k \in DOMAIN queue : queue[k] = accepted[taken + k]
    /\ \E place \in [DOMAIN posted -> 1 .. taken] :
         /\ \A i, j \in DOMAIN posted : i < j => place[i] < place[j]
         /\ {place[i] : i \in DOMAIN posted} = {k \in 1 .. taken : ~accepted[k].empty}
         /\ \A i \in DOMAIN posted : posted[i].of = accepted[place[i]]
    /\ \A i \in DOMAIN posted : posted[i].udpAddr = PackUdpAddress(posted[i].of.from)
    /\ sent.meant # <<>> /\ sent.meant[1].scope = 0 => sent.to = sent.meant[1]

\* No datagram waits unnoticed: while the queue is not empty the socket thread reads
\* or will be told to, reading is paused or its mask about to be set, or the rest is
\* left behind an empty datagram, until the next one arrives.
NoneUnnoticed ==
    queue # <<>> => edge \/ reading \/ paused \/ modify \/ behind
=============================================================================

------------------------------ MODULE Cluster -------------------------------
(***************************************************************************)
(* clusterd (examples/clusterd.lua), the service of every node that calls  *)
(* services of other nodes and serves the calls of theirs: an outgoing     *)
(* connection for each node, opened on demand, incoming connections, and a *)
(* coroutine for each call that waits for the response with its session.   *)
(* What the IO engine tells clusterd comes through its message queue,      *)
(* late: the kernel may hand out a number again while messages about the   *)
(* connection that had it are queued, or a request of it is being served.  *)
(*                                                                         *)
(* A descriptor is a number of one node.  The messages about different     *)
(* descriptors are handled in any order, and the data on a connection is   *)
(* delivered in any order: in more orders than the one queue of the code.  *)
(***************************************************************************)
EXTENDS Integers, Sequences, FiniteSets

CONSTANTS Node,
          Fd,          \* the descriptors the kernels hand out
          Host,        \* the node of each descriptor
          Address,     \* node_address: the nodes that each node knows
          Nil,         \* nil in node_fd; not in use
          MaxSession,  \* bound: calls of each node
          MaxConns,    \* bound: connections
          MaxBreaks    \* bound: ends lost while the other is there

Session == UNION {1 .. MaxSession[n] : n \in Node}
Conn == 1 .. MaxConns
End == Conn \X {"out", "in"}  \* the end of the node that connects, and of the other

ASSUME ClusterAssumption ==
    /\ Host \in [Fd -> Node] /\ Address \in [Node -> SUBSET Node]
    /\ Nil \notin Fd \cup End \cup Node \X Node
    /\ MaxSession \in [Node -> Nat] /\ {MaxConns, MaxBreaks} \subseteq Nat

VARIABLES
    node_fd,     \* of each node: its outgoing connection to each node
    in_fd,       \* the descriptors taken for incoming connections
    waiting,     \* of each node, session_cb and session_node: the node a waiting call is for
    out_session, \* the last session each node handed out
    ended,       \* of each node: the calls that have ended, with a response or an error
    serving,     \* the requests that wait in handle_request for a local service
    misread,     \* whether a message was taken for what it is not
    way,         \* the two nodes of each connection
    stage,       \* how far it is set up
    sock,        \* kernel: the end behind each descriptor
    buffer,      \* write buffer of a connection: written before it was set up
    wire,        \* the messages on the way to each end
    mail,        \* the messages queued for clusterd about each descriptor
    reused,      \* whether a number was handed out that clusterd may still use for its last connection
    breaks

clusterd == <<node_fd, in_fd, waiting, out_session, ended, serving, misread>>
kernel == <<way, stage, sock, buffer, wire>>
vars == <<clusterd, kernel, mail, reused, breaks>>

\* A request or the response to it.  The caller and the callee are not in the
\* message: they say whose it is.
Msg == [kind : {"request", "response"}, caller : Node, callee : Node, session : Session]
Event == [type : {"accept", "close"}] \cup [type : {"data"}, msg : Msg]

Init ==
    /\ node_fd = [n \in Node |-> [m \in Node |-> Nil]]
    /\ in_fd = {}
    /\ waiting = [n \in Node |-> <<>>]
    /\ out_session = [n \in Node |-> 0]
    /\ ended = [n \in Node |-> {}]
    /\ serving = {}
    /\ misread = FALSE /\ reused = FALSE
    /\ way = [c \in Conn |-> Nil]
    /\ stage = [c \in Conn |-> "connecting"]
    /\ sock = [f \in Fd |-> Nil]
    /\ buffer = [c \in Conn |-> {}]
    /\ wire = [e \in End |-> {}]
    /\ mail = [f \in Fd |-> <<>>]
    /\ breaks = 0

\* Functions on sets of sessions: with another entry, without some.
With(g, k, v) == [x \in DOMAIN g \cup {k} |-> IF x = k THEN v ELSE g[x]]
Without(g, S) == [x \in DOMAIN g \ S |-> g[x]]

-----------------------------------------------------------------------------
(* The kernels and the IO engines. *)

\* A number is handed out; clusterd may have messages about its last connection in
\* its queue, or serve a request that came on it.
HandOut(f, e) ==
    /\ sock[f] = Nil
    /\ sock' = [sock EXCEPT ![f] = e]
    /\ reused' = (reused \/ mail[f] # <<>> \/ \E r \in serving : r.fd = f)

\* One more message is queued for clusterd.
Post(f, event) == mail' = [mail EXCEPT ![f] = Append(@, event)]

\* socket.connect: the handshake may be over before the next write, or not.
connect(n, m, f) ==
    \E c \in Conn, s \in {"connecting", "backlog"} :
      /\ way[c] = Nil /\ \A d \in Conn : d < c => way[d] # Nil
      /\ Host[f] = n
      /\ HandOut(f, <<c, "out">>)
      /\ way' = [way EXCEPT ![c] = <<n, m>>]
      /\ stage' = [stage EXCEPT ![c] = s]

\* The other node's kernel takes the connection; OnConnectFinish.  What has been
\* written before stays in the write buffer: EPOLLOUT is switched off.
OnConnectFinish(c) ==
    /\ way[c] # Nil /\ stage[c] = "connecting"
    /\ \E f \in Fd : sock[f] = <<c, "out">>
    /\ stage' = [stage EXCEPT ![c] = "backlog"]
    /\ UNCHANGED <<clusterd, way, sock, buffer, wire, mail, reused, breaks>>

\* OnAccept of the other node's engine: ACCEPT.
Accept(c, f) ==
    /\ stage[c] = "backlog" /\ \E n \in Node : way[c] = <<n, Host[f]>>
    /\ HandOut(f, <<c, "in">>)
    /\ stage' = [stage EXCEPT ![c] = "accepted"]
    /\ Post(f, [type |-> "accept"])
    /\ UNCHANGED <<clusterd, way, buffer, wire, breaks>>

\* ReadData: DATA.
ReadData(f) ==
    /\ sock[f] # Nil
    /\ \E x \in wire[sock[f]] :
         /\ wire' = [wire EXCEPT ![sock[f]] = @ \ {x}]
         /\ Post(f, [type |-> "data", msg |-> x])
    /\ UNCHANGED <<clusterd, way, stage, sock, buffer, reused, breaks>>

\* The end that the connecting node, or the other, had is gone.
OutGone(c) == \A f \in Fd : sock[f] # <<c, "out">>
InGone(c) == stage[c] = "accepted" /\ \A f \in Fd : sock[f] # <<c, "in">>

\* NotifyClose, and OnConnectFinish with an error: an end learns that the other is
\* gone, or cannot be reached: CLOSE (or ERROR), then the engine closes it.
NotifyClose(f) ==
    \E c \in Conn, side \in {"out", "in"} :
      /\ sock[f] = <<c, side>>
      /\ LET gone == IF side = "out" THEN InGone(c) ELSE OutGone(c)
         IN  /\ gone \/ breaks < MaxBreaks
             /\ breaks' = IF gone THEN breaks ELSE breaks + 1
      /\ sock' = [sock EXCEPT ![f] = Nil]
      /\ wire' = [wire EXCEPT ![<<c, side>>] = {}]
      /\ buffer' = IF side = "out" THEN [buffer EXCEPT ![c] = {}] ELSE buffer
      /\ Post(f, [type |-> "close"])
      /\ UNCHANGED <<clusterd, way, stage, reused>>

\* socket.write, on whatever is behind the number by now; the result is not looked
\* at.  On a connection that is not set up it fills the write buffer, and then
\* everything that follows is put behind it.
write(f, x) ==
    \/ sock'[f] = Nil /\ UNCHANGED <<buffer, wire>>
    \/ \E c \in Conn :
         /\ sock'[f] = <<c, "out">>
         /\ IF stage'[c] = "connecting" \/ buffer[c] # {}
            THEN buffer' = [buffer EXCEPT ![c] = @ \cup {x}] /\ UNCHANGED wire
            ELSE wire' = [wire EXCEPT ![<<c, "in">>] = @ \cup {x}] /\ UNCHANGED buffer
    \/ \E c \in Conn :
         /\ sock'[f] = <<c, "in">>
         /\ wire' = [wire EXCEPT ![<<c, "out">>] = @ \cup {x}] /\ UNCHANGED buffer

-----------------------------------------------------------------------------
(* A local service calls: get_fd, socket.write, and the coroutine waits.  (When *)
(* the node is unknown or connect fails at once, it gets an error.)              *)

\* The connection to the node, or a new one.
get_fd(n, m, f) ==
    \/ node_fd[n][m] = f /\ UNCHANGED <<node_fd, way, stage, sock, reused>>
    \/ /\ node_fd[n][m] = Nil
       /\ connect(n, m, f)
       /\ node_fd' = [node_fd EXCEPT ![n] = [@ EXCEPT ![m] = f]]

Request(n, m, s) == [kind |-> "request", caller |-> n, callee |-> m, session |-> s]

request(n, m) ==
    LET s == out_session[n] + 1
    IN  /\ m \in Address[n] /\ s <= MaxSession[n]
        /\ \E f \in Fd : get_fd(n, m, f) /\ write(f, Request(n, m, s))
        /\ out_session' = [out_session EXCEPT ![n] = s]
        /\ waiting' = [waiting EXCEPT ![n] = With(@, s, m)]
        /\ UNCHANGED <<in_fd, ended, serving, misread, mail, breaks>>

-----------------------------------------------------------------------------
(* clusterd takes a message about a descriptor. *)

Takes(f, type) == mail[f] # <<>> /\ Head(mail[f]).type = type /\ mail' = [mail EXCEPT ![f] = Tail(@)]

OnAccept(f) ==
    /\ Takes(f, "accept")
    /\ in_fd' = in_fd \cup {f}
    /\ UNCHANGED <<node_fd, waiting, out_session, ended, serving, misread, kernel, reused, breaks>>

\* What node n answers to a request.
Response(n, x) == [kind |-> "response", caller |-> x.caller, callee |-> n, session |-> x.session]

\* handle_request: answered at once, or by a local service for which the coroutine waits.
handle_request(f, x) ==
    \/ write(f, Response(Host[f], x)) /\ UNCHANGED serving
    \/ serving' = serving \cup {[fd |-> f, msg |-> x]} /\ UNCHANGED <<buffer, wire>>

\* Data on an incoming connection is a request.  (What a response does that is taken
\* for one is left out.)
OnRequest(f) ==
    LET x == Head(mail[f]).msg
    IN  /\ Takes(f, "data") /\ f \in in_fd
        /\ UNCHANGED <<node_fd, in_fd, waiting, out_session, ended, way, stage, sock, reused, breaks>>
        /\ IF x.kind = "request" THEN handle_request(f, x) ELSE UNCHANGED <<serving, buffer, wire>>
        /\ misread' = (misread \/ x.kind # "request" \/ x.callee # Host[f])

\* Data on another one is a response: the coroutine that waits for its session is
\* woken, whoever it is from.
OnResponse(f) ==
    LET x == Head(mail[f]).msg
        n == Host[f]
        woken == x.kind = "response" /\ x.session \in DOMAIN waiting[n]
    IN  /\ Takes(f, "data") /\ f \notin in_fd
        /\ IF woken
           THEN /\ ended' = [ended EXCEPT ![n] = @ \cup {x.session}]
                /\ waiting' = [waiting EXCEPT ![n] = Without(@, {x.session})]
           ELSE UNCHANGED <<ended, waiting>>
        /\ misread' = \/ misread \/ x.kind # "response"
                      \/ woken /\ (x.caller # n \/ x.callee # waiting[n][x.session])
        /\ UNCHANGED <<node_fd, in_fd, out_session, serving, kernel, reused, breaks>>

\* Mutant: nobody is woken when a connection is gone.
drop_node_Silent(f) ==
    LET n == Host[f]
    IN  \/ \E m \in Node :
             /\ node_fd[n][m] = f
             /\ node_fd' = [node_fd EXCEPT ![n] = [@ EXCEPT ![m] = Nil]]
             /\ UNCHANGED <<in_fd, waiting, ended>>
        \/ /\ \A m \in Node : node_fd[n][m] # f
           /\ in_fd' = in_fd \ {f}
           /\ UNCHANGED <<node_fd, waiting, ended>>

\* Mutant: the connection stays in node_fd.
drop_node_Stale(f) ==
    LET n == Host[f]
        calls == {s \in DOMAIN waiting[n] : node_fd[n][waiting[n][s]] = f}
    IN  /\ ended' = [ended EXCEPT ![n] = @ \cup calls]
        /\ waiting' = [waiting EXCEPT ![n] = Without(@, calls)]
        /\ in_fd' = in_fd \ {f}
        /\ UNCHANGED node_fd

\* Mutant: an incoming connection is not forgotten.
drop_node_KeepIn(f) ==
    LET n == Host[f]
    IN  \/ \E m \in Node :
             LET calls == {s \in DOMAIN waiting[n] : waiting[n][s] = m}
             IN  /\ node_fd[n][m] = f
                 /\ node_fd' = [node_fd EXCEPT ![n] = [@ EXCEPT ![m] = Nil]]
                 /\ ended' = [ended EXCEPT ![n] = @ \cup calls]
                 /\ waiting' = [waiting EXCEPT ![n] = Without(@, calls)]
                 /\ UNCHANGED in_fd
        \/ (\A m \in Node : node_fd[n][m] # f) /\ UNCHANGED <<node_fd, in_fd, waiting, ended>>

\* The first node found with this descriptor (pairs takes any order) loses its
\* connection and the calls that wait for it are woken; with none the
\* descriptor was an incoming one.
drop_node(f) ==
    LET n == Host[f]
    IN  \/ \E m \in Node :
             LET calls == {s \in DOMAIN waiting[n] : waiting[n][s] = m}
             IN  /\ node_fd[n][m] = f
                 /\ node_fd' = [node_fd EXCEPT ![n] = [@ EXCEPT ![m] = Nil]]
                 /\ ended' = [ended EXCEPT ![n] = @ \cup calls]
                 /\ waiting' = [waiting EXCEPT ![n] = Without(@, calls)]
                 /\ UNCHANGED in_fd
        \/ /\ \A m \in Node : node_fd[n][m] # f
           /\ in_fd' = in_fd \ {f}
           /\ UNCHANGED <<node_fd, waiting, ended>>

OnClose(f) ==
    /\ Takes(f, "close")
    /\ drop_node(f)
    /\ UNCHANGED <<out_session, serving, misread, kernel, reused, breaks>>

\* The local call of handle_request returns, and the response is written to the
\* number the request came on.
Returns(r) ==
    /\ r \in serving
    /\ serving' = serving \ {r}
    /\ UNCHANGED <<node_fd, in_fd, waiting, out_session, ended, misread, way, stage, sock, mail, reused, breaks>>
    /\ write(r.fd, Response(Host[r.fd], r.msg))

-----------------------------------------------------------------------------
Handle(f) == OnAccept(f) \/ OnRequest(f) \/ OnResponse(f) \/ OnClose(f)

Next ==
    \/ \E n, m \in Node : request(n, m)
    \/ \E f \in Fd : Handle(f) \/ ReadData(f) \/ NotifyClose(f)
    \/ \E c \in Conn : OnConnectFinish(c) \/ \E f \in Fd : Accept(c, f)
    \/ \E r \in serving : Returns(r)

Spec == Init /\ [][Next]_vars

\* clusterd handles its messages.
Fairness == \A f \in Fd : WF_vars(Handle(f))

\* And everything else works as well as it can: connections that are opened get set up,
\* what arrives is read, and local services answer.
Working ==
    /\ Fairness
    /\ \A c \in Conn : WF_vars(OnConnectFinish(c)) /\ WF_vars(\E f \in Fd : Accept(c, f))
    /\ \A f \in Fd : WF_vars(ReadData(f))
    /\ WF_vars(\E r \in serving : Returns(r))

-----------------------------------------------------------------------------
(* Properties *)

\* The types, and: a call that has ended does not wait.
TypeOK ==
    /\ node_fd \in [Node -> [Node -> Fd \cup {Nil}]] /\ in_fd \subseteq Fd
    /\ \A n \in Node :
         /\ DOMAIN waiting[n] \cup ended[n] = 1 .. out_session[n]
         /\ DOMAIN waiting[n] \cap ended[n] = {}
         /\ \A s \in DOMAIN waiting[n] : waiting[n][s] \in Node
    /\ \A r \in serving : r.fd \in Fd /\ r.msg \in Msg
    /\ way \in [Conn -> (Node \X Node) \cup {Nil}]
    /\ stage \in [Conn -> {"connecting", "backlog", "accepted"}]
    /\ sock \in [Fd -> End \cup {Nil}]
    /\ buffer \in [Conn -> SUBSET Msg] /\ wire \in [End -> SUBSET Msg]
    /\ \A f \in Fd : \A k \in DOMAIN mail[f] : mail[f][k] \in Event

(* clusterd knows connections by their numbers only, so the following hold *)
(* as long as no kernel has handed out a number too early.                 *)

\* clusterd knows the connections: once the messages about a descriptor are
\* handled, node_fd and in_fd say what is behind it.  (With the types.)
ConnectionsKnown ==
    /\ TypeOK
    /\ ~reused => \A f \in Fd : mail[f] = <<>> =>
         /\ \A n, m \in Node : node_fd[n][m] = f => \E c \in Conn : sock[f] = <<c, "out">> /\ way[c] = <<n, m>>
         /\ f \in in_fd <=> \E c \in Conn : sock[f] = <<c, "in">>

\* A message is queued about a descriptor; a request that came on it is being served.
Queued(f, x) == \E k \in DOMAIN mail[f] : mail[f][k].type = "data" /\ mail[f][k].msg = x
Closing(f) == \E k \in DOMAIN mail[f] : mail[f][k].type = "close"
Served(f, x) == [fd |-> f, msg |-> x] \in serving

\* The request of a call, or its response, is on connection c or in the hands of the
\* node at its other end.
OnTheWay(c, x, y) ==
    \/ x \in buffer[c] \cup wire[<<c, "in">>] \/ y \in wire[<<c, "out">>]
    \/ \E g \in Fd : sock[g] = <<c, "in">> /\ (Queued(g, x) \/ Served(g, x))

\* A call that waits is not forgotten: the node it is for has a connection, and the
\* request or the response is on it, or is queued or served at one of its ends, or
\* the other end is gone, or the news of its end is queued.
Pending(n, s) ==
    LET m == waiting[n][s]
        f == node_fd[n][m]
        x == Request(n, m, s)
        y == Response(m, x)
    IN  /\ f \in Fd
        /\ \/ Closing(f) \/ Queued(f, y)
           \/ \E c \in Conn : sock[f] = <<c, "out">> /\ (InGone(c) \/ OnTheWay(c, x, y))

CallsPending == ~reused => \A n \in Node : \A s \in DOMAIN waiting[n] : Pending(n, s)

\* A call is heard of: its response, or the news that its connection is gone, is
\* queued for clusterd.
HeardOf(n, s) ==
    /\ s \in DOMAIN waiting[n]
    /\ LET m == waiting[n][s]
           f == node_fd[n][m]
       IN  f \in Fd /\ (Closing(f) \/ Queued(f, Response(m, Request(n, m, s))))

\* A call that is heard of ends: drop_node wakes all that wait on a connection when
\* its end is handled.
CallsEnd == \A n \in Node, s \in Session : HeardOf(n, s) ~> s \in ended[n] \/ reused

\* Requests and responses are never taken for each other, nor a request for another
\* node's, and a response that wakes a call is from the node that was called, unless
\* a number was handed out too early.
NothingMisread == misread => reused

-----------------------------------------------------------------------------
(* What the source says and TLC refutes *)

\* clusterd.lua:59 says that what is written before a connection is set up is queued
\* in the write buffer, and :160 that no call hangs for ever: a call ends, when
\* everything else works.
NoCallHangs == \A n \in Node, s \in Session : s \in DOMAIN waiting[n] ~> s \in ended[n] \/ reused
=============================================================================

--------------------------- MODULE Cluster_proofs ---------------------------
(***************************************************************************)
(* For any nodes, descriptors, names and services, and any bounds: a       *)
(* published name leads back from its key; and, until a kernel hands out a *)
(* number too early, every clusterd knows its connections, no call is      *)
(* forgotten and no message is misread.                                    *)
(***************************************************************************)
EXTENDS MCCluster, TLAPS

-----------------------------------------------------------------------------
(* Published names *)

\* The types of the two tables with the property: the inductive invariant.
NamesInv == N!TypeOK /\ N!NamesLeadBack

\* The empty tables satisfy it.
LEMMA NamesInit == N!Init => NamesInv
  BY DEF N!Init, NamesInv, N!TypeOK, N!NamesLeadBack

\* Registering keeps it: the name the key had before is the one cleared.
LEMMA RegisterStep ==
    ASSUME NamesInv, NEW name \in Name, NEW addr \in N!Key, N!register(name, addr)
    PROVE  NamesInv'
<1>1. N!TypeOK'
  BY DEF NamesInv, N!TypeOK, N!register
<1>2. ASSUME NEW n \in Name, register_name'[n] # Nil
      PROVE  register_addr'[register_name'[n]] = n
  <2>1. CASE n = name
    BY <2>1, <1>2, NamesAssumption DEF NamesInv, N!TypeOK, N!register
  <2>2. CASE n # name
    <3>1. register_name'[n] = register_name[n] /\ n # register_addr[addr]
      BY <2>2, <1>2 DEF NamesInv, N!TypeOK, N!register
    <3>2. register_addr[register_name[n]] = n /\ register_name[n] \in N!Key
      BY <3>1, <1>2 DEF NamesInv, N!TypeOK, N!NamesLeadBack
    <3>3. register_name[n] # addr
      BY <3>1, <3>2
    <3> QED
      BY <3>1, <3>2, <3>3 DEF NamesInv, N!TypeOK, N!register
  <2> QED
    BY <2>1, <2>2
<1> QED
  BY <1>1, <1>2 DEF NamesInv, N!NamesLeadBack

\* Unregistering keeps it: only this name led to the entry that is cleared.
LEMMA UnregisterStep ==
    ASSUME NamesInv, NEW name \in Name, N!unregister(name)
    PROVE  NamesInv'
<1>1. N!TypeOK'
  BY NamesAssumption DEF NamesInv, N!TypeOK, N!unregister
<1>2. ASSUME NEW n \in Name, register_name'[n] # Nil
      PROVE  register_addr'[register_name'[n]] = n
  <2>1. n # name /\ register_name'[n] = register_name[n]
    BY <1>2 DEF NamesInv, N!TypeOK, N!unregister
  <2>2. register_addr[register_name[n]] = n /\ register_name[n] \in N!Key
    BY <2>1, <1>2 DEF NamesInv, N!TypeOK, N!NamesLeadBack
  <2>3. register_addr[register_name[name]] = name
    BY DEF NamesInv, N!NamesLeadBack, N!unregister
  <2> QED
    BY <2>1, <2>2, <2>3 DEF NamesInv, N!TypeOK, N!unregister
<1> QED
  BY <1>1, <1>2 DEF NamesInv, N!NamesLeadBack

\* Whatever register and unregister do, the key of a published name is listed under it.
THEOREM NamesCorrect == N!Spec => []NamesLeadBack
<1>1. NamesInv /\ [N!Next]_(N!vars) => NamesInv'
  <2> SUFFICES ASSUME NamesInv, [N!Next]_(N!vars) PROVE NamesInv'
    OBVIOUS
  <2>1. CASE N!Next
    BY <2>1, RegisterStep, UnregisterStep DEF N!Next
  <2>2. CASE UNCHANGED N!vars
    BY <2>2 DEF N!vars, NamesInv, N!TypeOK, N!NamesLeadBack
  <2> QED
    BY <2>1, <2>2
<1>2. NamesInv => NamesLeadBack
  BY DEF NamesInv, NamesLeadBack
<1> QED
  BY <1>1, <1>2, NamesInit, PTL DEF N!Spec

-----------------------------------------------------------------------------
(* Connections and calls: the inductive invariant *)

\* The types that TypeOK states, with those of the queues, the flags and the counters.
ClusterTypes ==
    /\ node_fd \in [Node -> [Node -> Fd \cup {Nil}]] /\ in_fd \subseteq Fd
    /\ serving \subseteq [fd : Fd, msg : Msg]
    /\ way \in [Conn -> (Node \X Node) \cup {Nil}]
    /\ stage \in [Conn -> {"connecting", "backlog", "accepted"}]
    /\ sock \in [Fd -> End \cup {Nil}]
    /\ buffer \in [Conn -> SUBSET Msg] /\ wire \in [End -> SUBSET Msg]
    /\ mail \in [Fd -> Seq(Event)]
    /\ misread \in BOOLEAN /\ reused \in BOOLEAN
CallTypes ==
    /\ waiting = [n \in Node |-> waiting[n]] /\ ended = [n \in Node |-> ended[n]]
    /\ out_session \in [Node -> Nat]
    /\ \A n \in Node :
         /\ out_session[n] <= MaxSession[n] /\ DOMAIN waiting[n] \cup ended[n] = 1 .. out_session[n]
         /\ DOMAIN waiting[n] \cap ended[n] = {}
         /\ \A s \in DOMAIN waiting[n] : waiting[n][s] \in Node

\* The messages in a queue; ACCEPT is the first and CLOSE the last of them.
Letters(q) == {q[k] : k \in DOMAIN q}
Has(q, type) == \E e \in Letters(q) : e.type = type
Ordered(q) == \A k \in DOMAIN q : (q[k].type = "accept" => k = 1) /\ (q[k].type = "close" => k = Len(q))

\* clusterd will hear that a descriptor is new, or has not heard that it is gone.
Accepting(f) == Has(mail[f], "accept")
Lost(f) == sock[f] = Nil /\ Has(mail[f], "close")

\* What clusterd takes a descriptor for, and the end it had.
Owned(f) == \E n, m \in Node : node_fd[n][m] = f
InEnd(f) == Lost(f) \/ \E c \in Conn : sock[f] = <<c, "in">>
OutEnd(f, m) == Lost(f) \/ \E c \in Conn : sock[f] = <<c, "out">> /\ way[c] = <<Host[f], m>>

\* The tables and the kernel agree on a descriptor, up to what is still in the queue.
Fit(f) ==
    /\ Ordered(mail[f])
    /\ Has(mail[f], "close") => sock[f] = Nil
    /\ sock[f] = Nil /\ mail[f] # <<>> => Has(mail[f], "close")
    /\ Accepting(f) => ~Owned(f) /\ f \notin in_fd /\ InEnd(f)
    /\ f \in in_fd => ~Owned(f) /\ InEnd(f)
    /\ \A n, m \in Node : node_fd[n][m] = f => n = Host[f] /\ OutEnd(f, m)
    /\ \A c \in Conn : sock[f] = <<c, "out">> =>
         \E m \in Node : way[c] = <<Host[f], m>> /\ node_fd[Host[f]][m] = f
    /\ \A c \in Conn : sock[f] = <<c, "in">> =>
         /\ stage[c] = "accepted" /\ \E n \in Node : way[c] = <<n, Host[f]>>
         /\ f \in in_fd \/ Accepting(f)

\* A descriptor is in node_fd once, an end has one descriptor, and a connection that
\* is not used is not set up.
Tables ==
    /\ \A f \in Fd : Fit(f)
    /\ \A n, m, k \in Node : node_fd[n][m] = node_fd[n][k] /\ node_fd[n][m] # Nil => m = k
    /\ \A f, g \in Fd : sock[f] = sock[g] /\ sock[f] # Nil => f = g
    /\ \A c \in Conn : way[c] = Nil => stage[c] = "connecting"

\* A message is about a call that was made, to the node it says if the call waits.
Honest(x) ==
    /\ x.session \in 1 .. out_session[x.caller]
    /\ x.session \in DOMAIN waiting[x.caller] => waiting[x.caller][x.session] = x.callee

\* A request that came on a descriptor; a response that came on it.
Asked(f, x) ==
    /\ x.kind = "request" /\ x.callee = Host[f]
    /\ \A c \in Conn : sock[f] = <<c, "in">> => way[c] = <<x.caller, Host[f]>>
Answered(f, x) == x.kind = "response" /\ x.caller = Host[f] /\ node_fd[Host[f]][x.callee] = f

\* What the connections, the queues and the coroutines of handle_request hold.
Carried ==
    \A c \in Conn :
      /\ \A x \in buffer[c] \cup wire[<<c, "in">>] :
           Honest(x) /\ x.kind = "request" /\ way[c] = <<x.caller, x.callee>>
      /\ \A x \in wire[<<c, "out">>] :
           Honest(x) /\ x.kind = "response" /\ way[c] = <<x.caller, x.callee>>
MailedAt(f) ==
    \A e \in Letters(mail[f]) : e.type = "data" =>
      /\ Honest(e.msg)
      /\ (Asked(f, e.msg) /\ (f \in in_fd \/ Accepting(f))) \/ Answered(f, e.msg)
Mailed == \A f \in Fd : MailedAt(f)
ServedAt(r) ==
    /\ Honest(r.msg) /\ Asked(r.fd, r.msg)
    /\ sock[r.fd] = Nil \/ \E c \in Conn : sock[r.fd] = <<c, "in">>
InService == \A r \in serving : ServedAt(r)

AllPending == \A n \in Node : \A s \in DOMAIN waiting[n] : Pending(n, s)

Told == Tables /\ Carried /\ Mailed /\ InService /\ AllPending /\ ~misread
ClusterInv == ClusterTypes /\ CallTypes /\ (~reused => Told)

-----------------------------------------------------------------------------
(* Lemmas about queues of messages *)

\* The fields of messages.
LEMMA MsgFields ==
    /\ \A x \in Msg : /\ x.kind \in {"request", "response"} /\ x.caller \in Node /\ x.callee \in Node
                      /\ x.session \in Session
    /\ \A e \in Event : e.type \in {"accept", "data", "close"} /\ (e.type = "data" => e.msg \in Msg)
    /\ [type |-> "accept"] \in Event /\ [type |-> "close"] \in Event
    /\ \A x \in Msg : [type |-> "data", msg |-> x] \in Event
  BY DEF Msg, Event

\* A queue is empty if no message is in it.
LEMMA NoLetters == ASSUME NEW q \in Seq(Event) PROVE q = <<>> <=> Letters(q) = {}
<1>1. Len(q) \in Nat /\ DOMAIN q = 1 .. Len(q) /\ (q = <<>> <=> Len(q) = 0)
  OBVIOUS
<1>2. Letters(q) = {} <=> DOMAIN q = {}
  BY DEF Letters
<1>3. Len(q) = 0 <=> 1 .. Len(q) = {}
  BY <1>1
<1> QED
  BY <1>1, <1>2, <1>3

\* A queue with a message at its end.
LEMMA Posting ==
    ASSUME NEW q \in Seq(Event), NEW e \in Event
    PROVE  /\ Append(q, e) \in Seq(Event) /\ Append(q, e) # <<>>
           /\ Letters(Append(q, e)) = Letters(q) \cup {e}
           /\ Ordered(q) /\ ~Has(q, "close") /\ (e.type = "accept" => q = <<>>) => Ordered(Append(q, e))
<1> DEFINE p == Append(q, e)
           n == Len(q)
<1>1. /\ p \in Seq(Event) /\ n \in Nat /\ DOMAIN q = 1 .. n /\ DOMAIN p = 1 .. (n + 1) /\ Len(p) = n + 1
      /\ \A k \in 1 .. n : p[k] = q[k]
      /\ p[n + 1] = e
  OBVIOUS
<1>2. p # <<>>
  <2>1. n + 1 # 0
    BY <1>1
  <2>2. Len(<<>>) = 0
    OBVIOUS
  <2> HIDE DEF p, n
  <2> QED
    BY <1>1, <2>1, <2>2
<1>3. n + 1 \in 1 .. (n + 1) /\ \A k \in 1 .. (n + 1) : k \in 1 .. n \/ k = n + 1
  BY <1>1
<1>4. q = <<>> => n = 0
  OBVIOUS
<1> HIDE DEF p, n
<1>5. Letters(p) = Letters(q) \cup {e}
  <2>1. ASSUME NEW x \in Letters(p) PROVE x \in Letters(q) \cup {e}
    BY <1>1, <1>3, <2>1 DEF Letters
  <2>2. ASSUME NEW x \in Letters(q) \cup {e} PROVE x \in Letters(p)
    <3>1. CASE x = e
      BY <1>1, <1>3, <3>1 DEF Letters
    <3>2. CASE x \in Letters(q)
      <4>1. PICK k \in 1 .. n : x = q[k]
        BY <1>1, <3>2 DEF Letters
      <4>2. k \in 1 .. (n + 1)
        BY <1>1, <4>1
      <4> QED
        BY <1>1, <4>1, <4>2 DEF Letters
    <3> QED
      BY <2>2, <3>1, <3>2
  <2> QED
    BY <2>1, <2>2
<1>6. ASSUME Ordered(q), ~Has(q, "close"), e.type = "accept" => q = <<>> PROVE Ordered(p)
  <2> SUFFICES ASSUME NEW k \in 1 .. (n + 1)
               PROVE  (p[k].type = "accept" => k = 1) /\ (p[k].type = "close" => k = Len(p))
    BY <1>1 DEF Ordered
  <2>1. CASE k \in 1 .. n
    <3>1. p[k] = q[k] /\ q[k].type # "close"
      BY <1>1, <1>6, <2>1 DEF Has, Letters
    <3> QED
      BY <1>1, <1>6, <2>1, <3>1 DEF Ordered
  <2>2. CASE k = n + 1
    BY <1>1, <1>4, <1>6, <2>2
  <2> QED
    BY <1>3, <2>1, <2>2
<1> QED
  BY <1>1, <1>2, <1>5, <1>6 DEF p

\* A queue without its first message.
LEMMA Taking ==
    ASSUME NEW q \in Seq(Event), q # <<>>, Ordered(q)
    PROVE  /\ Tail(q) \in Seq(Event) /\ Ordered(Tail(q)) /\ ~Has(Tail(q), "accept")
           /\ Head(q) \in Event /\ Letters(q) = Letters(Tail(q)) \cup {Head(q)}
           /\ Head(q).type = "close" => Tail(q) = <<>>
<1> DEFINE t == Tail(q)
           n == Len(q)
<1>1. /\ t \in Seq(Event) /\ n \in Nat /\ n >= 1 /\ DOMAIN q = 1 .. n /\ DOMAIN t = 1 .. (n - 1) /\ Len(t) = n - 1
      /\ Head(q) = q[1] /\ q[1] \in Event
  OBVIOUS
<1>2. \A k \in 1 .. (n - 1) : t[k] = q[k + 1]
  OBVIOUS
<1>3. \A k \in 1 .. (n - 1) : k + 1 \in 1 .. n /\ k + 1 # 1 /\ (k + 1 = n <=> k = n - 1)
  BY <1>1
<1>4. \A k \in 1 .. n : k = 1 \/ (k - 1 \in 1 .. (n - 1) /\ t[k - 1] = q[k])
  <2> TAKE k \in 1 .. n
  <2>1. CASE k # 1
    <3>1. k - 1 \in 1 .. (n - 1) /\ (k - 1) + 1 = k
      BY <1>1, <2>1
    <3> QED
      BY <1>2, <3>1
  <2> QED
    BY <2>1
<1> HIDE DEF t, n
<1>5. \A k \in DOMAIN t : t[k].type # "accept" /\ (t[k].type = "close" => k = Len(t))
  <2> TAKE k \in DOMAIN t
  <2>1. k \in 1 .. (n - 1) /\ t[k] = q[k + 1] /\ k + 1 \in 1 .. n /\ k + 1 # 1 /\ (k + 1 = n <=> k = n - 1)
    BY <1>1, <1>2, <1>3
  <2>2. (q[k + 1].type = "accept" => k + 1 = 1) /\ (q[k + 1].type = "close" => k + 1 = Len(q))
    BY <1>1, <2>1 DEF Ordered
  <2> QED
    BY <1>1, <2>1, <2>2 DEF n
<1>6. Ordered(t) /\ ~Has(t, "accept")
  BY <1>5 DEF Ordered, Has, Letters
<1>7. Letters(q) = Letters(t) \cup {Head(q)}
  <2>1. ASSUME NEW x \in Letters(q) PROVE x \in Letters(t) \cup {Head(q)}
    BY <1>1, <1>4, <2>1 DEF Letters
  <2>2. 1 \in DOMAIN q
    BY <1>1
  <2>3. ASSUME NEW x \in Letters(t) PROVE x \in Letters(q)
    BY <1>1, <1>2, <1>3, <2>3 DEF Letters
  <2>4. Head(q) \in Letters(q)
    BY <1>1, <2>2 DEF Letters
  <2> QED
    BY <2>1, <2>3, <2>4
<1>8. Head(q).type = "close" => t = <<>>
  <2>1. ASSUME Head(q).type = "close" PROVE n = 1
    <3>1. 1 \in DOMAIN q
      BY <1>1
    <3> QED
      BY <1>1, <2>1, <3>1 DEF Ordered, n
  <2>2. n = 1 => Len(t) = 0
    BY <1>1
  <2>3. Len(t) = 0 => t = <<>>
    BY <1>1
  <2> QED
    BY <2>1, <2>2, <2>3
<1> QED
  BY <1>1, <1>6, <1>7, <1>8 DEF t

\* What Closing and Queued say of a queue.
LEMMA Seen ==
    /\ \A f \in Fd : Closing(f) <=> Has(mail[f], "close")
    /\ \A f \in Fd, x \in Msg : Queued(f, x) <=> \E e \in Letters(mail[f]) : e.type = "data" /\ e.msg = x
  BY DEF Closing, Queued, Has, Letters

LEMMA SeenNext ==
    /\ \A f \in Fd : Closing(f)' <=> Has(mail'[f], "close")
    /\ \A f \in Fd, x \in Msg : Queued(f, x)' <=> \E e \in Letters(mail'[f]) : e.type = "data" /\ e.msg = x
  BY DEF Closing, Queued, Has, Letters

\* A message is posted about a descriptor.
LEMMA Posted ==
    ASSUME ClusterTypes, NEW f \in Fd, NEW e \in Event, Post(f, e)
    PROVE  /\ mail' \in [Fd -> Seq(Event)] /\ mail'[f] # <<>>
           /\ Letters(mail'[f]) = Letters(mail[f]) \cup {e}
           /\ \A g \in Fd : g # f => mail'[g] = mail[g]
           /\ Ordered(mail[f]) /\ ~Has(mail[f], "close") /\ (e.type = "accept" => mail[f] = <<>>) => Ordered(mail'[f])
           /\ \A type : Has(mail'[f], type) <=> Has(mail[f], type) \/ e.type = type
<1>1. mail[f] \in Seq(Event) /\ mail'[f] = Append(mail[f], e) /\ \A g \in Fd : g # f => mail'[g] = mail[g]
  BY DEF Post, ClusterTypes
<1>2. /\ mail'[f] \in Seq(Event) /\ mail'[f] # <<>>
      /\ Letters(mail'[f]) = Letters(mail[f]) \cup {e}
      /\ Ordered(mail[f]) /\ ~Has(mail[f], "close") /\ (e.type = "accept" => mail[f] = <<>>) => Ordered(mail'[f])
  <2> DEFINE q == mail[f]
  <2>1. q \in Seq(Event) /\ mail'[f] = Append(q, e)
    BY <1>1
  <2> HIDE DEF q
  <2>2. /\ Append(q, e) \in Seq(Event) /\ Append(q, e) # <<>>
        /\ Letters(Append(q, e)) = Letters(q) \cup {e}
        /\ Ordered(q) /\ ~Has(q, "close") /\ (e.type = "accept" => q = <<>>) => Ordered(Append(q, e))
    BY <2>1, Posting
  <2> QED
    BY <2>1, <2>2 DEF q
<1>3. \A type : Has(mail'[f], type) <=> Has(mail[f], type) \/ e.type = type
  BY <1>2 DEF Has
<1>4. mail' \in [Fd -> Seq(Event)]
  <2>1. \A g \in Fd : mail'[g] \in Seq(Event)
    BY <1>1, <1>2 DEF ClusterTypes
  <2> QED
    BY <2>1 DEF Post, ClusterTypes
<1> QED
  BY <1>1, <1>2, <1>3, <1>4

\* A message about a descriptor is taken.
LEMMA Took ==
    ASSUME ClusterTypes, NEW f \in Fd, NEW type, Takes(f, type), Ordered(mail[f])
    PROVE  /\ mail' \in [Fd -> Seq(Event)] /\ \A g \in Fd : g # f => mail'[g] = mail[g]
           /\ Head(mail[f]) \in Event /\ Head(mail[f]).type = type
           /\ Letters(mail[f]) = Letters(mail'[f]) \cup {Head(mail[f])}
           /\ Ordered(mail'[f]) /\ ~Has(mail'[f], "accept") /\ (type = "close" => mail'[f] = <<>>)
           /\ Has(mail[f], "close") <=> Has(mail'[f], "close") \/ type = "close"
           /\ Has(mail[f], "accept") <=> type = "accept"
<1> DEFINE q == mail[f]
<1>1. q \in Seq(Event) /\ q # <<>> /\ Head(q).type = type /\ mail'[f] = Tail(q) /\ Ordered(q)
  BY DEF Takes, ClusterTypes
<1>2. \A g \in Fd : g # f => mail'[g] = mail[g]
  BY DEF Takes, ClusterTypes
<1> HIDE DEF q
<1>3. /\ Tail(q) \in Seq(Event) /\ Ordered(Tail(q)) /\ ~Has(Tail(q), "accept")
      /\ Head(q) \in Event /\ Letters(q) = Letters(Tail(q)) \cup {Head(q)}
      /\ Head(q).type = "close" => Tail(q) = <<>>
  BY <1>1, Taking
<1>4. /\ Has(q, "close") <=> Has(Tail(q), "close") \/ type = "close"
      /\ Has(q, "accept") <=> type = "accept"
  BY <1>1, <1>3 DEF Has
<1>5. mail' \in [Fd -> Seq(Event)]
  <2>1. \A g \in Fd : mail'[g] \in Seq(Event)
    BY <1>1, <1>2, <1>3 DEF ClusterTypes
  <2> QED
    BY <2>1 DEF Takes, ClusterTypes
<1> QED
  BY <1>1, <1>2, <1>3, <1>4, <1>5 DEF q

\* An end is not nil, and is what it is.
LEMMA Ends ==
    /\ \A c \in Conn : <<c, "out">> # Nil /\ <<c, "in">> # Nil /\ <<c, "out">> \in End /\ <<c, "in">> \in End
    /\ \A c, d \in Conn : <<c, "out">> # <<d, "in">> /\ (<<c, "out">> = <<d, "out">> => c = d) /\ (<<c, "in">> = <<d, "in">> => c = d)
    /\ \A e \in End : \E c \in Conn : e = <<c, "out">> \/ e = <<c, "in">>
    /\ \A n, m \in Node : <<n, m>> # Nil
    /\ \A f \in Fd : f # Nil /\ Host[f] \in Node
  BY ClusterAssumption DEF End

\* A number is handed out in time: clusterd has forgotten it, no message is about it
\* and no request that came on it is served.
LEMMA HandedOut ==
    ASSUME ClusterInv, NEW f \in Fd, NEW e \in End, HandOut(f, e), ~reused'
    PROVE  /\ ~reused /\ Told /\ mail[f] = <<>> /\ Letters(mail[f]) = {} /\ ~Owned(f) /\ f \notin in_fd
           /\ \A r \in serving : r.fd # f
           /\ sock[f] = Nil /\ sock'[f] = e /\ \A g \in Fd : g # f => sock'[g] = sock[g]
           /\ sock' \in [Fd -> End \cup {Nil}]
<1>1. ~reused /\ Told /\ mail[f] = <<>> /\ \A r \in serving : r.fd # f
  BY DEF ClusterInv, ClusterTypes, HandOut
<1>2. sock[f] = Nil /\ sock'[f] = e /\ \A g \in Fd : g # f => sock'[g] = sock[g]
  BY DEF ClusterInv, ClusterTypes, HandOut
<1>3. Letters(mail[f]) = {}
  BY <1>1, NoLetters DEF ClusterInv, ClusterTypes
<1>4. Fit(f) /\ ~Lost(f)
  BY <1>1, <1>3 DEF Told, Tables, Lost, Has
<1>5. ~InEnd(f) /\ \A m \in Node : ~OutEnd(f, m)
  BY <1>2, <1>4, Ends DEF InEnd, OutEnd
<1>6. ~Owned(f) /\ f \notin in_fd
  BY <1>4, <1>5 DEF Fit, Owned
<1>7. sock' \in [Fd -> End \cup {Nil}]
  BY DEF ClusterInv, ClusterTypes, HandOut
<1> QED
  BY <1>1, <1>2, <1>3, <1>6, <1>7

\* A descriptor about which no more is heard than data.
LEMMA FitKept ==
    ASSUME NEW f \in Fd, Fit(f), Ordered(mail'[f]),
           Has(mail'[f], "close") <=> Has(mail[f], "close"), Accepting(f)' <=> Accepting(f),
           sock[f] = Nil /\ mail'[f] # <<>> => Has(mail[f], "close"),
           sock'[f] = sock[f], f \in in_fd' <=> f \in in_fd,
           \A n, m \in Node : node_fd'[n][m] = f <=> node_fd[n][m] = f,
           \A c \in Conn : sock[f] = <<c, "out">> \/ sock[f] = <<c, "in">> =>
             way'[c] = way[c] /\ (stage[c] = "accepted" => stage'[c] = "accepted")
    PROVE  Fit(f)'
<1>1. (Lost(f)' <=> Lost(f)) /\ (Owned(f)' <=> Owned(f))
  BY DEF Lost, Owned
<1>2. InEnd(f)' <=> InEnd(f)
  BY <1>1 DEF InEnd
<1>3. \A m \in Node : OutEnd(f, m) => OutEnd(f, m)'
  BY <1>1 DEF OutEnd
<1>4. /\ \A n, m \in Node : node_fd'[n][m] = f => n = Host[f] /\ OutEnd(f, m)'
      /\ \A c \in Conn : sock'[f] = <<c, "out">> =>
           \E m \in Node : way'[c] = <<Host[f], m>> /\ node_fd'[Host[f]][m] = f
  BY <1>3, Ends DEF Fit
<1>5. \A c \in Conn : sock'[f] = <<c, "in">> =>
         /\ stage'[c] = "accepted" /\ \E n \in Node : way'[c] = <<n, Host[f]>>
         /\ f \in in_fd' \/ Accepting(f)'
  BY DEF Fit
<1> QED
  BY <1>1, <1>2, <1>4, <1>5 DEF Fit

\* A descriptor that nothing happens to.
LEMMA FitSame ==
    ASSUME NEW f \in Fd, Fit(f), mail'[f] = mail[f], sock'[f] = sock[f], f \in in_fd' <=> f \in in_fd,
           \A n, m \in Node : node_fd'[n][m] = f <=> node_fd[n][m] = f,
           \A c \in Conn : sock[f] = <<c, "out">> \/ sock[f] = <<c, "in">> =>
             way'[c] = way[c] /\ (stage[c] = "accepted" => stage'[c] = "accepted")
    PROVE  Fit(f)'
<1>1. Ordered(mail'[f]) /\ (sock[f] = Nil /\ mail'[f] # <<>> => Has(mail[f], "close"))
  BY DEF Fit
<1>2. Accepting(f)' <=> Accepting(f)
  BY DEF Accepting
<1> QED
  BY <1>1, <1>2, FitKept

\* What the queue about a descriptor holds, when its messages stay as they are.
LEMMA MailedKept ==
    ASSUME ClusterTypes, NEW f \in Fd, MailedAt(f),
           \A e \in Letters(mail'[f]) : e.type = "data" => e \in Letters(mail[f]),
           \A x \in Msg : Honest(x) => Honest(x)',
           sock'[f] = Nil \/ sock'[f] = sock[f],
           \A c \in Conn : sock[f] = <<c, "in">> => way'[c] = way[c],
           f \in in_fd \/ Accepting(f) => f \in in_fd' \/ Accepting(f)',
           \A m \in Node : node_fd[Host[f]][m] = f => node_fd'[Host[f]][m] = f
    PROVE  MailedAt(f)'
<1> SUFFICES ASSUME NEW e \in Letters(mail'[f]), e.type = "data"
             PROVE  /\ Honest(e.msg)'
                    /\ (Asked(f, e.msg)' /\ (f \in in_fd' \/ Accepting(f)')) \/ Answered(f, e.msg)'
  BY DEF MailedAt
<1>1. e \in Letters(mail[f]) /\ e.msg \in Msg
  <2>1. e \in Letters(mail[f])
    OBVIOUS
  <2>2. e \in Event
    BY <2>1 DEF ClusterTypes, Letters
  <2> QED
    BY <2>1, <2>2, MsgFields
<1>2. e.msg.callee \in Node
  BY <1>1, MsgFields
<1>3. Honest(e.msg) /\ ((Asked(f, e.msg) /\ (f \in in_fd \/ Accepting(f))) \/ Answered(f, e.msg))
  BY <1>1 DEF MailedAt
<1>4. Asked(f, e.msg) => Asked(f, e.msg)'
  BY Ends DEF Asked
<1>5. Answered(f, e.msg) => Answered(f, e.msg)'
  BY <1>2 DEF Answered
<1> QED
  BY <1>1, <1>3, <1>4, <1>5

\* What is on the connections, when nothing is written.
LEMMA CarriedKept ==
    ASSUME ClusterTypes, Carried, way' = way, \A x \in Msg : Honest(x) => Honest(x)',
           \A c \in Conn : /\ buffer'[c] \subseteq buffer[c]
                          /\ wire'[<<c, "in">>] \subseteq wire[<<c, "in">>]
                          /\ wire'[<<c, "out">>] \subseteq wire[<<c, "out">>]
    PROVE  Carried'
<1> SUFFICES ASSUME NEW c \in Conn
             PROVE  /\ \A x \in buffer'[c] \cup wire'[<<c, "in">>] :
                         Honest(x)' /\ x.kind = "request" /\ way[c] = <<x.caller, x.callee>>
                    /\ \A x \in wire'[<<c, "out">>] :
                         Honest(x)' /\ x.kind = "response" /\ way[c] = <<x.caller, x.callee>>
  BY DEF Carried
<1>1. buffer[c] \subseteq Msg /\ wire[<<c, "in">>] \subseteq Msg /\ wire[<<c, "out">>] \subseteq Msg
  BY Ends DEF ClusterTypes
<1> QED
  BY <1>1 DEF Carried

\* A request that is being served stays so.
LEMMA ServedKept ==
    ASSUME ClusterTypes, NEW r \in serving, ServedAt(r), \A x \in Msg : Honest(x) => Honest(x)',
           sock'[r.fd] = Nil \/ sock'[r.fd] = sock[r.fd],
           \A c \in Conn : sock[r.fd] = <<c, "in">> => way'[c] = way[c]
    PROVE  ServedAt(r)'
<1>1. r.fd \in Fd /\ r.msg \in Msg
  BY DEF ClusterTypes
<1>2. Asked(r.fd, r.msg)'
  BY <1>1, Ends DEF ServedAt, Asked
<1> QED
  BY <1>1, <1>2 DEF ServedAt

\* What is said of messages while no call is made.
LEMMA HonestKept ==
    ASSUME out_session' = out_session,
           \A n \in Node : \A s \in DOMAIN waiting'[n] : s \in DOMAIN waiting[n] /\ waiting'[n][s] = waiting[n][s]
    PROVE  \A x \in Msg : Honest(x) => Honest(x)'
  BY MsgFields DEF Honest

\* The request and the response of a call that waits, and where they are.
Calling(f, x, y) ==
    /\ x \in Msg /\ x.kind = "request" /\ y = Response(x.callee, x) /\ node_fd[x.caller][x.callee] = f
    /\ x.session \in DOMAIN waiting[x.caller] /\ waiting[x.caller][x.session] = x.callee
Reaches(f, x, y) ==
    \/ Closing(f) \/ Queued(f, y)
    \/ \E c \in Conn : sock[f] = <<c, "out">> /\ (InGone(c) \/ OnTheWay(c, x, y))

\* The fields of a request and of its response.
LEMMA RequestIs ==
    ASSUME NEW n \in Node, NEW m \in Node, NEW s \in Session
    PROVE  LET x == Request(n, m, s)
           IN  x \in Msg /\ x.kind = "request" /\ x.caller = n /\ x.callee = m /\ x.session = s
  BY DEF Request, Msg
LEMMA ResponseIs ==
    ASSUME NEW x \in Msg, NEW m \in Node
    PROVE  LET y == Response(m, x)
           IN  /\ y \in Msg /\ y.kind = "response" /\ y.caller = x.caller /\ y.callee = m /\ y.session = x.session
               /\ y.kind # "request"
  BY MsgFields DEF Response, Msg

\* A call that waits is one that was made.
LEMMA CallIs ==
    ASSUME CallTypes, NEW n \in Node, NEW s \in DOMAIN waiting[n]
    PROVE  s \in Session /\ s \in 1 .. out_session[n] /\ waiting[n][s] \in Node
<1>1. s \in 1 .. out_session[n] /\ waiting[n][s] \in Node /\ out_session[n] <= MaxSession[n]
  BY DEF CallTypes
<1>2. out_session[n] \in Nat /\ MaxSession[n] \in Nat
  BY ClusterAssumption DEF CallTypes
<1>3. s \in 1 .. MaxSession[n]
  BY <1>1, <1>2
<1> QED
  BY <1>1, <1>3 DEF Session

\* What AllPending says of the messages of a call.
LEMMA PendingReaches ==
    ASSUME CallTypes, AllPending, NEW f \in Fd, NEW x, NEW y, Calling(f, x, y)
    PROVE  Reaches(f, x, y)
<1> DEFINE n == x.caller
           m == x.callee
           s == x.session
<1>1. n \in Node /\ m \in Node /\ s \in DOMAIN waiting[n] /\ waiting[n][s] = m /\ node_fd[n][m] = f
  BY MsgFields DEF Calling
<1>2. x = Request(n, m, s) /\ y = Response(m, x)
  BY DEF Calling, Request, Msg
<1>3. Pending(n, s)
  BY <1>1 DEF AllPending
<1> HIDE DEF n, m, s
<1> QED
  BY <1>1, <1>2, <1>3 DEF Pending, Reaches

\* Calls that wait go on waiting if what they wait for goes on.
LEMMA PendingKept ==
    ASSUME CallTypes, CallTypes', AllPending,
           \A n \in Node : \A s \in DOMAIN waiting'[n] :
             /\ s \in DOMAIN waiting[n] /\ waiting'[n][s] = waiting[n][s]
             /\ node_fd'[n][waiting[n][s]] = node_fd[n][waiting[n][s]],
           \A f \in Fd, x, y \in Msg :
             Calling(f, x, y) /\ x.session \in DOMAIN waiting'[x.caller] /\ Reaches(f, x, y) => Reaches(f, x, y)'
    PROVE  AllPending'
<1> SUFFICES ASSUME NEW n \in Node, NEW s \in DOMAIN waiting'[n] PROVE Pending(n, s)'
  BY DEF AllPending
<1>1. s \in DOMAIN waiting[n] /\ Pending(n, s)
  BY DEF AllPending
<1>2. PICK m \in Node : waiting[n][s] = m /\ s \in Session
  BY <1>1, CallIs
<1>3. PICK x \in Msg : x = Request(n, m, s) /\ x.kind = "request" /\ x.caller = n /\ x.callee = m /\ x.session = s
  BY <1>2, RequestIs
<1>4. PICK y \in Msg : y = Response(m, x)
  BY ResponseIs
<1>5. PICK f \in Fd : node_fd[n][m] = f /\ Reaches(f, x, y)
  BY <1>1, <1>2, <1>3, <1>4 DEF Pending, Reaches
<1>6. Calling(f, x, y)
  BY <1>1, <1>2, <1>3, <1>4, <1>5 DEF Calling
<1>7. Reaches(f, x, y)'
  BY <1>3, <1>5, <1>6
<1>8. waiting'[n][s] = m /\ node_fd'[n][m] = f
  BY <1>1, <1>2, <1>5
<1> QED
  BY <1>3, <1>4, <1>7, <1>8 DEF Pending, Reaches

-----------------------------------------------------------------------------
(* The initial states *)

\* Nothing is open, queued or waiting.
LEMMA ClusterInitInv == Init => ClusterInv
<1> SUFFICES ASSUME Init PROVE ClusterInv
  OBVIOUS
<1>1. ClusterTypes
  <2>1. mail \in [Fd -> Seq(Event)]
    BY DEF Init
  <2>2. /\ way \in [Conn -> (Node \X Node) \cup {Nil}]
        /\ stage \in [Conn -> {"connecting", "backlog", "accepted"}]
        /\ sock \in [Fd -> End \cup {Nil}]
        /\ buffer \in [Conn -> SUBSET Msg] /\ wire \in [End -> SUBSET Msg]
    BY DEF Init
  <2>3. node_fd \in [Node -> [Node -> Fd \cup {Nil}]]
    BY DEF Init
  <2> QED
    BY <2>1, <2>2, <2>3 DEF Init, ClusterTypes
<1>2. CallTypes
  <2>1. /\ waiting = [n \in Node |-> waiting[n]] /\ ended = [n \in Node |-> ended[n]]
        /\ out_session \in [Node -> Nat]
    BY DEF Init
  <2>2. ASSUME NEW n \in Node
        PROVE  /\ out_session[n] <= MaxSession[n] /\ DOMAIN waiting[n] \cup ended[n] = 1 .. out_session[n]
               /\ DOMAIN waiting[n] = {}
    <3>1. out_session[n] = 0 /\ ended[n] = {} /\ waiting[n] = <<>> /\ MaxSession[n] \in Nat
      BY ClusterAssumption DEF Init
    <3>2. DOMAIN waiting[n] = {} /\ 1 .. out_session[n] = {}
      BY <3>1
    <3> QED
      BY <3>1, <3>2
  <2> QED
    BY <2>1, <2>2 DEF CallTypes
<1>3. \A f \in Fd : mail[f] = <<>> /\ Letters(mail[f]) = {} /\ sock[f] = Nil
  BY <1>1, NoLetters DEF Init, ClusterTypes
<1>4. Tables
  <2>1. \A n, m \in Node : node_fd[n][m] = Nil
    BY DEF Init
  <2>2. ASSUME NEW f \in Fd PROVE Fit(f)
    <3>1. ~Owned(f) /\ f \notin in_fd /\ ~Accepting(f) /\ ~Has(mail[f], "close")
      BY <1>3, <2>1, Ends DEF Init, Owned, Accepting, Has
    <3>2. Ordered(mail[f])
      BY <1>3 DEF Ordered
    <3> QED
      BY <1>3, <3>1, <3>2, Ends DEF Fit, Owned
  <2> QED
    BY <1>3, <2>1, <2>2 DEF Tables, Init
<1>5. Carried /\ Mailed /\ InService
  <2>1. \A c \in Conn : buffer[c] = {} /\ wire[<<c, "in">>] = {} /\ wire[<<c, "out">>] = {}
    BY Ends DEF Init
  <2> QED
    BY <1>3, <2>1 DEF Carried, Mailed, MailedAt, InService, Init
<1>6. AllPending /\ ~misread
  <2>1. \A n \in Node : DOMAIN waiting[n] = {}
    BY DEF Init
  <2> QED
    BY <2>1 DEF AllPending, Init
<1> QED
  BY <1>1, <1>2, <1>4, <1>5, <1>6 DEF ClusterInv, Told

-----------------------------------------------------------------------------
(* The kernels and the IO engines *)

\* A connection is set up.
LEMMA OnConnectFinishStep == ASSUME ClusterInv, NEW c \in Conn, OnConnectFinish(c) PROVE ClusterInv'
<1>1. /\ UNCHANGED <<clusterd, way, sock, buffer, wire, mail, reused>>
      /\ way[c] # Nil /\ stage[c] = "connecting" /\ stage' = [stage EXCEPT ![c] = "backlog"]
  BY DEF OnConnectFinish
<1>2. ClusterTypes' /\ CallTypes'
  BY <1>1 DEF ClusterInv, ClusterTypes, CallTypes, clusterd
<1> SUFFICES ASSUME ~reused' PROVE Told'
  BY <1>2 DEF ClusterInv
<1>3. Told /\ ClusterTypes /\ CallTypes
  BY <1>1 DEF ClusterInv
<1>4. \A d \in Conn : stage[d] = "accepted" <=> stage'[d] = "accepted"
  BY <1>1, <1>3 DEF ClusterTypes
<1>5. Tables'
  <2>1. ASSUME NEW f \in Fd PROVE Fit(f)'
    BY <1>1, <1>3, <1>4, FitSame DEF Told, Tables, clusterd
  <2>2. \A d \in Conn : way'[d] = Nil => stage'[d] = "connecting"
    BY <1>1, <1>3 DEF Told, Tables, ClusterTypes
  <2> QED
    BY <1>1, <1>3, <2>1, <2>2 DEF Told, Tables, clusterd
<1>6. Carried' /\ Mailed' /\ InService' /\ ~misread'
  <2>1. \A x \in Msg : Honest(x)' <=> Honest(x)
    BY <1>1 DEF Honest, clusterd
  <2>2. Carried'
    BY <1>1, <1>3, <2>1, CarriedKept DEF Told
  <2>3. \A f \in Fd : Accepting(f)' <=> Accepting(f)
    BY <1>1 DEF Accepting
  <2>4. ASSUME NEW f \in Fd PROVE MailedAt(f)'
    BY <1>1, <1>3, <2>1, <2>3, MailedKept DEF Told, Mailed, clusterd
  <2>5. ASSUME NEW r \in serving PROVE ServedAt(r)'
    BY <1>1, <1>3, <2>1, ServedKept DEF Told, InService
  <2> QED
    BY <1>1, <1>3, <2>2, <2>4, <2>5 DEF Told, Mailed, InService, clusterd
<1>7. AllPending'
  <2>1. ASSUME NEW f \in Fd, NEW x \in Msg, NEW y \in Msg, Reaches(f, x, y) PROVE Reaches(f, x, y)'
    BY <1>1, <1>4, <2>1 DEF Reaches, Closing, Queued, InGone, OnTheWay, Served, clusterd
  <2> QED
    BY <1>1, <1>2, <1>3, <2>1, PendingKept DEF Told, clusterd
<1> QED
  BY <1>5, <1>6, <1>7 DEF Told

\* The other node's engine accepts: the descriptor is new to its clusterd, or was
\* reused too early.
LEMMA AcceptStep == ASSUME ClusterInv, NEW c \in Conn, NEW f \in Fd, Accept(c, f) PROVE ClusterInv'
<1> DEFINE e == [type |-> "accept"]
<1>1. /\ UNCHANGED <<clusterd, way, buffer, wire>>
      /\ stage[c] = "backlog" /\ stage' = [stage EXCEPT ![c] = "accepted"]
      /\ HandOut(f, <<c, "in">>) /\ e \in Event /\ e.type = "accept" /\ Post(f, e)
  BY MsgFields DEF Accept
<1>2. ClusterTypes' /\ CallTypes'
  <2>1. mail' \in [Fd -> Seq(Event)]
    BY <1>1, Posted DEF ClusterInv
  <2>2. sock' \in [Fd -> End \cup {Nil}] /\ reused' \in BOOLEAN
    BY <1>1, Ends DEF HandOut, ClusterInv, ClusterTypes
  <2>3. stage' \in [Conn -> {"connecting", "backlog", "accepted"}]
    BY <1>1 DEF ClusterInv, ClusterTypes
  <2> QED
    BY <1>1, <2>1, <2>2, <2>3 DEF ClusterInv, ClusterTypes, CallTypes, clusterd
<1> SUFFICES ASSUME ~reused' PROVE Told'
  BY <1>2 DEF ClusterInv
<1> HIDE DEF e
<1>3. /\ Told /\ ClusterTypes /\ CallTypes /\ mail[f] = <<>> /\ Letters(mail[f]) = {} /\ ~Owned(f) /\ f \notin in_fd
      /\ \A r \in serving : r.fd # f
      /\ sock[f] = Nil /\ sock'[f] = <<c, "in">> /\ \A g \in Fd : g # f => sock'[g] = sock[g]
  BY <1>1, Ends, HandedOut DEF ClusterInv
<1>4. \A d \in Conn : stage'[d] = IF d = c THEN "accepted" ELSE stage[d]
  BY <1>1, <1>3 DEF ClusterTypes
<1>5. PICK n \in Node : way[c] = <<n, Host[f]>>
  BY DEF Accept
<1>6. /\ Letters(mail'[f]) = {e} /\ Ordered(mail'[f]) /\ Accepting(f)' /\ ~Has(mail'[f], "close")
      /\ \A g \in Fd : g # f => mail'[g] = mail[g]
  <2>1. Ordered(mail[f]) /\ ~Has(mail[f], "close")
    BY <1>3 DEF Told, Tables, Fit, Has
  <2>2. /\ Letters(mail'[f]) = Letters(mail[f]) \cup {e} /\ Ordered(mail'[f])
        /\ \A g \in Fd : g # f => mail'[g] = mail[g]
        /\ Has(mail'[f], "accept") /\ ~Has(mail'[f], "close")
    BY <1>1, <1>3, <2>1, Posted
  <2> QED
    BY <1>3, <2>2 DEF Accepting
<1>7. \A g \in Fd : sock[g] # <<c, "in">>
  BY <1>1, <1>3 DEF Told, Tables, Fit
<1>8. Tables'
  <2>1. ASSUME NEW g \in Fd, g # f PROVE Fit(g)'
    BY <1>1, <1>3, <1>4, <1>6, <2>1, FitSame DEF Told, Tables, clusterd
  <2>2. Fit(f)'
    <3>1. ~Owned(f)' /\ f \notin in_fd'
      BY <1>1, <1>3 DEF Owned, clusterd
    <3>2. InEnd(f)'
      BY <1>3 DEF InEnd
    <3>3. way'[c] = <<n, Host[f]>> /\ stage'[c] = "accepted"
      BY <1>1, <1>4, <1>5
    <3> QED
      BY <1>3, <1>6, <3>1, <3>2, <3>3, Ends DEF Fit, Owned
  <2>3. \A g, h \in Fd : sock'[g] = sock'[h] /\ sock'[g] # Nil => g = h
    BY <1>3, <1>7 DEF Told, Tables
  <2>4. \A d \in Conn : way'[d] = Nil => stage'[d] = "connecting"
    BY <1>1, <1>3, <1>4, <1>5, Ends DEF Told, Tables
  <2> QED
    BY <1>1, <1>3, <2>1, <2>2, <2>3, <2>4 DEF Told, Tables, clusterd
<1>9. Carried' /\ Mailed' /\ InService' /\ ~misread'
  <2>1. \A x \in Msg : Honest(x)' <=> Honest(x)
    BY <1>1 DEF Honest, clusterd
  <2>2. Carried'
    BY <1>1, <1>3, <2>1, CarriedKept DEF Told
  <2>3. \A g \in Fd : g # f => (Accepting(g)' <=> Accepting(g))
    BY <1>6 DEF Accepting
  <2>4. ASSUME NEW g \in Fd, g # f PROVE MailedAt(g)'
    BY <1>1, <1>3, <1>6, <2>1, <2>3, <2>4, MailedKept DEF Told, Mailed, clusterd
  <2>5. MailedAt(f)'
    BY <1>1, <1>6 DEF MailedAt
  <2>6. ASSUME NEW r \in serving PROVE ServedAt(r)'
    <3>1. r.fd \in Fd /\ r.fd # f
      BY <1>3 DEF ClusterTypes
    <3> QED
      BY <1>1, <1>3, <2>1, <3>1, ServedKept DEF Told, InService
  <2> QED
    BY <1>1, <1>3, <2>2, <2>4, <2>5, <2>6 DEF Told, Mailed, InService, clusterd
<1>10. AllPending'
  <2>1. ASSUME NEW g \in Fd, NEW x \in Msg, NEW y \in Msg, Reaches(g, x, y) PROVE Reaches(g, x, y)'
    <3>1. \A h \in Fd : Letters(mail[h]) \subseteq Letters(mail'[h])
      BY <1>3, <1>6
    <3>2. \A h \in Fd : (Closing(h) => Closing(h)') /\ \A z \in Msg : Queued(h, z) => Queued(h, z)'
      BY <3>1, Seen, SeenNext DEF Has
    <3>3. \A d \in Conn : InGone(d) => InGone(d)'
      BY <1>1, <1>3, <1>4, Ends DEF InGone
    <3>4. \A d \in Conn : OnTheWay(d, x, y) => OnTheWay(d, x, y)'
      BY <1>1, <1>3, <3>2, Ends DEF OnTheWay, Served, clusterd
    <3>5. \A d \in Conn : sock[g] = <<d, "out">> => sock'[g] = <<d, "out">>
      BY <1>3, Ends
    <3> QED
      BY <2>1, <3>2, <3>3, <3>4, <3>5 DEF Reaches
  <2> QED
    BY <1>1, <1>2, <1>3, <2>1, PendingKept DEF Told, clusterd
<1> QED
  BY <1>8, <1>9, <1>10 DEF Told

\* Data is read: a request at the end of the node that was called, a response at the
\* other.
LEMMA ReadDataStep == ASSUME ClusterInv, NEW f \in Fd, ReadData(f) PROVE ClusterInv'
<1>1. /\ UNCHANGED <<clusterd, way, stage, sock, buffer, reused>>
      /\ sock[f] # Nil
  BY DEF ReadData
<1>2. PICK z \in wire[sock[f]] :
        /\ wire' = [wire EXCEPT ![sock[f]] = @ \ {z}]
        /\ Post(f, [type |-> "data", msg |-> z])
  BY DEF ReadData
<1>3. PICK c \in Conn : sock[f] = <<c, "out">> \/ sock[f] = <<c, "in">>
  BY <1>1, Ends DEF ClusterInv, ClusterTypes
<1>4. sock[f] \in End /\ z \in Msg
  BY <1>1, <1>2 DEF ClusterInv, ClusterTypes
<1>5. PICK e \in Event : e.type = "data" /\ e.msg = z /\ Post(f, e)
  BY <1>2, <1>4, MsgFields
<1>6. ClusterTypes' /\ CallTypes'
  <2>1. mail' \in [Fd -> Seq(Event)]
    BY <1>5, Posted DEF ClusterInv
  <2>2. wire' \in [End -> SUBSET Msg]
    BY <1>2 DEF ClusterInv, ClusterTypes
  <2> QED
    BY <1>1, <2>1, <2>2 DEF ClusterInv, ClusterTypes, CallTypes, clusterd
<1> SUFFICES ASSUME ~reused' PROVE Told'
  BY <1>6 DEF ClusterInv
<1>7. Told /\ ClusterTypes /\ CallTypes
  BY <1>1 DEF ClusterInv
<1>8. /\ Letters(mail'[f]) = Letters(mail[f]) \cup {e} /\ Ordered(mail'[f])
      /\ \A g \in Fd : g # f => mail'[g] = mail[g]
      /\ \A type : Has(mail'[f], type) <=> Has(mail[f], type) \/ type = "data"
  <2>1. Ordered(mail[f]) /\ ~Has(mail[f], "close")
    BY <1>1, <1>7 DEF Told, Tables, Fit
  <2> QED
    BY <1>5, <1>7, <2>1, Posted
<1>9. \A g \in Fd : Accepting(g)' <=> Accepting(g)
  BY <1>8 DEF Accepting
<1>10. Tables'
  <2>1. ASSUME NEW g \in Fd, g # f PROVE Fit(g)'
    BY <1>1, <1>7, <1>8, <2>1, FitSame DEF Told, Tables, clusterd
  <2>2. Fit(f)'
    BY <1>1, <1>7, <1>8, <1>9, FitKept DEF Told, Tables, clusterd
  <2> QED
    BY <1>1, <1>7, <2>1, <2>2 DEF Told, Tables, clusterd
<1>11. \A x \in Msg : Honest(x)' <=> Honest(x)
  BY <1>1 DEF Honest, clusterd
<1>12. Carried'
  <2>1. \A d \in End : wire'[d] \subseteq wire[d]
    BY <1>2, <1>4, <1>7 DEF ClusterTypes
  <2> QED
    BY <1>1, <1>7, <1>11, <2>1, Ends, CarriedKept DEF Told
<1>13. Mailed'
  <2>1. ASSUME NEW g \in Fd, g # f PROVE MailedAt(g)'
    BY <1>1, <1>7, <1>8, <1>9, <1>11, <2>1, MailedKept DEF Told, Mailed, clusterd
  <2>2. (Asked(f, z) /\ (f \in in_fd \/ Accepting(f))) \/ Answered(f, z)
    <3>1. CASE sock[f] = <<c, "in">>
      <4>1. z.kind = "request" /\ way[c] = <<z.caller, z.callee>>
        BY <1>2, <1>7, <3>1, ZenonT(40) DEF Told, Carried
      <4>2. (\E n \in Node : way[c] = <<n, Host[f]>>) /\ (f \in in_fd \/ Accepting(f))
        BY <1>7, <3>1 DEF Told, Tables, Fit
      <4> QED
        BY <3>1, <4>1, <4>2, Ends DEF Asked
    <3>2. CASE sock[f] = <<c, "out">>
      <4>1. z.kind = "response" /\ way[c] = <<z.caller, z.callee>>
        BY <1>2, <1>7, <3>2 DEF Told, Carried
      <4>2. \E m \in Node : way[c] = <<Host[f], m>> /\ node_fd[Host[f]][m] = f
        BY <1>7, <3>2 DEF Told, Tables, Fit
      <4> QED
        BY <4>1, <4>2 DEF Answered
    <3> QED
      BY <1>3, <3>1, <3>2
  <2>3. Honest(z)
    BY <1>2, <1>3, <1>7 DEF Told, Carried
  <2>4. ASSUME NEW d \in Letters(mail'[f]), d.type = "data"
        PROVE  /\ Honest(d.msg)
               /\ (Asked(f, d.msg) /\ (f \in in_fd \/ Accepting(f))) \/ Answered(f, d.msg)
    <3>1. CASE d = e
      BY <1>5, <2>2, <2>3, <3>1
    <3>2. CASE d \in Letters(mail[f])
      BY <1>7, <2>4, <3>2 DEF Told, Mailed, MailedAt
    <3> QED
      BY <1>8, <3>1, <3>2
  <2>5. \A x : Honest(x) => Honest(x)'
    BY <1>1 DEF Honest, clusterd
  <2>6. \A x : (Asked(f, x) => Asked(f, x)') /\ (Answered(f, x) => Answered(f, x)')
    BY <1>1 DEF Asked, Answered, clusterd
  <2>7. MailedAt(f)'
    BY <1>1, <1>9, <2>4, <2>5, <2>6 DEF MailedAt, clusterd
  <2> QED
    BY <2>1, <2>7 DEF Mailed
<1>14. InService' /\ ~misread'
  <2>1. ASSUME NEW r \in serving PROVE ServedAt(r)'
    BY <1>1, <1>7, <1>11, <2>1, ServedKept DEF Told, InService
  <2> QED
    BY <1>1, <1>7, <2>1 DEF Told, InService, clusterd
<1>15. AllPending'
  <2>1. ASSUME NEW g \in Fd, NEW x \in Msg, NEW y \in Msg, Reaches(g, x, y) PROVE Reaches(g, x, y)'
    <3>1. \A h \in Fd : Letters(mail[h]) \subseteq Letters(mail'[h])
      BY <1>8
    <3>2. \A h \in Fd : (Closing(h) => Closing(h)') /\ \A u \in Msg : Queued(h, u) => Queued(h, u)'
      BY <3>1, Seen, SeenNext DEF Has
    <3>3. Queued(f, z)'
      BY <1>4, <1>5, <1>8, SeenNext
    <3>4. \A d \in End : \A u \in wire[d] : u \in wire'[d] \/ (u = z /\ sock[f] = d)
      BY <1>2, <1>4, <1>7 DEF ClusterTypes
    <3>5. CASE Closing(g) \/ Queued(g, y)
      BY <3>2, <3>5 DEF Reaches
    <3>6. ASSUME NEW d \in Conn, sock[g] = <<d, "out">>, InGone(d) \/ OnTheWay(d, x, y)
          PROVE  Queued(g, y)' \/ InGone(d)' \/ OnTheWay(d, x, y)'
      <4>1. CASE InGone(d)
        BY <1>1, <4>1 DEF InGone
      <4>2. CASE x \in buffer[d]
        BY <1>1, <4>2 DEF OnTheWay
      <4>3. CASE x \in wire[<<d, "in">>]
        BY <1>1, <3>3, <3>4, <4>3, Ends DEF OnTheWay
      <4>4. CASE y \in wire[<<d, "out">>]
        <5>1. y \in wire'[<<d, "out">>] \/ (y = z /\ sock[f] = <<d, "out">>)
          BY <3>4, <4>4, Ends
        <5>2. \A h, k \in Fd : sock[h] = sock[k] /\ sock[h] # Nil => h = k
          BY <1>7 DEF Told, Tables
        <5>3. sock[f] = <<d, "out">> => f = g
          BY <1>1, <3>6, <5>2
        <5> QED
          BY <3>3, <5>1, <5>3 DEF OnTheWay
      <4>5. CASE \E h \in Fd : sock[h] = <<d, "in">> /\ (Queued(h, x) \/ Served(h, x))
        BY <1>1, <3>2, <4>5 DEF OnTheWay, Served, clusterd
      <4> QED
        BY <3>6, <4>1, <4>2, <4>3, <4>4, <4>5 DEF OnTheWay
    <3> QED
      BY <1>1, <2>1, <3>5, <3>6 DEF Reaches
  <2> QED
    BY <1>1, <1>6, <1>7, <2>1, PendingKept DEF Told, clusterd
<1> QED
  BY <1>10, <1>12, <1>13, <1>14, <1>15 DEF Told

\* An end is gone: what was on the way to it is lost, and clusterd will hear.
LEMMA NotifyCloseStep == ASSUME ClusterInv, NEW f \in Fd, NotifyClose(f) PROVE ClusterInv'
<1>1. PICK c \in Conn, side \in {"out", "in"} :
        /\ sock[f] = <<c, side>> /\ sock' = [sock EXCEPT ![f] = Nil]
        /\ wire' = [wire EXCEPT ![<<c, side>>] = {}]
        /\ buffer' = IF side = "out" THEN [buffer EXCEPT ![c] = {}] ELSE buffer
        /\ Post(f, [type |-> "close"])
        /\ UNCHANGED <<clusterd, way, stage, reused>>
  BY DEF NotifyClose
<1>2. PICK e \in Event : e.type = "close" /\ Post(f, e)
  BY <1>1, MsgFields
<1>3. ClusterTypes' /\ CallTypes'
  <2>1. mail' \in [Fd -> Seq(Event)]
    BY <1>2, Posted DEF ClusterInv
  <2>2. sock' \in [Fd -> End \cup {Nil}] /\ wire' \in [End -> SUBSET Msg] /\ buffer' \in [Conn -> SUBSET Msg]
    BY <1>1 DEF ClusterInv, ClusterTypes
  <2> QED
    BY <1>1, <2>1, <2>2 DEF ClusterInv, ClusterTypes, CallTypes, clusterd
<1> SUFFICES ASSUME ~reused' PROVE Told'
  BY <1>3 DEF ClusterInv
<1>4. Told /\ ClusterTypes /\ CallTypes /\ sock[f] # Nil /\ <<c, side>> \in End
  BY <1>1, Ends DEF ClusterInv
<1>5. sock'[f] = Nil /\ \A g \in Fd : g # f => sock'[g] = sock[g]
  BY <1>1, <1>4 DEF ClusterTypes
<1>6. /\ Letters(mail'[f]) = Letters(mail[f]) \cup {e} /\ Ordered(mail'[f])
      /\ \A g \in Fd : g # f => mail'[g] = mail[g]
      /\ \A type : Has(mail'[f], type) <=> Has(mail[f], type) \/ type = "close"
  <2>1. Ordered(mail[f]) /\ ~Has(mail[f], "close")
    BY <1>4 DEF Told, Tables, Fit
  <2> QED
    BY <1>2, <1>4, <2>1, Posted
<1>7. Lost(f)' /\ Closing(f)'
  BY <1>5, <1>6, SeenNext DEF Lost
<1>8. \A g \in Fd : Accepting(g)' <=> Accepting(g)
  BY <1>6 DEF Accepting
<1>9. Tables'
  <2>1. ASSUME NEW g \in Fd, g # f PROVE Fit(g)'
    BY <1>1, <1>4, <1>5, <1>6, <2>1, FitSame DEF Told, Tables, clusterd
  <2>2. Fit(f)'
    <3>1. Fit(f) /\ (Owned(f)' <=> Owned(f)) /\ Has(mail'[f], "close")
      BY <1>1, <1>4, <1>6 DEF Told, Tables, Owned, clusterd
    <3>2. InEnd(f)' /\ \A m \in Node : OutEnd(f, m)'
      BY <1>7 DEF InEnd, OutEnd
    <3>3. \A n, m \in Node : node_fd'[n][m] = f => n = Host[f]
      BY <1>1, <3>1 DEF Fit, clusterd
    <3>4. \A d \in Conn : sock'[f] # <<d, "out">> /\ sock'[f] # <<d, "in">>
      BY <1>5, Ends
    <3>5. in_fd' = in_fd
      BY <1>1 DEF clusterd
    <3>6. (Accepting(f)' => ~Owned(f)' /\ f \notin in_fd') /\ (f \in in_fd' => ~Owned(f)')
      BY <1>8, <3>1, <3>5 DEF Fit
    <3> QED
      BY <1>5, <1>6, <3>1, <3>2, <3>3, <3>4, <3>6 DEF Fit
  <2>3. \A g, h \in Fd : sock'[g] = sock'[h] /\ sock'[g] # Nil => g = h
    BY <1>4, <1>5 DEF Told, Tables
  <2> QED
    BY <1>1, <1>4, <2>1, <2>2, <2>3 DEF Told, Tables, clusterd
<1>10. \A x \in Msg : Honest(x)' <=> Honest(x)
  BY <1>1 DEF Honest, clusterd
<1>11. Carried'
  <2>1. /\ \A d \in End : wire'[d] \subseteq wire[d]
        /\ \A d \in Conn : buffer'[d] \subseteq buffer[d]
    BY <1>1, <1>4 DEF ClusterTypes
  <2> QED
    BY <1>1, <1>4, <1>10, <2>1, Ends, CarriedKept DEF Told
<1>12. Mailed' /\ InService' /\ ~misread'
  <2>1. ASSUME NEW g \in Fd PROVE MailedAt(g)'
    <3>1. \A d \in Letters(mail'[g]) : d.type = "data" => d \in Letters(mail[g])
      BY <1>2, <1>6
    <3>2. sock'[g] = Nil \/ sock'[g] = sock[g]
      BY <1>5
    <3> QED
      BY <1>1, <1>4, <1>8, <1>10, <3>1, <3>2, MailedKept DEF Told, Mailed, clusterd
  <2>2. ASSUME NEW r \in serving PROVE ServedAt(r)'
    <3>1. r.fd \in Fd
      BY <1>4 DEF ClusterTypes
    <3>2. sock'[r.fd] = Nil \/ sock'[r.fd] = sock[r.fd]
      BY <1>5, <3>1
    <3> QED
      BY <1>1, <1>4, <1>10, <3>2, ServedKept DEF Told, InService
  <2> QED
    BY <1>1, <1>4, <2>1, <2>2 DEF Told, Mailed, InService, clusterd
<1>13. AllPending'
  <2>1. ASSUME NEW g \in Fd, NEW x \in Msg, NEW y \in Msg, Reaches(g, x, y) PROVE Reaches(g, x, y)'
    <3>1. \A h \in Fd : Letters(mail[h]) \subseteq Letters(mail'[h])
      BY <1>6
    <3>2. \A h \in Fd : (Closing(h) => Closing(h)') /\ \A u \in Msg : Queued(h, u) => Queued(h, u)'
      BY <3>1, Seen, SeenNext DEF Has
    <3>3. CASE g = f
      BY <1>7, <3>3 DEF Reaches
    <3>4. CASE Closing(g) \/ Queued(g, y)
      BY <3>2, <3>4 DEF Reaches
    <3>5. ASSUME g # f, NEW d \in Conn, sock[g] = <<d, "out">>, InGone(d) \/ OnTheWay(d, x, y)
          PROVE  InGone(d)' \/ OnTheWay(d, x, y)'
      <4>1. CASE InGone(d)
        BY <1>1, <1>5, <4>1, Ends DEF InGone
      <4>2. CASE d = c
        <5>1. sock[f] = <<c, "in">>
          BY <1>1, <1>4, <3>5, <4>2, Ends DEF Told, Tables
        <5>2. stage[c] = "accepted" /\ \A h \in Fd : h # f => sock[h] # <<c, "in">>
          BY <1>4, <5>1, Ends DEF Told, Tables, Fit
        <5>3. InGone(c)'
          BY <1>1, <1>5, <5>2, Ends DEF InGone
        <5> QED
          BY <4>2, <5>3
      <4>3. CASE d # c /\ OnTheWay(d, x, y)
        <5>1. /\ <<d, "in">> # <<c, side>> /\ <<d, "out">> # <<c, side>>
              /\ <<d, "in">> \in End /\ <<d, "out">> \in End
          BY <4>3, Ends
        <5>2. buffer'[d] = buffer[d] /\ wire'[<<d, "in">>] = wire[<<d, "in">>] /\ wire'[<<d, "out">>] = wire[<<d, "out">>]
          BY <1>1, <1>4, <4>3, <5>1 DEF ClusterTypes
        <5>3. \A h \in Fd : sock[h] = <<d, "in">> => sock'[h] = <<d, "in">>
          BY <1>1, <1>5, <5>1
        <5> QED
          BY <1>1, <3>2, <4>3, <5>2, <5>3 DEF OnTheWay, Served, clusterd
      <4> QED
        BY <3>5, <4>1, <4>2, <4>3
    <3> QED
      BY <1>5, <2>1, <3>3, <3>4, <3>5 DEF Reaches
  <2> QED
    BY <1>1, <1>3, <1>4, <2>1, PendingKept DEF Told, clusterd
<1> QED
  BY <1>9, <1>11, <1>12, <1>13 DEF Told

-----------------------------------------------------------------------------
(* What clusterd writes *)

\* A message is written: nothing else changes on the connections.
LEMMA Written ==
    ASSUME ClusterTypes, NEW f \in Fd, NEW x \in Msg, write(f, x)
    PROVE  /\ buffer' \in [Conn -> SUBSET Msg] /\ wire' \in [End -> SUBSET Msg]
           /\ \A c \in Conn :
                /\ buffer[c] \subseteq buffer'[c]
                /\ wire[<<c, "in">>] \subseteq wire'[<<c, "in">>]
                /\ wire[<<c, "out">>] \subseteq wire'[<<c, "out">>]
                /\ \A z \in buffer'[c] \cup wire'[<<c, "in">>] :
                     z \in buffer[c] \cup wire[<<c, "in">>] \/ (z = x /\ sock'[f] = <<c, "out">>)
                /\ \A z \in wire'[<<c, "out">>] :
                     z \in wire[<<c, "out">>] \/ (z = x /\ sock'[f] = <<c, "in">>)
                /\ sock'[f] = <<c, "out">> => x \in buffer'[c] \cup wire'[<<c, "in">>]
                /\ sock'[f] = <<c, "in">> => x \in wire'[<<c, "out">>]
<1> DEFINE Effect ==
             /\ buffer' \in [Conn -> SUBSET Msg] /\ wire' \in [End -> SUBSET Msg]
             /\ \A c \in Conn :
                  /\ buffer[c] \subseteq buffer'[c]
                  /\ wire[<<c, "in">>] \subseteq wire'[<<c, "in">>]
                  /\ wire[<<c, "out">>] \subseteq wire'[<<c, "out">>]
                  /\ \A z \in buffer'[c] \cup wire'[<<c, "in">>] :
                       z \in buffer[c] \cup wire[<<c, "in">>] \/ (z = x /\ sock'[f] = <<c, "out">>)
                  /\ \A z \in wire'[<<c, "out">>] :
                       z \in wire[<<c, "out">>] \/ (z = x /\ sock'[f] = <<c, "in">>)
                  /\ sock'[f] = <<c, "out">> => x \in buffer'[c] \cup wire'[<<c, "in">>]
                  /\ sock'[f] = <<c, "in">> => x \in wire'[<<c, "out">>]
<1>1. ASSUME sock'[f] = Nil, UNCHANGED <<buffer, wire>> PROVE Effect
  BY <1>1, Ends DEF ClusterTypes
<1>2. ASSUME NEW d \in Conn, sock'[f] = <<d, "out">>,
             buffer' = [buffer EXCEPT ![d] = @ \cup {x}] /\ UNCHANGED wire
      PROVE  Effect
  <2>1. buffer' \in [Conn -> SUBSET Msg] /\ wire' \in [End -> SUBSET Msg]
    BY <1>2 DEF ClusterTypes
  <2>2. \A c \in Conn : buffer'[c] = IF c = d THEN buffer[c] \cup {x} ELSE buffer[c]
    BY <1>2 DEF ClusterTypes
  <2>3. /\ buffer' \in [Conn -> SUBSET Msg] /\ wire' \in [End -> SUBSET Msg]
        /\ \A c \in Conn : /\ wire'[<<c, "in">>] = wire[<<c, "in">>] /\ wire'[<<c, "out">>] = wire[<<c, "out">>]
                           /\ buffer'[c] = IF c = d THEN buffer[c] \cup {x} ELSE buffer[c]
                           /\ sock'[f] # <<c, "in">> /\ (sock'[f] = <<c, "out">> => c = d)
    BY <1>2, <2>1, <2>2, Ends
  <2> QED
    BY <1>2, <2>3
<1>3. ASSUME NEW d \in Conn, sock'[f] = <<d, "out">>,
             wire' = [wire EXCEPT ![<<d, "in">>] = @ \cup {x}] /\ UNCHANGED buffer
      PROVE  Effect
  <2>1. buffer' \in [Conn -> SUBSET Msg] /\ wire' \in [End -> SUBSET Msg]
    BY <1>3 DEF ClusterTypes
  <2>2. \A e \in End : wire'[e] = IF e = <<d, "in">> THEN wire[e] \cup {x} ELSE wire[e]
    BY <1>3 DEF ClusterTypes
  <2>3. \A c \in Conn : wire'[<<c, "out">>] = wire[<<c, "out">>]
    BY <2>2, Ends
  <2>4. \A c \in Conn : wire'[<<c, "in">>] = IF c = d THEN wire[<<c, "in">>] \cup {x} ELSE wire[<<c, "in">>]
    BY <2>2, Ends
  <2>5. /\ buffer' \in [Conn -> SUBSET Msg] /\ wire' \in [End -> SUBSET Msg]
        /\ \A c \in Conn : /\ buffer'[c] = buffer[c] /\ wire'[<<c, "out">>] = wire[<<c, "out">>]
                           /\ wire'[<<c, "in">>] = IF c = d THEN wire[<<c, "in">>] \cup {x} ELSE wire[<<c, "in">>]
                           /\ sock'[f] # <<c, "in">> /\ (sock'[f] = <<c, "out">> => c = d)
    BY <1>3, <2>1, <2>3, <2>4, Ends
  <2> QED
    BY <1>3, <2>5
<1>4. ASSUME NEW d \in Conn, sock'[f] = <<d, "in">>,
             wire' = [wire EXCEPT ![<<d, "out">>] = @ \cup {x}] /\ UNCHANGED buffer
      PROVE  Effect
  <2>1. buffer' \in [Conn -> SUBSET Msg] /\ wire' \in [End -> SUBSET Msg]
    BY <1>4 DEF ClusterTypes
  <2>2. \A e \in End : wire'[e] = IF e = <<d, "out">> THEN wire[e] \cup {x} ELSE wire[e]
    BY <1>4 DEF ClusterTypes
  <2>3. \A c \in Conn : wire'[<<c, "in">>] = wire[<<c, "in">>]
    BY <2>2, Ends
  <2>4. \A c \in Conn : wire'[<<c, "out">>] = IF c = d THEN wire[<<c, "out">>] \cup {x} ELSE wire[<<c, "out">>]
    BY <2>2, Ends
  <2>5. /\ buffer' \in [Conn -> SUBSET Msg] /\ wire' \in [End -> SUBSET Msg]
        /\ \A c \in Conn : /\ buffer'[c] = buffer[c] /\ wire'[<<c, "in">>] = wire[<<c, "in">>]
                           /\ wire'[<<c, "out">>] = IF c = d THEN wire[<<c, "out">>] \cup {x} ELSE wire[<<c, "out">>]
                           /\ sock'[f] # <<c, "out">> /\ (sock'[f] = <<c, "in">> => c = d)
    BY <1>4, <2>1, <2>3, <2>4, Ends
  <2> QED
    BY <1>4, <2>5
<1>5. Effect
  <2> HIDE DEF Effect
  <2> QED
    BY <1>1, <1>2, <1>3, <1>4 DEF write
<1> QED
  BY <1>5

\* A request is written to the node it is for, or a response to the node that asked.
LEMMA CarriedNext ==
    ASSUME ClusterTypes, Carried, NEW f \in Fd, NEW x \in Msg, write(f, x),
           \A c \in Conn : way[c] # Nil => way'[c] = way[c],
           \A z \in Msg : Honest(z) => Honest(z)', Honest(x)',
           \A c \in Conn : sock'[f] = <<c, "out">> => x.kind = "request" /\ way'[c] = <<x.caller, x.callee>>,
           \A c \in Conn : sock'[f] = <<c, "in">> => x.kind = "response" /\ way'[c] = <<x.caller, x.callee>>
    PROVE  Carried'
<1> SUFFICES ASSUME NEW c \in Conn
             PROVE  /\ \A z \in buffer'[c] \cup wire'[<<c, "in">>] :
                         Honest(z)' /\ z.kind = "request" /\ way'[c] = <<z.caller, z.callee>>
                    /\ \A z \in wire'[<<c, "out">>] :
                         Honest(z)' /\ z.kind = "response" /\ way'[c] = <<z.caller, z.callee>>
  BY DEF Carried
<1>1. buffer[c] \subseteq Msg /\ wire[<<c, "in">>] \subseteq Msg /\ wire[<<c, "out">>] \subseteq Msg
  BY Ends DEF ClusterTypes
<1>2. /\ \A z \in buffer[c] \cup wire[<<c, "in">>] :
           Honest(z) /\ z.kind = "request" /\ way[c] = <<z.caller, z.callee>>
      /\ \A z \in wire[<<c, "out">>] :
           Honest(z) /\ z.kind = "response" /\ way[c] = <<z.caller, z.callee>>
  BY DEF Carried
<1>3. /\ \A z \in buffer'[c] \cup wire'[<<c, "in">>] :
           z \in buffer[c] \cup wire[<<c, "in">>] \/ (z = x /\ sock'[f] = <<c, "out">>)
      /\ \A z \in wire'[<<c, "out">>] :
           z \in wire[<<c, "out">>] \/ (z = x /\ sock'[f] = <<c, "in">>)
  BY Written
<1>4. \A z \in Msg : <<z.caller, z.callee>> # Nil
  BY MsgFields, Ends
<1>5. ASSUME NEW z \in buffer'[c] \cup wire'[<<c, "in">>]
      PROVE  Honest(z)' /\ z.kind = "request" /\ way'[c] = <<z.caller, z.callee>>
  <2>1. CASE z \in buffer[c] \cup wire[<<c, "in">>]
    BY <1>1, <1>2, <1>4, <2>1
  <2>2. CASE z = x /\ sock'[f] = <<c, "out">>
    BY <2>2
  <2> QED
    BY <1>3, <2>1, <2>2
<1>6. ASSUME NEW z \in wire'[<<c, "out">>]
      PROVE  Honest(z)' /\ z.kind = "response" /\ way'[c] = <<z.caller, z.callee>>
  <2>1. CASE z \in wire[<<c, "out">>]
    BY <1>1, <1>2, <1>4, <2>1
  <2>2. CASE z = x /\ sock'[f] = <<c, "in">>
    BY <2>2
  <2> QED
    BY <1>3, <2>1, <2>2
<1> QED
  BY <1>5, <1>6

-----------------------------------------------------------------------------
(* clusterd takes a message *)

\* The types of the queues after a message is taken.
LEMMA MailTypes ==
    ASSUME ClusterTypes, NEW f \in Fd, NEW type, Takes(f, type)
    PROVE  mail' \in [Fd -> Seq(Event)] /\ (type = "data" => Head(mail[f]).msg \in Msg)
<1>1. /\ mail[f] \in Seq(Event) /\ mail[f] # <<>> /\ mail' = [mail EXCEPT ![f] = Tail(@)]
      /\ Head(mail[f]).type = type
  BY DEF Takes, ClusterTypes
<1>2. Tail(mail[f]) \in Seq(Event) /\ Head(mail[f]) \in Event
  BY <1>1
<1> QED
  BY <1>1, <1>2, MsgFields DEF ClusterTypes

\* ACCEPT: the descriptor that clusterd would hear of is now an incoming one.
LEMMA OnAcceptStep == ASSUME ClusterInv, NEW f \in Fd, OnAccept(f) PROVE ClusterInv'
<1>1. /\ UNCHANGED <<node_fd, waiting, out_session, ended, serving, misread, kernel, reused>>
      /\ in_fd' = in_fd \cup {f} /\ Takes(f, "accept")
  BY DEF OnAccept
<1>2. CallTypes'
  BY <1>1 DEF ClusterInv, CallTypes
<1>3. ClusterTypes'
  <2>1. mail' \in [Fd -> Seq(Event)]
    BY <1>1, MailTypes DEF ClusterInv
  <2> QED
    BY <1>1, <2>1 DEF ClusterInv, ClusterTypes, kernel
<1> SUFFICES ASSUME ~reused' PROVE Told'
  BY <1>2, <1>3 DEF ClusterInv
<1>4. Told /\ ClusterTypes /\ CallTypes /\ Fit(f)
  BY <1>1 DEF ClusterInv, Told, Tables
<1>5. /\ \A g \in Fd : g # f => mail'[g] = mail[g]
      /\ Head(mail[f]).type = "accept"
      /\ Letters(mail[f]) = Letters(mail'[f]) \cup {Head(mail[f])}
      /\ Ordered(mail'[f]) /\ ~Has(mail'[f], "accept")
      /\ (Has(mail[f], "close") <=> Has(mail'[f], "close")) /\ Has(mail[f], "accept")
  <2>1. Ordered(mail[f])
    BY <1>4 DEF Fit
  <2> QED
    BY <1>1, <1>4, <2>1, Took
<1>6. Tables'
  <2>1. ASSUME NEW g \in Fd, g # f PROVE Fit(g)'
    BY <1>1, <1>4, <1>5, <2>1, FitSame DEF Told, Tables, kernel
  <2>2. Fit(f)'
    <3>1. ~Accepting(f)' /\ f \in in_fd' /\ ~Owned(f) /\ InEnd(f)
      BY <1>1, <1>4, <1>5 DEF Fit, Accepting
    <3>2. ~Owned(f)' /\ InEnd(f)'
      BY <1>1, <1>5, <3>1 DEF Owned, InEnd, Lost, kernel
    <3>3. \A c \in Conn : sock'[f] = <<c, "in">> => stage'[c] = "accepted" /\ \E n \in Node : way'[c] = <<n, Host[f]>>
      BY <1>1, <1>4 DEF Fit, kernel
    <3>4. \A c \in Conn : sock'[f] # <<c, "out">>
      BY <1>1, <1>4, <3>1, Ends DEF Fit, Owned, kernel
    <3>5. /\ Has(mail'[f], "close") => sock'[f] = Nil
          /\ sock'[f] = Nil /\ mail'[f] # <<>> => Has(mail'[f], "close")
      BY <1>1, <1>4, <1>5 DEF Fit, Takes, kernel
    <3> QED
      BY <1>5, <3>1, <3>2, <3>3, <3>4, <3>5 DEF Fit, Owned
  <2> QED
    BY <1>1, <1>4, <2>1, <2>2 DEF Told, Tables, kernel
<1>7. Carried' /\ Mailed' /\ InService' /\ ~misread'
  <2>1. \A x \in Msg : Honest(x)' <=> Honest(x)
    BY <1>1 DEF Honest
  <2>2. Carried'
    BY <1>1, <1>4, <2>1, CarriedKept DEF Told, kernel
  <2>3. ASSUME NEW g \in Fd, g # f PROVE MailedAt(g)'
    <3>1. Accepting(g)' <=> Accepting(g)
      BY <1>5, <2>3 DEF Accepting
    <3> QED
      BY <1>1, <1>4, <1>5, <2>1, <2>3, <3>1, MailedKept DEF Told, Mailed, kernel
  <2>4. MailedAt(f)'
    <3>1. f \in in_fd' /\ MailedAt(f)
      BY <1>1, <1>4 DEF Told, Mailed
    <3> QED
      BY <1>1, <1>4, <1>5, <2>1, <3>1, MailedKept DEF kernel
  <2>5. ASSUME NEW r \in serving PROVE ServedAt(r)'
    BY <1>1, <1>4, <2>1, <2>5, ServedKept DEF Told, InService, kernel
  <2> QED
    BY <1>1, <1>4, <2>2, <2>3, <2>4, <2>5 DEF Told, Mailed, InService
<1>8. AllPending'
  <2>1. ASSUME NEW g \in Fd, NEW x \in Msg, NEW y \in Msg, Reaches(g, x, y) PROVE Reaches(g, x, y)'
    <3>1. \A h \in Fd : \A e \in Letters(mail[h]) : e.type = "data" \/ e.type = "close" => e \in Letters(mail'[h])
      BY <1>5
    <3>2. \A h \in Fd : (Closing(h) => Closing(h)') /\ \A z \in Msg : Queued(h, z) => Queued(h, z)'
      BY <3>1, Seen, SeenNext DEF Has
    <3>3. \A d \in Conn : (InGone(d) => InGone(d)') /\ (OnTheWay(d, x, y) => OnTheWay(d, x, y)')
      BY <1>1, <3>2 DEF InGone, OnTheWay, Served, kernel
    <3> QED
      BY <1>1, <2>1, <3>2, <3>3 DEF Reaches, kernel
  <2> QED
    BY <1>1, <1>2, <1>4, <2>1, PendingKept DEF Told
<1> QED
  BY <1>6, <1>7, <1>8 DEF Told

\* What holds of a descriptor when data about it is taken.
LEMMA TookData ==
    ASSUME ClusterInv, ~reused, NEW f \in Fd, Takes(f, "data")
    PROVE  /\ Told /\ ClusterTypes /\ CallTypes /\ Fit(f)
           /\ \A g \in Fd : g # f => mail'[g] = mail[g]
           /\ Head(mail[f]).msg \in Msg /\ Honest(Head(mail[f]).msg)
           /\ f \in in_fd => Asked(f, Head(mail[f]).msg) /\ \A c \in Conn : sock[f] # <<c, "out">>
           /\ f \notin in_fd => Answered(f, Head(mail[f]).msg)
           /\ \A e \in Letters(mail'[f]) : e \in Letters(mail[f])
           /\ \A e \in Letters(mail[f]) :
                e \in Letters(mail'[f]) \/ (e.type = "data" /\ e.msg = Head(mail[f]).msg)
           /\ Ordered(mail'[f]) /\ (Has(mail'[f], "close") <=> Has(mail[f], "close"))
           /\ sock[f] = Nil /\ mail'[f] # <<>> => Has(mail[f], "close")
           /\ \A g \in Fd : Accepting(g)' <=> Accepting(g)
<1> DEFINE e == Head(mail[f])
<1>1. Told /\ ClusterTypes /\ CallTypes /\ Fit(f)
  BY DEF ClusterInv, Told, Tables
<1>2. /\ \A g \in Fd : g # f => mail'[g] = mail[g]
      /\ e \in Event /\ e.type = "data"
      /\ Letters(mail[f]) = Letters(mail'[f]) \cup {e}
      /\ Ordered(mail'[f]) /\ ~Has(mail'[f], "accept")
      /\ (Has(mail'[f], "close") <=> Has(mail[f], "close")) /\ ~Has(mail[f], "accept")
  <2>1. Ordered(mail[f])
    BY <1>1 DEF Fit
  <2> QED
    BY <1>1, <2>1, Took
<1>3. \A g \in Fd : Accepting(g)' <=> Accepting(g)
  BY <1>2 DEF Accepting
<1>4. e.msg \in Msg
  BY <1>2, MsgFields
<1>5. e \in Letters(mail[f]) /\ MailedAt(f) /\ ~Accepting(f)
  BY <1>1, <1>2 DEF Told, Mailed, Accepting
<1>6. mail[f] # <<>>
  BY DEF Takes
<1> HIDE DEF e
<1>7. Honest(e.msg) /\ ((Asked(f, e.msg) /\ f \in in_fd) \/ Answered(f, e.msg))
  BY <1>2, <1>5 DEF MailedAt
<1>8. f \in in_fd => ~Answered(f, e.msg) /\ \A c \in Conn : sock[f] # <<c, "out">>
  <2>1. f \in in_fd => ~Owned(f)
    BY <1>1 DEF Fit
  <2> QED
    BY <1>1, <1>4, <2>1, MsgFields, Ends DEF Fit, Owned, Answered
<1> QED
  BY <1>1, <1>2, <1>3, <1>4, <1>6, <1>7, <1>8 DEF Fit, e

\* A response is written to the descriptor that the request came on.
LEMMA Responding ==
    ASSUME ClusterTypes, Carried, NEW f \in Fd, NEW x \in Msg, Honest(x), Asked(f, x),
           \A c \in Conn : sock[f] # <<c, "out">>,
           write(f, Response(Host[f], x)), UNCHANGED <<way, sock, out_session, waiting>>
    PROVE  /\ Carried' /\ buffer' \in [Conn -> SUBSET Msg] /\ wire' \in [End -> SUBSET Msg]
           /\ \A c \in Conn :
                /\ buffer[c] \subseteq buffer'[c]
                /\ wire[<<c, "in">>] \subseteq wire'[<<c, "in">>]
                /\ wire[<<c, "out">>] \subseteq wire'[<<c, "out">>]
                /\ sock[f] = <<c, "in">> => Response(x.callee, x) \in wire'[<<c, "out">>]
<1>1. x.callee = Host[f] /\ Host[f] \in Node
  BY Ends DEF Asked
<1>2. PICK y \in Msg : /\ y = Response(Host[f], x) /\ y.kind = "response"
                       /\ y.caller = x.caller /\ y.callee = Host[f] /\ y.session = x.session
  BY <1>1, ResponseIs
<1>3. \A z \in Msg : Honest(z) => Honest(z)'
  BY DEF Honest
<1>4. Honest(y)'
  BY <1>1, <1>2 DEF Honest
<1>5. \A c \in Conn : sock'[f] = <<c, "in">> => way'[c] = <<y.caller, y.callee>>
  BY <1>2 DEF Asked
<1>6. write(f, y)
  BY <1>2
<1>7. Carried'
  BY <1>2, <1>3, <1>4, <1>5, <1>6, CarriedNext
<1>8. /\ buffer' \in [Conn -> SUBSET Msg] /\ wire' \in [End -> SUBSET Msg]
      /\ \A c \in Conn :
           /\ buffer[c] \subseteq buffer'[c]
           /\ wire[<<c, "in">>] \subseteq wire'[<<c, "in">>]
           /\ wire[<<c, "out">>] \subseteq wire'[<<c, "out">>]
           /\ sock'[f] = <<c, "in">> => y \in wire'[<<c, "out">>]
  BY <1>6, Written
<1> QED
  BY <1>1, <1>2, <1>7, <1>8

\* A request is answered at once or served: it is one of the node it came from.
LEMMA OnRequestStep == ASSUME ClusterInv, NEW f \in Fd, OnRequest(f) PROVE ClusterInv'
<1>1. PICK x \in Msg :
        /\ x = Head(mail[f]).msg
        /\ UNCHANGED <<node_fd, in_fd, waiting, out_session, ended, way, stage, sock, reused>>
        /\ Takes(f, "data") /\ f \in in_fd
        /\ misread' = (misread \/ x.kind # "request" \/ x.callee # Host[f])
        /\ IF x.kind = "request" THEN handle_request(f, x) ELSE UNCHANGED <<serving, buffer, wire>>
  BY MailTypes DEF OnRequest, ClusterInv
<1> DEFINE y == Response(Host[f], x)
           Answers == write(f, y) /\ UNCHANGED serving
           Serves == serving' = serving \cup {[fd |-> f, msg |-> x]} /\ UNCHANGED <<buffer, wire>>
<1>2. Answers \/ Serves \/ UNCHANGED <<serving, buffer, wire>>
  BY <1>1 DEF handle_request
<1>3. y \in Msg
  BY Ends, ResponseIs
<1>4. ClusterTypes' /\ CallTypes'
  <2>1. CallTypes'
    BY <1>1 DEF ClusterInv, CallTypes
  <2>2. mail' \in [Fd -> Seq(Event)] /\ misread' \in BOOLEAN
    BY <1>1, MailTypes DEF ClusterInv, ClusterTypes
  <2>3. ClusterTypes /\ serving \subseteq [fd : Fd, msg : Msg] /\ [fd |-> f, msg |-> x] \in [fd : Fd, msg : Msg]
    BY DEF ClusterInv, ClusterTypes
  <2>4. buffer' \in [Conn -> SUBSET Msg] /\ wire' \in [End -> SUBSET Msg] /\ serving' \subseteq [fd : Fd, msg : Msg]
    <3>1. CASE Answers
      BY <1>3, <2>3, <3>1, Written
    <3>2. CASE Serves \/ UNCHANGED <<serving, buffer, wire>>
      <4>1. buffer' = buffer /\ wire' = wire /\ serving' \subseteq [fd : Fd, msg : Msg]
        BY <2>3, <3>2
      <4> QED
        BY <2>3, <4>1 DEF ClusterTypes
    <3> QED
      BY <1>2, <3>1, <3>2
  <2> QED
    BY <1>1, <2>1, <2>2, <2>3, <2>4 DEF ClusterTypes
<1> SUFFICES ASSUME ~reused' PROVE Told'
  BY <1>4 DEF ClusterInv
<1>5. /\ Told /\ ClusterTypes /\ CallTypes /\ Fit(f)
      /\ \A g \in Fd : g # f => mail'[g] = mail[g]
      /\ Honest(x) /\ Asked(f, x) /\ \A c \in Conn : sock[f] # <<c, "out">>
      /\ \A e \in Letters(mail'[f]) : e \in Letters(mail[f])
      /\ \A e \in Letters(mail[f]) : e \in Letters(mail'[f]) \/ (e.type = "data" /\ e.msg = x)
      /\ Ordered(mail'[f]) /\ (Has(mail'[f], "close") <=> Has(mail[f], "close"))
      /\ sock[f] = Nil /\ mail'[f] # <<>> => Has(mail[f], "close")
      /\ \A g \in Fd : Accepting(g)' <=> Accepting(g)
  BY <1>1, TookData
<1>6. x.kind = "request" /\ x.callee = Host[f] /\ (Answers \/ Serves)
  BY <1>1, <1>5 DEF Asked, handle_request
<1>7. \A z \in Msg : Honest(z)' <=> Honest(z)
  BY <1>1 DEF Honest
<1>8. Tables'
  <2>1. ASSUME NEW g \in Fd, g # f PROVE Fit(g)'
    BY <1>1, <1>5, <2>1, FitSame DEF Told, Tables
  <2>2. Fit(f)'
    BY <1>1, <1>5, FitKept
  <2> QED
    BY <1>1, <1>5, <2>1, <2>2 DEF Told, Tables
<1>9. /\ Carried'
      /\ \A c \in Conn :
           /\ buffer[c] \subseteq buffer'[c]
           /\ wire[<<c, "in">>] \subseteq wire'[<<c, "in">>]
           /\ wire[<<c, "out">>] \subseteq wire'[<<c, "out">>]
           /\ sock[f] = <<c, "in">> => y \in wire'[<<c, "out">>] \/ Served(f, x)'
  <2>1. CASE Answers
    BY <1>1, <1>5, <1>6, <2>1, Responding DEF Told
  <2>2. CASE Serves
    <3>1. Served(f, x)'
      BY <2>2 DEF Served
    <3>2. buffer' = buffer /\ wire' = wire
      BY <2>2
    <3>3. Carried'
      BY <1>1, <1>5, <1>7, <3>2, CarriedKept DEF Told
    <3> QED
      BY <3>1, <3>2, <3>3
  <2> QED
    BY <1>6, <2>1, <2>2
<1>10. Mailed' /\ InService' /\ ~misread'
  <2>1. ASSUME NEW g \in Fd PROVE MailedAt(g)'
    <3>1. \A e \in Letters(mail'[g]) : e.type = "data" => e \in Letters(mail[g])
      BY <1>5
    <3> QED
      BY <1>1, <1>5, <1>7, <3>1, MailedKept DEF Told, Mailed
  <2>2. ASSUME NEW r \in serving PROVE ServedAt(r)'
    BY <1>1, <1>5, <1>7, <2>2, ServedKept DEF Told, InService
  <2>3. ASSUME NEW r, r = [fd |-> f, msg |-> x] PROVE ServedAt(r)'
    <3>1. r.fd = f /\ r.msg = x
      BY <2>3
    <3>2. Honest(x)' /\ Asked(f, x)'
      BY <1>1, <1>5, <1>7 DEF Asked
    <3>3. sock'[f] = Nil \/ \E c \in Conn : sock'[f] = <<c, "in">>
      BY <1>1, <1>5, Ends DEF ClusterTypes
    <3> QED
      BY <3>1, <3>2, <3>3 DEF ServedAt
  <2>4. InService'
    <3>1. \A r \in serving' : r \in serving \/ r = [fd |-> f, msg |-> x]
      BY <1>6
    <3> QED
      BY <2>2, <2>3, <3>1 DEF InService
  <2> QED
    BY <1>1, <1>5, <1>6, <2>1, <2>4 DEF Told, Mailed
<1>11. AllPending'
  <2>1. ASSUME NEW g \in Fd, NEW u \in Msg, NEW v \in Msg, Calling(g, u, v), Reaches(g, u, v) PROVE Reaches(g, u, v)'
    <3>1. v.kind = "response" /\ u.kind = "request" /\ v = Response(u.callee, u)
      BY <2>1, MsgFields, ResponseIs DEF Calling
    <3>2. \A h \in Fd : (Closing(h) => Closing(h)') /\ \A z \in Msg : Queued(h, z) => Queued(h, z)' \/ (h = f /\ z = x)
      <4>1. \A h \in Fd : \A e \in Letters(mail[h]) : e \in Letters(mail'[h]) \/ (h = f /\ e.type = "data" /\ e.msg = x)
        BY <1>5
      <4>2. \A h \in Fd : Has(mail[h], "close") => Has(mail'[h], "close")
        BY <1>5
      <4> QED
        BY <4>1, <4>2, Seen, SeenNext
    <3>3. CASE Closing(g) \/ Queued(g, v)
      BY <1>6, <3>1, <3>2, <3>3 DEF Reaches
    <3>4. ASSUME NEW d \in Conn, OnTheWay(d, u, v) PROVE OnTheWay(d, u, v)'
      <4>1. CASE u \in buffer[d] \cup wire[<<d, "in">>] \/ v \in wire[<<d, "out">>]
        BY <1>9, <4>1 DEF OnTheWay
      <4>2. CASE \E h \in Fd : sock[h] = <<d, "in">> /\ (Queued(h, u) \/ Served(h, u))
        <5>1. PICK h \in Fd : sock[h] = <<d, "in">> /\ (Queued(h, u) \/ Served(h, u))
          BY <4>2
        <5>2. Served(h, u) => Served(h, u)'
          BY <1>6 DEF Served
        <5>3. CASE Served(h, u)' \/ Queued(h, u)'
          BY <1>1, <5>1, <5>3 DEF OnTheWay
        <5>4. CASE h = f /\ u = x
          BY <1>1, <1>6, <1>9, <3>1, <5>1, <5>4 DEF OnTheWay
        <5> QED
          BY <3>2, <5>1, <5>2, <5>3, <5>4
      <4> QED
        BY <3>4, <4>1, <4>2 DEF OnTheWay
    <3>5. \A d \in Conn : InGone(d) => InGone(d)'
      BY <1>1 DEF InGone
    <3> QED
      BY <1>1, <2>1, <3>3, <3>4, <3>5 DEF Reaches
  <2> QED
    BY <1>1, <1>4, <1>5, <2>1, PendingKept DEF Told
<1> QED
  BY <1>8, <1>9, <1>10, <1>11 DEF Told

\* A local service has answered: the response is written on the connection that the
\* request came on, if that is still there.
LEMMA ReturnsStep == ASSUME ClusterInv, NEW r \in serving, Returns(r) PROVE ClusterInv'
<1>1. PICK f \in Fd, x \in Msg : r = [fd |-> f, msg |-> x] /\ r.fd = f /\ r.msg = x
  BY DEF ClusterInv, ClusterTypes
<1> DEFINE y == Response(Host[f], x)
<1>2. /\ UNCHANGED <<node_fd, in_fd, waiting, out_session, ended, misread, way, stage, sock, mail, reused>>
      /\ serving' = serving \ {r} /\ write(f, y)
  BY <1>1 DEF Returns
<1>3. y \in Msg
  BY Ends, ResponseIs
<1>4. ClusterTypes' /\ CallTypes'
  <2>1. buffer' \in [Conn -> SUBSET Msg] /\ wire' \in [End -> SUBSET Msg]
    BY <1>2, <1>3, Written DEF ClusterInv
  <2> QED
    BY <1>2, <2>1 DEF ClusterInv, ClusterTypes, CallTypes
<1> SUFFICES ASSUME ~reused' PROVE Told'
  BY <1>4 DEF ClusterInv
<1>5. Told /\ ClusterTypes /\ CallTypes
  BY <1>2 DEF ClusterInv
<1>6. Honest(x) /\ Asked(f, x) /\ \A c \in Conn : sock[f] # <<c, "out">>
  <2>1. Honest(r.msg) /\ Asked(r.fd, r.msg) /\ (sock[r.fd] = Nil \/ \E c \in Conn : sock[r.fd] = <<c, "in">>)
    BY <1>5 DEF Told, InService, ServedAt
  <2> QED
    BY <1>1, <2>1, Ends
<1>7. \A z \in Msg : Honest(z)' <=> Honest(z)
  BY <1>2 DEF Honest
<1>8. /\ Carried'
      /\ \A c \in Conn :
           /\ buffer[c] \subseteq buffer'[c]
           /\ wire[<<c, "in">>] \subseteq wire'[<<c, "in">>]
           /\ wire[<<c, "out">>] \subseteq wire'[<<c, "out">>]
           /\ sock[f] = <<c, "in">> => Response(x.callee, x) \in wire'[<<c, "out">>]
  BY <1>2, <1>5, <1>6, Responding DEF Told
<1>9. Tables'
  <2>1. ASSUME NEW g \in Fd PROVE Fit(g)'
    BY <1>2, <1>5, <2>1, FitSame DEF Told, Tables
  <2> QED
    BY <1>2, <1>5, <2>1 DEF Told, Tables
<1>10. Mailed' /\ InService' /\ ~misread'
  <2>1. \A g \in Fd : Accepting(g)' <=> Accepting(g)
    BY <1>2 DEF Accepting
  <2>2. ASSUME NEW g \in Fd PROVE MailedAt(g)'
    BY <1>2, <1>5, <1>7, <2>1, MailedKept DEF Told, Mailed
  <2>3. ASSUME NEW q \in serving PROVE ServedAt(q)'
    BY <1>2, <1>5, <1>7, <2>3, ServedKept DEF Told, InService
  <2> QED
    BY <1>2, <1>5, <2>2, <2>3 DEF Told, Mailed, InService
<1>11. AllPending'
  <2>1. ASSUME NEW g \in Fd, NEW u \in Msg, NEW v \in Msg, Calling(g, u, v), Reaches(g, u, v) PROVE Reaches(g, u, v)'
    <3>1. v = Response(u.callee, u)
      BY <2>1 DEF Calling
    <3>2. \A h \in Fd : (Closing(h)' <=> Closing(h)) /\ \A z \in Msg : Queued(h, z)' <=> Queued(h, z)
      BY <1>2 DEF Closing, Queued
    <3>3. ASSUME NEW d \in Conn, OnTheWay(d, u, v) PROVE OnTheWay(d, u, v)'
      <4>1. CASE u \in buffer[d] \cup wire[<<d, "in">>] \/ v \in wire[<<d, "out">>]
        BY <1>8, <4>1 DEF OnTheWay
      <4>2. CASE \E h \in Fd : sock[h] = <<d, "in">> /\ (Queued(h, u) \/ Served(h, u))
        <5>1. PICK h \in Fd : sock[h] = <<d, "in">> /\ (Queued(h, u) \/ Served(h, u))
          BY <4>2
        <5>2. Served(h, u) => Served(h, u)' \/ (h = f /\ u = x)
          BY <1>1, <1>2 DEF Served
        <5>3. CASE Served(h, u)' \/ Queued(h, u)
          BY <1>2, <3>2, <5>1, <5>3 DEF OnTheWay
        <5>4. CASE h = f /\ u = x
          BY <1>8, <3>1, <5>1, <5>4 DEF OnTheWay
        <5> QED
          BY <5>1, <5>2, <5>3, <5>4
      <4> QED
        BY <3>3, <4>1, <4>2 DEF OnTheWay
    <3>4. \A d \in Conn : InGone(d) => InGone(d)'
      BY <1>2 DEF InGone
    <3> QED
      BY <1>2, <2>1, <3>2, <3>3, <3>4 DEF Reaches
  <2> QED
    BY <1>2, <1>4, <1>5, <2>1, PendingKept DEF Told
<1> QED
  BY <1>8, <1>9, <1>10, <1>11 DEF Told

\* A response wakes the call it is for, if that waits.
LEMMA OnResponseStep == ASSUME ClusterInv, NEW f \in Fd, OnResponse(f) PROVE ClusterInv'
<1>1. PICK x \in Msg : x = Head(mail[f]).msg
  BY MailTypes DEF OnResponse, ClusterInv
<1> DEFINE n == Host[f]
           woken == x.kind = "response" /\ x.session \in DOMAIN waiting[n]
<1>2. /\ UNCHANGED <<node_fd, in_fd, out_session, serving, kernel, reused>>
      /\ Takes(f, "data") /\ f \notin in_fd
      /\ IF woken
         THEN /\ ended' = [ended EXCEPT ![n] = @ \cup {x.session}]
              /\ waiting' = [waiting EXCEPT ![n] = Without(@, {x.session})]
         ELSE UNCHANGED <<ended, waiting>>
      /\ misread' = \/ misread \/ x.kind # "response"
                    \/ woken /\ (x.caller # n \/ x.callee # waiting[n][x.session])
  BY <1>1 DEF OnResponse
<1>3. n \in Node
  BY Ends
<1>4. /\ \A m \in Node :
           /\ DOMAIN waiting'[m] \subseteq DOMAIN waiting[m]
           /\ \A s \in DOMAIN waiting'[m] : waiting'[m][s] = waiting[m][s]
           /\ DOMAIN waiting'[m] \cup ended'[m] = DOMAIN waiting[m] \cup ended[m]
           /\ DOMAIN waiting[m] \cap ended[m] = {} => DOMAIN waiting'[m] \cap ended'[m] = {}
      /\ waiting' = [m \in Node |-> waiting'[m]] /\ ended' = [m \in Node |-> ended'[m]]
      /\ x.kind = "response" => x.session \notin DOMAIN waiting'[n]
  <2>1. waiting = [m \in Node |-> waiting[m]] /\ ended = [m \in Node |-> ended[m]]
    BY DEF ClusterInv, CallTypes
  <2>2. CASE woken
    <3>1. /\ \A m \in Node : m # n => waiting'[m] = waiting[m] /\ ended'[m] = ended[m]
          /\ ended'[n] = ended[n] \cup {x.session}
          /\ waiting'[n] = Without(waiting[n], {x.session})
          /\ waiting' = [m \in Node |-> waiting'[m]] /\ ended' = [m \in Node |-> ended'[m]]
      <4> HIDE DEF n
      <4> QED
        BY <1>2, <1>3, <2>1, <2>2
    <3>2. /\ DOMAIN waiting'[n] = DOMAIN waiting[n] \ {x.session}
          /\ \A s \in DOMAIN waiting'[n] : waiting'[n][s] = waiting[n][s]
      BY <3>1 DEF Without
    <3> QED
      BY <1>3, <2>2, <3>1, <3>2
  <2>3. CASE ~woken
    BY <1>2, <2>1, <2>3
  <2> QED
    BY <2>2, <2>3
<1>5. ClusterTypes' /\ CallTypes'
  <2>1. mail' \in [Fd -> Seq(Event)]
    BY <1>2, MailTypes DEF ClusterInv
  <2>2. misread' \in BOOLEAN
    BY <1>2 DEF ClusterInv, ClusterTypes
  <2>3. CallTypes'
    BY <1>2, <1>4 DEF ClusterInv, CallTypes
  <2> QED
    BY <1>2, <2>1, <2>2, <2>3 DEF ClusterInv, ClusterTypes, kernel
<1> SUFFICES ASSUME ~reused' PROVE Told'
  BY <1>5 DEF ClusterInv
<1>6. /\ Told /\ ClusterTypes /\ CallTypes /\ Fit(f)
      /\ \A g \in Fd : g # f => mail'[g] = mail[g]
      /\ Honest(x) /\ Answered(f, x)
      /\ \A e \in Letters(mail'[f]) : e \in Letters(mail[f])
      /\ \A e \in Letters(mail[f]) : e \in Letters(mail'[f]) \/ (e.type = "data" /\ e.msg = x)
      /\ Ordered(mail'[f]) /\ (Has(mail'[f], "close") <=> Has(mail[f], "close"))
      /\ sock[f] = Nil /\ mail'[f] # <<>> => Has(mail[f], "close")
      /\ \A g \in Fd : Accepting(g)' <=> Accepting(g)
  BY <1>1, <1>2, TookData
<1>7. x.kind = "response" /\ x.caller = n /\ (x.session \in DOMAIN waiting[n] => waiting[n][x.session] = x.callee)
  BY <1>6 DEF Answered, Honest
<1>8. \A z \in Msg : Honest(z) => Honest(z)'
  BY <1>2, <1>4, HonestKept
<1>9. Tables'
  <2>1. ASSUME NEW g \in Fd, g # f PROVE Fit(g)'
    BY <1>2, <1>6, <2>1, FitSame DEF Told, Tables, kernel
  <2>2. Fit(f)'
    BY <1>2, <1>6, FitKept DEF kernel
  <2> QED
    BY <1>2, <1>6, <2>1, <2>2 DEF Told, Tables, kernel
<1>10. Carried' /\ Mailed' /\ InService' /\ ~misread'
  <2>1. Carried'
    BY <1>2, <1>6, <1>8, CarriedKept DEF Told, kernel
  <2>2. ASSUME NEW g \in Fd PROVE MailedAt(g)'
    <3>1. \A e \in Letters(mail'[g]) : e.type = "data" => e \in Letters(mail[g])
      BY <1>6
    <3> QED
      BY <1>2, <1>6, <1>8, <3>1, MailedKept DEF Told, Mailed, kernel
  <2>3. ASSUME NEW r \in serving PROVE ServedAt(r)'
    BY <1>2, <1>6, <1>8, <2>3, ServedKept DEF Told, InService, kernel
  <2>4. ~misread'
    BY <1>2, <1>6, <1>7 DEF Told
  <2> QED
    BY <1>2, <2>1, <2>2, <2>3, <2>4 DEF Mailed, InService
<1>11. AllPending'
  <2>1. ASSUME NEW g \in Fd, NEW u \in Msg, NEW v \in Msg, Calling(g, u, v),
               u.session \in DOMAIN waiting'[u.caller], Reaches(g, u, v)
        PROVE  Reaches(g, u, v)'
    <3>1. u.kind = "request" /\ v.caller = u.caller /\ v.session = u.session
      BY <2>1, MsgFields, ResponseIs DEF Calling
    <3>2. x # u /\ x # v
      BY <1>4, <1>7, <2>1, <3>1
    <3>3. \A h \in Fd : (Closing(h) => Closing(h)') /\ \A z \in Msg : Queued(h, z) => Queued(h, z)' \/ (h = f /\ z = x)
      <4>1. \A h \in Fd : \A e \in Letters(mail[h]) : e \in Letters(mail'[h]) \/ (h = f /\ e.type = "data" /\ e.msg = x)
        BY <1>6
      <4>2. \A h \in Fd : Has(mail[h], "close") => Has(mail'[h], "close")
        BY <1>6
      <4> QED
        BY <4>1, <4>2, Seen, SeenNext
    <3>4. \A d \in Conn : (InGone(d) => InGone(d)') /\ (OnTheWay(d, u, v) => OnTheWay(d, u, v)')
      BY <1>2, <3>2, <3>3 DEF InGone, OnTheWay, Served, kernel
    <3> QED
      BY <1>2, <2>1, <3>2, <3>3, <3>4 DEF Reaches, kernel
  <2> QED
    BY <1>2, <1>4, <1>5, <1>6, <2>1, PendingKept DEF Told
<1> QED
  BY <1>9, <1>10, <1>11 DEF Told

\* The end of a connection: the descriptor is forgotten, and the calls that waited
\* for the node have ended.
LEMMA OnCloseStep == ASSUME ClusterInv, NEW f \in Fd, OnClose(f) PROVE ClusterInv'
<1> DEFINE n == Host[f]
           Woken(m) == {s \in DOMAIN waiting[n] : waiting[n][s] = m}
           Leaves(m) == /\ node_fd[n][m] = f
                        /\ node_fd' = [node_fd EXCEPT ![n] = [@ EXCEPT ![m] = Nil]]
                        /\ ended' = [ended EXCEPT ![n] = @ \cup Woken(m)]
                        /\ waiting' = [waiting EXCEPT ![n] = Without(@, Woken(m))]
                        /\ UNCHANGED in_fd
           Forgets == /\ \A m \in Node : node_fd[n][m] # f
                      /\ in_fd' = in_fd \ {f}
                      /\ UNCHANGED <<node_fd, waiting, ended>>
<1>1. /\ UNCHANGED <<out_session, serving, misread, kernel, reused>>
      /\ Takes(f, "close") /\ ((\E m \in Node : Leaves(m)) \/ Forgets)
  BY DEF OnClose, drop_node
<1>2. n \in Node
  BY Ends
<1>3. /\ waiting = [p \in Node |-> waiting[p]] /\ ended = [p \in Node |-> ended[p]]
      /\ node_fd \in [Node -> [Node -> Fd \cup {Nil}]]
  BY DEF ClusterInv, ClusterTypes, CallTypes
<1>4. \A m \in Node : Leaves(m) =>
        /\ \A p, q \in Node : node_fd'[p][q] = IF p = n /\ q = m THEN Nil ELSE node_fd[p][q]
        /\ node_fd' \in [Node -> [Node -> Fd \cup {Nil}]]
        /\ waiting' = [p \in Node |-> waiting'[p]] /\ ended' = [p \in Node |-> ended'[p]]
        /\ \A p \in Node : p # n => waiting'[p] = waiting[p] /\ ended'[p] = ended[p]
        /\ ended'[n] = ended[n] \cup Woken(m)
        /\ DOMAIN waiting'[n] = DOMAIN waiting[n] \ Woken(m)
        /\ \A s \in DOMAIN waiting'[n] : waiting'[n][s] = waiting[n][s]
        /\ in_fd' = in_fd
  <2> SUFFICES ASSUME NEW m \in Node, Leaves(m)
               PROVE  /\ \A p, q \in Node : node_fd'[p][q] = IF p = n /\ q = m THEN Nil ELSE node_fd[p][q]
                      /\ node_fd' \in [Node -> [Node -> Fd \cup {Nil}]]
                      /\ waiting' = [p \in Node |-> waiting'[p]] /\ ended' = [p \in Node |-> ended'[p]]
                      /\ \A p \in Node : p # n => waiting'[p] = waiting[p] /\ ended'[p] = ended[p]
                      /\ ended'[n] = ended[n] \cup Woken(m)
                      /\ DOMAIN waiting'[n] = DOMAIN waiting[n] \ Woken(m)
                      /\ \A s \in DOMAIN waiting'[n] : waiting'[n][s] = waiting[n][s]
                      /\ in_fd' = in_fd
    OBVIOUS
  <2> HIDE DEF n, Woken
  <2>1. /\ \A p, q \in Node : node_fd'[p][q] = IF p = n /\ q = m THEN Nil ELSE node_fd[p][q]
        /\ node_fd' \in [Node -> [Node -> Fd \cup {Nil}]]
    BY <1>2, <1>3
  <2>2. /\ waiting' = [p \in Node |-> waiting'[p]] /\ ended' = [p \in Node |-> ended'[p]]
        /\ \A p \in Node : p # n => waiting'[p] = waiting[p] /\ ended'[p] = ended[p]
        /\ ended'[n] = ended[n] \cup Woken(m) /\ waiting'[n] = Without(waiting[n], Woken(m))
    BY <1>2, <1>3
  <2>3. /\ DOMAIN waiting'[n] = DOMAIN waiting[n] \ Woken(m)
        /\ \A s \in DOMAIN waiting'[n] : waiting'[n][s] = waiting[n][s]
    BY <2>2 DEF Without
  <2> QED
    BY <2>1, <2>2, <2>3
<1>5. /\ \A p \in Node :
           /\ DOMAIN waiting'[p] \subseteq DOMAIN waiting[p]
           /\ \A s \in DOMAIN waiting'[p] : waiting'[p][s] = waiting[p][s]
           /\ DOMAIN waiting'[p] \cup ended'[p] = DOMAIN waiting[p] \cup ended[p]
           /\ DOMAIN waiting[p] \cap ended[p] = {} => DOMAIN waiting'[p] \cap ended'[p] = {}
      /\ waiting' = [p \in Node |-> waiting'[p]] /\ ended' = [p \in Node |-> ended'[p]]
      /\ node_fd' \in [Node -> [Node -> Fd \cup {Nil}]] /\ in_fd' \subseteq in_fd
  <2>1. CASE \E m \in Node : Leaves(m)
    <3>1. PICK m \in Node : Leaves(m)
      BY <2>1
    <3> HIDE DEF Leaves, Woken, n
    <3>2. \A p \in Node :
            /\ DOMAIN waiting'[p] \subseteq DOMAIN waiting[p]
            /\ \A s \in DOMAIN waiting'[p] : waiting'[p][s] = waiting[p][s]
            /\ DOMAIN waiting'[p] \cup ended'[p] = DOMAIN waiting[p] \cup ended[p]
            /\ DOMAIN waiting[p] \cap ended[p] = {} => DOMAIN waiting'[p] \cap ended'[p] = {}
      <4> SUFFICES ASSUME NEW p \in Node
                   PROVE  /\ DOMAIN waiting'[p] \subseteq DOMAIN waiting[p]
                          /\ \A s \in DOMAIN waiting'[p] : waiting'[p][s] = waiting[p][s]
                          /\ DOMAIN waiting'[p] \cup ended'[p] = DOMAIN waiting[p] \cup ended[p]
                          /\ DOMAIN waiting[p] \cap ended[p] = {} => DOMAIN waiting'[p] \cap ended'[p] = {}
        OBVIOUS
      <4>1. CASE p # n
        BY <1>4, <3>1, <4>1
      <4>2. CASE p = n
        <5>1. Woken(m) \subseteq DOMAIN waiting[n]
          BY DEF Woken
        <5>2. /\ ended'[n] = ended[n] \cup Woken(m)
              /\ DOMAIN waiting'[n] = DOMAIN waiting[n] \ Woken(m)
              /\ \A s \in DOMAIN waiting'[n] : waiting'[n][s] = waiting[n][s]
          BY <1>4, <3>1
        <5> QED
          BY <4>2, <5>1, <5>2
      <4> QED
        BY <4>1, <4>2
    <3> QED
      BY <1>4, <3>1, <3>2
  <2>2. CASE Forgets
    BY <1>3, <2>2
  <2> QED
    BY <1>1, <2>1, <2>2
<1>6. ClusterTypes' /\ CallTypes'
  <2>1. mail' \in [Fd -> Seq(Event)]
    BY <1>1, MailTypes DEF ClusterInv
  <2>2. CallTypes'
    BY <1>1, <1>5 DEF ClusterInv, CallTypes
  <2> QED
    BY <1>1, <1>5, <2>1, <2>2 DEF ClusterInv, ClusterTypes, kernel
<1> SUFFICES ASSUME ~reused' PROVE Told'
  BY <1>6 DEF ClusterInv
<1>7. Told /\ ClusterTypes /\ CallTypes /\ Fit(f)
  BY <1>1 DEF ClusterInv, Told, Tables
<1>8. /\ \A g \in Fd : g # f => mail'[g] = mail[g]
      /\ mail'[f] = <<>> /\ Letters(mail'[f]) = {} /\ ~Accepting(f)' /\ Ordered(mail'[f]) /\ sock[f] = Nil
  <2>1. Ordered(mail[f])
    BY <1>7 DEF Fit
  <2>2. /\ \A g \in Fd : g # f => mail'[g] = mail[g]
        /\ mail'[f] = <<>> /\ ~Has(mail'[f], "accept") /\ Ordered(mail'[f]) /\ Has(mail[f], "close")
    BY <1>1, <1>7, <2>1, Took
  <2>3. Letters(mail'[f]) = {}
    BY <1>6, <2>2, NoLetters DEF ClusterTypes
  <2> QED
    BY <1>7, <2>2, <2>3 DEF Fit, Accepting
<1>9. /\ \A g \in Fd : g # f => \A p, q \in Node : node_fd'[p][q] = g <=> node_fd[p][q] = g
      /\ \A p, q \in Node : node_fd'[p][q] = node_fd[p][q] \/ (node_fd'[p][q] = Nil /\ node_fd[p][q] = f)
      /\ ~Owned(f)' /\ f \notin in_fd'
      /\ \A g \in Fd : g # f => (g \in in_fd' <=> g \in in_fd)
      /\ \A p, q \in Node : node_fd[p][q] = f =>
           p = n /\ \A s \in DOMAIN waiting'[p] : waiting'[p][s] # q
  <2>1. \A p, q \in Node : node_fd[p][q] = f => p = n
    BY <1>7 DEF Fit
  <2>2. CASE \E m \in Node : Leaves(m)
    <3>1. PICK m \in Node : Leaves(m)
      BY <2>2
    <3>2. \A p, q \in Node : node_fd[p][q] = f <=> p = n /\ q = m
      BY <1>2, <1>7, <2>1, <3>1, Ends DEF Told, Tables
    <3>3. f \notin in_fd /\ in_fd' = in_fd
      BY <1>2, <1>7, <3>1 DEF Fit, Owned
    <3>4. \A p, q \in Node : node_fd'[p][q] = IF p = n /\ q = m THEN Nil ELSE node_fd[p][q]
      BY <1>4, <3>1
    <3>5. \A s \in DOMAIN waiting'[n] : waiting'[n][s] # m
      <4>1. /\ DOMAIN waiting'[n] = DOMAIN waiting[n] \ Woken(m)
            /\ \A s \in DOMAIN waiting'[n] : waiting'[n][s] = waiting[n][s]
        <5> HIDE DEF Leaves, Woken, n
        <5> QED
          BY <1>4, <3>1
      <4> HIDE DEF Leaves
      <4> QED
        BY <4>1
    <3> HIDE DEF n, Leaves
    <3>6. ~Owned(f)'
      BY <3>2, <3>4, Ends DEF Owned
    <3> QED
      BY <2>1, <3>2, <3>3, <3>4, <3>5, <3>6, Ends
  <2>3. CASE Forgets
    <3>1. \A p, q \in Node : node_fd[p][q] # f
      BY <2>1, <2>3
    <3>2. node_fd' = node_fd /\ in_fd' = in_fd \ {f}
      BY <2>3
    <3> QED
      BY <3>1, <3>2 DEF Owned
  <2> QED
    BY <1>1, <2>2, <2>3
<1> HIDE DEF Leaves, Forgets
<1>10. \A z \in Msg : Honest(z) => Honest(z)'
  BY <1>1, <1>5, HonestKept
<1>11. Tables'
  <2>1. ASSUME NEW g \in Fd, g # f PROVE Fit(g)'
    BY <1>1, <1>7, <1>8, <1>9, <2>1, FitSame DEF Told, Tables, kernel
  <2>2. Fit(f)'
    <3>1. sock'[f] = Nil /\ ~Has(mail'[f], "close")
      BY <1>1, <1>8 DEF kernel, Has
    <3> QED
      BY <1>8, <1>9, <3>1, Ends DEF Fit, Owned
  <2>3. \A p, q, k \in Node : node_fd'[p][q] = node_fd'[p][k] /\ node_fd'[p][q] # Nil => q = k
    BY <1>7, <1>9 DEF Told, Tables
  <2> QED
    BY <1>1, <1>7, <2>1, <2>2, <2>3 DEF Told, Tables, kernel
<1>12. Carried' /\ Mailed' /\ InService' /\ ~misread'
  <2>1. Carried'
    BY <1>1, <1>7, <1>10, CarriedKept DEF Told, kernel
  <2>2. ASSUME NEW g \in Fd, g # f PROVE MailedAt(g)'
    <3>1. Accepting(g)' <=> Accepting(g)
      BY <1>8, <2>2 DEF Accepting
    <3> QED
      BY <1>1, <1>7, <1>8, <1>9, <1>10, <2>2, <3>1, Ends, MailedKept DEF Told, Mailed, kernel
  <2>3. MailedAt(f)'
    BY <1>8 DEF MailedAt
  <2>4. ASSUME NEW r \in serving PROVE ServedAt(r)'
    BY <1>1, <1>7, <1>10, <2>4, ServedKept DEF Told, InService, kernel
  <2> QED
    BY <1>1, <1>7, <2>1, <2>2, <2>3, <2>4 DEF Told, Mailed, InService
<1>13. AllPending'
  <2>1. ASSUME NEW g \in Fd, NEW u \in Msg, NEW v \in Msg, Calling(g, u, v),
               u.session \in DOMAIN waiting'[u.caller], Reaches(g, u, v)
        PROVE  Reaches(g, u, v)'
    <3>1. g # f
      BY <1>5, <1>9, <2>1, MsgFields DEF Calling
    <3>2. \A h \in Fd : h # f => (Closing(h) => Closing(h)') /\ \A z \in Msg : Queued(h, z) => Queued(h, z)'
      BY <1>8 DEF Closing, Queued
    <3>3. \A d \in Conn : (InGone(d) => InGone(d)') /\ (OnTheWay(d, u, v) => OnTheWay(d, u, v)')
      BY <1>1, <1>8, <3>2, Ends DEF InGone, OnTheWay, Served, kernel
    <3> QED
      BY <1>1, <2>1, <3>1, <3>2, <3>3 DEF Reaches, kernel
  <2>2. \A p \in Node : \A s \in DOMAIN waiting'[p] :
          /\ s \in DOMAIN waiting[p] /\ waiting'[p][s] = waiting[p][s]
          /\ node_fd'[p][waiting[p][s]] = node_fd[p][waiting[p][s]]
    <3> SUFFICES ASSUME NEW p \in Node, NEW s \in DOMAIN waiting'[p]
                 PROVE  /\ s \in DOMAIN waiting[p] /\ waiting'[p][s] = waiting[p][s]
                        /\ node_fd'[p][waiting[p][s]] = node_fd[p][waiting[p][s]]
      OBVIOUS
    <3>1. s \in DOMAIN waiting[p] /\ waiting'[p][s] = waiting[p][s]
      BY <1>5
    <3>2. waiting[p][s] \in Node
      BY <1>7, <3>1 DEF CallTypes
    <3> QED
      BY <1>9, <3>1, <3>2
  <2> QED
    BY <1>6, <1>7, <2>1, <2>2, PendingKept DEF Told
<1> QED
  BY <1>11, <1>12, <1>13 DEF Told

-----------------------------------------------------------------------------
(* A call *)

\* The connection of the call: the one in node_fd, or a new one whose number clusterd
\* has forgotten.
LEMMA get_fdStep ==
    ASSUME ClusterInv, ~reused', NEW n \in Node, NEW m \in Node, NEW f \in Fd, get_fd(n, m, f),
           UNCHANGED <<in_fd, mail>>
    PROVE  /\ Told /\ Tables'
           /\ \A p, q \in Node : node_fd'[p][q] = IF p = n /\ q = m THEN f ELSE node_fd[p][q]
           /\ node_fd[n][m] \in {f, Nil}
           /\ \A g \in Fd : sock[g] # Nil => sock'[g] = sock[g]
           /\ \A g \in Fd, c \in Conn : sock'[g] = <<c, "in">> => sock[g] = <<c, "in">>
           /\ \A c \in Conn : way[c] # Nil => way'[c] = way[c]
           /\ \A c \in Conn : stage[c] = "accepted" => stage'[c] = "accepted"
           /\ \A c \in Conn : sock'[f] # <<c, "in">> /\ (sock'[f] = <<c, "out">> => way'[c] = <<n, m>>)
           /\ Closing(f) \/ \E c \in Conn : sock'[f] = <<c, "out">>
           /\ \A g \in Fd : sock'[g] = sock[g] \/ (Letters(mail[g]) = {} /\ \A r \in serving : r.fd # g)
<1>1. CASE node_fd[n][m] = f /\ UNCHANGED <<node_fd, way, stage, sock, reused>>
  <2>1. Told /\ Fit(f) /\ ClusterTypes
    BY <1>1 DEF ClusterInv, Told, Tables
  <2>2. n = Host[f] /\ OutEnd(f, m)
    BY <1>1, <2>1 DEF Fit
  <2>3. \A g \in Fd : Fit(g)'
    BY <1>1, <2>1, FitSame DEF Told, Tables
  <2>4. Tables'
    BY <1>1, <2>1, <2>3 DEF Told, Tables
  <2>5. Closing(f) \/ \E c \in Conn : sock[f] = <<c, "out">> /\ way[c] = <<n, m>>
    BY <2>2, Seen DEF OutEnd, Lost
  <2>6. \A c \in Conn : sock[f] # <<c, "in">> /\ (sock[f] = <<c, "out">> => way[c] = <<n, m>>)
    BY <2>2, Ends DEF OutEnd, Lost
  <2> QED
    BY <1>1, <2>1, <2>4, <2>5, <2>6
<1>2. ASSUME node_fd[n][m] = Nil, connect(n, m, f), node_fd' = [node_fd EXCEPT ![n] = [@ EXCEPT ![m] = f]]
      PROVE  /\ Told /\ Tables'
             /\ \A p, q \in Node : node_fd'[p][q] = IF p = n /\ q = m THEN f ELSE node_fd[p][q]
             /\ \A c \in Conn : way[c] # Nil => way'[c] = way[c]
             /\ \A c \in Conn : stage[c] = "accepted" => stage'[c] = "accepted"
             /\ \E c \in Conn : sock'[f] = <<c, "out">> /\ way'[c] = <<n, m>>
             /\ sock[f] = Nil /\ \A g \in Fd : g # f => sock'[g] = sock[g]
             /\ Letters(mail[f]) = {} /\ \A r \in serving : r.fd # f
  <2>1. PICK c \in Conn, st \in {"connecting", "backlog"} :
          /\ way[c] = Nil /\ Host[f] = n /\ HandOut(f, <<c, "out">>)
          /\ way' = [way EXCEPT ![c] = <<n, m>>] /\ stage' = [stage EXCEPT ![c] = st]
    BY <1>2 DEF connect
  <2>2. /\ Told /\ ClusterTypes /\ mail[f] = <<>> /\ Letters(mail[f]) = {} /\ ~Owned(f) /\ f \notin in_fd
        /\ \A r \in serving : r.fd # f
        /\ sock[f] = Nil /\ sock'[f] = <<c, "out">> /\ \A g \in Fd : g # f => sock'[g] = sock[g]
    BY <2>1, Ends, HandedOut DEF ClusterInv
  <2>3. /\ \A d \in Conn : way'[d] = IF d = c THEN <<n, m>> ELSE way[d]
        /\ \A d \in Conn : stage'[d] = IF d = c THEN st ELSE stage[d]
        /\ stage[c] = "connecting"
    BY <2>1, <2>2 DEF ClusterTypes, Told, Tables
  <2>4. \A p, q \in Node : node_fd'[p][q] = IF p = n /\ q = m THEN f ELSE node_fd[p][q]
    BY <1>2, <2>2 DEF ClusterTypes
  <2>5. \A g \in Fd : sock[g] # <<c, "out">> /\ sock[g] # <<c, "in">>
    <3> SUFFICES ASSUME NEW g \in Fd, sock[g] = <<c, "out">> \/ sock[g] = <<c, "in">> PROVE FALSE
      OBVIOUS
    <3>1. Fit(g) /\ Host[g] \in Node
      BY <2>2, Ends DEF Told, Tables
    <3>2. (\E k \in Node : way[c] = <<Host[g], k>>) \/ \E k \in Node : way[c] = <<k, Host[g]>>
      BY <3>1 DEF Fit
    <3> QED
      BY <2>1, <3>1, <3>2, Ends
  <2>6. ASSUME NEW g \in Fd, g # f PROVE Fit(g)'
    <3>1. Fit(g) /\ mail'[g] = mail[g] /\ sock'[g] = sock[g] /\ (g \in in_fd' <=> g \in in_fd)
      BY <2>2, <2>6 DEF Told, Tables
    <3>2. \A p, q \in Node : node_fd'[p][q] = g <=> node_fd[p][q] = g
      BY <1>2, <2>4, <2>6, Ends
    <3>3. \A d \in Conn : sock[g] = <<d, "out">> \/ sock[g] = <<d, "in">> =>
            way'[d] = way[d] /\ (stage[d] = "accepted" => stage'[d] = "accepted")
      BY <2>3, <2>5
    <3> QED
      BY <3>1, <3>2, <3>3, FitSame
  <2>7. Fit(f)'
    <3>1. mail'[f] = <<>> /\ Ordered(mail'[f]) /\ ~Has(mail'[f], "close") /\ ~Accepting(f)'
      BY <2>2 DEF Told, Tables, Fit, Has, Accepting
    <3>2. \A p, q \in Node : node_fd'[p][q] = f => p = n /\ q = m
      BY <2>2, <2>4 DEF Owned
    <3>3. OutEnd(f, m)' /\ node_fd'[n][m] = f
      BY <2>1, <2>2, <2>3, <2>4 DEF OutEnd
    <3>4. \A d \in Conn : sock'[f] = <<d, "out">> => way'[d] = <<Host[f], m>>
      BY <2>1, <2>2, <2>3, Ends
    <3>5. \A d \in Conn : sock'[f] # <<d, "in">>
      BY <2>2, Ends
    <3>6. f \notin in_fd'
      BY <2>2
    <3> QED
      BY <2>1, <2>2, <3>1, <3>2, <3>3, <3>4, <3>5, <3>6 DEF Fit
  <2>8. \A p, q, k \in Node : node_fd'[p][q] = node_fd'[p][k] /\ node_fd'[p][q] # Nil => q = k
    BY <2>2, <2>4 DEF Told, Tables, Owned
  <2>9. \A g, h \in Fd : sock'[g] = sock'[h] /\ sock'[g] # Nil => g = h
    BY <2>2, <2>5 DEF Told, Tables
  <2>10. \A d \in Conn : way'[d] = Nil => stage'[d] = "connecting"
    BY <2>2, <2>3, Ends DEF Told, Tables
  <2>11. Tables'
    BY <2>6, <2>7, <2>8, <2>9, <2>10 DEF Tables
  <2> QED
    BY <2>1, <2>2, <2>3, <2>4, <2>11
<1>3. CASE node_fd[n][m] = Nil /\ connect(n, m, f) /\ node_fd' = [node_fd EXCEPT ![n] = [@ EXCEPT ![m] = f]]
  <2>1. PICK c \in Conn : sock'[f] = <<c, "out">> /\ way'[c] = <<n, m>>
    BY <1>2, <1>3
  <2>2. \A d \in Conn : sock'[f] # <<d, "in">> /\ (sock'[f] = <<d, "out">> => d = c)
    BY <2>1, Ends
  <2> QED
    BY <1>2, <1>3, <2>1, <2>2
<1> QED
  BY <1>1, <1>3 DEF get_fd

\* A call: its request is written on the connection, or that is known to be lost.
LEMMA requestStep == ASSUME ClusterInv, NEW n \in Node, NEW m \in Node, request(n, m) PROVE ClusterInv'
<1> DEFINE s == out_session[n] + 1
<1>1. PICK f \in Fd : get_fd(n, m, f) /\ write(f, Request(n, m, s))
  BY DEF request
<1>2. /\ s <= MaxSession[n]
      /\ out_session' = [out_session EXCEPT ![n] = s]
      /\ waiting' = [waiting EXCEPT ![n] = With(@, s, m)]
      /\ UNCHANGED <<in_fd, ended, serving, misread, mail>>
  BY DEF request
<1>3. s \in Session /\ s \in Nat /\ 1 .. s = (1 .. out_session[n]) \cup {s} /\ s \notin 1 .. out_session[n]
  <2>1. out_session[n] \in Nat /\ MaxSession[n] \in Nat
    BY ClusterAssumption DEF ClusterInv, CallTypes
  <2>2. s \in 1 .. MaxSession[n]
    BY <1>2, <2>1
  <2> QED
    BY <2>1, <2>2 DEF Session
<1> HIDE DEF s
<1>4. PICK x \in Msg : /\ x = Request(n, m, s) /\ x.kind = "request"
                       /\ x.caller = n /\ x.callee = m /\ x.session = s
  BY <1>3, RequestIs
<1>5. /\ \A p \in Node : p # n => waiting'[p] = waiting[p] /\ out_session'[p] = out_session[p]
      /\ DOMAIN waiting'[n] = DOMAIN waiting[n] \cup {s} /\ waiting'[n][s] = m /\ out_session'[n] = s
      /\ \A k \in DOMAIN waiting[n] : k # s => waiting'[n][k] = waiting[n][k]
      /\ waiting' = [p \in Node |-> waiting'[p]] /\ out_session' \in [Node -> Nat]
  <2>1. waiting = [p \in Node |-> waiting[p]] /\ out_session \in [Node -> Nat]
    BY DEF ClusterInv, CallTypes
  <2>2. /\ \A p \in Node : p # n => waiting'[p] = waiting[p] /\ out_session'[p] = out_session[p]
        /\ waiting'[n] = With(waiting[n], s, m) /\ out_session'[n] = s
        /\ waiting' = [p \in Node |-> waiting'[p]] /\ out_session' \in [Node -> Nat]
    BY <1>2, <1>3, <2>1
  <2> QED
    BY <2>2 DEF With
<1>6. CallTypes'
  <2>1. CallTypes
    BY DEF ClusterInv
  <2>2. ASSUME NEW p \in Node
        PROVE  /\ out_session'[p] <= MaxSession[p] /\ DOMAIN waiting'[p] \cup ended'[p] = 1 .. out_session'[p]
               /\ DOMAIN waiting'[p] \cap ended'[p] = {}
               /\ \A k \in DOMAIN waiting'[p] : waiting'[p][k] \in Node
    <3>1. /\ out_session[p] <= MaxSession[p] /\ DOMAIN waiting[p] \cup ended[p] = 1 .. out_session[p]
          /\ DOMAIN waiting[p] \cap ended[p] = {}
          /\ \A k \in DOMAIN waiting[p] : waiting[p][k] \in Node
      BY <2>1 DEF CallTypes
    <3>2. CASE p = n
      BY <1>2, <1>3, <1>5, <3>1, <3>2
    <3>3. CASE p # n
      BY <1>2, <1>5, <3>1, <3>3
    <3> QED
      BY <3>2, <3>3
  <2> QED
    BY <1>2, <1>5, <2>1, <2>2 DEF CallTypes
<1>7. ClusterTypes'
  <2>1. ClusterTypes
    BY DEF ClusterInv
  <2>2. buffer' \in [Conn -> SUBSET Msg] /\ wire' \in [End -> SUBSET Msg]
    BY <1>1, <1>4, <2>1, Written
  <2>3. /\ node_fd' \in [Node -> [Node -> Fd \cup {Nil}]]
        /\ way' \in [Conn -> (Node \X Node) \cup {Nil}]
        /\ stage' \in [Conn -> {"connecting", "backlog", "accepted"}]
        /\ sock' \in [Fd -> End \cup {Nil}] /\ reused' \in BOOLEAN
    <3>1. CASE UNCHANGED <<node_fd, way, stage, sock, reused>>
      BY <2>1, <3>1 DEF ClusterTypes
    <3>2. CASE connect(n, m, f) /\ node_fd' = [node_fd EXCEPT ![n] = [@ EXCEPT ![m] = f]]
      <4>1. node_fd' \in [Node -> [Node -> Fd \cup {Nil}]]
        BY <2>1, <3>2 DEF ClusterTypes
      <4>2. PICK c \in Conn, st \in {"connecting", "backlog"} :
              /\ HandOut(f, <<c, "out">>)
              /\ way' = [way EXCEPT ![c] = <<n, m>>] /\ stage' = [stage EXCEPT ![c] = st]
        BY <3>2 DEF connect
      <4>3. sock' \in [Fd -> End \cup {Nil}] /\ reused' \in BOOLEAN
        BY <2>1, <4>2, Ends DEF HandOut, ClusterTypes
      <4> QED
        BY <2>1, <4>1, <4>2, <4>3 DEF ClusterTypes
    <3> QED
      BY <1>1, <3>1, <3>2 DEF get_fd
  <2> QED
    BY <1>2, <2>1, <2>2, <2>3 DEF ClusterTypes
<1> SUFFICES ASSUME ~reused' PROVE Told'
  BY <1>6, <1>7 DEF ClusterInv
<1>8. /\ Told /\ Tables'
      /\ \A p, q \in Node : node_fd'[p][q] = IF p = n /\ q = m THEN f ELSE node_fd[p][q]
      /\ node_fd[n][m] \in {f, Nil}
      /\ \A g \in Fd : sock[g] # Nil => sock'[g] = sock[g]
      /\ \A g \in Fd, c \in Conn : sock'[g] = <<c, "in">> => sock[g] = <<c, "in">>
      /\ \A c \in Conn : way[c] # Nil => way'[c] = way[c]
      /\ \A c \in Conn : stage[c] = "accepted" => stage'[c] = "accepted"
      /\ \A c \in Conn : sock'[f] # <<c, "in">> /\ (sock'[f] = <<c, "out">> => way'[c] = <<n, m>>)
      /\ Closing(f) \/ \E c \in Conn : sock'[f] = <<c, "out">>
      /\ \A g \in Fd : sock'[g] = sock[g] \/ (Letters(mail[g]) = {} /\ \A r \in serving : r.fd # g)
  BY <1>1, <1>2, get_fdStep
<1>9. ClusterTypes /\ CallTypes
  BY DEF ClusterInv
<1>10. (\A z \in Msg : Honest(z) => Honest(z)') /\ Honest(x)'
  <2>1. ASSUME NEW z \in Msg, Honest(z) PROVE Honest(z)'
    <3>1. z.caller \in Node
      BY MsgFields
    <3>2. CASE z.caller = n
      BY <1>3, <1>5, <2>1, <3>2 DEF Honest
    <3>3. CASE z.caller # n
      BY <1>5, <2>1, <3>1, <3>3 DEF Honest
    <3> QED
      BY <3>2, <3>3
  <2>2. Honest(x)'
    BY <1>3, <1>4, <1>5 DEF Honest
  <2> QED
    BY <2>1, <2>2
<1>11. /\ Carried'
       /\ \A c \in Conn :
            /\ buffer[c] \subseteq buffer'[c]
            /\ wire[<<c, "in">>] \subseteq wire'[<<c, "in">>]
            /\ wire[<<c, "out">>] \subseteq wire'[<<c, "out">>]
            /\ sock'[f] = <<c, "out">> => x \in buffer'[c] \cup wire'[<<c, "in">>]
  <2>1. Carried /\ write(f, x)
    BY <1>1, <1>4, <1>8 DEF Told
  <2>2. Carried'
    BY <1>4, <1>8, <1>9, <1>10, <2>1, CarriedNext
  <2> QED
    BY <1>9, <2>1, <2>2, Written
<1>12. \A g \in Fd, c \in Conn : sock[g] = <<c, "in">> => way'[c] = way[c] /\ sock'[g] = sock[g]
  <2> SUFFICES ASSUME NEW g \in Fd, NEW c \in Conn, sock[g] = <<c, "in">>
               PROVE  way'[c] = way[c] /\ sock'[g] = sock[g]
    OBVIOUS
  <2>1. PICK k \in Node : way[c] = <<k, Host[g]>>
    BY <1>8 DEF Told, Tables, Fit
  <2>2. way[c] # Nil /\ sock[g] # Nil
    BY <2>1, Ends
  <2> QED
    BY <1>8, <2>2
<1>13. Mailed' /\ InService' /\ ~misread'
  <2>1. ASSUME NEW g \in Fd PROVE MailedAt(g)'
    <3>1. CASE sock'[g] = sock[g]
      <4>1. f \in Fd /\ Host[g] \in Node /\ \A q \in Node : node_fd[Host[g]][q] = g => node_fd'[Host[g]][q] = g
        BY <1>8, Ends
      <4>2. mail'[g] = mail[g] /\ in_fd' = in_fd /\ (Accepting(g)' <=> Accepting(g))
        BY <1>2 DEF Accepting
      <4>3. MailedAt(g)
        BY <1>8 DEF Told, Mailed
      <4> QED
        BY <1>9, <1>10, <1>12, <3>1, <4>1, <4>2, <4>3, MailedKept
    <3>2. CASE Letters(mail[g]) = {}
      BY <1>2, <3>2 DEF MailedAt
    <3> QED
      BY <1>8, <3>1, <3>2
  <2>2. ASSUME NEW r \in serving PROVE ServedAt(r)'
    <3>1. r.fd \in Fd
      BY <1>9 DEF ClusterTypes
    <3>2. sock'[r.fd] = sock[r.fd]
      BY <1>8, <3>1
    <3>3. ServedAt(r)
      BY <1>8 DEF Told, InService
    <3> QED
      BY <1>9, <1>10, <1>12, <3>1, <3>2, <3>3, ServedKept
  <2> QED
    BY <1>2, <1>8, <2>1, <2>2 DEF Told, Mailed, InService
<1>14. ASSUME NEW p \in Node, NEW k \in DOMAIN waiting'[p] PROVE Pending(p, k)'
  <2>1. CASE p = n /\ k = s
    <3>1. waiting'[p][k] = m /\ node_fd'[n][m] = f
      BY <1>5, <1>8, <2>1
    <3>2. PICK y \in Msg : y = Response(m, x)
      BY ResponseIs
    <3>3. Closing(f)' <=> Closing(f)
      BY <1>2 DEF Closing
    <3>4. Reaches(f, x, y)'
      BY <1>8, <1>11, <3>3 DEF Reaches, OnTheWay
    <3> QED
      BY <1>4, <2>1, <3>1, <3>2, <3>4 DEF Pending, Reaches
  <2>2. CASE ~(p = n /\ k = s)
    <3>1. k \in DOMAIN waiting[p] /\ waiting'[p][k] = waiting[p][k]
      BY <1>5, <2>2
    <3>2. PICK q \in Node : waiting[p][k] = q /\ k \in Session
      BY <1>9, <3>1, CallIs
    <3>3. Pending(p, k)
      BY <1>8, <3>1 DEF Told, AllPending
    <3>4. PICK u \in Msg : u = Request(p, q, k)
      BY <3>2, RequestIs
    <3>5. PICK v \in Msg : v = Response(q, u)
      BY ResponseIs
    <3>6. PICK g \in Fd : node_fd[p][q] = g /\ Reaches(g, u, v)
      BY <3>2, <3>3, <3>4, <3>5 DEF Pending, Reaches
    <3>7. node_fd'[p][q] = g
      BY <1>8, <3>6, Ends
    <3>8. Reaches(g, u, v)'
      <4>1. \A h \in Fd : (Closing(h)' <=> Closing(h)) /\ \A z \in Msg : Queued(h, z)' <=> Queued(h, z)
        BY <1>2 DEF Closing, Queued
      <4>2. \A d \in Conn : InGone(d) => InGone(d)'
        BY <1>8 DEF InGone
      <4>3. ASSUME NEW d \in Conn, OnTheWay(d, u, v) PROVE OnTheWay(d, u, v)'
        BY <1>2, <1>11, <1>12, <4>1, <4>3 DEF OnTheWay, Served
      <4>4. \A d \in Conn : sock[g] = <<d, "out">> => sock'[g] = <<d, "out">>
        BY <1>8, Ends
      <4> QED
        BY <3>6, <4>1, <4>2, <4>3, <4>4 DEF Reaches
    <3> QED
      BY <3>1, <3>2, <3>4, <3>5, <3>7, <3>8 DEF Pending, Reaches
  <2> QED
    BY <2>1, <2>2
<1> QED
  BY <1>8, <1>11, <1>13, <1>14 DEF Told, AllPending

-----------------------------------------------------------------------------
(* The invariant and what follows from it *)

\* Every step keeps the invariant, and so do the steps in which names are published.
LEMMA ClusterStep == ClusterInv /\ [ClusterNext]_<<part, vars, names>> => ClusterInv'
<1> SUFFICES ASSUME ClusterInv, [ClusterNext]_<<part, vars, names>> PROVE ClusterInv'
  OBVIOUS
<1>1. CASE UNCHANGED vars
  <2>1. UNCHANGED <<node_fd, in_fd, waiting, out_session, ended, serving, misread>>
    BY <1>1 DEF vars, clusterd
  <2>2. UNCHANGED <<way, stage, sock, buffer, wire, mail, reused>>
    BY <1>1 DEF vars, kernel
  <2>3. ClusterTypes' /\ CallTypes'
    BY <2>1, <2>2 DEF ClusterInv, ClusterTypes, CallTypes
  <2>4. ASSUME ~reused PROVE Told'
    <3>1. Told
      BY <2>4 DEF ClusterInv
    <3>2. /\ ClusterTypes /\ CallTypes /\ \A f \in Fd : Accepting(f)' <=> Accepting(f)
          /\ \A x \in Msg : Honest(x)' <=> Honest(x)
      BY <2>1, <2>2 DEF ClusterInv, Accepting, Honest
    <3>3. Tables'
      <4>1. ASSUME NEW f \in Fd PROVE Fit(f)'
        BY <2>1, <2>2, <3>1, FitSame DEF Told, Tables
      <4> QED
        BY <2>1, <2>2, <3>1, <4>1 DEF Told, Tables
    <3>4. Carried'
      BY <2>2, <3>1, <3>2, CarriedKept DEF Told
    <3>5. Mailed'
      BY <2>1, <2>2, <3>1, <3>2, MailedKept DEF Told, Mailed
    <3>6. InService'
      BY <2>1, <2>2, <3>1, <3>2, ServedKept DEF Told, InService
    <3>7. AllPending'
      <4>1. ASSUME NEW f \in Fd, NEW x \in Msg, NEW y \in Msg, Reaches(f, x, y) PROVE Reaches(f, x, y)'
        BY <2>1, <2>2, <4>1 DEF Reaches, Closing, Queued, InGone, OnTheWay, Served
      <4> QED
        BY <2>1, <2>3, <3>1, <3>2, <4>1, PendingKept DEF Told
    <3> QED
      BY <2>1, <3>1, <3>3, <3>4, <3>5, <3>6, <3>7 DEF Told
  <2> QED
    BY <2>2, <2>3, <2>4 DEF ClusterInv
<1>2. CASE Next
  <2>1. ASSUME NEW f \in Fd, Handle(f) PROVE ClusterInv'
    BY <2>1, OnAcceptStep, OnRequestStep, OnResponseStep, OnCloseStep DEF Handle
  <2> QED
    BY <1>2, <2>1, requestStep, ReadDataStep, NotifyCloseStep, OnConnectFinishStep, AcceptStep, ReturnsStep DEF Next
<1> QED
  BY <1>1, <1>2 DEF ClusterNext

\* The inductive invariant holds of the specification that is model-checked.
LEMMA ClusterInvariant == ClusterSpec => []ClusterInv
<1>1. ClusterInit => ClusterInv
  BY ClusterInitInv DEF ClusterInit
<1> QED
  BY <1>1, ClusterStep, PTL DEF ClusterSpec

\* The invariant implies the types that TypeOK states.
LEMMA ClusterTypeOK == ClusterInv => TypeOK
<1> SUFFICES ASSUME ClusterInv PROVE TypeOK
  OBVIOUS
<1>1. \A f \in Fd : \A k \in DOMAIN mail[f] : mail[f][k] \in Event
  BY DEF ClusterInv, ClusterTypes
<1>2. \A r \in serving : r.fd \in Fd /\ r.msg \in Msg
  BY DEF ClusterInv, ClusterTypes
<1> QED
  BY <1>1, <1>2 DEF ClusterInv, ClusterTypes, CallTypes, TypeOK

\* Once the messages about a descriptor are handled, node_fd and in_fd say what is
\* behind it, until a kernel hands out a number too early.
THEOREM ClusterKnows == ClusterSpec => []ConnectionsKnown
<1>1. ClusterInv => ConnectionsKnown
  <2> SUFFICES ASSUME ClusterInv, ~reused, NEW f \in Fd, mail[f] = <<>>
               PROVE  /\ \A n, m \in Node : node_fd[n][m] = f => \E c \in Conn : sock[f] = <<c, "out">> /\ way[c] = <<n, m>>
                      /\ f \in in_fd <=> \E c \in Conn : sock[f] = <<c, "in">>
    BY ClusterTypeOK DEF ConnectionsKnown
  <2>1. Fit(f) /\ Letters(mail[f]) = {}
    BY NoLetters DEF ClusterInv, ClusterTypes, Told, Tables
  <2>2. ~Lost(f) /\ ~Accepting(f)
    BY <2>1 DEF Lost, Accepting, Has
  <2>3. \A n, m \in Node : node_fd[n][m] = f => \E c \in Conn : sock[f] = <<c, "out">> /\ way[c] = <<n, m>>
    BY <2>1, <2>2 DEF Fit, OutEnd
  <2>4. f \in in_fd <=> \E c \in Conn : sock[f] = <<c, "in">>
    BY <2>1, <2>2 DEF Fit, InEnd
  <2> QED
    BY <2>3, <2>4
<1> QED
  BY <1>1, ClusterInvariant, PTL

\* No call is forgotten: its request or response is somewhere, or the news that its
\* connection is gone is.
THEOREM ClusterPending == ClusterSpec => []CallsPending
<1>1. ClusterInv => CallsPending
  BY DEF ClusterInv, Told, AllPending, CallsPending
<1> QED
  BY <1>1, ClusterInvariant, PTL

\* Nothing is taken for what it is not, whatever the local services take to answer and
\* in whatever order connections break.
THEOREM ClusterReads == ClusterSpec => []NothingMisread
<1>1. ClusterInv => NothingMisread
  BY DEF ClusterInv, Told, NothingMisread
<1> QED
  BY <1>1, ClusterInvariant, PTL

=============================================================================

----------------------------- MODULE Rpc_proofs -----------------------------
(***************************************************************************)
(* Proofs about Rpc, for any services, any scripts and any number of       *)
(* sessions, forks and events: one table at most leads to a coroutine, the *)
(* pool is clean, and a request is answered at most once and to the        *)
(* coroutine that waits.                                                   *)
(***************************************************************************)
EXTENDS Rpc, TLAPS, FiniteSetTheorems

-----------------------------------------------------------------------------
(* The inductive invariant *)

\* A coroutine in a list or a table, and lists and tables that hold each one once.
Has(q, c) == \E i \in DOMAIN q : q[i] = c
Distinct(q) == \A i, j \in DOMAIN q : q[i] = q[j] => i = j

\* The places of a coroutine, as a predicate.
Placed(s, c) ==
    \/ Has(coroutine_pool[s], c) \/ Has(fork_queue[s], c)
    \/ Has(session_id_coroutine[s], c) \/ running_thread[s] = c

\* Each table leads to a coroutine once, and no two of them to the same one.
Apart(s, c) ==
    /\ Has(coroutine_pool[s], c) => /\ ~Has(fork_queue[s], c) /\ ~Has(session_id_coroutine[s], c)
                                    /\ running_thread[s] # c
    /\ Has(fork_queue[s], c) => ~Has(session_id_coroutine[s], c) /\ running_thread[s] # c
    /\ Has(session_id_coroutine[s], c) => running_thread[s] # c
Alone(s) ==
    /\ Distinct(coroutine_pool[s]) /\ Distinct(fork_queue[s]) /\ Distinct(session_id_coroutine[s])
    /\ \A c \in Co : Apart(s, c)

\* A coroutine has a request only while a handler is under way in it.
Clean(s) ==
    \A c \in Co :
      \/ ~Placed(s, c) \/ Has(coroutine_pool[s], c) \/ Has(fork_queue[s], c)
      \/ session_coroutine_address[s][c] = Nil
      => session_coroutine_id[s][c] = Nil

\* Nothing runs in an idle service, a closed one stays idle, and the sessions that
\* are awaited were handed out.
Bounds(s) ==
    /\ mode[s] = "idle" => running_thread[s] = 0
    /\ s \in exited => mode[s] = "idle"
    /\ DOMAIN session_id_coroutine[s] \subseteq 1 .. sessionGen[s]
    /\ Len(fork_queue[s]) <= MaxForks

Local(s) == Alone(s) /\ Clean(s) /\ Bounds(s)

\* What can still lead to a response for session n of service s (Answers).
InTimer(s, n) == <<s, n>> \in timers
InQueue(d, i, s, n) ==
    /\ i \in DOMAIN mq[d] /\ mq[d][i].session = n
    /\ \/ mq[d][i].type = "LUA" /\ mq[d][i].source = s
       \/ mq[d][i].type = "RESPONSE" /\ d = s
InClosure(d, s, n) == <<s, n>> \in closures[d]
InCo(d, c, s, n) ==
    session_coroutine_id[d][c] = n /\ session_coroutine_address[d][c] = s /\ Placed(d, c)

\* Some of it is under way.
InSome(s, n) ==
    \/ InTimer(s, n)
    \/ \E d \in Service : \E i \in DOMAIN mq[d] : InQueue(d, i, s, n)
    \/ \E d \in Service : InClosure(d, s, n)
    \/ \E d \in Service : \E c \in Co : InCo(d, c, s, n)

\* It is one thing at most.
Once(s, n) ==
    /\ \A d \in Service : \A i \in DOMAIN mq[d] : InQueue(d, i, s, n) =>
         /\ ~InTimer(s, n)
         /\ \A e \in Service : \A j \in DOMAIN mq[e] : InQueue(e, j, s, n) => e = d /\ j = i
    /\ \A d \in Service : InClosure(d, s, n) =>
         /\ ~InTimer(s, n)
         /\ \A e \in Service : \A j \in DOMAIN mq[e] : ~InQueue(e, j, s, n)
         /\ \A e \in Service : InClosure(e, s, n) => e = d
    /\ \A d \in Service : \A c \in Co : InCo(d, c, s, n) =>
         /\ ~InTimer(s, n)
         /\ \A e \in Service : \A j \in DOMAIN mq[e] : ~InQueue(e, j, s, n)
         /\ \A e \in Service : ~InClosure(e, s, n)
         /\ \A e \in Service : \A b \in Co : InCo(e, b, s, n) => e = d /\ b = c

Awaited(s, n) == Once(s, n) /\ (InSome(s, n) => n \in DOMAIN session_id_coroutine[s])
AllAwaited == \A s \in Service \ exited : \A n \in Session : Awaited(s, n)

\* A socket event has no session and a request comes from a service, so a coroutine
\* that has a request knows whom to answer.
Plain(m) == (m.type = "SOCKET" => m.session = 0) /\ (m.type = "LUA" => m.source \in Service)
QueuesPlain == \A d \in Service : \A i \in DOMAIN mq[d] : Plain(mq[d][i])
Owed ==
    \A d \in Service : \A c \in Co :
      session_coroutine_id[d][c] \in Session /\ Placed(d, c) => session_coroutine_address[d][c] \in Service

\* The types of what the engine keeps, of the coroutines and of the tables.
EnvTypes ==
    /\ services \subseteq Service /\ exited \subseteq Service \ services
    /\ timers \subseteq Service \X Session /\ events \in 0 .. MaxEvents /\ handler \subseteq Service
    /\ mq \in [Service -> Seq(Message)] /\ closures \in [Service -> SUBSET (Service \X Session)]
ThreadTypes ==
    /\ sessionGen \in [Service -> 0 .. MaxSession] /\ running_thread \in [Service -> {0} \cup Co]
    /\ mode \in [Service -> {"start", "idle", "message", "socket", "forks"}]
    /\ session_coroutine_id \in [Service -> [Co -> 0 .. MaxSession \cup {Nil}]]
    /\ session_coroutine_address \in [Service -> [Co -> Service \cup {NoId, Nil}]]
ListTypes ==
    /\ coroutine_pool \in [Service -> Seq(Co)] /\ fork_queue \in [Service -> Seq(Co)]
    /\ DOMAIN session_id_coroutine = Service
    /\ \A s \in Service : /\ DOMAIN session_id_coroutine[s] \subseteq Session
                          /\ \A n \in DOMAIN session_id_coroutine[s] : session_id_coroutine[s][n] \in Co
RpcTypes == EnvTypes /\ ThreadTypes /\ ListTypes

\* The inductive invariant.
RpcInv == RpcTypes /\ (\A s \in Service : Local(s)) /\ QueuesPlain /\ Owed /\ AllAwaited

-----------------------------------------------------------------------------
(* Lemmas about lists and tables of coroutines *)

\* The coroutine recycled last is taken from the pool.
LEMMA FrontDistinct ==
    ASSUME NEW q \in Seq(Co), q # <<>>, Distinct(q)
    PROVE  /\ Front(q) \in Seq(Co) /\ Distinct(Front(q)) /\ Last(q) \in Co /\ Has(q, Last(q))
           /\ \A c : Has(Front(q), c) <=> Has(q, c) /\ c # Last(q)
<1>1. Len(q) \in Nat /\ Len(q) >= 1 /\ DOMAIN q = 1 .. Len(q)
  OBVIOUS
<1>2. Front(q) \in Seq(Co) /\ Len(Front(q)) = Len(q) - 1
  BY <1>1 DEF Front
<1>3. DOMAIN Front(q) = 1 .. (Len(q) - 1)
  BY <1>1, <1>2
<1>4. \A i \in 1 .. (Len(q) - 1) : Front(q)[i] = q[i]
  BY <1>1 DEF Front
<1>5. Last(q) = q[Len(q)] /\ Len(q) \in DOMAIN q
  BY <1>1 DEF Last
<1>6. Distinct(Front(q))
  BY <1>1, <1>3, <1>4 DEF Distinct
<1>7. Last(q) \in Co /\ Has(q, Last(q))
  BY <1>1, <1>5 DEF Has
<1>8. ASSUME NEW c PROVE Has(Front(q), c) <=> Has(q, c) /\ c # Last(q)
  BY <1>1, <1>3, <1>4, <1>5 DEF Has, Distinct
<1> QED
  BY <1>2, <1>6, <1>7, <1>8

\* The oldest forked coroutine is taken.
LEMMA TailDistinct ==
    ASSUME NEW q \in Seq(Co), q # <<>>, Distinct(q)
    PROVE  /\ Tail(q) \in Seq(Co) /\ Distinct(Tail(q)) /\ Head(q) \in Co /\ Has(q, Head(q))
           /\ Len(Tail(q)) = Len(q) - 1
           /\ \A c : Has(Tail(q), c) <=> Has(q, c) /\ c # Head(q)
<1>1. Len(q) \in Nat /\ Len(q) >= 1 /\ DOMAIN q = 1 .. Len(q) /\ Head(q) = q[1]
  OBVIOUS
<1>2. Tail(q) \in Seq(Co) /\ Len(Tail(q)) = Len(q) - 1
  BY <1>1
<1>3. DOMAIN Tail(q) = 1 .. (Len(q) - 1)
  BY <1>1, <1>2
<1>4. \A i \in 1 .. (Len(q) - 1) : Tail(q)[i] = q[i + 1]
  BY <1>1
<1>5. Distinct(Tail(q))
  BY <1>1, <1>3, <1>4 DEF Distinct
<1>6. Head(q) \in Co /\ Has(q, Head(q))
  BY <1>1 DEF Has
<1>7. ASSUME NEW c PROVE Has(Tail(q), c) <=> Has(q, c) /\ c # Head(q)
  <2>1. Has(Tail(q), c) => Has(q, c) /\ c # Head(q)
    BY <1>1, <1>3, <1>4 DEF Has, Distinct
  <2>2. ASSUME Has(q, c), c # Head(q) PROVE Has(Tail(q), c)
    <3>1. PICK i \in DOMAIN q : q[i] = c
      BY <2>2 DEF Has
    <3>2. i - 1 \in 1 .. (Len(q) - 1) /\ i - 1 + 1 = i
      BY <3>1, <2>2, <1>1
    <3> QED
      BY <3>1, <3>2, <1>3, <1>4 DEF Has
  <2> QED
    BY <2>1, <2>2
<1> QED
  BY <1>2, <1>5, <1>6, <1>7

\* A coroutine is added at the end of the pool or of the fork queue.
LEMMA AppendDistinct ==
    ASSUME NEW q \in Seq(Co), NEW c \in Co, Distinct(q), ~Has(q, c)
    PROVE  /\ Append(q, c) \in Seq(Co) /\ Distinct(Append(q, c)) /\ Len(Append(q, c)) = Len(q) + 1
           /\ \A b : Has(Append(q, c), b) <=> Has(q, b) \/ b = c
<1>1. Len(q) \in Nat /\ DOMAIN q = 1 .. Len(q)
  OBVIOUS
<1>2. Append(q, c) \in Seq(Co) /\ Len(Append(q, c)) = Len(q) + 1 /\ DOMAIN Append(q, c) = 1 .. (Len(q) + 1)
  BY <1>1
<1>3. (\A i \in 1 .. Len(q) : Append(q, c)[i] = q[i]) /\ Append(q, c)[Len(q) + 1] = c
  BY <1>1
<1>4. Distinct(Append(q, c))
  BY <1>1, <1>2, <1>3 DEF Distinct, Has
<1>5. ASSUME NEW b PROVE Has(Append(q, c), b) <=> Has(q, b) \/ b = c
  BY <1>1, <1>2, <1>3 DEF Has
<1> QED
  BY <1>2, <1>4, <1>5

\* Nothing is in an empty table.
LEMMA EmptyDistinct == Distinct(<<>>) /\ \A c : ~Has(<<>>, c)
  BY DEF Distinct, Has

\* A session is registered, and forgotten.
LEMMA AwaitDistinct ==
    ASSUME NEW t, NEW n, n \notin DOMAIN t, NEW c, Distinct(t), ~Has(t, c), NEW r,
           DOMAIN r = DOMAIN t \cup {n}, r[n] = c, \A k \in DOMAIN t : r[k] = t[k]
    PROVE  Distinct(r) /\ \A b : Has(r, b) <=> Has(t, b) \/ b = c
<1>1. Distinct(r)
  BY DEF Distinct, Has
<1>2. \A b : Has(r, b) <=> Has(t, b) \/ b = c
  BY DEF Has
<1> QED
  BY <1>1, <1>2

\* A session whose response arrived is forgotten.
LEMMA ForgetDistinct ==
    ASSUME NEW t, NEW n, Distinct(t), NEW r, DOMAIN r = DOMAIN t \ {n}, \A k \in DOMAIN r : r[k] = t[k]
    PROVE  Distinct(r) /\ \A b : Has(r, b) <=> Has(t, b) /\ ~(n \in DOMAIN t /\ t[n] = b)
<1>1. Distinct(r)
  BY DEF Distinct
<1>2. \A b : Has(r, b) <=> Has(t, b) /\ ~(n \in DOMAIN t /\ t[n] = b)
  BY DEF Has, Distinct
<1> QED
  BY <1>1, <1>2

\* The numbers up to k are k.
LEMMA UpTo ==
    ASSUME NEW k \in Nat
    PROVE  IsFiniteSet(1 .. k) /\ Cardinality(1 .. k) = k
<1>1. IsFiniteSet(1 .. k) /\ Cardinality(1 .. k) = IF 1 > k THEN 0 ELSE k - 1 + 1
  BY FS_Interval
<1>2. (IF 1 > k THEN 0 ELSE k - 1 + 1) = k
  OBVIOUS
<1> QED
  BY <1>1, <1>2

\* The range of a list or of a table has no more elements than its domain.
LEMMA RangeBound ==
    ASSUME NEW q, NEW R, R = {q[i] : i \in DOMAIN q}, IsFiniteSet(DOMAIN q), NEW k \in Nat,
           Cardinality(DOMAIN q) <= k
    PROVE  IsFiniteSet(R) /\ Cardinality(R) \in Nat /\ Cardinality(R) <= k
<1> DEFINE f == [i \in DOMAIN q |-> q[i]]
<1>1. f \in Surjection(DOMAIN q, R)
  BY DEF Surjection
<1>2. IsFiniteSet(R) /\ Cardinality(R) <= Cardinality(DOMAIN q)
  BY <1>1, FS_Surjection
<1>3. Cardinality(R) \in Nat /\ Cardinality(DOMAIN q) \in Nat
  BY <1>2, FS_CardinalityType
<1> QED
  BY <1>2, <1>3

\* A set of at most one element.
LEMMA AtMostOne ==
    ASSUME NEW S, \A x, y \in S : x = y
    PROVE  Cardinality(S) <= 1
<1>1. CASE S = {}
  BY <1>1, FS_EmptySet
<1>2. CASE S # {}
  <2>1. PICK x \in S : S = {x}
    BY <1>2
  <2> QED
    BY <2>1, FS_Singleton
<1> QED
  BY <1>1, <1>2

\* Places and the predicate agree.
LEMMA PlacesPlaced ==
    ASSUME NEW s \in Service, NEW c \in Co
    PROVE  Places(s, c) # {} <=> Placed(s, c)
  BY DEF Places, Placed, Has

\* One table at most leads to a coroutine.
LEMMA OnePlace ==
    ASSUME NEW s \in Service, NEW c \in Co, Alone(s)
    PROVE  Cardinality(Places(s, c)) <= 1
<1> DEFINE P == {<<"pool", i>> : i \in {i \in DOMAIN coroutine_pool[s] : coroutine_pool[s][i] = c}}
           F == {<<"fork", i>> : i \in {i \in DOMAIN fork_queue[s] : fork_queue[s][i] = c}}
           W == {<<"session", n>> : n \in {n \in DOMAIN session_id_coroutine[s] : session_id_coroutine[s][n] = c}}
           R == IF running_thread[s] = c THEN {<<"running", 0>>} ELSE {}
<1>1. Places(s, c) = P \cup F \cup W \cup R
  BY DEF Places
<1>2. /\ P # {} => Has(coroutine_pool[s], c)
      /\ F # {} => Has(fork_queue[s], c)
      /\ W # {} => Has(session_id_coroutine[s], c)
      /\ R # {} => running_thread[s] = c
  BY DEF Has
<1>3. /\ \A x, y \in P : x = y
      /\ \A x, y \in F : x = y
      /\ \A x, y \in W : x = y
      /\ \A x, y \in R : x = y
  BY DEF Alone, Distinct
<1>4. Apart(s, c)
  BY DEF Alone
<1> HIDE DEF P, F, W, R
<1>5. \A x, y \in P \cup F \cup W \cup R : x = y
  BY <1>2, <1>3, <1>4 DEF Apart
<1> QED
  BY <1>1, <1>5, AtMostOne

\* While fewer coroutines are in use than there may be, one is free.
LEMMA FreeCo ==
    ASSUME RpcTypes, NEW s \in Service, Bounds(s), coroutine_pool[s] = <<>>,
           \/ running_thread[s] = 0
           \/ sessionGen[s] < MaxSession
           \/ Len(fork_queue[s]) < MaxForks
    PROVE  \E c \in Co : Places(s, c) = {}
<1> SUFFICES ASSUME \A c \in Co : Placed(s, c) PROVE FALSE
  BY PlacesPlaced
<1> DEFINE F == {fork_queue[s][i] : i \in DOMAIN fork_queue[s]}
           W == {session_id_coroutine[s][n] : n \in DOMAIN session_id_coroutine[s]}
           R == {running_thread[s]} \ {0}
           g == sessionGen[s]
           l == Len(fork_queue[s])
<1>1. /\ MaxSession \in Nat /\ MaxForks \in Nat /\ g \in Nat /\ g <= MaxSession
      /\ l \in Nat /\ l <= MaxForks /\ DOMAIN fork_queue[s] = 1 .. l
      /\ DOMAIN session_id_coroutine[s] \subseteq 1 .. g
  BY RpcAssumption DEF RpcTypes, ThreadTypes, ListTypes, Bounds
<1>2. IsFiniteSet(F) /\ Cardinality(F) \in Nat /\ Cardinality(F) <= l
  <2>1. IsFiniteSet(1 .. l) /\ Cardinality(1 .. l) <= l
    BY <1>1, UpTo
  <2>2. IsFiniteSet(DOMAIN fork_queue[s]) /\ Cardinality(DOMAIN fork_queue[s]) <= l
    BY <2>1, <1>1
  <2> QED
    BY <2>2, <1>1, RangeBound
<1>3. IsFiniteSet(W) /\ Cardinality(W) \in Nat /\ Cardinality(W) <= g
  <2>1. IsFiniteSet(1 .. g) /\ Cardinality(1 .. g) <= g /\ Cardinality(1 .. g) \in Nat
    BY <1>1, UpTo
  <2>2. /\ IsFiniteSet(DOMAIN session_id_coroutine[s])
        /\ Cardinality(DOMAIN session_id_coroutine[s]) <= Cardinality(1 .. g)
    BY <2>1, <1>1, FS_Subset
  <2>3. Cardinality(DOMAIN session_id_coroutine[s]) <= g
    BY <2>1, <2>2, <1>1, FS_CardinalityType
  <2> QED
    BY <2>2, <2>3, <1>1, RangeBound
<1>4. /\ IsFiniteSet(R) /\ Cardinality(R) \in Nat /\ Cardinality(R) <= 1
      /\ running_thread[s] = 0 => Cardinality(R) = 0
  <2>1. CASE running_thread[s] = 0
    <3>1. R = {}
      BY <2>1
    <3>2. IsFiniteSet({}) /\ Cardinality({}) = 0
      BY FS_EmptySet
    <3> HIDE DEF R
    <3>3. IsFiniteSet(R) /\ Cardinality(R) = 0
      BY <3>1, <3>2
    <3> QED
      BY <3>3
  <2>2. CASE running_thread[s] # 0
    <3>1. R = {running_thread[s]}
      BY <2>2
    <3>2. IsFiniteSet({running_thread[s]}) /\ Cardinality({running_thread[s]}) = 1
      BY FS_Singleton
    <3> HIDE DEF R
    <3>3. IsFiniteSet(R) /\ Cardinality(R) = 1
      BY <3>1, <3>2
    <3> QED
      BY <3>3, <2>2
  <2> QED
    BY <2>1, <2>2
<1>5. Co \subseteq (F \cup W) \cup R
  <2> SUFFICES ASSUME NEW c \in Co PROVE c \in (F \cup W) \cup R
    OBVIOUS
  <2>1. ~Has(coroutine_pool[s], c) /\ c # 0
    BY EmptyDistinct, RpcAssumption DEF Co
  <2>2. Placed(s, c)
    OBVIOUS
  <2> QED
    BY <2>1, <2>2 DEF Placed, Has
<1>6. IsFiniteSet(Co) /\ Cardinality(Co) = MaxSession + MaxForks + 1
  <2>1. MaxSession + MaxForks + 1 \in Nat
    BY <1>1
  <2> QED
    BY <2>1, UpTo DEF Co
<1> HIDE DEF F, W, R
<1>7. IsFiniteSet(F \cup W) /\ Cardinality(F \cup W) \in Nat /\ Cardinality(F \cup W) <= g + l
  <2>1. IsFiniteSet(F \cup W) /\ Cardinality(F \cup W) = Cardinality(F) + Cardinality(W) - Cardinality(F \cap W)
    BY <1>2, <1>3, FS_Union
  <2>2. IsFiniteSet(F \cap W)
    BY <1>2, FS_Subset
  <2>3. Cardinality(F \cap W) \in Nat /\ Cardinality(F \cup W) \in Nat
    BY <2>1, <2>2, FS_CardinalityType
  <2> QED
    BY <2>1, <2>3, <1>1, <1>2, <1>3
<1>8. IsFiniteSet((F \cup W) \cup R) /\ Cardinality((F \cup W) \cup R) <= g + l + Cardinality(R)
  <2>1. /\ IsFiniteSet((F \cup W) \cup R)
        /\ Cardinality((F \cup W) \cup R) = Cardinality(F \cup W) + Cardinality(R) - Cardinality((F \cup W) \cap R)
    BY <1>4, <1>7, FS_Union
  <2>2. IsFiniteSet((F \cup W) \cap R)
    BY <1>4, FS_Subset
  <2>3. Cardinality((F \cup W) \cap R) \in Nat
    BY <2>2, FS_CardinalityType
  <2> QED
    BY <2>1, <2>3, <1>1, <1>4, <1>7
<1>9. Cardinality(Co) <= Cardinality((F \cup W) \cup R) /\ Cardinality((F \cup W) \cup R) \in Nat
  BY <1>5, <1>8, FS_Subset, FS_CardinalityType
<1> QED
  BY <1>1, <1>4, <1>6, <1>8, <1>9

\* co_create gives a coroutine that nothing else leads to and that has no request.
LEMMA Created ==
    ASSUME RpcTypes, NEW s \in Service, Local(s), CoCreate(s),
           \/ running_thread[s] = 0
           \/ sessionGen[s] < MaxSession
           \/ Len(fork_queue[s]) < MaxForks
    PROVE  /\ NextCo(s) \in Co /\ ~Has(fork_queue[s], NextCo(s)) /\ ~Has(session_id_coroutine[s], NextCo(s))
           /\ running_thread[s] # NextCo(s) /\ session_coroutine_id[s][NextCo(s)] = Nil
           /\ coroutine_pool' \in [Service -> Seq(Co)] /\ Distinct(coroutine_pool'[s])
           /\ \A t \in Service \ {s} : coroutine_pool'[t] = coroutine_pool[t]
           /\ \A b : Has(coroutine_pool'[s], b) <=> Has(coroutine_pool[s], b) /\ b # NextCo(s)
<1>1. /\ coroutine_pool \in [Service -> Seq(Co)] /\ coroutine_pool[s] \in Seq(Co) /\ Distinct(coroutine_pool[s])
      /\ \A c \in Co : Apart(s, c)
  BY DEF RpcTypes, ListTypes, Local, Alone
<1>2. CASE coroutine_pool[s] # <<>>
  <2>1. NextCo(s) = Last(coroutine_pool[s])
    BY <1>2 DEF NextCo
  <2>2. coroutine_pool' = [coroutine_pool EXCEPT ![s] = Front(coroutine_pool[s])]
    BY <1>2 DEF CoCreate
  <2>3. /\ Front(coroutine_pool[s]) \in Seq(Co) /\ Distinct(Front(coroutine_pool[s]))
        /\ NextCo(s) \in Co /\ Has(coroutine_pool[s], NextCo(s))
        /\ \A b : Has(Front(coroutine_pool[s]), b) <=> Has(coroutine_pool[s], b) /\ b # NextCo(s)
    BY <1>1, <1>2, <2>1, FrontDistinct
  <2>4. /\ coroutine_pool' \in [Service -> Seq(Co)] /\ coroutine_pool'[s] = Front(coroutine_pool[s])
        /\ \A t \in Service \ {s} : coroutine_pool'[t] = coroutine_pool[t]
    BY <2>2, <2>3, <1>1
  <2>5. session_coroutine_id[s][NextCo(s)] = Nil
    BY <2>3 DEF Local, Clean
  <2> QED
    BY <2>3, <2>4, <2>5, <1>1 DEF Apart
<1>3. CASE coroutine_pool[s] = <<>>
  <2>1. NextCo(s) \in Co /\ Places(s, NextCo(s)) = {}
    BY <1>3, FreeCo DEF NextCo, Local
  <2>2. ~Placed(s, NextCo(s))
    BY <2>1, PlacesPlaced
  <2>3. coroutine_pool' = coroutine_pool
    BY <1>1, <1>3 DEF CoCreate
  <2>4. session_coroutine_id[s][NextCo(s)] = Nil
    BY <2>1, <2>2 DEF Local, Clean
  <2>5. \A b : Has(coroutine_pool[s], b) <=> Has(coroutine_pool[s], b) /\ b # NextCo(s)
    BY <2>2 DEF Placed
  <2> QED
    BY <2>1, <2>2, <2>3, <2>4, <2>5, <1>1 DEF Placed
<1> QED
  BY <1>2, <1>3

-----------------------------------------------------------------------------
(* Putting a step together *)

\* The tables of another service stay as they are.
Same(t) ==
    /\ coroutine_pool'[t] = coroutine_pool[t] /\ fork_queue'[t] = fork_queue[t]
    /\ session_id_coroutine'[t] = session_id_coroutine[t] /\ running_thread'[t] = running_thread[t]
    /\ session_coroutine_id'[t] = session_coroutine_id[t]
    /\ session_coroutine_address'[t] = session_coroutine_address[t]
    /\ mode'[t] = mode[t] /\ sessionGen'[t] = sessionGen[t]

\* A service whose tables did not change keeps its part of the invariant.
LEMMA SameLocal ==
    ASSUME NEW t \in Service, Local(t), Same(t), t \in exited' => t \in exited
    PROVE  Local(t)'
<1>1. Alone(t)'
  BY DEF Local, Alone, Apart, Same
<1>2. Clean(t)'
  BY DEF Local, Clean, Placed, Same
<1>3. Bounds(t)'
  BY DEF Local, Bounds, Same
<1> QED
  BY <1>1, <1>2, <1>3 DEF Local

\* A coroutine gets no request by the step.
CoKept(d, c) ==
    session_coroutine_id'[d][c] \in Session /\ Placed(d, c)' =>
      /\ session_coroutine_id'[d][c] = session_coroutine_id[d][c]
      /\ session_coroutine_address'[d][c] = session_coroutine_address[d][c]
      /\ Placed(d, c)

\* So do its coroutines.
LEMMA SameCo ==
    ASSUME NEW t \in Service, Same(t), NEW c \in Co
    PROVE  CoKept(t, c)
  BY DEF Same, CoKept, Placed

\* Coroutines that got no new request keep the address they owe an answer.
LEMMA OwedKept ==
    ASSUME RpcInv, \A d \in Service : \A c \in Co : CoKept(d, c)
    PROVE  Owed'
  BY DEF RpcInv, Owed, CoKept

\* What the services own after a step of s.
LEMMA Assemble ==
    ASSUME RpcInv, NEW s \in Service, RpcTypes', Local(s)', \A t \in Service \ {s} : Same(t),
           exited' \subseteq exited \cup {s}, QueuesPlain', Owed', AllAwaited'
    PROVE  RpcInv'
<1>1. ASSUME NEW t \in Service PROVE Local(t)'
  <2>1. CASE t = s
    BY <2>1
  <2>2. CASE t # s
    BY <2>2, SameLocal DEF RpcInv
  <2> QED
    BY <2>1, <2>2
<1> QED
  BY <1>1 DEF RpcInv

-----------------------------------------------------------------------------
(* Lemmas about the queues *)

\* The first message is taken.
LEMMA QueueTaken ==
    ASSUME EnvTypes, QueuesPlain, NEW s \in Service, mq[s] # <<>>, mq' = [mq EXCEPT ![s] = Tail(@)]
    PROVE  /\ mq' \in [Service -> Seq(Message)] /\ QueuesPlain'
           /\ 1 \in DOMAIN mq[s] /\ Head(mq[s]) = mq[s][1] /\ mq[s][1] \in Message
           /\ \A t \in Service \ {s} : mq'[t] = mq[t]
           /\ \A i \in DOMAIN mq'[s] : i \in Nat \ {0} /\ i + 1 \in DOMAIN mq[s] /\ mq'[s][i] = mq[s][i + 1]
<1>1. mq \in [Service -> Seq(Message)] /\ mq[s] \in Seq(Message)
  BY DEF EnvTypes
<1>2. Len(mq[s]) \in Nat /\ Len(mq[s]) >= 1 /\ DOMAIN mq[s] = 1 .. Len(mq[s])
  BY <1>1
<1>3. Tail(mq[s]) \in Seq(Message) /\ Len(Tail(mq[s])) = Len(mq[s]) - 1
  BY <1>1, <1>2
<1>4. DOMAIN Tail(mq[s]) = 1 .. (Len(mq[s]) - 1)
  BY <1>2, <1>3
<1>5. \A i \in 1 .. (Len(mq[s]) - 1) : Tail(mq[s])[i] = mq[s][i + 1]
  BY <1>1, <1>2
<1>6. /\ mq' \in [Service -> Seq(Message)] /\ mq'[s] = Tail(mq[s])
      /\ \A t \in Service \ {s} : mq'[t] = mq[t]
  BY <1>1, <1>3
<1>7. \A i \in DOMAIN mq'[s] : i \in Nat \ {0} /\ i + 1 \in DOMAIN mq[s] /\ mq'[s][i] = mq[s][i + 1]
  BY <1>2, <1>4, <1>5, <1>6
<1>8. 1 \in DOMAIN mq[s] /\ Head(mq[s]) = mq[s][1] /\ mq[s][1] \in Message
  BY <1>1, <1>2
<1>9. QueuesPlain'
  BY <1>6, <1>7 DEF QueuesPlain
<1> QED
  BY <1>6, <1>7, <1>8, <1>9

\* A message is sent.
Sent(d, m) ==
    \A e \in Service : \A i \in DOMAIN mq'[e] :
      \/ i \in DOMAIN mq[e] /\ mq'[e][i] = mq[e][i]
      \/ d \in services /\ e = d /\ i = Len(mq[d]) + 1 /\ mq'[e][i] = m

\* PushMsg keeps the queues well-formed.
LEMMA QueueDelivered ==
    ASSUME EnvTypes, QueuesPlain, NEW d, NEW m \in Message, Deliver(d, m), Plain(m)
    PROVE  mq' \in [Service -> Seq(Message)] /\ QueuesPlain' /\ Sent(d, m)
<1>1. mq \in [Service -> Seq(Message)] /\ services \subseteq Service
  BY DEF EnvTypes
<1>2. CASE d \notin services
  BY <1>1, <1>2 DEF Deliver, Sent, QueuesPlain
<1>3. CASE d \in services
  <2>1. mq[d] \in Seq(Message) /\ d \in Service
    BY <1>1, <1>3
  <2>2. /\ Append(mq[d], m) \in Seq(Message) /\ DOMAIN mq[d] = 1 .. Len(mq[d]) /\ Len(mq[d]) \in Nat
        /\ DOMAIN Append(mq[d], m) = 1 .. (Len(mq[d]) + 1)
    BY <2>1
  <2>3. (\A i \in 1 .. Len(mq[d]) : Append(mq[d], m)[i] = mq[d][i]) /\ Append(mq[d], m)[Len(mq[d]) + 1] = m
    BY <2>1, <2>2
  <2>4. /\ mq' \in [Service -> Seq(Message)] /\ mq'[d] = Append(mq[d], m)
        /\ \A t \in Service \ {d} : mq'[t] = mq[t]
    BY <1>1, <1>3, <2>1, <2>2 DEF Deliver
  <2>5. Sent(d, m)
    BY <1>3, <2>2, <2>3, <2>4 DEF Sent
  <2>6. QueuesPlain'
    BY <2>5 DEF Sent, QueuesPlain
  <2> QED
    BY <2>4, <2>5, <2>6
<1> QED
  BY <1>2, <1>3

-----------------------------------------------------------------------------
(* Lemmas about the answers under way *)

\* Nothing is added: what leads to an answer after the step did so before it, in a
\* queue perhaps one place further back.
LEMMA Fewer ==
    ASSUME NEW s \in Service, NEW n \in Session, Awaited(s, n), NEW h \in [Service -> {0, 1}],
           mq' \in [Service -> Seq(Message)],
           InTimer(s, n)' => InTimer(s, n),
           \A d \in Service : \A i \in DOMAIN mq'[d] : InQueue(d, i, s, n)' => InQueue(d, i + h[d], s, n),
           \A d \in Service : InClosure(d, s, n)' => InClosure(d, s, n),
           \A d \in Service : \A c \in Co : InCo(d, c, s, n)' => InCo(d, c, s, n),
           InSome(s, n)' /\ n \in DOMAIN session_id_coroutine[s] => n \in DOMAIN session_id_coroutine'[s]
    PROVE  Awaited(s, n)'
<1>1. \A d \in Service : \A i, j \in DOMAIN mq'[d] : i \in Nat /\ j \in Nat /\ h[d] \in Nat /\ (i + h[d] = j + h[d] => i = j)
  <2> SUFFICES ASSUME NEW d \in Service, NEW i \in DOMAIN mq'[d], NEW j \in DOMAIN mq'[d]
               PROVE  i \in Nat /\ j \in Nat /\ h[d] \in Nat /\ (i + h[d] = j + h[d] => i = j)
    OBVIOUS
  <2>1. mq'[d] \in Seq(Message) /\ h[d] \in {0, 1}
    OBVIOUS
  <2>2. i \in Nat /\ j \in Nat
    BY <2>1
  <2> QED
    BY <2>1, <2>2
<1>2. \A d \in Service : \A i : InQueue(d, i, s, n) => i \in DOMAIN mq[d]
  BY DEF InQueue
<1>3. Once(s, n)
  BY DEF Awaited
<1>4. Once(s, n)'
  <2>1. ASSUME NEW d \in Service, NEW i \in DOMAIN mq'[d], InQueue(d, i, s, n)'
        PROVE  /\ ~InTimer(s, n)'
               /\ \A e \in Service : \A j \in DOMAIN mq'[e] : InQueue(e, j, s, n)' => e = d /\ j = i
    <3>1. InQueue(d, i + h[d], s, n)
      BY <2>1
    <3>2. ASSUME NEW e \in Service, NEW j \in DOMAIN mq'[e], InQueue(e, j, s, n)'
          PROVE  e = d /\ j = i
      <4>1. InQueue(e, j + h[e], s, n)
        BY <3>2
      <4>2. e = d /\ j + h[e] = i + h[d]
        BY <3>1, <4>1, <1>2, <1>3 DEF Once
      <4> QED
        BY <4>2, <1>1
    <3> QED
      BY <3>1, <3>2, <1>2, <1>3 DEF Once
  <2>2. ASSUME NEW d \in Service, InClosure(d, s, n)'
        PROVE  /\ ~InTimer(s, n)'
               /\ \A e \in Service : \A j \in DOMAIN mq'[e] : ~InQueue(e, j, s, n)'
               /\ \A e \in Service : InClosure(e, s, n)' => e = d
    BY <2>2, <1>2, <1>3 DEF Once
  <2>3. ASSUME NEW d \in Service, NEW c \in Co, InCo(d, c, s, n)'
        PROVE  /\ ~InTimer(s, n)'
               /\ \A e \in Service : \A j \in DOMAIN mq'[e] : ~InQueue(e, j, s, n)'
               /\ \A e \in Service : ~InClosure(e, s, n)'
               /\ \A e \in Service : \A b \in Co : InCo(e, b, s, n)' => e = d /\ b = c
    BY <2>3, <1>2, <1>3 DEF Once
  <2> QED
    BY <2>1, <2>2, <2>3 DEF Once
<1>5. InSome(s, n)' => InSome(s, n)
  BY <1>2 DEF InSome
<1> QED
  BY <1>4, <1>5 DEF Awaited

\* An answer is under way in one way only: nothing, the timer, a place in a queue, a
\* closure, a coroutine.
NoTimer(s, n) == ~InTimer(s, n)
NoQueue(s, n) == \A d \in Service : \A i \in DOMAIN mq[d] : ~InQueue(d, i, s, n)
NoClosure(s, n) == \A d \in Service : ~InClosure(d, s, n)
NoCo(s, n) == \A d \in Service : \A c \in Co : ~InCo(d, c, s, n)

\* Nothing leads to an answer: nothing to show.
LEMMA NoneUnderWay ==
    ASSUME NEW s \in Service, NEW n \in Session, NoTimer(s, n)', NoQueue(s, n)', NoClosure(s, n)', NoCo(s, n)'
    PROVE  Awaited(s, n)'
  BY DEF Awaited, Once, InSome, NoTimer, NoQueue, NoClosure, NoCo

\* Only a timer leads to an answer,
LEMMA OnlyTimer ==
    ASSUME NEW s \in Service, NEW n \in Session, n \in DOMAIN session_id_coroutine'[s],
           NoQueue(s, n)', NoClosure(s, n)', NoCo(s, n)'
    PROVE  Awaited(s, n)'
  BY DEF Awaited, Once, NoQueue, NoClosure, NoCo

\* or only one message of one queue,
LEMMA OnlyQueue ==
    ASSUME NEW s \in Service, NEW n \in Session, n \in DOMAIN session_id_coroutine'[s],
           NoTimer(s, n)', NoClosure(s, n)', NoCo(s, n)', NEW d, NEW k,
           \A e \in Service : \A j \in DOMAIN mq'[e] : InQueue(e, j, s, n)' => e = d /\ j = k
    PROVE  Awaited(s, n)'
  BY DEF Awaited, Once, NoTimer, NoClosure, NoCo

\* or only one closure,
LEMMA OnlyClosure ==
    ASSUME NEW s \in Service, NEW n \in Session, n \in DOMAIN session_id_coroutine'[s],
           NoTimer(s, n)', NoQueue(s, n)', NoCo(s, n)', NEW d, \A e \in Service : InClosure(e, s, n)' => e = d
    PROVE  Awaited(s, n)'
  BY DEF Awaited, Once, NoTimer, NoQueue, NoCo

\* or only one coroutine that handles the request.
LEMMA OnlyCo ==
    ASSUME NEW s \in Service, NEW n \in Session, n \in DOMAIN session_id_coroutine'[s],
           NoTimer(s, n)', NoQueue(s, n)', NoClosure(s, n)', NEW d, NEW c,
           \A e \in Service : \A b \in Co : InCo(e, b, s, n)' => e = d /\ b = c
    PROVE  Awaited(s, n)'
  BY DEF Awaited, Once, NoTimer, NoQueue, NoClosure

\* A session that is not awaited has no answer under way.
LEMMA NotAwaited ==
    ASSUME NEW s \in Service, NEW n \in Session, Awaited(s, n), n \notin DOMAIN session_id_coroutine[s]
    PROVE  NoTimer(s, n) /\ NoQueue(s, n) /\ NoClosure(s, n) /\ NoCo(s, n)
  BY DEF Awaited, InSome, NoTimer, NoQueue, NoClosure, NoCo

\* No timer, closure or coroutine is added for the session, and it is not forgotten.
Quiet(s, n) ==
    /\ InTimer(s, n)' => InTimer(s, n)
    /\ \A d \in Service : InClosure(d, s, n)' => InClosure(d, s, n)
    /\ \A d \in Service : \A c \in Co : InCo(d, c, s, n)' => InCo(d, c, s, n)
    /\ n \in DOMAIN session_id_coroutine[s] => n \in DOMAIN session_id_coroutine'[s]

\* A message to d that can lead to an answer for session n of s.
Carries(d, m, s, n) ==
    /\ m.session = n
    /\ \/ m.type = "LUA" /\ m.source = s
       \/ m.type = "RESPONSE" /\ d = s

\* A message that carries no answer for the session is pushed.
LEMMA SentFewer ==
    ASSUME RpcInv, mq' \in [Service -> Seq(Message)], NEW s \in Service \ exited, NEW n \in Session,
           NEW d, NEW m, Sent(d, m), d \in services => ~Carries(d, m, s, n), Quiet(s, n)
    PROVE  Awaited(s, n)'
<1> DEFINE h == [e \in Service |-> 0]
<1>1. h \in [Service -> {0, 1}]
  OBVIOUS
<1>2. ASSUME NEW e \in Service, NEW i \in DOMAIN mq'[e], InQueue(e, i, s, n)'
      PROVE  InQueue(e, i + h[e], s, n)
  <2>1. i + h[e] = i
    <3>1. mq'[e] \in Seq(Message)
      OBVIOUS
    <3>2. i \in Nat
      BY <3>1
    <3> QED
      BY <3>2
  <2>2. i \in DOMAIN mq[e] /\ mq'[e][i] = mq[e][i]
    <3>1. CASE d \in services /\ e = d /\ mq'[e][i] = m
      BY <1>2, <3>1 DEF Carries, InQueue
    <3>2. CASE ~(d \in services /\ e = d /\ mq'[e][i] = m)
      BY <3>2 DEF Sent
    <3> QED
      BY <3>1, <3>2
  <2>3. InQueue(e, i, s, n)
    BY <1>2, <2>2 DEF InQueue
  <2> QED
    BY <2>1, <2>3
<1>3. Awaited(s, n)
  BY DEF RpcInv, AllAwaited
<1> HIDE DEF h
<1> QED
  BY <1>1, <1>2, <1>3, Fewer DEF Quiet

\* The queues stay as they are.
LEMMA SameFewer ==
    ASSUME RpcInv, mq' = mq, NEW s \in Service \ exited, NEW n \in Session, Quiet(s, n)
    PROVE  Awaited(s, n)'
<1> DEFINE h == [e \in Service |-> 0]
<1>1. h \in [Service -> {0, 1}] /\ mq' \in [Service -> Seq(Message)]
  BY DEF RpcInv, RpcTypes, EnvTypes
<1>2. ASSUME NEW e \in Service, NEW i \in DOMAIN mq'[e], InQueue(e, i, s, n)'
      PROVE  InQueue(e, i + h[e], s, n)
  <2>1. i + h[e] = i
    <3>1. mq'[e] \in Seq(Message)
      BY <1>1
    <3>2. i \in Nat
      BY <3>1
    <3> QED
      BY <3>2
  <2>2. InQueue(e, i, s, n)
    BY <1>2 DEF InQueue
  <2> QED
    BY <2>1, <2>2
<1>3. Awaited(s, n)
  BY DEF RpcInv, AllAwaited
<1> HIDE DEF h
<1> QED
  BY <1>1, <1>2, <1>3, Fewer DEF Quiet

\* A message is popped: the ones behind it move up.
LEMMA TakenFewer ==
    ASSUME RpcInv, mq' \in [Service -> Seq(Message)], NEW s \in Service \ exited, NEW n \in Session,
           NEW x \in Service, \A t \in Service \ {x} : mq'[t] = mq[t],
           \A i \in DOMAIN mq'[x] : i \in Nat \ {0} /\ i + 1 \in DOMAIN mq[x] /\ mq'[x][i] = mq[x][i + 1],
           Quiet(s, n)
    PROVE  Awaited(s, n)'
<1> DEFINE h == [e \in Service |-> IF e = x THEN 1 ELSE 0]
<1>1. h \in [Service -> {0, 1}]
  OBVIOUS
<1>2. ASSUME NEW e \in Service, NEW i \in DOMAIN mq'[e], InQueue(e, i, s, n)'
      PROVE  InQueue(e, i + h[e], s, n)
  <2>1. CASE e = x
    <3>1. i + h[e] = i + 1
      BY <2>1
    <3>2. InQueue(e, i + 1, s, n)
      BY <2>1, <1>2 DEF InQueue
    <3> QED
      BY <3>1, <3>2
  <2>2. CASE e # x
    <3>1. mq'[e] \in Seq(Message) /\ h[e] = 0 /\ mq'[e] = mq[e]
      BY <2>2
    <3>2. i \in Nat
      BY <3>1
    <3>3. i + h[e] = i
      BY <3>1, <3>2
    <3>4. InQueue(e, i, s, n)
      BY <3>1, <1>2 DEF InQueue
    <3> QED
      BY <3>3, <3>4
  <2> QED
    BY <2>1, <2>2
<1>3. Awaited(s, n)
  BY DEF RpcInv, AllAwaited
<1> HIDE DEF h
<1> QED
  BY <1>1, <1>2, <1>3, Fewer DEF Quiet

\* The timers, closures and coroutines of a step in which nothing gets a request.
LEMMA QuietStep ==
    ASSUME NEW s \in Service, NEW n \in Session, timers' \subseteq timers,
           \A d \in Service : closures'[d] \subseteq closures[d],
           \A d \in Service : \A c \in Co : CoKept(d, c),
           n \in DOMAIN session_id_coroutine[s] => n \in DOMAIN session_id_coroutine'[s]
    PROVE  Quiet(s, n)
  BY DEF Quiet, InTimer, InClosure, InCo, CoKept

-----------------------------------------------------------------------------
(* Steps that leave the tables of starnet.lua alone *)

tables == <<sessionGen, coroutine_pool, session_id_coroutine, session_coroutine_id,
            session_coroutine_address, fork_queue, running_thread, mode>>

\* A step outside Lua leaves the tables of every service alone,
LEMMA TablesSame ==
    ASSUME UNCHANGED tables
    PROVE  \A t \in Service : Same(t)
  BY DEF tables, Same

\* so it has to keep the queues, and what leads to an answer, in order.
LEMMA Outside ==
    ASSUME RpcInv, UNCHANGED tables, exited' = exited, EnvTypes', QueuesPlain', AllAwaited'
    PROVE  RpcInv'
<1>1. ThreadTypes'
  BY DEF RpcInv, RpcTypes, ThreadTypes, tables
<1>2. ListTypes'
  BY DEF RpcInv, RpcTypes, ListTypes, tables
<1>3. \A t \in Service : Local(t)'
  BY TablesSame, SameLocal DEF RpcInv
<1>4. Owed'
  BY TablesSame, SameCo, OwedKept
<1> QED
  BY <1>1, <1>2, <1>3, <1>4 DEF RpcInv, RpcTypes

\* Such a step gives no coroutine a request.
LEMMA OutsideQuiet ==
    ASSUME UNCHANGED tables, timers' \subseteq timers, closures' = closures,
           NEW s \in Service, NEW n \in Session
    PROVE  Quiet(s, n)
<1>1. \A d \in Service : \A c \in Co : CoKept(d, c)
  BY TablesSame, SameCo
<1>2. session_id_coroutine' = session_id_coroutine
  BY DEF tables
<1> QED
  BY <1>1, <1>2, QuietStep

\* A message that is no request and no answer is sent.
LEMMA OutsideSent ==
    ASSUME RpcInv, UNCHANGED <<tables, exited, closures, timers>>, services' \subseteq services, handler' \subseteq Service,
           events' \in 0 .. MaxEvents, NEW d, NEW m \in Message, Deliver(d, m), m.session = 0, Plain(m)
    PROVE  RpcInv'
<1>1. EnvTypes /\ QueuesPlain
  BY DEF RpcInv, RpcTypes
<1>2. mq' \in [Service -> Seq(Message)] /\ QueuesPlain' /\ Sent(d, m)
  BY <1>1, QueueDelivered
<1>3. EnvTypes'
  BY <1>1, <1>2 DEF EnvTypes
<1>4. ASSUME NEW s \in Service \ exited, NEW n \in Session PROVE Awaited(s, n)'
  <2>1. Quiet(s, n)
    BY OutsideQuiet
  <2>2. ~Carries(d, m, s, n)
    BY DEF Carries, Session
  <2> QED
    BY <1>2, <2>1, <2>2, SentFewer
<1>5. AllAwaited'
  BY <1>4 DEF AllAwaited
<1> QED
  BY <1>2, <1>3, <1>5, Outside

\* Nothing is sent or taken.
LEMMA OutsideStill ==
    ASSUME RpcInv, UNCHANGED <<tables, exited, closures, timers, mq, events>>, services' \subseteq services,
           handler' \subseteq Service
    PROVE  RpcInv'
<1>1. EnvTypes' /\ QueuesPlain'
  BY DEF RpcInv, RpcTypes, EnvTypes, QueuesPlain
<1>2. ASSUME NEW s \in Service \ exited, NEW n \in Session PROVE Awaited(s, n)'
  BY OutsideQuiet, SameFewer
<1>3. AllAwaited'
  BY <1>2 DEF AllAwaited
<1> QED
  BY <1>1, <1>3, Outside

\* starnet.dispatch.
LEMMA SetHandlerStep ==
    ASSUME RpcInv, NEW s \in Service, SetHandler(s)
    PROVE  RpcInv'
<1>1. UNCHANGED <<tables, exited, closures, timers, mq, events>> /\ services' \subseteq services
  BY DEF SetHandler, envVars, ctxVars, tables
<1>2. handler' \subseteq Service
  BY DEF SetHandler, RpcInv, RpcTypes, EnvTypes
<1> QED
  BY <1>1, <1>2, OutsideStill

\* KillService.
LEMMA KillStep ==
    ASSUME RpcInv, NEW s \in Service, Kill(s)
    PROVE  RpcInv'
<1>1. UNCHANGED <<tables, exited, closures, timers, mq, events>> /\ services' \subseteq services
  BY DEF Kill, ownVars, ctxVars, tables
<1>2. handler' \subseteq Service
  BY DEF Kill, ownVars, RpcInv, RpcTypes, EnvTypes
<1> QED
  BY <1>1, <1>2, OutsideStill

\* starnet.send: a message without a session asks for no answer.
LEMMA SendStep ==
    ASSUME RpcInv, NEW s \in Service, NEW d \in Service, SendMsg(s, d)
    PROVE  RpcInv'
<1> DEFINE m == [type |-> "LUA", source |-> s, session |-> 0]
<1>1. m \in Message /\ m.session = 0 /\ Deliver(d, m) /\ Plain(m)
  BY RpcAssumption DEF SendMsg, Message, MsgType, Plain
<1>2. UNCHANGED <<tables, exited, closures, timers>> /\ services' \subseteq services
  BY DEF SendMsg, ownVars, ctxVars, tables
<1>3. handler' \subseteq Service /\ events' \in 0 .. MaxEvents
  BY RpcAssumption DEF SendMsg, ownVars, RpcInv, RpcTypes, EnvTypes
<1> HIDE DEF m
<1> QED
  BY <1>1, <1>2, <1>3, OutsideSent

\* A socket event asks for no answer either.
LEMMA SocketStep ==
    ASSUME RpcInv, NEW s \in Service, SocketEvent(s)
    PROVE  RpcInv'
<1> DEFINE m == [type |-> "SOCKET", source |-> NoId, session |-> 0]
<1>1. m \in Message /\ m.session = 0 /\ Deliver(s, m) /\ Plain(m)
  BY RpcAssumption DEF SocketEvent, Message, MsgType, Plain
<1>2. UNCHANGED <<tables, exited, closures, timers>> /\ services' \subseteq services
  BY DEF SocketEvent, ownVars, ctxVars, tables
<1>3. handler' \subseteq Service /\ events' \in 0 .. MaxEvents
  BY RpcAssumption DEF SocketEvent, ownVars, RpcInv, RpcTypes, EnvTypes
<1> HIDE DEF m
<1> QED
  BY <1>1, <1>2, <1>3, OutsideSent

\* A message of a kind nobody handles is taken.
LEMMA ErrorStep ==
    ASSUME RpcInv, NEW s \in Service, DispatchError(s)
    PROVE  RpcInv'
<1>1. UNCHANGED <<tables, envVars, closures, handler>>
  BY DEF DispatchError, ownVars, ctxVars, tables
<1>2. EnvTypes /\ QueuesPlain /\ mq[s] # <<>> /\ mq' = [mq EXCEPT ![s] = Tail(@)]
  BY DEF DispatchError, Take, RpcInv, RpcTypes
<1>3. /\ mq' \in [Service -> Seq(Message)] /\ QueuesPlain' /\ \A t \in Service \ {s} : mq'[t] = mq[t]
      /\ \A i \in DOMAIN mq'[s] : i \in Nat \ {0} /\ i + 1 \in DOMAIN mq[s] /\ mq'[s][i] = mq[s][i + 1]
  BY <1>2, QueueTaken
<1>4. EnvTypes'
  BY <1>1, <1>2, <1>3 DEF EnvTypes, envVars
<1>5. ASSUME NEW t \in Service \ exited, NEW n \in Session PROVE Awaited(t, n)'
  BY <1>1, <1>3, OutsideQuiet, TakenFewer DEF envVars
<1>6. AllAwaited'
  BY <1>1, <1>5 DEF AllAwaited, envVars
<1> QED
  BY <1>1, <1>3, <1>4, <1>6, Outside DEF envVars

\* The messages of a closed service are answered with errors.
LEMMA DropStep ==
    ASSUME RpcInv, NEW s \in Service, dropMessage(s)
    PROVE  RpcInv'
<1> DEFINE err == [type |-> "ERROR", source |-> NoId, session |-> Head(mq[s]).session]
           h == [e \in Service |-> IF e = s THEN 1 ELSE 0]
<1>1. UNCHANGED <<tables, envVars, closures, handler>>
  BY DEF dropMessage, ownVars, ctxVars, tables
<1>2. EnvTypes /\ QueuesPlain /\ mq \in [Service -> Seq(Message)] /\ mq[s] # <<>>
  BY DEF dropMessage, RpcInv, RpcTypes, EnvTypes
<1>3. err \in Message /\ err.type = "ERROR"
  <2>1. Head(mq[s]) \in Message
    BY <1>2
  <2> QED
    BY <2>1 DEF Message, MsgType
<1>4. PICK err0 \in Message : err0 = err /\ err0.type = "ERROR"
  BY <1>3
<1>5. /\ DOMAIN mq' = Service /\ mq'[s] = Tail(mq[s])
      /\ \A d \in Service \ {s} : mq'[d] = mq[d] \/ mq'[d] = Append(mq[d], err0)
  BY <1>4 DEF dropMessage
<1> HIDE DEF err
<1>6. mq' \in [Service -> Seq(Message)]
  <2>1. ASSUME NEW d \in Service PROVE mq'[d] \in Seq(Message)
    <3>1. mq[d] \in Seq(Message) /\ Append(mq[d], err0) \in Seq(Message)
      BY <1>2
    <3>2. Tail(mq[s]) \in Seq(Message)
      BY <1>2
    <3> QED
      BY <1>5, <3>1, <3>2
  <2>2. mq' = [d \in Service |-> mq'[d]]
    BY DEF dropMessage
  <2> QED
    BY <2>1, <2>2
<1>7. ASSUME NEW e \in Service, NEW i \in DOMAIN mq'[e], mq'[e][i].type # "ERROR"
      PROVE  i + h[e] \in DOMAIN mq[e] /\ mq'[e][i] = mq[e][i + h[e]]
  <2>1. mq[e] \in Seq(Message) /\ Len(mq[e]) \in Nat /\ DOMAIN mq[e] = 1 .. Len(mq[e])
    BY <1>2
  <2>2. CASE e = s
    <3>1. h[e] = 1 /\ mq'[e] = Tail(mq[e]) /\ mq[e] # <<>>
      BY <2>2, <1>2, <1>5
    <3>2. i \in 1 .. (Len(mq[e]) - 1) /\ Tail(mq[e])[i] = mq[e][i + 1]
      BY <3>1, <2>1
    <3> QED
      BY <3>1, <3>2, <2>1
  <2>3. CASE e # s
    <3>1. h[e] = 0 /\ (mq'[e] = mq[e] \/ mq'[e] = Append(mq[e], err0))
      BY <2>3, <1>5
    <3>2. CASE mq'[e] = mq[e]
      <4>1. i + h[e] = i
        BY <3>1, <3>2, <2>1
      <4> QED
        BY <4>1, <3>2
    <3>3. CASE mq'[e] = Append(mq[e], err0)
      <4>1. i \in 1 .. (Len(mq[e]) + 1)
        BY <3>3, <2>1
      <4>2. i # Len(mq[e]) + 1
        BY <3>3, <2>1, <1>4, <1>7
      <4>3. i \in 1 .. Len(mq[e]) /\ i + h[e] = i
        BY <4>1, <4>2, <3>1, <2>1
      <4> QED
        BY <4>3, <3>3, <2>1
    <3> QED
      BY <3>1, <3>2, <3>3
  <2> QED
    BY <2>2, <2>3
<1>8. QueuesPlain'
  BY <1>2, <1>7 DEF QueuesPlain, Plain
<1>9. EnvTypes'
  BY <1>1, <1>2, <1>6 DEF EnvTypes, envVars
<1>10. ASSUME NEW t \in Service \ exited, NEW n \in Session PROVE Awaited(t, n)'
  <2>1. h \in [Service -> {0, 1}]
    OBVIOUS
  <2>2. ASSUME NEW d \in Service, NEW i \in DOMAIN mq'[d], InQueue(d, i, t, n)'
        PROVE  InQueue(d, i + h[d], t, n)
    <3>1. mq'[d][i].type # "ERROR"
      BY <2>2 DEF InQueue
    <3>2. i + h[d] \in DOMAIN mq[d] /\ mq'[d][i] = mq[d][i + h[d]]
      BY <3>1, <1>7
    <3> QED
      BY <2>2, <3>2 DEF InQueue
  <2>3. Quiet(t, n)
    BY <1>1, OutsideQuiet DEF envVars
  <2>4. Awaited(t, n)
    BY DEF RpcInv, AllAwaited
  <2> HIDE DEF h
  <2> QED
    BY <1>6, <2>1, <2>2, <2>3, <2>4, Fewer DEF Quiet
<1>11. AllAwaited'
  BY <1>1, <1>10 DEF AllAwaited, envVars
<1> QED
  BY <1>1, <1>8, <1>9, <1>11, Outside DEF envVars

\* The timer's answer becomes a message.
LEMMA TimerStep ==
    ASSUME RpcInv, NEW s \in Service, NEW n \in Session, TimerFires(s, n)
    PROVE  RpcInv'
<1>1. PICK m : m = [type |-> "RESPONSE", source |-> NoId, session |-> n]
  OBVIOUS
<1>2. m \in Message /\ m.session = n /\ m.type = "RESPONSE" /\ Deliver(s, m)
  BY <1>1, RpcAssumption DEF TimerFires, Message, MsgType, Session
<1>3. UNCHANGED <<tables, exited, closures, handler, services, events>>
  BY DEF TimerFires, ownVars, ctxVars, tables
<1>4. <<s, n>> \in timers /\ timers' = timers \ {<<s, n>>}
  BY DEF TimerFires
<1>5. EnvTypes /\ QueuesPlain
  BY DEF RpcInv, RpcTypes
<1>6. mq' \in [Service -> Seq(Message)] /\ QueuesPlain' /\ Sent(s, m)
  BY <1>2, <1>5, QueueDelivered DEF Plain
<1>7. EnvTypes'
  BY <1>3, <1>4, <1>5, <1>6 DEF EnvTypes
<1>8. ASSUME NEW t \in Service \ exited, NEW k \in Session PROVE Awaited(t, k)'
  <2>1. Awaited(t, k)
    BY DEF RpcInv, AllAwaited
  <2>2. Quiet(t, k)
    BY <1>3, <1>4, OutsideQuiet
  <2>3. CASE t = s /\ k = n
    <3>1. InTimer(t, k) /\ InSome(t, k)
      BY <2>3, <1>4 DEF InTimer, InSome
    <3>2. k \in DOMAIN session_id_coroutine'[t]
      BY <2>1, <3>1, <1>3 DEF Awaited, tables
    <3>3. NoQueue(t, k) /\ NoClosure(t, k) /\ NoCo(t, k)
      BY <2>1, <3>1 DEF Awaited, Once, NoQueue, NoClosure, NoCo
    <3>4. NoTimer(t, k)' /\ NoClosure(t, k)' /\ NoCo(t, k)'
      BY <2>2, <2>3, <3>3, <1>4 DEF Quiet, NoTimer, InTimer, NoClosure, NoCo
    <3>5. PICK l : l = Len(mq[s]) + 1
      OBVIOUS
    <3>6. \A e \in Service : \A j \in DOMAIN mq'[e] : InQueue(e, j, t, k)' => e = s /\ j = l
      BY <1>6, <3>3, <3>5 DEF Sent, NoQueue, InQueue
    <3> QED
      BY <3>2, <3>4, <3>6, OnlyQueue
  <2>4. CASE ~(t = s /\ k = n)
    <3>1. ~Carries(s, m, t, k)
      BY <2>4, <1>2 DEF Carries
    <3> QED
      BY <3>1, <1>6, <2>2, SentFewer
  <2> QED
    BY <2>3, <2>4
<1>9. AllAwaited'
  BY <1>3, <1>8 DEF AllAwaited
<1> QED
  BY <1>3, <1>6, <1>7, <1>9, Outside

-----------------------------------------------------------------------------
(* Steps of starnet.lua that send and take nothing and give no coroutine a request *)

\* A step inside one service that starts nothing new.
LEMMA LocalStep ==
    ASSUME RpcInv, NEW s \in Service, RpcTypes', Local(s)', \A t \in Service \ {s} : Same(t),
           exited \subseteq exited', exited' \subseteq exited \cup {s}, mq' = mq, timers' \subseteq timers,
           \A d \in Service : closures'[d] \subseteq closures[d],
           \A c \in Co : CoKept(s, c),
           s \in exited' \/ DOMAIN session_id_coroutine[s] \subseteq DOMAIN session_id_coroutine'[s]
    PROVE  RpcInv'
<1>1. QueuesPlain'
  BY DEF RpcInv, QueuesPlain
<1>2. \A d \in Service : \A c \in Co : CoKept(d, c)
  BY SameCo
<1>3. ASSUME NEW t \in Service \ exited', NEW n \in Session PROVE Awaited(t, n)'
  <2>1. n \in DOMAIN session_id_coroutine[t] => n \in DOMAIN session_id_coroutine'[t]
    BY DEF Same
  <2>2. Quiet(t, n)
    BY <1>2, <2>1, QuietStep
  <2> QED
    BY <2>2, SameFewer
<1>4. AllAwaited'
  BY <1>3 DEF AllAwaited
<1> QED
  BY <1>1, <1>2, <1>4, OwedKept, Assemble

\* The oldest forked coroutine runs, or there is none.
LEMMA RunForkStep ==
    ASSUME RpcInv, NEW s \in Service, RunFork(s)
    PROVE  RpcInv'
<1>1. /\ UNCHANGED <<envVars, mq, handler, sessionGen, coroutine_pool, session_id_coroutine, closures>>
      /\ UNCHANGED ctxVars /\ mode[s] = "forks" /\ running_thread[s] = 0
  BY DEF RunFork, Running
<1>2. /\ RpcTypes /\ EnvTypes /\ ThreadTypes /\ ListTypes /\ Local(s)
  BY DEF RpcInv, RpcTypes
<1>3. EnvTypes'
  BY <1>1, <1>2 DEF EnvTypes, envVars
<1>4. \A c \in Co : c # 0
  BY RpcAssumption DEF Co
<1>5. CASE fork_queue[s] = <<>>
  <2>1. mode' = [mode EXCEPT ![s] = "idle"] /\ running_thread' = running_thread /\ fork_queue' = fork_queue
    BY <1>5 DEF RunFork
  <2>2. RpcTypes'
    BY <1>1, <1>2, <1>3, <2>1 DEF RpcTypes, ThreadTypes, ListTypes, ctxVars
  <2>3. mode'[s] = "idle"
    BY <2>1, <1>2 DEF ThreadTypes
  <2>4. Local(s)'
    BY <1>1, <1>2, <2>1, <2>3 DEF Local, Alone, Apart, Clean, Placed, Bounds, ctxVars, envVars
  <2>5. \A t \in Service \ {s} : Same(t)
    BY <1>1, <1>2, <2>1 DEF Same, ctxVars, ThreadTypes
  <2>6. \A c \in Co : CoKept(s, c)
    BY <1>1, <2>1 DEF CoKept, Placed, ctxVars
  <2> QED
    BY <1>1, <2>2, <2>4, <2>5, <2>6, LocalStep DEF envVars
<1>6. CASE fork_queue[s] # <<>>
  <2>1. PICK q : q = fork_queue[s]
    OBVIOUS
  <2>2. q \in Seq(Co) /\ q # <<>> /\ Distinct(q)
    BY <2>1, <1>2, <1>6 DEF ListTypes, Local, Alone
  <2>3. /\ Tail(q) \in Seq(Co) /\ Distinct(Tail(q)) /\ Head(q) \in Co /\ Has(q, Head(q))
        /\ Len(Tail(q)) = Len(q) - 1 /\ \A c : Has(Tail(q), c) <=> Has(q, c) /\ c # Head(q)
    BY <2>2, TailDistinct
  <2>4. /\ running_thread' = [running_thread EXCEPT ![s] = Head(q)]
        /\ fork_queue' = [fork_queue EXCEPT ![s] = Tail(q)] /\ mode' = mode
    BY <1>6, <2>1 DEF RunFork
  <2>5. /\ fork_queue'[s] = Tail(q) /\ running_thread'[s] = Head(q)
        /\ \A t \in Service \ {s} : fork_queue'[t] = fork_queue[t] /\ running_thread'[t] = running_thread[t]
    BY <1>2, <2>4 DEF ListTypes, ThreadTypes
  <2>6. ThreadTypes'
    BY <1>1, <1>2, <2>3, <2>4 DEF ThreadTypes, ctxVars
  <2>7. ListTypes'
    BY <1>1, <1>2, <2>3, <2>4 DEF ListTypes
  <2>8. Alone(s)'
    <3>1. Distinct(fork_queue'[s]) /\ Distinct(coroutine_pool'[s]) /\ Distinct(session_id_coroutine'[s])
      BY <1>1, <1>2, <2>3, <2>5 DEF Local, Alone
    <3>2. ASSUME NEW c \in Co PROVE Apart(s, c)'
      BY <1>1, <1>2, <2>1, <2>3, <2>5 DEF Local, Alone, Apart
    <3> QED
      BY <3>1, <3>2 DEF Alone
  <2>9. \A c \in Co : Placed(s, c)' <=> Placed(s, c)
    BY <1>1, <1>4, <2>1, <2>3, <2>5 DEF Placed
  <2>10. Clean(s)'
    BY <1>1, <1>2, <2>1, <2>3, <2>5, <2>9 DEF Local, Clean, ctxVars
  <2>11. Bounds(s)'
    <3>1. Len(q) \in Nat /\ Len(q) <= MaxForks /\ MaxForks \in Nat
      BY <1>2, <2>1, <2>2, RpcAssumption DEF Local, Bounds
    <3>2. Len(fork_queue'[s]) <= MaxForks
      BY <2>3, <2>5, <3>1
    <3> QED
      BY <1>1, <1>2, <2>4, <3>2 DEF Local, Bounds, envVars
  <2>12. \A c \in Co : CoKept(s, c)
    BY <1>1, <2>9 DEF CoKept, ctxVars
  <2>13. \A t \in Service \ {s} : Same(t)
    BY <1>1, <2>4, <2>5 DEF Same, ctxVars
  <2>14. RpcTypes' /\ Local(s)'
    BY <1>3, <2>6, <2>7, <2>8, <2>10, <2>11 DEF RpcTypes, Local
  <2> QED
    BY <1>1, <2>12, <2>13, <2>14, LocalStep DEF envVars
<1> QED
  BY <1>5, <1>6

\* What Back and ClearContext leave.
LEMMA BackTypes ==
    ASSUME ThreadTypes, NEW s \in Service, Back(s)
    PROVE  /\ running_thread' \in [Service -> {0} \cup Co] /\ running_thread'[s] = 0
           /\ mode' \in [Service -> {"start", "idle", "message", "socket", "forks"}]
           /\ \A t \in Service \ {s} : running_thread'[t] = running_thread[t] /\ mode'[t] = mode[t]
  BY DEF Back, ThreadTypes

\* Clearing the request of a coroutine leaves the others alone.
LEMMA ClearTypes ==
    ASSUME ThreadTypes, NEW s \in Service, NEW c \in Co, ClearContext(s, c)
    PROVE  /\ session_coroutine_id' \in [Service -> [Co -> 0 .. MaxSession \cup {Nil}]]
           /\ session_coroutine_address' \in [Service -> [Co -> Service \cup {NoId, Nil}]]
           /\ session_coroutine_id'[s][c] = Nil /\ session_coroutine_address'[s][c] = Nil
           /\ \A b \in Co \ {c} : /\ session_coroutine_id'[s][b] = session_coroutine_id[s][b]
                                  /\ session_coroutine_address'[s][b] = session_coroutine_address[s][b]
           /\ \A t \in Service \ {s} : /\ session_coroutine_id'[t] = session_coroutine_id[t]
                                       /\ session_coroutine_address'[t] = session_coroutine_address[t]
  BY DEF ClearContext, ThreadTypes

\* A service in which something runs is not closed.
LEMMA RunsOpen ==
    ASSUME RpcInv, NEW s \in Service, Running(s)
    PROVE  s \notin exited /\ Me(s) \in Co /\ running_thread[s] = Me(s) /\ Me(s) # 0
  BY DEF RpcInv, RpcTypes, ThreadTypes, Local, Bounds, Running, Me

\* The coroutine that runs is dropped, by an error or for good.
LEMMA Dropped ==
    ASSUME RpcInv, NEW s \in Service, Running(s), ClearContext(s, Me(s)), Back(s), services' \subseteq services,
           UNCHANGED <<exited, timers, events, mq, handler, sessionGen, coroutine_pool, session_id_coroutine,
                       fork_queue, closures>>
    PROVE  RpcInv'
<1>1. RpcTypes /\ EnvTypes /\ ThreadTypes /\ ListTypes /\ Local(s)
  BY DEF RpcInv, RpcTypes
<1>2. PICK m \in Co : m = Me(s)
  BY RunsOpen
<1>3. s \notin exited /\ running_thread[s] = m
  BY <1>2, RunsOpen
<1>4. ClearContext(s, m)
  BY <1>2
<1>5. /\ session_coroutine_id' \in [Service -> [Co -> 0 .. MaxSession \cup {Nil}]]
      /\ session_coroutine_address' \in [Service -> [Co -> Service \cup {NoId, Nil}]]
      /\ session_coroutine_id'[s][m] = Nil /\ session_coroutine_address'[s][m] = Nil
      /\ \A b \in Co \ {m} : /\ session_coroutine_id'[s][b] = session_coroutine_id[s][b]
                             /\ session_coroutine_address'[s][b] = session_coroutine_address[s][b]
      /\ \A t \in Service \ {s} : /\ session_coroutine_id'[t] = session_coroutine_id[t]
                                  /\ session_coroutine_address'[t] = session_coroutine_address[t]
  BY <1>1, <1>4, ClearTypes
<1>6. /\ running_thread' \in [Service -> {0} \cup Co] /\ running_thread'[s] = 0
      /\ mode' \in [Service -> {"start", "idle", "message", "socket", "forks"}]
      /\ \A t \in Service \ {s} : running_thread'[t] = running_thread[t] /\ mode'[t] = mode[t]
  BY <1>1, BackTypes
<1>7. EnvTypes'
  BY <1>1 DEF EnvTypes
<1>8. ThreadTypes' /\ ListTypes'
  BY <1>1, <1>5, <1>6 DEF ThreadTypes, ListTypes
<1>9. \A c \in Co : c # 0
  BY RpcAssumption DEF Co
<1>10. Alone(s)'
  BY <1>1, <1>6, <1>9 DEF Local, Alone, Apart
<1>11. /\ \A c \in Co \ {m} : Placed(s, c)' <=> Placed(s, c)
       /\ ~Has(coroutine_pool[s], m) /\ ~Has(fork_queue[s], m) /\ ~Has(session_id_coroutine[s], m)
  BY <1>1, <1>3, <1>6, <1>9 DEF Placed, Local, Alone, Apart
<1>12. Clean(s)'
  <2> SUFFICES ASSUME NEW c \in Co,
                      \/ ~Placed(s, c)' \/ Has(coroutine_pool[s], c) \/ Has(fork_queue[s], c)
                      \/ session_coroutine_address'[s][c] = Nil
               PROVE  session_coroutine_id'[s][c] = Nil
    BY DEF Clean
  <2>1. CASE c = m
    BY <2>1, <1>5
  <2>2. CASE c # m
    BY <2>2, <1>1, <1>5, <1>11 DEF Local, Clean
  <2> QED
    BY <2>1, <2>2
<1>13. Bounds(s)'
  BY <1>1, <1>3, <1>6 DEF Local, Bounds
<1>14. \A c \in Co : CoKept(s, c)
  BY <1>5, <1>11, RpcAssumption DEF CoKept, Session, Nil
<1>15. \A t \in Service \ {s} : Same(t)
  BY <1>5, <1>6 DEF Same
<1>16. RpcTypes' /\ Local(s)'
  BY <1>7, <1>8, <1>10, <1>12, <1>13 DEF RpcTypes, Local
<1> QED
  BY <1>14, <1>15, <1>16, LocalStep

\* A handler raises an error: its coroutine is dropped with its request.
LEMMA FailStep ==
    ASSUME RpcInv, NEW s \in Service, Fail(s)
    PROVE  RpcInv'
<1>1. services' \subseteq services
  BY DEF Fail, envVars
<1> QED
  BY <1>1, Dropped DEF Fail, envVars

\* starnet.exit.
LEMMA ExitSelfStep ==
    ASSUME RpcInv, NEW s \in Service, ExitSelf(s)
    PROVE  RpcInv'
<1>1. services' \subseteq services /\ Running(s)
  BY DEF ExitSelf, Runs
<1> QED
  BY <1>1, Dropped DEF ExitSelf

\* The function of the coroutine that runs ends, and the coroutine is recycled.
LEMMA FinishStep ==
    ASSUME RpcInv, NEW s \in Service, Finish(s)
    PROVE  RpcInv'
<1>1. RpcTypes /\ EnvTypes /\ ThreadTypes /\ ListTypes /\ Local(s)
  BY DEF RpcInv, RpcTypes
<1>2. PICK m \in Co : m = Me(s)
  BY RunsOpen DEF Finish
<1>3. s \notin exited /\ running_thread[s] = m
  BY <1>2, RunsOpen DEF Finish
<1>4. /\ UNCHANGED <<services, exited, timers, events, mq, handler, sessionGen, session_id_coroutine, fork_queue, closures>>
      /\ Back(s) /\ coroutine_pool' = [coroutine_pool EXCEPT ![s] = Append(coroutine_pool[s], m)]
  BY <1>2 DEF Finish, envVars
<1>5. /\ session_coroutine_id' \in [Service -> [Co -> 0 .. MaxSession \cup {Nil}]]
      /\ session_coroutine_address' \in [Service -> [Co -> Service \cup {NoId, Nil}]]
      /\ session_coroutine_id'[s][m] = Nil
      /\ \A b \in Co \ {m} : /\ session_coroutine_id'[s][b] = session_coroutine_id[s][b]
                             /\ session_coroutine_address'[s][b] = session_coroutine_address[s][b]
      /\ \A t \in Service \ {s} : /\ session_coroutine_id'[t] = session_coroutine_id[t]
                                  /\ session_coroutine_address'[t] = session_coroutine_address[t]
  <2>1. CASE session_coroutine_address[s][m] = Nil
    <3>1. UNCHANGED <<session_coroutine_id, session_coroutine_address>>
      BY <1>2, <2>1 DEF Finish, ctxVars
    <3>2. session_coroutine_id[s][m] = Nil
      BY <1>1, <2>1 DEF Local, Clean
    <3> QED
      BY <3>1, <3>2, <1>1 DEF ThreadTypes
  <2>2. CASE session_coroutine_address[s][m] # Nil
    <3>1. ClearContext(s, m)
      BY <1>2, <2>2 DEF Finish
    <3> QED
      BY <3>1, <1>1, ClearTypes
  <2> QED
    BY <2>1, <2>2
<1>6. /\ running_thread' \in [Service -> {0} \cup Co] /\ running_thread'[s] = 0
      /\ mode' \in [Service -> {"start", "idle", "message", "socket", "forks"}]
      /\ \A t \in Service \ {s} : running_thread'[t] = running_thread[t] /\ mode'[t] = mode[t]
  BY <1>1, <1>4, BackTypes
<1>7. PICK q \in Seq(Co) : q = coroutine_pool[s] /\ Distinct(q)
  BY <1>1 DEF ListTypes, Local, Alone
<1>8. ~Has(coroutine_pool[s], m) /\ ~Has(fork_queue[s], m) /\ ~Has(session_id_coroutine[s], m)
  BY <1>1, <1>3 DEF Local, Alone, Apart
<1>9. /\ Append(q, m) \in Seq(Co) /\ Distinct(Append(q, m))
      /\ \A b : Has(Append(q, m), b) <=> Has(q, b) \/ b = m
  BY <1>7, <1>8, AppendDistinct
<1>10. /\ coroutine_pool' \in [Service -> Seq(Co)] /\ coroutine_pool'[s] = Append(q, m)
       /\ \A t \in Service \ {s} : coroutine_pool'[t] = coroutine_pool[t]
  BY <1>1, <1>4, <1>7, <1>9 DEF ListTypes
<1>11. EnvTypes'
  BY <1>1, <1>4 DEF EnvTypes
<1>12. ThreadTypes' /\ ListTypes'
  BY <1>1, <1>4, <1>5, <1>6, <1>10 DEF ThreadTypes, ListTypes
<1>13. \A c \in Co : c # 0
  BY RpcAssumption DEF Co
<1>14. Alone(s)'
  <2>1. Distinct(fork_queue'[s]) /\ Distinct(coroutine_pool'[s]) /\ Distinct(session_id_coroutine'[s])
    BY <1>1, <1>4, <1>9, <1>10 DEF Local, Alone
  <2>2. ASSUME NEW c \in Co PROVE Apart(s, c)'
    BY <1>1, <1>3, <1>4, <1>6, <1>7, <1>8, <1>9, <1>10, <1>13 DEF Local, Alone, Apart
  <2> QED
    BY <2>1, <2>2 DEF Alone
<1>15. \A c \in Co : Placed(s, c)' <=> Placed(s, c)
  BY <1>3, <1>4, <1>6, <1>7, <1>9, <1>10, <1>13 DEF Placed
<1>16. Clean(s)'
  <2> SUFFICES ASSUME NEW c \in Co,
                      \/ ~Placed(s, c)' \/ Has(coroutine_pool'[s], c) \/ Has(fork_queue'[s], c)
                      \/ session_coroutine_address'[s][c] = Nil
               PROVE  session_coroutine_id'[s][c] = Nil
    BY DEF Clean
  <2>1. CASE c = m
    BY <2>1, <1>5
  <2>2. CASE c # m
    BY <2>2, <1>1, <1>4, <1>5, <1>7, <1>9, <1>10, <1>15 DEF Local, Clean
  <2> QED
    BY <2>1, <2>2
<1>17. Bounds(s)'
  BY <1>1, <1>3, <1>4, <1>6 DEF Local, Bounds
<1>18. \A c \in Co : CoKept(s, c)
  BY <1>5, <1>15, RpcAssumption DEF CoKept, Session, Nil
<1>19. \A t \in Service \ {s} : Same(t)
  BY <1>4, <1>5, <1>6, <1>10 DEF Same
<1>20. RpcTypes' /\ Local(s)'
  BY <1>11, <1>12, <1>14, <1>16, <1>17 DEF RpcTypes, Local
<1> QED
  BY <1>4, <1>18, <1>19, <1>20, LocalStep

\* A coroutine is forked.
LEMMA ForkStep ==
    ASSUME RpcInv, NEW s \in Service, Fork(s)
    PROVE  RpcInv'
<1>1. RpcTypes /\ EnvTypes /\ ThreadTypes /\ ListTypes /\ Local(s)
  BY DEF RpcInv, RpcTypes
<1>2. PICK m : m = NextCo(s)
  OBVIOUS
<1>3. /\ UNCHANGED <<services, exited, timers, events, mq, handler, sessionGen, session_id_coroutine,
                     session_coroutine_id, session_coroutine_address, running_thread, mode, closures>>
      /\ CoCreate(s) /\ Len(fork_queue[s]) < MaxForks
      /\ fork_queue' = [fork_queue EXCEPT ![s] = Append(fork_queue[s], m)]
  BY <1>2 DEF Fork, envVars, ctxVars
<1>4. /\ m \in Co /\ ~Has(fork_queue[s], m) /\ ~Has(session_id_coroutine[s], m)
      /\ running_thread[s] # m /\ session_coroutine_id[s][m] = Nil
      /\ coroutine_pool' \in [Service -> Seq(Co)] /\ Distinct(coroutine_pool'[s])
      /\ \A t \in Service \ {s} : coroutine_pool'[t] = coroutine_pool[t]
      /\ \A b : Has(coroutine_pool'[s], b) <=> Has(coroutine_pool[s], b) /\ b # m
  BY <1>1, <1>2, <1>3, Created
<1>5. PICK q \in Seq(Co) : q = fork_queue[s] /\ Distinct(q) /\ Len(q) < MaxForks
  BY <1>1, <1>3 DEF ListTypes, Local, Alone
<1>6. /\ Append(q, m) \in Seq(Co) /\ Distinct(Append(q, m)) /\ Len(Append(q, m)) = Len(q) + 1
      /\ \A b : Has(Append(q, m), b) <=> Has(q, b) \/ b = m
  BY <1>4, <1>5, AppendDistinct
<1>7. /\ fork_queue' \in [Service -> Seq(Co)] /\ fork_queue'[s] = Append(q, m)
      /\ \A t \in Service \ {s} : fork_queue'[t] = fork_queue[t]
  BY <1>1, <1>3, <1>5, <1>6 DEF ListTypes
<1>8. EnvTypes'
  BY <1>1, <1>3 DEF EnvTypes
<1>9. ThreadTypes' /\ ListTypes'
  BY <1>1, <1>3, <1>4, <1>7 DEF ThreadTypes, ListTypes
<1>10. Alone(s)'
  <2>1. Distinct(fork_queue'[s]) /\ Distinct(coroutine_pool'[s]) /\ Distinct(session_id_coroutine'[s])
    BY <1>1, <1>3, <1>4, <1>6, <1>7 DEF Local, Alone
  <2>2. ASSUME NEW c \in Co PROVE Apart(s, c)'
    BY <1>1, <1>3, <1>4, <1>5, <1>6, <1>7 DEF Local, Alone, Apart
  <2> QED
    BY <2>1, <2>2 DEF Alone
<1>11. \A c \in Co \ {m} : Placed(s, c)' <=> Placed(s, c)
  BY <1>3, <1>4, <1>5, <1>6, <1>7 DEF Placed
<1>12. Clean(s)'
  <2> SUFFICES ASSUME NEW c \in Co,
                      \/ ~Placed(s, c)' \/ Has(coroutine_pool'[s], c) \/ Has(fork_queue'[s], c)
                      \/ session_coroutine_address'[s][c] = Nil
               PROVE  session_coroutine_id'[s][c] = Nil
    BY DEF Clean
  <2>1. CASE c = m
    BY <2>1, <1>3, <1>4
  <2>2. CASE c # m
    BY <2>2, <1>1, <1>3, <1>4, <1>5, <1>6, <1>7, <1>11 DEF Local, Clean
  <2> QED
    BY <2>1, <2>2
<1>13. Bounds(s)'
  <2>1. Len(fork_queue'[s]) <= MaxForks
    BY <1>5, <1>6, <1>7, RpcAssumption
  <2> QED
    BY <1>1, <1>3, <2>1 DEF Local, Bounds
<1>14. \A c \in Co : CoKept(s, c)
  BY <1>3, <1>4, <1>11, RpcAssumption DEF CoKept, Session, Nil
<1>15. \A t \in Service \ {s} : Same(t)
  BY <1>3, <1>4, <1>7 DEF Same
<1>16. RpcTypes' /\ Local(s)'
  BY <1>8, <1>9, <1>10, <1>12, <1>13 DEF RpcTypes, Local
<1> QED
  BY <1>3, <1>14, <1>15, <1>16, LocalStep

\* A killed service is closed: its Lua state is gone.
LEMMA ExitStep ==
    ASSUME RpcInv, NEW s \in Service, Exit(s)
    PROVE  RpcInv'
<1>1. RpcTypes /\ EnvTypes /\ ThreadTypes /\ ListTypes /\ Local(s)
  BY DEF RpcInv, RpcTypes
<1>2. /\ UNCHANGED <<services, timers, events, mq, handler, sessionGen, running_thread, mode>>
      /\ s \notin services /\ mode[s] = "idle" /\ exited' = exited \cup {s} /\ running_thread[s] = 0
  BY <1>1 DEF Exit, Local, Bounds
<1>3. /\ closures' = [closures EXCEPT ![s] = {}]
      /\ fork_queue' = [fork_queue EXCEPT ![s] = <<>>]
      /\ coroutine_pool' = [coroutine_pool EXCEPT ![s] = <<>>]
      /\ session_id_coroutine' = [session_id_coroutine EXCEPT ![s] = <<>>]
  BY DEF Exit
<1>4. /\ session_coroutine_id' = [session_coroutine_id EXCEPT ![s] = [c \in Co |-> Nil]]
      /\ session_coroutine_address' = [session_coroutine_address EXCEPT ![s] = [c \in Co |-> Nil]]
  BY DEF Exit
<1>5. DOMAIN (<<>>) = {} /\ <<>> \in Seq(Co) /\ Len(<<>>) = 0
  OBVIOUS
<1>6. /\ fork_queue'[s] = <<>> /\ coroutine_pool'[s] = <<>> /\ session_id_coroutine'[s] = <<>>
      /\ fork_queue' \in [Service -> Seq(Co)] /\ coroutine_pool' \in [Service -> Seq(Co)]
      /\ DOMAIN session_id_coroutine' = Service
      /\ \A t \in Service \ {s} : /\ fork_queue'[t] = fork_queue[t] /\ coroutine_pool'[t] = coroutine_pool[t]
                                  /\ session_id_coroutine'[t] = session_id_coroutine[t]
  BY <1>1, <1>3, <1>5 DEF ListTypes
<1>7. /\ session_coroutine_id' \in [Service -> [Co -> 0 .. MaxSession \cup {Nil}]]
      /\ session_coroutine_address' \in [Service -> [Co -> Service \cup {NoId, Nil}]]
      /\ \A c \in Co : session_coroutine_id'[s][c] = Nil
      /\ \A t \in Service \ {s} : /\ session_coroutine_id'[t] = session_coroutine_id[t]
                                  /\ session_coroutine_address'[t] = session_coroutine_address[t]
  BY <1>1, <1>4 DEF ThreadTypes
<1>8. /\ closures' \in [Service -> SUBSET (Service \X Session)]
      /\ \A d \in Service : closures'[d] \subseteq closures[d]
  BY <1>1, <1>3 DEF EnvTypes
<1>9. EnvTypes'
  BY <1>1, <1>2, <1>8 DEF EnvTypes
<1>10. ThreadTypes'
  BY <1>1, <1>2, <1>7 DEF ThreadTypes
<1>11. ListTypes'
  BY <1>1, <1>5, <1>6 DEF ListTypes
<1>12. Alone(s)'
  BY <1>6, EmptyDistinct DEF Alone, Apart
<1>13. Clean(s)'
  BY <1>7 DEF Clean
<1>14. Bounds(s)'
  BY <1>2, <1>5, <1>6, RpcAssumption DEF Bounds
<1>15. \A c \in Co : CoKept(s, c)
  BY <1>7, RpcAssumption DEF CoKept, Session, Nil
<1>16. \A t \in Service \ {s} : Same(t)
  BY <1>2, <1>6, <1>7 DEF Same
<1>17. RpcTypes' /\ Local(s)'
  BY <1>9, <1>10, <1>11, <1>12, <1>13, <1>14 DEF RpcTypes, Local
<1>18. exited \subseteq exited' /\ exited' \subseteq exited \cup {s} /\ s \in exited' /\ timers' \subseteq timers
  BY <1>2
<1> QED
  BY <1>2, <1>8, <1>15, <1>16, <1>17, <1>18, LocalStep

-----------------------------------------------------------------------------
(* Steps that begin to wait for an answer *)

\* Coroutine c is registered under a new session, by the coroutine that runs or for it.
Registers(s, n, c) ==
    /\ n = sessionGen[s] + 1 /\ n \in Session /\ n \notin DOMAIN session_id_coroutine[s]
    /\ sessionGen' \in [Service -> 0 .. MaxSession] /\ sessionGen'[s] = n
    /\ \A t \in Service \ {s} : sessionGen'[t] = sessionGen[t] /\ session_id_coroutine'[t] = session_id_coroutine[t]
    /\ DOMAIN session_id_coroutine' = Service /\ DOMAIN session_id_coroutine'[s] = DOMAIN session_id_coroutine[s] \cup {n}
    /\ Distinct(session_id_coroutine'[s])
    /\ \A k \in DOMAIN session_id_coroutine'[s] : session_id_coroutine'[s][k] \in Co
    /\ \A b : Has(session_id_coroutine'[s], b) <=> Has(session_id_coroutine[s], b) \/ b = c
    /\ DOMAIN session_id_coroutine'[s] \subseteq 1 .. sessionGen'[s]

\* What it means that a coroutine waits under a fresh session.
LEMMA Registered ==
    ASSUME RpcInv, NEW s \in Service, NewSession(s), NEW n, n = sessionGen[s] + 1, NEW c \in Co, Await(s, n, c),
           ~Has(session_id_coroutine[s], c)
    PROVE  Registers(s, n, c)
<1>1. ThreadTypes /\ ListTypes /\ Local(s)
  BY DEF RpcInv, RpcTypes
<1>2. /\ sessionGen[s] \in Nat /\ MaxSession \in Nat /\ sessionGen[s] < MaxSession
      /\ DOMAIN session_id_coroutine[s] \subseteq 1 .. sessionGen[s]
  BY <1>1, RpcAssumption DEF ThreadTypes, NewSession, Local, Bounds
<1>3. n \in 1 .. MaxSession /\ n \notin DOMAIN session_id_coroutine[s]
  BY <1>2
<1>4. PICK r : r = [k \in DOMAIN session_id_coroutine[s] \cup {n} |-> IF k = n THEN c ELSE session_id_coroutine[s][k]]
  OBVIOUS
<1>5. session_id_coroutine' = [session_id_coroutine EXCEPT ![s] = r]
  BY <1>4 DEF Await
<1>6. /\ DOMAIN session_id_coroutine' = Service /\ session_id_coroutine'[s] = r
      /\ \A t \in Service \ {s} : session_id_coroutine'[t] = session_id_coroutine[t]
  BY <1>1, <1>5 DEF ListTypes
<1>7. Distinct(session_id_coroutine[s])
  BY <1>1 DEF Local, Alone
<1>8. /\ DOMAIN r = DOMAIN session_id_coroutine[s] \cup {n} /\ r[n] = c
      /\ \A k \in DOMAIN session_id_coroutine[s] : r[k] = session_id_coroutine[s][k]
  BY <1>3, <1>4
<1>9. Distinct(r) /\ \A b : Has(r, b) <=> Has(session_id_coroutine[s], b) \/ b = c
  BY <1>3, <1>7, <1>8, AwaitDistinct
<1>10. \A k \in DOMAIN r : r[k] \in Co
  BY <1>1, <1>8 DEF ListTypes
<1>11. /\ sessionGen' \in [Service -> 0 .. MaxSession] /\ sessionGen'[s] = n
       /\ \A t \in Service \ {s} : sessionGen'[t] = sessionGen[t]
  BY <1>1, <1>2 DEF ThreadTypes, NewSession
<1>12. DOMAIN r \subseteq 1 .. n
  BY <1>2, <1>8
<1> QED
  BY <1>3, <1>6, <1>8, <1>9, <1>10, <1>11, <1>12 DEF Registers, Session

\* What the tables of s are after such a step.
Waits(s) ==
    /\ ThreadTypes' /\ ListTypes' /\ Local(s)'
    /\ \A t \in Service \ {s} : Same(t)
    /\ \A c \in Co : CoKept(s, c)

\* call and sleep: the coroutine that runs waits.
LEMMA RunningWaits ==
    ASSUME RpcInv, NEW s \in Service, Running(s), NEW n, NEW m \in Co, m = Me(s), Registers(s, n, m), Back(s),
           UNCHANGED <<exited, coroutine_pool, session_coroutine_id, session_coroutine_address, fork_queue>>
    PROVE  Waits(s)
<1>1. ThreadTypes /\ ListTypes /\ Local(s)
  BY DEF RpcInv, RpcTypes
<1>2. s \notin exited /\ running_thread[s] = m
  BY RunsOpen
<1>3. /\ running_thread' \in [Service -> {0} \cup Co] /\ running_thread'[s] = 0
      /\ mode' \in [Service -> {"start", "idle", "message", "socket", "forks"}]
      /\ \A t \in Service \ {s} : running_thread'[t] = running_thread[t] /\ mode'[t] = mode[t]
  BY <1>1, BackTypes
<1>4. ThreadTypes'
  BY <1>1, <1>3 DEF ThreadTypes, Registers
<1>5. ListTypes'
  <2>1. ASSUME NEW t \in Service
        PROVE  /\ DOMAIN session_id_coroutine'[t] \subseteq Session
               /\ \A k \in DOMAIN session_id_coroutine'[t] : session_id_coroutine'[t][k] \in Co
    BY <1>1 DEF ListTypes, Registers
  <2> QED
    BY <1>1, <2>1 DEF ListTypes, Registers
<1>6. ~Has(coroutine_pool[s], m) /\ ~Has(fork_queue[s], m) /\ ~Has(session_id_coroutine[s], m)
  BY <1>1, <1>2 DEF Local, Alone, Apart
<1>7. \A c \in Co : c # 0
  BY RpcAssumption DEF Co
<1>8. Alone(s)'
  <2>1. Distinct(fork_queue'[s]) /\ Distinct(coroutine_pool'[s]) /\ Distinct(session_id_coroutine'[s])
    BY <1>1 DEF Local, Alone, Registers
  <2>2. ASSUME NEW c \in Co PROVE Apart(s, c)'
    BY <1>1, <1>3, <1>6, <1>7 DEF Local, Alone, Apart, Registers
  <2> QED
    BY <2>1, <2>2 DEF Alone
<1>9. \A c \in Co : Placed(s, c)' <=> Placed(s, c)
  BY <1>2, <1>3, <1>7 DEF Placed, Registers
<1>10. Clean(s)'
  BY <1>1, <1>9 DEF Local, Clean
<1>11. Bounds(s)'
  BY <1>1, <1>2, <1>3 DEF Local, Bounds, Registers
<1>12. \A c \in Co : CoKept(s, c)
  BY <1>9 DEF CoKept
<1>13. \A t \in Service \ {s} : Same(t)
  BY <1>3 DEF Same, Registers
<1> QED
  BY <1>4, <1>5, <1>8, <1>10, <1>11, <1>12, <1>13 DEF Waits, Local

\* timeout: a new coroutine waits.
LEMMA NewWaits ==
    ASSUME RpcInv, NEW s \in Service, NEW n, NEW m, m = NextCo(s), CoCreate(s), NewSession(s), n = sessionGen[s] + 1,
           Await(s, n, m),
           UNCHANGED <<exited, session_coroutine_id, session_coroutine_address, fork_queue, running_thread, mode>>
    PROVE  Registers(s, n, m) /\ Waits(s)
<1>1. RpcTypes /\ ThreadTypes /\ ListTypes /\ Local(s)
  BY DEF RpcInv, RpcTypes
<1>2. /\ m \in Co /\ ~Has(fork_queue[s], m) /\ ~Has(session_id_coroutine[s], m)
      /\ running_thread[s] # m /\ session_coroutine_id[s][m] = Nil
      /\ coroutine_pool' \in [Service -> Seq(Co)] /\ Distinct(coroutine_pool'[s])
      /\ \A t \in Service \ {s} : coroutine_pool'[t] = coroutine_pool[t]
      /\ \A b : Has(coroutine_pool'[s], b) <=> Has(coroutine_pool[s], b) /\ b # m
  BY <1>1, Created DEF NewSession
<1>3. Registers(s, n, m)
  BY <1>2, Registered
<1>4. ThreadTypes'
  BY <1>1, <1>3 DEF ThreadTypes, Registers
<1>5. ListTypes'
  <2>1. ASSUME NEW t \in Service
        PROVE  /\ DOMAIN session_id_coroutine'[t] \subseteq Session
               /\ \A k \in DOMAIN session_id_coroutine'[t] : session_id_coroutine'[t][k] \in Co
    BY <1>1, <1>3 DEF ListTypes, Registers
  <2> QED
    BY <1>1, <1>2, <1>3, <2>1 DEF ListTypes, Registers
<1>6. Alone(s)'
  <2>1. Distinct(fork_queue'[s]) /\ Distinct(coroutine_pool'[s]) /\ Distinct(session_id_coroutine'[s])
    BY <1>1, <1>2, <1>3 DEF Local, Alone, Registers
  <2>2. ASSUME NEW c \in Co PROVE Apart(s, c)'
    BY <1>1, <1>2, <1>3 DEF Local, Alone, Apart, Registers
  <2> QED
    BY <2>1, <2>2 DEF Alone
<1>7. \A c \in Co \ {m} : Placed(s, c)' <=> Placed(s, c)
  BY <1>2, <1>3 DEF Placed, Registers
<1>8. Clean(s)'
  <2> SUFFICES ASSUME NEW c \in Co,
                      \/ ~Placed(s, c)' \/ Has(coroutine_pool'[s], c) \/ Has(fork_queue'[s], c)
                      \/ session_coroutine_address'[s][c] = Nil
               PROVE  session_coroutine_id'[s][c] = Nil
    BY DEF Clean
  <2>1. CASE c = m
    BY <2>1, <1>2
  <2>2. CASE c # m
    BY <2>2, <1>1, <1>2, <1>7 DEF Local, Clean
  <2> QED
    BY <2>1, <2>2
<1>9. Bounds(s)'
  BY <1>1, <1>3 DEF Local, Bounds, Registers
<1>10. \A c \in Co : CoKept(s, c)
  BY <1>2, <1>7, RpcAssumption DEF CoKept, Session, Nil
<1>11. \A t \in Service \ {s} : Same(t)
  BY <1>2, <1>3 DEF Same, Registers
<1> QED
  BY <1>3, <1>4, <1>5, <1>6, <1>8, <1>9, <1>10, <1>11 DEF Waits, Local

\* The session and its coroutine are new to all others.
LEMMA WaitsQuiet ==
    ASSUME RpcInv, NEW s \in Service, NEW n, NEW m, Registers(s, n, m), Waits(s), closures' = closures,
           NEW t \in Service, NEW k \in Session, InTimer(t, k)' => InTimer(t, k)
    PROVE  Quiet(t, k)
<1>1. \A d \in Service : \A c \in Co : CoKept(d, c)
  BY SameCo DEF Waits
<1>2. k \in DOMAIN session_id_coroutine[t] => k \in DOMAIN session_id_coroutine'[t]
  BY DEF Registers
<1> QED
  BY <1>1, <1>2 DEF Quiet, InClosure, InCo, CoKept

\* starnet.call: the request is the only thing that leads to the answer.
LEMMA CallStep ==
    ASSUME RpcInv, NEW s \in Service, NEW d \in Service, Call(s, d)
    PROVE  RpcInv'
<1>1. PICK n : n = sessionGen[s] + 1
  OBVIOUS
<1>2. PICK m \in Co : m = Me(s)
  BY RunsOpen DEF Call, Runs
<1>3. PICK msg : msg = [type |-> "LUA", source |-> s, session |-> n]
  OBVIOUS
<1>4. /\ UNCHANGED <<services, exited, timers, events, handler, coroutine_pool, session_coroutine_id,
                     session_coroutine_address, fork_queue, closures>>
      /\ Running(s) /\ NewSession(s) /\ Await(s, n, m) /\ Back(s) /\ Deliver(d, msg)
  BY <1>1, <1>2, <1>3 DEF Call, Runs, envVars, ctxVars
<1>5. ~Has(session_id_coroutine[s], m)
  BY <1>2, <1>4, RunsOpen DEF RpcInv, Local, Alone, Apart
<1>6. Registers(s, n, m)
  BY <1>1, <1>4, <1>5, Registered
<1>7. Waits(s)
  BY <1>2, <1>4, <1>6, RunningWaits
<1>8. EnvTypes /\ QueuesPlain
  BY DEF RpcInv, RpcTypes
<1>9. msg \in Message /\ msg.type = "LUA" /\ msg.source = s /\ msg.session = n
  BY <1>3, <1>6 DEF Message, MsgType, Registers, Session
<1>10. mq' \in [Service -> Seq(Message)] /\ QueuesPlain' /\ Sent(d, msg)
  BY <1>4, <1>8, <1>9, QueueDelivered DEF Plain
<1>11. EnvTypes'
  BY <1>4, <1>8, <1>10 DEF EnvTypes
<1>12. ASSUME NEW t \in Service \ exited, NEW k \in Session PROVE Awaited(t, k)'
  <2>1. Quiet(t, k)
    BY <1>4, <1>6, <1>7, WaitsQuiet DEF InTimer
  <2>2. CASE t = s /\ k = n
    <3>1. k \in DOMAIN session_id_coroutine'[t] /\ k \notin DOMAIN session_id_coroutine[t]
      BY <2>2, <1>6 DEF Registers
    <3>2. Awaited(t, k)
      BY DEF RpcInv, AllAwaited
    <3>3. NoTimer(t, k) /\ NoQueue(t, k) /\ NoClosure(t, k) /\ NoCo(t, k)
      BY <3>1, <3>2, NotAwaited
    <3>4. NoTimer(t, k)' /\ NoClosure(t, k)' /\ NoCo(t, k)'
      BY <2>1, <3>3 DEF Quiet, NoTimer, NoClosure, NoCo
    <3>5. PICK l : l = Len(mq[d]) + 1
      OBVIOUS
    <3>6. \A e \in Service : \A j \in DOMAIN mq'[e] : InQueue(e, j, t, k)' => e = d /\ j = l
      BY <1>10, <3>3, <3>5 DEF Sent, NoQueue, InQueue
    <3> QED
      BY <3>1, <3>4, <3>6, OnlyQueue
  <2>3. CASE ~(t = s /\ k = n)
    <3>1. ~Carries(d, msg, t, k)
      BY <2>3, <1>9 DEF Carries
    <3> QED
      BY <1>10, <2>1, <3>1, SentFewer
  <2> QED
    BY <2>2, <2>3
<1>13. AllAwaited'
  BY <1>4, <1>12 DEF AllAwaited
<1>14. Owed'
  BY <1>7, SameCo, OwedKept DEF Waits
<1> QED
  BY <1>4, <1>7, <1>10, <1>11, <1>13, <1>14, Assemble DEF Waits, RpcTypes

\* A timer is the only thing that leads to the answer of its session.
LEMMA TimerSet ==
    ASSUME RpcInv, NEW s \in Service, NEW n, NEW m, Registers(s, n, m), Waits(s), timers' = timers \cup {<<s, n>>},
           UNCHANGED <<services, exited, events, mq, handler, closures>>
    PROVE  RpcInv'
<1>1. EnvTypes /\ QueuesPlain
  BY DEF RpcInv, RpcTypes
<1>2. EnvTypes' /\ QueuesPlain'
  BY <1>1 DEF EnvTypes, QueuesPlain, Registers
<1>3. ASSUME NEW t \in Service \ exited, NEW k \in Session PROVE Awaited(t, k)'
  <2>1. Awaited(t, k)
    BY DEF RpcInv, AllAwaited
  <2>2. CASE t = s /\ k = n
    <3>1. k \in DOMAIN session_id_coroutine'[t] /\ k \notin DOMAIN session_id_coroutine[t]
      BY <2>2 DEF Registers
    <3>2. NoQueue(t, k) /\ NoClosure(t, k) /\ NoCo(t, k)
      BY <2>1, <3>1, NotAwaited
    <3>3. NoQueue(t, k)' /\ NoClosure(t, k)'
      BY <3>2 DEF NoQueue, InQueue, NoClosure, InClosure
    <3>4. \A e \in Service : \A c \in Co : CoKept(e, c)
      BY SameCo DEF Waits
    <3>5. NoCo(t, k)'
      BY <3>2, <3>4 DEF NoCo, InCo, CoKept
    <3> QED
      BY <3>1, <3>3, <3>5, OnlyTimer
  <2>3. CASE ~(t = s /\ k = n)
    <3>1. InTimer(t, k)' => InTimer(t, k)
      BY <2>3 DEF InTimer
    <3>2. Quiet(t, k)
      BY <3>1, WaitsQuiet
    <3> QED
      BY <3>2, SameFewer
  <2> QED
    BY <2>2, <2>3
<1>4. AllAwaited'
  BY <1>3 DEF AllAwaited
<1>5. Owed'
  BY SameCo, OwedKept DEF Waits
<1> QED
  BY <1>2, <1>4, <1>5, Assemble DEF Waits, RpcTypes

\* starnet.sleep: the coroutine that runs waits for the timer.
LEMMA SleepStep ==
    ASSUME RpcInv, NEW s \in Service, Sleep(s)
    PROVE  RpcInv'
<1>1. PICK n : n = sessionGen[s] + 1
  OBVIOUS
<1>2. PICK m \in Co : m = Me(s)
  BY RunsOpen DEF Sleep, Runs
<1>3. /\ UNCHANGED <<services, exited, events, mq, handler, coroutine_pool, session_coroutine_id,
                     session_coroutine_address, fork_queue, closures>>
      /\ Running(s) /\ NewSession(s) /\ Await(s, n, m) /\ Back(s) /\ timers' = timers \cup {<<s, n>>}
  BY <1>1, <1>2 DEF Sleep, Runs, SetTimer, ctxVars
<1>4. ~Has(session_id_coroutine[s], m)
  BY <1>2, <1>3, RunsOpen DEF RpcInv, Local, Alone, Apart
<1>5. Registers(s, n, m)
  BY <1>1, <1>3, <1>4, Registered
<1>6. Waits(s)
  BY <1>2, <1>3, <1>5, RunningWaits
<1> QED
  BY <1>3, <1>5, <1>6, TimerSet

\* starnet.timeout: a new coroutine waits for the timer.
LEMMA TimeoutStep ==
    ASSUME RpcInv, NEW s \in Service, Timeout(s)
    PROVE  RpcInv'
<1>1. PICK n : n = sessionGen[s] + 1
  OBVIOUS
<1>2. PICK m : m = NextCo(s)
  OBVIOUS
<1>3. /\ UNCHANGED <<services, exited, events, mq, handler, session_coroutine_id, session_coroutine_address,
                     fork_queue, running_thread, mode, closures>>
      /\ CoCreate(s) /\ NewSession(s) /\ Await(s, n, m) /\ timers' = timers \cup {<<s, n>>}
  BY <1>1, <1>2 DEF Timeout, SetTimer, ctxVars
<1>4. Registers(s, n, m) /\ Waits(s)
  BY <1>1, <1>2, <1>3, NewWaits
<1> QED
  BY <1>3, <1>4, TimerSet

-----------------------------------------------------------------------------
(* Steps that answer *)

\* The right to answer leaves the coroutine that runs.
LEMMA RightTaken ==
    ASSUME RpcInv, NEW s \in Service, Running(s), NEW m \in Co, m = Me(s),
           session_coroutine_id' = [session_coroutine_id EXCEPT ![s][m] = Nil],
           UNCHANGED <<exited, sessionGen, coroutine_pool, session_id_coroutine, session_coroutine_address,
                       fork_queue, running_thread, mode>>
    PROVE  /\ ThreadTypes' /\ ListTypes' /\ Local(s)' /\ \A t \in Service \ {s} : Same(t)
           /\ session_coroutine_id'[s][m] = Nil
           /\ \A d \in Service : \A c \in Co : CoKept(d, c)
<1>1. ThreadTypes /\ ListTypes /\ Local(s)
  BY DEF RpcInv, RpcTypes
<1>2. /\ session_coroutine_id' \in [Service -> [Co -> 0 .. MaxSession \cup {Nil}]] /\ session_coroutine_id'[s][m] = Nil
      /\ \A b \in Co \ {m} : session_coroutine_id'[s][b] = session_coroutine_id[s][b]
      /\ \A t \in Service \ {s} : session_coroutine_id'[t] = session_coroutine_id[t]
  BY <1>1 DEF ThreadTypes
<1>3. ThreadTypes' /\ ListTypes'
  BY <1>1, <1>2 DEF ThreadTypes, ListTypes
<1>4. Alone(s)' /\ Bounds(s)'
  BY <1>1 DEF Local, Alone, Apart, Bounds
<1>5. \A c \in Co : Placed(s, c)' <=> Placed(s, c)
  BY DEF Placed
<1>6. Clean(s)'
  <2> SUFFICES ASSUME NEW c \in Co,
                      \/ ~Placed(s, c)' \/ Has(coroutine_pool'[s], c) \/ Has(fork_queue'[s], c)
                      \/ session_coroutine_address'[s][c] = Nil
               PROVE  session_coroutine_id'[s][c] = Nil
    BY DEF Clean
  <2>1. CASE c = m
    BY <2>1, <1>2
  <2>2. CASE c # m
    BY <2>2, <1>1, <1>2, <1>5 DEF Local, Clean
  <2> QED
    BY <2>1, <2>2
<1>7. \A t \in Service \ {s} : Same(t)
  BY <1>2 DEF Same
<1>8. \A c \in Co : CoKept(s, c)
  BY <1>2, <1>5, RpcAssumption DEF CoKept, Session, Nil
<1>9. \A d \in Service : \A c \in Co : CoKept(d, c)
  BY <1>7, <1>8, SameCo
<1> QED
  BY <1>2, <1>3, <1>4, <1>6, <1>7, <1>9 DEF Local

\* The request of the coroutine that runs is the only thing that leads to its answer.
LEMMA RightHeld ==
    ASSUME RpcInv, NEW s \in Service, NEW m \in Co, running_thread[s] = m, NEW n \in Session,
           session_coroutine_id[s][m] = n, NEW a, session_coroutine_address[s][m] = a
    PROVE  /\ a \in Service
           /\ a \notin exited =>
                /\ n \in DOMAIN session_id_coroutine[a] /\ NoTimer(a, n) /\ NoQueue(a, n) /\ NoClosure(a, n)
                /\ \A d \in Service : \A c \in Co : InCo(d, c, a, n) => d = s /\ c = m
<1>1. InCo(s, m, a, n)
  BY DEF InCo, Placed
<1>2. a \in Service
  BY <1>1 DEF InCo, RpcInv, Owed
<1>3. ASSUME a \notin exited
      PROVE  /\ n \in DOMAIN session_id_coroutine[a] /\ NoTimer(a, n) /\ NoQueue(a, n) /\ NoClosure(a, n)
             /\ \A d \in Service : \A c \in Co : InCo(d, c, a, n) => d = s /\ c = m
  <2>1. Awaited(a, n)
    BY <1>2, <1>3 DEF RpcInv, AllAwaited
  <2>2. n \in DOMAIN session_id_coroutine[a]
    BY <1>1, <2>1 DEF Awaited, InSome
  <2>3. NoTimer(a, n) /\ NoQueue(a, n) /\ NoClosure(a, n)
    BY <1>1, <2>1 DEF Awaited, Once, NoTimer, NoQueue, NoClosure
  <2>4. \A d \in Service : \A c \in Co : InCo(d, c, a, n) => d = s /\ c = m
    BY <1>1, <2>1 DEF Awaited, Once
  <2> QED
    BY <2>2, <2>3, <2>4
<1> QED
  BY <1>2, <1>3

\* A session a coroutine may have: none, that of a send, or a request's.
LEMMA SessionKinds ==
    ASSUME RpcInv, NEW s \in Service, NEW m \in Co, session_coroutine_id[s][m] \notin {Nil, 0}
    PROVE  session_coroutine_id[s][m] \in Session
<1>1. session_coroutine_id[s][m] \in 0 .. MaxSession \cup {Nil}
  BY DEF RpcInv, RpcTypes, ThreadTypes
<1> QED
  BY <1>1, RpcAssumption DEF Session

\* ret
LEMMA RetStep ==
    ASSUME RpcInv, NEW s \in Service, Ret(s)
    PROVE  RpcInv'
<1>1. PICK m \in Co : m = Me(s)
  BY RunsOpen DEF Ret, Runs
<1>2. Running(s) /\ s \notin exited /\ running_thread[s] = m
  BY <1>1, RunsOpen DEF Ret, Runs
<1>3. PICK n : n = session_coroutine_id[s][m]
  OBVIOUS
<1>4. PICK a : a = session_coroutine_address[s][m]
  OBVIOUS
<1>5. /\ UNCHANGED <<services, exited, timers, events, handler, sessionGen, coroutine_pool, session_id_coroutine,
                     session_coroutine_address, fork_queue, running_thread, mode, closures>>
      /\ n # Nil /\ session_coroutine_id' = [session_coroutine_id EXCEPT ![s][m] = Nil]
  BY <1>1, <1>3 DEF Ret, envVars
<1>6. /\ ThreadTypes' /\ ListTypes' /\ Local(s)' /\ \A t \in Service \ {s} : Same(t)
      /\ session_coroutine_id'[s][m] = Nil
      /\ \A d \in Service : \A c \in Co : CoKept(d, c)
  BY <1>1, <1>2, <1>5, RightTaken
<1>7. EnvTypes /\ QueuesPlain
  BY DEF RpcInv, RpcTypes
<1>8. CASE n = 0
  <2>1. mq' = mq
    BY <1>1, <1>3, <1>8 DEF Ret
  <2>2. EnvTypes'
    BY <1>5, <1>7, <2>1 DEF EnvTypes
  <2> QED
    BY <1>5, <1>6, <2>1, <2>2, LocalStep DEF RpcTypes
<1>9. CASE n # 0
  <2>1. n \in Session
    BY <1>3, <1>5, <1>9, SessionKinds
  <2>2. PICK msg : msg = [type |-> "RESPONSE", source |-> s, session |-> n]
    OBVIOUS
  <2>3. msg \in Message /\ msg.type = "RESPONSE" /\ msg.session = n /\ Plain(msg)
    BY <2>1, <2>2, RpcAssumption DEF Message, MsgType, Session, Plain
  <2>4. Deliver(a, msg)
    BY <1>1, <1>3, <1>4, <1>9, <2>2 DEF Ret
  <2>5. mq' \in [Service -> Seq(Message)] /\ QueuesPlain' /\ Sent(a, msg)
    BY <1>7, <2>3, <2>4, QueueDelivered
  <2>6. EnvTypes'
    BY <1>5, <1>7, <2>5 DEF EnvTypes
  <2>7. ASSUME NEW t \in Service \ exited, NEW k \in Session PROVE Awaited(t, k)'
    <3>1. Quiet(t, k)
      BY <1>5, <1>6, QuietStep
    <3>2. CASE t = a /\ k = n
      <4>1. /\ k \in DOMAIN session_id_coroutine[t] /\ NoTimer(t, k) /\ NoQueue(t, k) /\ NoClosure(t, k)
            /\ \A d \in Service : \A c \in Co : InCo(d, c, t, k) => d = s /\ c = m
        BY <1>2, <1>3, <1>4, <2>1, <3>2, RightHeld
      <4>2. NoTimer(t, k)' /\ NoClosure(t, k)'
        BY <3>1, <4>1 DEF Quiet, NoTimer, NoClosure
      <4>3. NoCo(t, k)'
        <5> SUFFICES ASSUME NEW d \in Service, NEW c \in Co, InCo(d, c, t, k)' PROVE FALSE
          BY DEF NoCo
        <5>1. d = s /\ c = m
          BY <3>1, <4>1 DEF Quiet
        <5>2. session_coroutine_id'[s][m] = k
          BY <5>1 DEF InCo
        <5> QED
          BY <5>2, <1>6, RpcAssumption DEF Session, Nil
      <4>4. PICK l : l = Len(mq[a]) + 1
        OBVIOUS
      <4>5. \A e \in Service : \A j \in DOMAIN mq'[e] : InQueue(e, j, t, k)' => e = a /\ j = l
        BY <2>5, <4>1, <4>4 DEF Sent, NoQueue, InQueue
      <4>6. k \in DOMAIN session_id_coroutine'[t]
        BY <4>1, <1>5
      <4> QED
        BY <4>2, <4>3, <4>5, <4>6, OnlyQueue
    <3>3. CASE ~(t = a /\ k = n)
      <4>1. ~Carries(a, msg, t, k)
        BY <3>3, <2>3 DEF Carries
      <4> QED
        BY <2>5, <3>1, <4>1, SentFewer
    <3> QED
      BY <3>2, <3>3
  <2>8. AllAwaited'
    BY <1>5, <2>7 DEF AllAwaited
  <2> QED
    BY <1>5, <1>6, <2>5, <2>6, <2>8, OwedKept, Assemble DEF RpcTypes
<1> QED
  BY <1>8, <1>9

\* response
LEMMA ResponseStep ==
    ASSUME RpcInv, NEW s \in Service, Response(s)
    PROVE  RpcInv'
<1>1. PICK m \in Co : m = Me(s)
  BY RunsOpen DEF Response, Runs
<1>2. Running(s) /\ s \notin exited /\ running_thread[s] = m
  BY <1>1, RunsOpen DEF Response, Runs
<1>3. PICK n : n = session_coroutine_id[s][m]
  OBVIOUS
<1>4. PICK a : a = session_coroutine_address[s][m]
  OBVIOUS
<1>5. /\ UNCHANGED <<services, exited, timers, events, mq, handler, sessionGen, coroutine_pool, session_id_coroutine,
                     session_coroutine_address, fork_queue, running_thread, mode>>
      /\ n # Nil /\ session_coroutine_id' = [session_coroutine_id EXCEPT ![s][m] = Nil]
  BY <1>1, <1>3 DEF Response, envVars
<1>6. /\ ThreadTypes' /\ ListTypes' /\ Local(s)' /\ \A t \in Service \ {s} : Same(t)
      /\ session_coroutine_id'[s][m] = Nil
      /\ \A d \in Service : \A c \in Co : CoKept(d, c)
  BY <1>1, <1>2, <1>5, RightTaken
<1>7. EnvTypes /\ QueuesPlain
  BY DEF RpcInv, RpcTypes
<1>8. CASE n = 0
  <2>1. closures' = closures
    BY <1>1, <1>3, <1>8 DEF Response
  <2>2. EnvTypes'
    BY <1>5, <1>7, <2>1 DEF EnvTypes
  <2> QED
    BY <1>5, <1>6, <2>1, <2>2, LocalStep DEF RpcTypes
<1>9. CASE n # 0
  <2>1. n \in Session
    BY <1>3, <1>5, <1>9, SessionKinds
  <2>2. /\ a \in Service
        /\ a \notin exited =>
             /\ n \in DOMAIN session_id_coroutine[a] /\ NoTimer(a, n) /\ NoQueue(a, n) /\ NoClosure(a, n)
             /\ \A d \in Service : \A c \in Co : InCo(d, c, a, n) => d = s /\ c = m
    BY <1>2, <1>3, <1>4, <2>1, RightHeld
  <2>3. closures' = [closures EXCEPT ![s] = closures[s] \cup {<<a, n>>}]
    BY <1>1, <1>3, <1>4, <1>9 DEF Response
  <2>4. closures \in [Service -> SUBSET (Service \X Session)]
    BY <1>7 DEF EnvTypes
  <2>5. /\ closures' \in [Service -> SUBSET (Service \X Session)] /\ closures'[s] = closures[s] \cup {<<a, n>>}
        /\ \A t \in Service \ {s} : closures'[t] = closures[t]
    BY <2>1, <2>2, <2>3, <2>4
  <2>6. EnvTypes' /\ QueuesPlain'
    BY <1>5, <1>7, <2>5 DEF EnvTypes, QueuesPlain
  <2>7. ASSUME NEW t \in Service \ exited, NEW k \in Session PROVE Awaited(t, k)'
    <3>1. \A d \in Service : \A c \in Co : InCo(d, c, t, k)' => InCo(d, c, t, k)
      BY <1>6 DEF InCo, CoKept
    <3>2. CASE t = a /\ k = n
      <4>1. NoTimer(t, k)' /\ NoQueue(t, k)'
        BY <1>5, <2>2, <3>2 DEF NoTimer, InTimer, NoQueue, InQueue
      <4>2. NoCo(t, k)'
        <5> SUFFICES ASSUME NEW d \in Service, NEW c \in Co, InCo(d, c, t, k)' PROVE FALSE
          BY DEF NoCo
        <5>1. d = s /\ c = m
          BY <2>2, <3>1, <3>2
        <5>2. session_coroutine_id'[s][m] = k
          BY <5>1 DEF InCo
        <5> QED
          BY <5>2, <1>6, RpcAssumption DEF Session, Nil
      <4>3. \A e \in Service : InClosure(e, t, k)' => e = s
        BY <2>2, <2>5, <3>2 DEF NoClosure, InClosure
      <4>4. k \in DOMAIN session_id_coroutine'[t]
        BY <1>5, <2>2, <3>2
      <4> QED
        BY <4>1, <4>2, <4>3, <4>4, OnlyClosure
    <3>3. CASE ~(t = a /\ k = n)
      <4>1. \A d \in Service : InClosure(d, t, k)' => InClosure(d, t, k)
        BY <2>5, <3>3 DEF InClosure
      <4>2. Quiet(t, k)
        BY <1>5, <3>1, <4>1 DEF Quiet, InTimer
      <4> QED
        BY <1>5, <4>2, SameFewer
    <3> QED
      BY <3>2, <3>3
  <2>8. AllAwaited'
    BY <1>5, <2>7 DEF AllAwaited
  <2> QED
    BY <1>5, <1>6, <2>6, <2>8, OwedKept, Assemble DEF RpcTypes
<1> QED
  BY <1>8, <1>9

\* The function that response made is called.
LEMMA AnswerStep ==
    ASSUME RpcInv, NEW s \in Service, Answer(s)
    PROVE  RpcInv'
<1>1. /\ UNCHANGED <<services, exited, timers, events, handler, sessionGen, coroutine_pool, session_id_coroutine,
                     session_coroutine_id, session_coroutine_address, fork_queue, running_thread, mode>>
      /\ UNCHANGED tables
  BY DEF Answer, envVars, ctxVars, tables
<1>2. EnvTypes /\ QueuesPlain /\ closures \in [Service -> SUBSET (Service \X Session)]
  BY DEF RpcInv, RpcTypes, EnvTypes
<1>3. PICK r \in closures[s] :
        /\ Deliver(r[1], [type |-> "RESPONSE", source |-> s, session |-> r[2]])
        /\ closures' = [closures EXCEPT ![s] = @ \ {r}]
  BY DEF Answer
<1>4. r \in Service \X Session
  BY <1>2, <1>3
<1>5. PICK a \in Service, n \in Session : r = <<a, n>> /\ a = r[1] /\ n = r[2]
  BY <1>4
<1>6. PICK msg : msg = [type |-> "RESPONSE", source |-> s, session |-> n]
  OBVIOUS
<1>7. msg \in Message /\ msg.type = "RESPONSE" /\ msg.session = n /\ Plain(msg) /\ Deliver(a, msg)
  BY <1>3, <1>5, <1>6, RpcAssumption DEF Message, MsgType, Session, Plain
<1>8. mq' \in [Service -> Seq(Message)] /\ QueuesPlain' /\ Sent(a, msg)
  BY <1>2, <1>7, QueueDelivered
<1>9. /\ closures' \in [Service -> SUBSET (Service \X Session)] /\ closures'[s] = closures[s] \ {<<a, n>>}
      /\ \A t \in Service \ {s} : closures'[t] = closures[t]
  BY <1>2, <1>3, <1>5
<1>10. EnvTypes'
  BY <1>1, <1>2, <1>8, <1>9 DEF EnvTypes
<1>11. \A d \in Service : \A c \in Co : CoKept(d, c)
  BY <1>1, TablesSame, SameCo
<1>12. ASSUME NEW t \in Service \ exited, NEW k \in Session PROVE Awaited(t, k)'
  <2>1. Quiet(t, k)
    <3>1. \A d \in Service : closures'[d] \subseteq closures[d]
      BY <1>9
    <3> QED
      BY <1>1, <1>11, <3>1, QuietStep
  <2>2. CASE t = a /\ k = n
    <3>1. InClosure(s, t, k)
      BY <1>3, <1>5, <2>2 DEF InClosure
    <3>2. Awaited(t, k)
      BY DEF RpcInv, AllAwaited
    <3>3. /\ NoTimer(t, k) /\ NoQueue(t, k) /\ NoCo(t, k) /\ k \in DOMAIN session_id_coroutine[t]
          /\ \A e \in Service : InClosure(e, t, k) => e = s
      BY <3>1, <3>2 DEF Awaited, Once, InSome, NoTimer, NoQueue, NoCo
    <3>4. NoTimer(t, k)' /\ NoCo(t, k)' /\ k \in DOMAIN session_id_coroutine'[t]
      BY <2>1, <3>3 DEF Quiet, NoTimer, NoCo
    <3>5. NoClosure(t, k)'
      BY <1>9, <2>2, <3>3 DEF NoClosure, InClosure
    <3>6. PICK l : l = Len(mq[a]) + 1
      OBVIOUS
    <3>7. \A e \in Service : \A j \in DOMAIN mq'[e] : InQueue(e, j, t, k)' => e = a /\ j = l
      BY <1>8, <3>3, <3>6 DEF Sent, NoQueue, InQueue
    <3> QED
      BY <3>4, <3>5, <3>7, OnlyQueue
  <2>3. CASE ~(t = a /\ k = n)
    <3>1. ~Carries(a, msg, t, k)
      BY <2>3, <1>7 DEF Carries
    <3> QED
      BY <1>8, <2>1, <3>1, SentFewer
  <2> QED
    BY <2>2, <2>3
<1>13. AllAwaited'
  BY <1>1, <1>12 DEF AllAwaited
<1> QED
  BY <1>1, <1>8, <1>10, <1>13, Outside

-----------------------------------------------------------------------------
(* Steps that dispatch a message *)

\* What Take does to the queues, and what it needs of the service.
Took(s, m) ==
    /\ s \notin exited /\ mode[s] = "idle" /\ running_thread[s] = 0
    /\ mq' \in [Service -> Seq(Message)] /\ QueuesPlain'
    /\ m \in Message /\ Plain(m) /\ 1 \in DOMAIN mq[s] /\ mq[s][1] = m
    /\ \A t \in Service \ {s} : mq'[t] = mq[t]
    /\ \A i \in DOMAIN mq'[s] : i \in Nat \ {0} /\ i + 1 \in DOMAIN mq[s] /\ mq'[s][i] = mq[s][i + 1]

\* The first message of the queue is taken.
LEMMA TakeTook ==
    ASSUME RpcInv, NEW s \in Service, NEW type, Take(s, type), NEW m, m = Head(mq[s])
    PROVE  Took(s, m) /\ m.type = type
<1>1. EnvTypes /\ QueuesPlain /\ Local(s)
  BY DEF RpcInv, RpcTypes
<1>2. /\ s \notin exited /\ mode[s] = "idle" /\ mq[s] # <<>> /\ Head(mq[s]).type = type
      /\ mq' = [mq EXCEPT ![s] = Tail(@)]
  BY DEF Take
<1>3. /\ mq' \in [Service -> Seq(Message)] /\ QueuesPlain'
      /\ 1 \in DOMAIN mq[s] /\ Head(mq[s]) = mq[s][1] /\ mq[s][1] \in Message
      /\ \A t \in Service \ {s} : mq'[t] = mq[t]
      /\ \A i \in DOMAIN mq'[s] : i \in Nat \ {0} /\ i + 1 \in DOMAIN mq[s] /\ mq'[s][i] = mq[s][i + 1]
  BY <1>1, <1>2, QueueTaken
<1>4. Plain(mq[s][1])
  BY <1>1, <1>3 DEF QueuesPlain
<1>5. running_thread[s] = 0
  BY <1>1, <1>2 DEF Local, Bounds
<1> QED
  BY <1>2, <1>3, <1>4, <1>5 DEF Took

\* If the message that is taken carries the session, no other in the queues does.
LEMMA TookLast ==
    ASSUME RpcInv, NEW s \in Service, NEW m, Took(s, m), NEW t \in Service \ exited, NEW k \in Session, Carries(s, m, t, k)
    PROVE  /\ k \in DOMAIN session_id_coroutine[t]
           /\ NoTimer(t, k) /\ NoClosure(t, k) /\ NoCo(t, k) /\ NoQueue(t, k)'
<1>1. InQueue(s, 1, t, k) /\ 1 \in DOMAIN mq[s]
  BY DEF Took, Carries, InQueue
<1>2. Awaited(t, k)
  BY DEF RpcInv, AllAwaited
<1>3. k \in DOMAIN session_id_coroutine[t]
  BY <1>1, <1>2 DEF Awaited, InSome
<1>4. NoTimer(t, k) /\ NoClosure(t, k) /\ NoCo(t, k)
  BY <1>1, <1>2 DEF Awaited, Once, NoTimer, NoClosure, NoCo
<1>5. \A e \in Service : \A j \in DOMAIN mq[e] : InQueue(e, j, t, k) => e = s /\ j = 1
  BY <1>1, <1>2 DEF Awaited, Once
<1>6. NoQueue(t, k)'
  <2> SUFFICES ASSUME NEW e \in Service, NEW i \in DOMAIN mq'[e], InQueue(e, i, t, k)' PROVE FALSE
    BY DEF NoQueue
  <2>1. CASE e = s
    <3>1. i \in Nat \ {0} /\ i + 1 \in DOMAIN mq[s] /\ mq'[s][i] = mq[s][i + 1]
      BY <2>1 DEF Took
    <3>2. InQueue(s, i + 1, t, k)
      BY <2>1, <3>1 DEF InQueue
    <3>3. i + 1 = 1
      BY <3>1, <3>2, <1>5
    <3> QED
      BY <3>1, <3>3
  <2>2. CASE e # s
    <3>1. InQueue(e, i, t, k) /\ i \in DOMAIN mq[e]
      BY <2>2 DEF InQueue, Took
    <3> QED
      BY <3>1, <2>2, <1>5
  <2> QED
    BY <2>1, <2>2
<1> QED
  BY <1>3, <1>4, <1>6

\* A response or a timeout resumes the coroutine that waits for it.
LEMMA DispatchResponseStep ==
    ASSUME RpcInv, NEW s \in Service, DispatchResponse(s)
    PROVE  RpcInv'
<1>1. PICK m : m = Head(mq[s])
  OBVIOUS
<1>2. PICK n : n = m.session
  OBVIOUS
<1>3. PICK r : r = IF n \in DOMAIN session_id_coroutine[s] THEN session_id_coroutine[s][n] ELSE 0
  OBVIOUS
<1>4. Took(s, m) /\ m.type = "RESPONSE"
  BY <1>1, TakeTook DEF DispatchResponse
<1>5. /\ UNCHANGED <<services, exited, timers, events, handler, sessionGen, coroutine_pool, session_coroutine_id,
                     session_coroutine_address, fork_queue, closures>>
      /\ Forget(s, n) /\ running_thread' = [running_thread EXCEPT ![s] = r]
      /\ mode' = [mode EXCEPT ![s] = IF n \in DOMAIN session_id_coroutine[s] THEN "message" ELSE "forks"]
  BY <1>1, <1>2, <1>3 DEF DispatchResponse, envVars, ctxVars
<1>6. EnvTypes /\ ThreadTypes /\ ListTypes /\ Local(s)
  BY DEF RpcInv, RpcTypes
<1>7. PICK q : q = [k \in DOMAIN session_id_coroutine[s] \ {n} |-> session_id_coroutine[s][k]]
  OBVIOUS
<1>8. /\ DOMAIN q = DOMAIN session_id_coroutine[s] \ {n}
      /\ \A k \in DOMAIN q : q[k] = session_id_coroutine[s][k]
  BY <1>7
<1>9. /\ DOMAIN session_id_coroutine' = Service /\ session_id_coroutine'[s] = q
      /\ \A t \in Service \ {s} : session_id_coroutine'[t] = session_id_coroutine[t]
  BY <1>5, <1>6, <1>7 DEF Forget, ListTypes
<1>10. Distinct(session_id_coroutine[s])
  BY <1>6 DEF Local, Alone
<1>11. Distinct(q) /\ \A b : Has(q, b) <=> Has(session_id_coroutine[s], b)
                               /\ ~(n \in DOMAIN session_id_coroutine[s] /\ session_id_coroutine[s][n] = b)
  BY <1>8, <1>10, ForgetDistinct
<1>12. \A c \in Co : c # 0
  BY RpcAssumption DEF Co
<1>13. /\ r \in {0} \cup Co
       /\ \A c \in Co : r = c => Has(session_id_coroutine[s], c)
       /\ \A c \in Co : Has(q, c) <=> Has(session_id_coroutine[s], c) /\ c # r
  <2>1. CASE n \in DOMAIN session_id_coroutine[s]
    <3>1. r = session_id_coroutine[s][n] /\ r \in Co
      BY <1>3, <1>6, <2>1 DEF ListTypes
    <3>2. Has(session_id_coroutine[s], r)
      BY <2>1, <3>1 DEF Has
    <3> QED
      BY <1>11, <2>1, <3>1, <3>2
  <2>2. CASE n \notin DOMAIN session_id_coroutine[s]
    <3>1. r = 0
      BY <1>3, <2>2
    <3> QED
      BY <1>11, <1>12, <2>2, <3>1
  <2> QED
    BY <2>1, <2>2
<1>14. /\ running_thread' \in [Service -> {0} \cup Co] /\ running_thread'[s] = r
       /\ mode' \in [Service -> {"start", "idle", "message", "socket", "forks"}] /\ mode'[s] # "idle"
       /\ \A t \in Service \ {s} : running_thread'[t] = running_thread[t] /\ mode'[t] = mode[t]
  BY <1>5, <1>6, <1>13 DEF ThreadTypes
<1>15. EnvTypes'
  BY <1>4, <1>5, <1>6 DEF EnvTypes, Took
<1>16. ThreadTypes'
  BY <1>5, <1>6, <1>14 DEF ThreadTypes
<1>17. ListTypes'
  <2>1. ASSUME NEW t \in Service
        PROVE  /\ DOMAIN session_id_coroutine'[t] \subseteq Session
               /\ \A k \in DOMAIN session_id_coroutine'[t] : session_id_coroutine'[t][k] \in Co
    BY <1>6, <1>8, <1>9 DEF ListTypes
  <2> QED
    BY <1>5, <1>6, <1>9, <2>1 DEF ListTypes
<1>18. Alone(s)'
  <2>1. Distinct(fork_queue'[s]) /\ Distinct(coroutine_pool'[s]) /\ Distinct(session_id_coroutine'[s])
    BY <1>5, <1>6, <1>9, <1>11 DEF Local, Alone
  <2>2. ASSUME NEW c \in Co PROVE Apart(s, c)'
    BY <1>5, <1>6, <1>9, <1>13, <1>14 DEF Local, Alone, Apart
  <2> QED
    BY <2>1, <2>2 DEF Alone
<1>19. \A c \in Co : Placed(s, c)' <=> Placed(s, c)
  BY <1>4, <1>5, <1>9, <1>12, <1>13, <1>14 DEF Placed, Took
<1>20. Clean(s)'
  BY <1>5, <1>6, <1>19 DEF Local, Clean
<1>21. Bounds(s)'
  BY <1>4, <1>5, <1>6, <1>8, <1>9, <1>14 DEF Local, Bounds, Took
<1>22. \A t \in Service \ {s} : Same(t)
  BY <1>5, <1>9, <1>14 DEF Same
<1>23. \A d \in Service : \A c \in Co : CoKept(d, c)
  <2>1. \A c \in Co : CoKept(s, c)
    BY <1>5, <1>19 DEF CoKept
  <2> QED
    BY <2>1, <1>22, SameCo
<1>24. ASSUME NEW t \in Service \ exited, NEW k \in Session PROVE Awaited(t, k)'
  <2>1. CASE t = s /\ k = n
    <3>1. Carries(s, m, t, k)
      BY <1>2, <1>4, <2>1 DEF Carries
    <3>2. NoTimer(t, k) /\ NoClosure(t, k) /\ NoCo(t, k) /\ NoQueue(t, k)'
      BY <1>4, <3>1, TookLast
    <3>3. NoTimer(t, k)' /\ NoClosure(t, k)'
      BY <1>5, <3>2 DEF NoTimer, InTimer, NoClosure, InClosure
    <3>4. NoCo(t, k)'
      BY <1>23, <3>2 DEF NoCo, InCo, CoKept
    <3> QED
      BY <3>2, <3>3, <3>4, NoneUnderWay
  <2>2. CASE ~(t = s /\ k = n)
    <3>1. k \in DOMAIN session_id_coroutine[t] => k \in DOMAIN session_id_coroutine'[t]
      BY <1>8, <1>9, <2>2
    <3>2. Quiet(t, k)
      BY <1>5, <1>23, <3>1, QuietStep
    <3> QED
      BY <1>4, <3>2, TakenFewer DEF Took
  <2> QED
    BY <2>1, <2>2
<1>25. AllAwaited'
  BY <1>5, <1>24 DEF AllAwaited
<1>26. RpcTypes' /\ Local(s)'
  BY <1>15, <1>16, <1>17, <1>18, <1>20, <1>21 DEF RpcTypes, Local
<1> QED
  BY <1>4, <1>5, <1>22, <1>23, <1>25, <1>26, OwedKept, Assemble DEF Took

\* A message that no coroutine gets.
LEMMA Unhandled ==
    ASSUME RpcInv, NEW s \in Service, NEW m, Took(s, m), NEW md, md \in {"idle", "forks"},
           mode' = [mode EXCEPT ![s] = md],
           UNCHANGED <<services, exited, timers, events, handler, sessionGen, coroutine_pool, session_id_coroutine,
                       session_coroutine_id, session_coroutine_address, fork_queue, running_thread, closures>>
    PROVE  RpcInv'
<1>1. EnvTypes /\ ThreadTypes /\ ListTypes /\ Local(s)
  BY DEF RpcInv, RpcTypes
<1>2. /\ mode' \in [Service -> {"start", "idle", "message", "socket", "forks"}]
      /\ \A t \in Service \ {s} : mode'[t] = mode[t]
  BY <1>1 DEF ThreadTypes
<1>3. RpcTypes'
  BY <1>1, <1>2 DEF RpcTypes, EnvTypes, ThreadTypes, ListTypes, Took
<1>4. Local(s)'
  BY <1>1 DEF Local, Alone, Apart, Clean, Placed, Bounds, Took
<1>5. \A t \in Service \ {s} : Same(t)
  BY <1>2 DEF Same
<1>6. \A d \in Service : \A c \in Co : CoKept(d, c)
  BY DEF CoKept, Placed
<1>7. ASSUME NEW t \in Service \ exited, NEW k \in Session PROVE Awaited(t, k)'
  <2>1. Quiet(t, k)
    BY <1>6, QuietStep
  <2> QED
    BY <2>1, TakenFewer DEF Took
<1>8. AllAwaited'
  BY <1>7 DEF AllAwaited
<1> QED
  BY <1>3, <1>4, <1>5, <1>6, <1>8, OwedKept, Assemble DEF Took

\* A message for which a coroutine begins: the right to answer passes to it.
LEMMA Begun ==
    ASSUME RpcInv, NEW s \in Service, NEW m, Took(s, m), m.type \in {"LUA", "SOCKET"}, NEW md \in {"message", "socket"},
           Begin(s, m, md),
           UNCHANGED <<services, exited, timers, events, handler, sessionGen, session_id_coroutine, fork_queue, closures>>
    PROVE  RpcInv'
<1>1. RpcTypes /\ EnvTypes /\ ThreadTypes /\ ListTypes /\ Local(s)
  BY DEF RpcInv, RpcTypes
<1>2. PICK r : r = NextCo(s)
  OBVIOUS
<1>3. /\ CoCreate(s)
      /\ session_coroutine_id' = [session_coroutine_id EXCEPT ![s][r] = m.session]
      /\ session_coroutine_address' = [session_coroutine_address EXCEPT ![s][r] = m.source]
      /\ running_thread' = [running_thread EXCEPT ![s] = r] /\ mode' = [mode EXCEPT ![s] = md]
  BY <1>2 DEF Begin
<1>4. /\ r \in Co /\ ~Has(fork_queue[s], r) /\ ~Has(session_id_coroutine[s], r)
      /\ running_thread[s] # r /\ session_coroutine_id[s][r] = Nil
      /\ coroutine_pool' \in [Service -> Seq(Co)] /\ Distinct(coroutine_pool'[s])
      /\ \A t \in Service \ {s} : coroutine_pool'[t] = coroutine_pool[t]
      /\ \A b : Has(coroutine_pool'[s], b) <=> Has(coroutine_pool[s], b) /\ b # r
  BY <1>1, <1>2, <1>3, Created DEF Took
<1>5. m.session \in 0 .. MaxSession /\ m.source \in Service \cup {NoId} /\ m.source # Nil
  BY RpcAssumption DEF Took, Message
<1>6. /\ session_coroutine_id' \in [Service -> [Co -> 0 .. MaxSession \cup {Nil}]]
      /\ session_coroutine_id'[s][r] = m.session
      /\ \A b \in Co \ {r} : session_coroutine_id'[s][b] = session_coroutine_id[s][b]
      /\ \A t \in Service \ {s} : session_coroutine_id'[t] = session_coroutine_id[t]
  BY <1>1, <1>3, <1>4, <1>5 DEF ThreadTypes
<1>7. /\ session_coroutine_address' \in [Service -> [Co -> Service \cup {NoId, Nil}]]
      /\ session_coroutine_address'[s][r] = m.source
      /\ \A b \in Co \ {r} : session_coroutine_address'[s][b] = session_coroutine_address[s][b]
      /\ \A t \in Service \ {s} : session_coroutine_address'[t] = session_coroutine_address[t]
  BY <1>1, <1>3, <1>4, <1>5 DEF ThreadTypes
<1>8. /\ running_thread' \in [Service -> {0} \cup Co] /\ running_thread'[s] = r
      /\ mode' \in [Service -> {"start", "idle", "message", "socket", "forks"}] /\ mode'[s] # "idle"
      /\ \A t \in Service \ {s} : running_thread'[t] = running_thread[t] /\ mode'[t] = mode[t]
  BY <1>1, <1>3, <1>4 DEF ThreadTypes
<1>9. EnvTypes'
  BY <1>1 DEF EnvTypes, Took
<1>10. ThreadTypes'
  BY <1>1, <1>6, <1>7, <1>8 DEF ThreadTypes
<1>11. ListTypes'
  BY <1>1, <1>4 DEF ListTypes
<1>12. \A c \in Co : c # 0
  BY RpcAssumption DEF Co
<1>13. Alone(s)'
  <2>1. Distinct(fork_queue'[s]) /\ Distinct(coroutine_pool'[s]) /\ Distinct(session_id_coroutine'[s])
    BY <1>1, <1>4 DEF Local, Alone
  <2>2. ASSUME NEW c \in Co PROVE Apart(s, c)'
    BY <1>1, <1>4, <1>8 DEF Local, Alone, Apart
  <2> QED
    BY <2>1, <2>2 DEF Alone
<1>14. Placed(s, r)' /\ \A c \in Co \ {r} : Placed(s, c)' <=> Placed(s, c)
  BY <1>4, <1>8, <1>12 DEF Placed, Took
<1>15. Clean(s)'
  <2> SUFFICES ASSUME NEW c \in Co,
                      \/ ~Placed(s, c)' \/ Has(coroutine_pool'[s], c) \/ Has(fork_queue'[s], c)
                      \/ session_coroutine_address'[s][c] = Nil
               PROVE  session_coroutine_id'[s][c] = Nil
    BY DEF Clean
  <2>1. CASE c = r
    BY <2>1, <1>4, <1>5, <1>7, <1>14
  <2>2. CASE c # r
    BY <2>2, <1>1, <1>4, <1>6, <1>7, <1>14 DEF Local, Clean
  <2> QED
    BY <2>1, <2>2
<1>16. Bounds(s)'
  BY <1>1, <1>8 DEF Local, Bounds, Took
<1>17. \A t \in Service \ {s} : Same(t)
  BY <1>4, <1>6, <1>7, <1>8 DEF Same
<1>18. \A d \in Service : \A c \in Co : (d = s /\ c = r) \/ CoKept(d, c)
  <2>1. \A c \in Co \ {r} : CoKept(s, c)
    BY <1>6, <1>7, <1>14 DEF CoKept
  <2> QED
    BY <2>1, <1>17, SameCo
<1>19. ASSUME m.session \in Session PROVE m.type = "LUA" /\ m.source \in Service
  <2>1. m.session # 0
    BY <1>19 DEF Session
  <2> QED
    BY <2>1 DEF Took, Plain
<1>20. Owed'
  <2> SUFFICES ASSUME NEW d \in Service, NEW c \in Co, session_coroutine_id'[d][c] \in Session, Placed(d, c)'
               PROVE  session_coroutine_address'[d][c] \in Service
    BY DEF Owed
  <2>1. CASE d = s /\ c = r
    BY <2>1, <1>6, <1>7, <1>19
  <2>2. CASE ~(d = s /\ c = r)
    BY <2>2, <1>18 DEF CoKept, RpcInv, Owed
  <2> QED
    BY <2>1, <2>2
<1>21. ASSUME NEW t \in Service \ exited, NEW k \in Session PROVE Awaited(t, k)'
  <2>1. \A d \in Service : \A c \in Co : InCo(d, c, t, k)' => (d = s /\ c = r) \/ InCo(d, c, t, k)
    BY <1>18 DEF InCo, CoKept
  <2>2. InCo(s, r, t, k)' => t = m.source /\ k = m.session
    BY <1>6, <1>7 DEF InCo
  <2>3. CASE t = m.source /\ k = m.session
    <3>1. Carries(s, m, t, k)
      BY <2>3, <1>19 DEF Carries
    <3>2. /\ k \in DOMAIN session_id_coroutine[t]
          /\ NoTimer(t, k) /\ NoClosure(t, k) /\ NoCo(t, k) /\ NoQueue(t, k)'
      BY <3>1, TookLast
    <3>3. NoTimer(t, k)' /\ NoClosure(t, k)' /\ k \in DOMAIN session_id_coroutine'[t]
      BY <3>2 DEF NoTimer, InTimer, NoClosure, InClosure
    <3>4. \A d \in Service : \A c \in Co : InCo(d, c, t, k)' => d = s /\ c = r
      BY <2>1, <3>2 DEF NoCo
    <3> QED
      BY <3>2, <3>3, <3>4, OnlyCo
  <2>4. CASE ~(t = m.source /\ k = m.session)
    <3>1. Quiet(t, k)
      BY <2>1, <2>2, <2>4 DEF Quiet, InTimer, InClosure
    <3> QED
      BY <3>1, TakenFewer DEF Took
  <2> QED
    BY <2>3, <2>4
<1>22. AllAwaited'
  BY <1>21 DEF AllAwaited
<1>23. RpcTypes' /\ Local(s)'
  BY <1>9, <1>10, <1>11, <1>13, <1>15, <1>16 DEF RpcTypes, Local
<1> QED
  BY <1>17, <1>20, <1>22, <1>23, Assemble DEF Took

\* A request: a coroutine of the pool, or a new one, handles it.
LEMMA DispatchLuaStep ==
    ASSUME RpcInv, NEW s \in Service, DispatchLua(s)
    PROVE  RpcInv'
<1>1. PICK m : m = Head(mq[s])
  OBVIOUS
<1>2. Took(s, m) /\ m.type = "LUA"
  BY <1>1, TakeTook DEF DispatchLua
<1>3. UNCHANGED <<services, exited, timers, events, handler, sessionGen, session_id_coroutine, fork_queue, closures>>
  BY DEF DispatchLua, envVars
<1>4. CASE s \in handler
  <2>1. Begin(s, m, "message")
    BY <1>1, <1>4 DEF DispatchLua, Begin
  <2> QED
    BY <1>2, <1>3, <2>1, Begun
<1>5. CASE s \notin handler
  <2>1. /\ mode' = [mode EXCEPT ![s] = "forks"]
        /\ UNCHANGED <<coroutine_pool, session_coroutine_id, session_coroutine_address, running_thread>>
    BY <1>5 DEF DispatchLua, ctxVars
  <2> QED
    BY <1>2, <1>3, <2>1, Unhandled
<1> QED
  BY <1>4, <1>5

\* A socket event: its callback runs in a coroutine, or nobody listens.
LEMMA DispatchSocketStep ==
    ASSUME RpcInv, NEW s \in Service, DispatchSocket(s)
    PROVE  RpcInv'
<1>1. PICK m : m = Head(mq[s])
  OBVIOUS
<1>2. Took(s, m) /\ m.type = "SOCKET"
  BY <1>1, TakeTook DEF DispatchSocket
<1>3. UNCHANGED <<services, exited, timers, events, handler, sessionGen, session_id_coroutine, fork_queue, closures>>
  BY DEF DispatchSocket, envVars
<1>4. CASE Begin(s, Head(mq[s]), "socket")
  <2>1. Begin(s, m, "socket")
    BY <1>1, <1>4 DEF Begin
  <2> QED
    BY <1>2, <1>3, <2>1, Begun
<1>5. CASE UNCHANGED <<coroutine_pool, ctxVars, running_thread, mode>>
  <2>1. mode' = [mode EXCEPT ![s] = "idle"]
    BY <1>2, <1>5 DEF Took, RpcInv, RpcTypes, ThreadTypes
  <2> QED
    BY <1>2, <1>3, <1>5, <2>1, Unhandled DEF ctxVars
<1> QED
  BY <1>4, <1>5 DEF DispatchSocket

-----------------------------------------------------------------------------
(* The theorems *)

\* The invariant holds when the services start,
LEMMA RpcStart == Init => RpcInv
<1> SUFFICES ASSUME Init PROVE RpcInv
  OBVIOUS
<1> USE DEF Init
<1>1. {MaxSession, MaxForks, MaxEvents} \subseteq Nat /\ 1 \in Co
  BY RpcAssumption DEF Co
<1>2. <<>> \in Seq(Message) /\ <<>> \in Seq(Co) /\ DOMAIN (<<>>) = {} /\ Len(<<>>) = 0
  OBVIOUS
<1>3. EnvTypes
  BY <1>1, <1>2 DEF EnvTypes
<1>4. ThreadTypes
  BY <1>1 DEF ThreadTypes
<1>5. ListTypes
  BY <1>2 DEF ListTypes
<1>6. ASSUME NEW s \in Service PROVE Local(s)
  <2>1. Alone(s)
    BY EmptyDistinct DEF Alone, Apart
  <2>2. Clean(s)
    <3>1. running_thread[s] = 1 /\ session_coroutine_address[s][1] = NoId
      BY <1>1
    <3>2. Placed(s, 1) /\ ~Has(coroutine_pool[s], 1) /\ ~Has(fork_queue[s], 1)
      BY <3>1, EmptyDistinct DEF Placed
    <3>3. \A c \in Co : c # 1 => session_coroutine_id[s][c] = Nil
      OBVIOUS
    <3> QED
      BY <3>1, <3>2, <3>3, RpcAssumption DEF Clean
  <2>3. Bounds(s)
    BY <1>1, <1>2 DEF Bounds
  <2> QED
    BY <2>1, <2>2, <2>3 DEF Local
<1>7. QueuesPlain
  BY <1>2 DEF QueuesPlain
<1>8. \A s \in Service : \A c \in Co : session_coroutine_id[s][c] \notin Session
  BY RpcAssumption DEF Session, Nil
<1>9. Owed
  BY <1>8 DEF Owed
<1>10. AllAwaited
  BY <1>2, <1>8 DEF AllAwaited, Awaited, Once, InSome, InTimer, InQueue, InClosure, InCo
<1> QED
  BY <1>3, <1>4, <1>5, <1>6, <1>7, <1>9, <1>10 DEF RpcInv, RpcTypes

\* every step of a service, of the timer, of the network and of a kill keeps it,
LEMMA RpcNext == RpcInv /\ [Next]_vars => RpcInv'
<1> SUFFICES ASSUME RpcInv, [Next]_vars PROVE RpcInv'
  OBVIOUS
<1>1. ASSUME NEW s \in Service, LuaStep(s) PROVE RpcInv'
  BY <1>1, SetHandlerStep, FailStep, RetStep, ResponseStep, AnswerStep, SleepStep, TimeoutStep, ForkStep, FinishStep,
     ExitSelfStep, SendStep, CallStep DEF LuaStep
<1>2. ASSUME NEW s \in Service, DispatchStep(s) PROVE RpcInv'
  BY <1>2, DispatchResponseStep, DispatchLuaStep, DispatchSocketStep, ErrorStep, RunForkStep DEF DispatchStep
<1>3. CASE Next
  BY <1>1, <1>2, <1>3, KillStep, ExitStep, DropStep, SocketStep, TimerStep DEF Next
<1>4. CASE UNCHANGED vars
  <2>1. UNCHANGED <<tables, exited, closures, timers, mq, events>> /\ services' \subseteq services
    BY <1>4 DEF vars, tables
  <2>2. handler' \subseteq Service
    BY <1>4 DEF vars, RpcInv, RpcTypes, EnvTypes
  <2> QED
    BY <2>1, <2>2, OutsideStill
<1> QED
  BY <1>3, <1>4

\* so it holds always.
LEMMA RpcAlways == Spec => []RpcInv
  BY RpcStart, RpcNext, PTL DEF Spec

\* A coroutine is never recycled while it waits, never awaited twice and never resumed
\* while it runs: at each moment one table of starnet.lua at most leads to it.
THEOREM RpcOnePlace == Spec => []OnePlacePerCoroutine
<1>1. RpcInv => OnePlacePerCoroutine
  <2> SUFFICES ASSUME RpcInv PROVE OnePlacePerCoroutine
    OBVIOUS
  <2>1. \A s \in Service : Range(session_id_coroutine[s]) \subseteq Co
    BY DEF RpcInv, RpcTypes, ListTypes, Range
  <2>2. TypeOK
    BY <2>1 DEF RpcInv, RpcTypes, EnvTypes, ThreadTypes, ListTypes, TypeOK
  <2>3. \A s \in Service, c \in Co : Cardinality(Places(s, c)) <= 1
    BY OnePlace DEF RpcInv, Local
  <2> QED
    BY <2>2, <2>3 DEF OnePlacePerCoroutine
<1> QED
  BY <1>1, RpcAlways, PTL

\* A coroutine in the pool or the fork queue has no request, so what it runs next can
\* not answer in the name of the handler it ran before.
THEOREM RpcPoolClean == Spec => []PoolIsClean
<1>1. RpcInv => PoolIsClean
  <2> SUFFICES ASSUME RpcInv, NEW s \in Service, NEW c \in Co,
                      Contains(coroutine_pool[s], c) \/ Contains(fork_queue[s], c)
               PROVE  session_coroutine_id[s][c] = Nil
    BY DEF PoolIsClean
  <2>1. coroutine_pool[s] \in Seq(Co) /\ fork_queue[s] \in Seq(Co)
    BY DEF RpcInv, RpcTypes, ListTypes
  <2>2. Has(coroutine_pool[s], c) \/ Has(fork_queue[s], c)
    BY <2>1 DEF Contains, Has
  <2> QED
    BY <2>2 DEF RpcInv, Local, Clean
<1> QED
  BY <1>1, RpcAlways, PTL

\* Answers and the predicates agree.
AnswerOf(x, s, n) ==
    \/ InTimer(s, n) /\ x = <<"timer", s>>
    \/ \E d \in Service : \E i \in DOMAIN mq[d] : InQueue(d, i, s, n) /\ x = <<d, "queued", i>>
    \/ \E d \in Service : InClosure(d, s, n) /\ x = <<d, "closure">>
    \/ \E d \in Service : \E c \in Co : InCo(d, c, s, n) /\ x = <<d, "coroutine", c>>

\* Whatever leads to an answer is of one of the four kinds.
LEMMA AnswerKinds ==
    ASSUME NEW s \in Service, NEW n \in Session, NEW x \in Answers(s, n)
    PROVE  AnswerOf(x, s, n)
<1>1. \/ x \in AnswerInTimer(s, n)
      \/ \E d \in Service : x \in AnswerQueued(d, s, n)
      \/ x \in AnswerInClosure(s, n)
      \/ \E d \in Service : x \in AnswerInCo(d, s, n)
  BY DEF Answers
<1>2. CASE x \in AnswerInTimer(s, n)
  BY <1>2 DEF AnswerOf, InTimer, AnswerInTimer
<1>3. CASE \E d \in Service : x \in AnswerQueued(d, s, n)
  BY <1>3 DEF AnswerOf, InQueue, AnswerQueued
<1>4. CASE x \in AnswerInClosure(s, n)
  BY <1>4 DEF AnswerOf, InClosure, AnswerInClosure
<1>5. CASE \E d \in Service : x \in AnswerInCo(d, s, n)
  <2>1. PICK d \in Service : x \in AnswerInCo(d, s, n)
    BY <1>5
  <2>2. PICK c \in Co : /\ x = <<d, "coroutine", c>> /\ session_coroutine_id[d][c] = n
                        /\ session_coroutine_address[d][c] = s /\ Places(d, c) # {}
    BY <2>1 DEF AnswerInCo
  <2>3. InCo(d, c, s, n)
    BY <2>2, PlacesPlaced DEF InCo
  <2> QED
    BY <2>2, <2>3 DEF AnswerOf
<1> QED
  BY <1>1, <1>2, <1>3, <1>4, <1>5

\* When one thing at most leads to an answer, two such things are equal.
LEMMA AnswersOnce ==
    ASSUME NEW s \in Service, NEW n \in Session, Once(s, n), NEW x, NEW y, AnswerOf(x, s, n), AnswerOf(y, s, n)
    PROVE  x = y
<1>1. CASE InTimer(s, n)
  BY <1>1 DEF Once, AnswerOf
<1>2. CASE \E d \in Service : \E i \in DOMAIN mq[d] : InQueue(d, i, s, n)
  BY <1>2 DEF Once, AnswerOf
<1>3. CASE \E d \in Service : InClosure(d, s, n)
  BY <1>3 DEF Once, AnswerOf
<1>4. CASE \E d \in Service : \E c \in Co : InCo(d, c, s, n)
  BY <1>4 DEF Once, AnswerOf
<1> QED
  BY <1>1, <1>2, <1>3, <1>4 DEF AnswerOf

\* However calls, answers, timers, kills and exits interleave, a request is answered
\* at most once, and as long as an answer can come, the coroutine that asked waits for
\* it under its session.
THEOREM RpcAnswersAwaited == Spec => []AnswersAreAwaited
<1>1. RpcInv => AnswersAreAwaited
  <2> SUFFICES ASSUME RpcInv, NEW s \in Service \ exited, NEW n \in Session
               PROVE  /\ Cardinality(Answers(s, n)) <= 1
                      /\ Answers(s, n) # {} => n \in DOMAIN session_id_coroutine[s]
    BY DEF AnswersAreAwaited
  <2>1. Awaited(s, n)
    BY DEF RpcInv, AllAwaited
  <2>2. \A x, y \in Answers(s, n) : x = y
    BY <2>1, AnswerKinds, AnswersOnce DEF Awaited
  <2>3. Cardinality(Answers(s, n)) <= 1
    BY <2>2, AtMostOne
  <2>4. ASSUME Answers(s, n) # {} PROVE n \in DOMAIN session_id_coroutine[s]
    <3>1. PICK x \in Answers(s, n) : AnswerOf(x, s, n)
      BY <2>4, AnswerKinds
    <3>2. InSome(s, n)
      BY <3>1 DEF AnswerOf, InSome
    <3> QED
      BY <3>2, <2>1 DEF Awaited
  <2> QED
    BY <2>3, <2>4
<1> QED
  BY <1>1, RpcAlways, PTL

=============================================================================

---------------------------- MODULE Lualib_proofs ----------------------------
(***************************************************************************)
(* Proofs about the libraries with a state of their own.  Sharedata, for   *)
(* any number of services, tables and deletions; Netpack, for any          *)
(* descriptors, packets and values of a byte, any size of the ring and of  *)
(* the hash table.                                                         *)
(***************************************************************************)
EXTENDS Lualib, TLAPS, FiniteSetTheorems

-----------------------------------------------------------------------------
(* Sharedata *)

\* A version counts tables, so it is never ahead of their number.
VersionsBounded == map.version <= gen

\* What a query returns is one of the states of its window, with deletions at least
\* by its version.
Fits(s) == \E st \in window[s] : answer[s].version = st.version /\ (deletes = 0 => answer[s] = st)

\* The window of a query in progress reaches to this moment.
WindowOpen == \A s \in Service : pc[s] = "query" => map \in window[s]

\* The last answer fits from the return of a query to the call of the next one, also
\* while the subscription is about to make it.
AnswersFit == \A s \in Service : pc[s] # "query" => Fits(s)

\* The inductive invariant.
ShareInv == D!TypeOK /\ D!VersionsIdentify /\ VersionsBounded /\ WindowOpen /\ AnswersFit

\* A name without a table, and nobody has queried it.
LEMMA ShareInit == D!Init => ShareInv
  BY ShareAssumption DEF D!Init, ShareInv, D!TypeOK, D!State, D!VersionsIdentify, VersionsBounded, WindowOpen,
     AnswersFit, Fits, D!Absent

\* Two states with the same generation and version are the same.
LEMMA StateEqual ==
    ASSUME NEW a \in D!State, NEW b \in D!State, a.gen = b.gen, a.version = b.version
    PROVE  a = b
  BY DEF D!State

\* Without deletions a box with the version of the current table is that table.
LEMMA CacheIsCurrent ==
    ASSUME ShareInv, NEW s \in Service, deletes = 0, cache[s] # D!Absent, cache[s].version = map.version
    PROVE  cache[s] = map
<1> USE DEF ShareInv
<1>1. cache[s] \in D!State /\ map \in D!State
  BY DEF D!TypeOK
<1>2. cache[s].gen <= gen /\ cache[s].version = cache[s].gen - 1 /\ map.gen = gen
  BY DEF D!VersionsIdentify
<1>3. cache[s].version \in Nat /\ cache[s].gen \in Nat /\ gen \in Nat
  BY <1>1 DEF D!State, D!TypeOK
<1>4. map # D!Absent
  BY <1>2, <1>3 DEF D!Absent
<1>5. map.version = map.gen - 1
  BY <1>4 DEF D!VersionsIdentify
<1>6. map.gen \in Nat /\ map.version \in Nat
  BY <1>1 DEF D!State
<1>7. cache[s].gen = map.gen
  <2>1. \A x, y \in Nat : x - 1 = y - 1 => x = y
    OBVIOUS
  <2>2. cache[s].gen - 1 = map.gen - 1
    BY <1>2, <1>5
  <2> QED
    BY <1>3, <1>6, <2>1, <2>2
<1> QED
  BY <1>1, <1>7, StateEqual

\* A change of the name's state reaches the windows of the queries in progress and
\* no finished query.
LEMMA BecomesStep ==
    ASSUME ShareInv, NEW st \in D!State, D!Becomes(st), UNCHANGED <<pc, answer>>,
           deletes' = deletes \/ deletes' # 0
    PROVE  window' \in [Service -> SUBSET D!State] /\ WindowOpen' /\ AnswersFit'
<1> USE DEF ShareInv, D!Becomes
<1>1. window' \in [Service -> SUBSET D!State]
  BY DEF D!TypeOK
<1>2. WindowOpen'
  BY DEF D!TypeOK, WindowOpen
<1>3. ASSUME NEW s \in Service, pc'[s] # "query" PROVE Fits(s)'
  <2>1. window'[s] = window[s] /\ Fits(s)
    BY <1>3 DEF D!TypeOK, AnswersFit
  <2> QED
    BY <2>1 DEF Fits
<1> QED
  BY <1>1, <1>2, <1>3 DEF AnswersFit

\* new and update: the next table has the next version, or the first one.
LEMMA UpdateStep == ASSUME ShareInv, NEW s \in Service, D!Update(s) PROVE ShareInv'
<1> DEFINE st == [gen |-> gen + 1, version |-> IF map = D!Absent THEN 0 ELSE map.version + 1]
<1> USE ShareAssumption DEF ShareInv, D!queryVars
<1>1. map \in D!State /\ gen \in 0 .. MaxGen /\ gen < MaxGen /\ map.version \in Nat /\ map.version <= gen
  BY DEF D!Update, D!TypeOK, D!State, VersionsBounded
<1>2. st \in D!State
  BY <1>1 DEF D!State
<1>3. D!Becomes(st) /\ gen' = gen + 1 /\ UNCHANGED <<deletes, D!queryVars>>
  BY DEF D!Update
<1>4. window' \in [Service -> SUBSET D!State] /\ WindowOpen' /\ AnswersFit'
  BY <1>2, <1>3, BecomesStep
<1>5. map' = st
  BY <1>3 DEF D!Becomes
<1>6. D!TypeOK'
  BY <1>1, <1>2, <1>3, <1>4, <1>5 DEF D!TypeOK
<1>7. VersionsBounded'
  BY <1>1, <1>3, <1>5 DEF VersionsBounded
<1>8. D!VersionsIdentify'
  <2> SUFFICES ASSUME deletes = 0 PROVE D!VersionsIdentify'
    BY <1>3 DEF D!VersionsIdentify
  <2>1. map.gen = gen /\ (map # D!Absent => map.version = map.gen - 1)
    BY DEF D!VersionsIdentify
  <2>2. map = D!Absent => gen = 0
    BY <2>1 DEF D!Absent
  <2>3. st.gen = gen + 1 /\ st.version = gen
    BY <1>1, <2>1, <2>2
  <2>4. \A t \in Service : cache[t] # D!Absent => cache[t].gen <= gen + 1 /\ cache[t].version = cache[t].gen - 1
    BY <1>1 DEF D!VersionsIdentify, D!TypeOK, D!State
  <2> QED
    BY <1>1, <1>3, <1>5, <2>3, <2>4 DEF D!VersionsIdentify
<1> QED
  BY <1>4, <1>6, <1>7, <1>8

\* delete: from here on versions no longer identify tables.
LEMMA DeleteStep == ASSUME ShareInv, NEW s \in Service, D!Delete(s) PROVE ShareInv'
<1> USE ShareAssumption DEF ShareInv
<1>1. D!Absent \in D!State
  BY DEF D!Absent, D!State
<1>2. deletes' # 0 /\ deletes' \in 0 .. MaxDeletes /\ D!Becomes(D!Absent) /\ UNCHANGED <<pc, answer>>
  BY DEF D!Delete, D!TypeOK
<1>3. window' \in [Service -> SUBSET D!State] /\ WindowOpen' /\ AnswersFit'
  BY <1>1, <1>2, BecomesStep
<1>4. cache' \in [Service -> D!State]
  BY <1>1 DEF D!Delete, D!TypeOK
<1>5. D!TypeOK'
  BY <1>1, <1>2, <1>3, <1>4 DEF D!TypeOK, D!Delete, D!Becomes
<1>6. D!VersionsIdentify' /\ VersionsBounded'
  BY <1>2 DEF D!VersionsIdentify, VersionsBounded, D!Delete, D!Becomes, D!Absent, D!TypeOK
<1> QED
  BY <1>3, <1>5, <1>6

\* A query that returns a box which the window explains.
LEMMA QueryStep == ASSUME ShareInv, NEW s \in Service, D!Query(s) PROVE ShareInv'
<1> USE DEF ShareInv
<1>0. map \in D!State /\ D!QueryFrom(s, pc[s] = "poll") /\ UNCHANGED <<map, gen, deletes, cache, last>>
  BY DEF D!TypeOK, D!Query, D!QueryFrom
<1>1. window' = [window EXCEPT ![s] = {map}] /\ window' \in [Service -> SUBSET D!State]
  BY <1>0 DEF D!TypeOK, D!QueryFrom
<1>2. D!VersionsIdentify' /\ VersionsBounded'
  BY <1>0 DEF D!VersionsIdentify, VersionsBounded
<1>3. CASE cache[s] # D!Absent /\ cache[s].version = map.version
  <2>1. /\ answer' = [answer EXCEPT ![s] = cache[s]] /\ pc' = [pc EXCEPT ![s] = "idle"]
        /\ UNCHANGED calls
        /\ shown' = shown \/ shown' = [shown EXCEPT ![s] = cache[s].gen]
    BY <1>0, <1>3 DEF D!QueryFrom, D!Returns
  <2>2. cache[s] \in D!State /\ cache[s].gen \in 0 .. MaxGen
    BY DEF D!TypeOK, D!State
  <2>3. D!TypeOK'
    BY <1>0, <1>1, <2>1, <2>2 DEF D!TypeOK
  <2>4. WindowOpen'
    BY <1>0, <1>1, <2>1 DEF WindowOpen, D!TypeOK
  <2>5. ASSUME NEW t \in Service, pc'[t] # "query" PROVE Fits(t)'
    <3>1. CASE t = s
      <4>1. window'[t] = {map} /\ answer'[t] = cache[s] /\ map \in window'[t]
        BY <1>1, <2>1, <3>1 DEF D!TypeOK
      <4>2. answer'[t].version = map.version /\ (deletes' = 0 => answer'[t] = map)
        BY <1>0, <1>3, <4>1, CacheIsCurrent
      <4> QED
        BY <4>1, <4>2 DEF Fits
    <3>2. CASE t # s
      <4>1. window'[t] = window[t] /\ answer'[t] = answer[t] /\ Fits(t)
        BY <1>1, <2>1, <2>5, <3>2 DEF D!TypeOK, AnswersFit
      <4> QED
        BY <1>0, <4>1 DEF Fits
    <3> QED
      BY <3>1, <3>2
  <2> QED
    BY <1>2, <2>3, <2>4, <2>5 DEF AnswersFit
<1>4. CASE ~(cache[s] # D!Absent /\ cache[s].version = map.version)
  <2>1. /\ pc' = [pc EXCEPT ![s] = "query"] /\ calls' = [calls EXCEPT ![s] = (pc[s] = "poll")]
        /\ UNCHANGED <<answer, shown>>
    BY <1>0, <1>4 DEF D!QueryFrom
  <2>2. D!TypeOK'
    BY <1>0, <1>1, <2>1 DEF D!TypeOK
  <2>3. WindowOpen'
    BY <1>0, <1>1, <2>1 DEF WindowOpen, D!TypeOK
  <2>4. ASSUME NEW t \in Service, pc'[t] # "query" PROVE Fits(t)'
    <3>1. t # s /\ window'[t] = window[t] /\ Fits(t)
      BY <1>1, <2>1, <2>4 DEF D!TypeOK, AnswersFit
    <3> QED
      BY <1>0, <2>1, <3>1 DEF Fits
  <2> QED
    BY <1>2, <2>2, <2>3, <2>4 DEF AnswersFit
<1> QED
  BY <1>3, <1>4

\* sd.query returns the table of this moment, which the window reaches.
LEMMA LqueryStep == ASSUME ShareInv, NEW s \in Service, D!lquery(s) PROVE ShareInv'
<1> USE DEF ShareInv
<1>0. /\ pc[s] = "query" /\ map \in D!State /\ UNCHANGED <<map, gen, deletes, last, window>>
      /\ pc' = [pc EXCEPT ![s] = "idle"] /\ calls' = [calls EXCEPT ![s] = FALSE]
      /\ cache' = [cache EXCEPT ![s] = map] /\ answer' = [answer EXCEPT ![s] = map]
      /\ shown' = shown \/ shown' = [shown EXCEPT ![s] = map.gen]
  BY DEF D!TypeOK, D!lquery, D!Returns
<1>1. D!TypeOK'
  <2>1. map.gen \in 0 .. MaxGen
    BY <1>0 DEF D!State
  <2> QED
    BY <1>0, <2>1 DEF D!TypeOK
<1>2. VersionsBounded' /\ WindowOpen'
  BY <1>0 DEF VersionsBounded, WindowOpen, D!TypeOK
<1>3. D!VersionsIdentify'
  BY <1>0 DEF D!VersionsIdentify, D!TypeOK, D!State
<1>4. ASSUME NEW t \in Service, pc'[t] # "query" PROVE Fits(t)'
  <2>1. CASE t = s
    <3>1. map \in window'[t] /\ answer'[t] = map
      BY <1>0, <2>1 DEF D!TypeOK, WindowOpen
    <3> QED
      BY <3>1 DEF Fits
  <2>2. CASE t # s
    <3>1. answer'[t] = answer[t] /\ Fits(t)
      BY <1>0, <1>4, <2>2 DEF D!TypeOK, AnswersFit
    <3> QED
      BY <1>0, <3>1 DEF Fits
  <2> QED
    BY <2>1, <2>2
<1> QED
  BY <1>1, <1>2, <1>3, <1>4 DEF AnswersFit

\* A collected box, a subscription and its wake-up leave answers and windows alone.
LEMMA OtherStep ==
    ASSUME ShareInv, NEW s \in Service, D!Collect(s) \/ D!Subscribe(s) \/ D!Poll(s)
    PROVE  ShareInv'
<1> USE DEF ShareInv
<1>0. /\ UNCHANGED <<map, gen, deletes, calls, answer, window>>
      /\ \A t \in Service : (pc'[t] = "query") <=> (pc[t] = "query")
  BY DEF D!Collect, D!Subscribe, D!Poll, D!TypeOK
<1>1. D!TypeOK'
  <2>1. CASE D!Collect(s)
    BY <2>1, ShareAssumption DEF D!Collect, D!TypeOK, D!Absent, D!State
  <2>2. CASE D!Subscribe(s)
    BY <2>2 DEF D!Subscribe, D!TypeOK, D!State
  <2>3. CASE D!Poll(s)
    BY <2>3 DEF D!Poll, D!TypeOK, D!State
  <2> QED
    BY <2>1, <2>2, <2>3
<1>2. cache' = cache \/ cache' = [cache EXCEPT ![s] = D!Absent]
  BY DEF D!Collect, D!Subscribe, D!Poll
<1>3. D!VersionsIdentify' /\ VersionsBounded'
  BY <1>0, <1>2 DEF D!VersionsIdentify, VersionsBounded, D!TypeOK
<1>4. WindowOpen'
  BY <1>0 DEF WindowOpen
<1>5. AnswersFit'
  BY <1>0 DEF AnswersFit, Fits
<1> QED
  BY <1>1, <1>3, <1>4, <1>5

\* For any number of services and tables: a query that asks the store twice returns a
\* table the name had in between, the very table while nothing has been deleted.
THEOREM QueriesCurrent == D!Spec => []QueryIsCurrent
<1>1. ShareInv /\ [D!Next]_(D!vars) => ShareInv'
  <2> SUFFICES ASSUME ShareInv, [D!Next]_(D!vars) PROVE ShareInv'
    OBVIOUS
  <2>1. CASE D!Next
    BY <2>1, UpdateStep, DeleteStep, QueryStep, LqueryStep, OtherStep DEF D!Next
  <2>2. CASE UNCHANGED D!vars
    BY <2>2 DEF D!vars, ShareInv, D!TypeOK, D!VersionsIdentify, VersionsBounded, WindowOpen, AnswersFit, Fits
  <2> QED
    BY <2>1, <2>2
<1>2. ShareInv => QueryIsCurrent
  BY DEF ShareInv, AnswersFit, Fits, QueryIsCurrent, D!QueryIsCurrent
<1> QED
  BY <1>1, <1>2, ShareInit, PTL DEF D!Spec

-----------------------------------------------------------------------------
(* Sequences *)

\* A sequence is known by its elements.
LEMMA SameSeq ==
    ASSUME NEW S, NEW s \in Seq(S), NEW t \in Seq(S), Len(s) = Len(t), \A k \in 1 .. Len(s) : s[k] = t[k]
    PROVE  s = t
  OBVIOUS

\* Elements a + 1 to b of s.
Part(s, a, b) == SubSeq(s, a + 1, b)

\* What they are.
LEMMA PartIs ==
    ASSUME NEW S, NEW s \in Seq(S), NEW a \in Nat, NEW b \in Nat, a <= b, b <= Len(s)
    PROVE  /\ Part(s, a, b) \in Seq(S) /\ Len(Part(s, a, b)) = b - a
           /\ \A k \in 1 .. b - a : Part(s, a, b)[k] = s[a + k]
<1>1. Len(s) \in Nat /\ \A k \in 1 .. Len(s) : s[k] \in S
  OBVIOUS
<1>2. Part(s, a, b) = [k \in 1 .. b - a |-> s[a + k]]
  BY DEF Part
<1>3. \A k \in 1 .. b - a : a + k \in 1 .. Len(s)
  BY <1>1
<1>4. [k \in 1 .. b - a |-> s[a + k]] \in [1 .. b - a -> S]
  BY <1>1, <1>3
<1>5. b - a \in Nat
  OBVIOUS
<1>6. [k \in 1 .. b - a |-> s[a + k]] \in Seq(S) /\ Len([k \in 1 .. b - a |-> s[a + k]]) = b - a
  BY <1>4, <1>5
<1> QED
  BY <1>2, <1>6

\* The beginning, and the rest.
LEMMA TakeIs ==
    ASSUME NEW S, NEW s \in Seq(S), NEW n \in Nat, n <= Len(s)
    PROVE  /\ Take(s, n) \in Seq(S) /\ Len(Take(s, n)) = n
           /\ \A k \in 1 .. n : Take(s, n)[k] = s[k]
<1>1. Take(s, n) = Part(s, 0, n)
  BY DEF Take, Part
<1> QED
  BY <1>1, PartIs
LEMMA DropIs ==
    ASSUME NEW S, NEW s \in Seq(S), NEW n \in Nat, n <= Len(s)
    PROVE  /\ Drop(s, n) \in Seq(S) /\ Len(Drop(s, n)) = Len(s) - n
           /\ \A k \in 1 .. Len(s) - n : Drop(s, n)[k] = s[n + k]
<1>1. Drop(s, n) = Part(s, n, Len(s)) /\ Len(s) \in Nat
  BY DEF Drop, Part
<1>2. /\ Part(s, n, Len(s)) \in Seq(S) /\ Len(Part(s, n, Len(s))) = Len(s) - n
      /\ \A k \in 1 .. Len(s) - n : Part(s, n, Len(s))[k] = s[n + k]
  <2>1. \A m \in Nat : n <= m /\ m <= Len(s) =>
          /\ Part(s, n, m) \in Seq(S) /\ Len(Part(s, n, m)) = m - n
          /\ \A k \in 1 .. m - n : Part(s, n, m)[k] = s[n + k]
    BY PartIs
  <2>2. Len(s) \in Nat /\ n <= Len(s) /\ Len(s) <= Len(s)
    BY <1>1
  <2> QED
    BY <2>1, <2>2, Zenon
<1> QED
  BY <1>1, <1>2

\* The beginning of a part, and the rest of it.
LEMMA PartTake ==
    ASSUME NEW S, NEW s \in Seq(S), NEW a \in Nat, NEW b \in Nat, a <= b, b <= Len(s),
           NEW n \in Nat, n <= b - a
    PROVE  /\ Take(Part(s, a, b), n) = Part(s, a, a + n)
           /\ Drop(Part(s, a, b), n) = Part(s, a + n, b)
<1> DEFINE p == Part(s, a, b)
<1>1. p \in Seq(S) /\ Len(p) = b - a /\ \A k \in 1 .. b - a : p[k] = s[a + k]
  BY PartIs
<1>2. a + n \in Nat /\ a + n <= b /\ a <= a + n /\ a + n <= Len(s)
  OBVIOUS
<1>3. /\ Part(s, a, a + n) \in Seq(S) /\ Len(Part(s, a, a + n)) = (a + n) - a
      /\ \A k \in 1 .. (a + n) - a : Part(s, a, a + n)[k] = s[a + k]
  BY <1>2, PartIs
<1>4. /\ Part(s, a + n, b) \in Seq(S) /\ Len(Part(s, a + n, b)) = b - (a + n)
      /\ \A k \in 1 .. b - (a + n) : Part(s, a + n, b)[k] = s[(a + n) + k]
  BY <1>2, PartIs
<1> HIDE DEF p
<1>5. Take(p, n) \in Seq(S) /\ Len(Take(p, n)) = n /\ \A k \in 1 .. n : Take(p, n)[k] = p[k]
  <2>1. p \in Seq(S) /\ n <= Len(p)
    BY <1>1
  <2> QED
    BY <2>1, TakeIs
<1>6. Drop(p, n) \in Seq(S) /\ Len(Drop(p, n)) = Len(p) - n /\ \A k \in 1 .. Len(p) - n : Drop(p, n)[k] = p[n + k]
  <2>1. p \in Seq(S) /\ n <= Len(p)
    BY <1>1
  <2> QED
    BY <2>1, DropIs
<1>7. Take(p, n) = Part(s, a, a + n)
  <2>1. Len(Part(s, a, a + n)) = n /\ \A k \in 1 .. n : Part(s, a, a + n)[k] = s[a + k]
    BY <1>3
  <2>2. \A k \in 1 .. n : Take(p, n)[k] = s[a + k]
    BY <1>1, <1>5
  <2> QED
    BY <1>3, <1>5, <2>1, <2>2, SameSeq
<1>8. Drop(p, n) = Part(s, a + n, b)
  <2>1. \A k \in 1 .. b - (a + n) : p[n + k] = s[(a + n) + k]
    <3>1. \A k \in 1 .. b - (a + n) : n + k \in 1 .. b - a /\ a + (n + k) = (a + n) + k
      OBVIOUS
    <3> QED
      BY <1>1, <3>1
  <2>2. Len(p) - n = b - (a + n)
    BY <1>1
  <2> QED
    BY <1>4, <1>6, <2>1, <2>2, SameSeq
<1> QED
  BY <1>7, <1>8 DEF p

\* Two sequences in a row.
LEMMA JoinIs ==
    ASSUME NEW S, NEW s \in Seq(S), NEW t \in Seq(S)
    PROVE  /\ s \o t \in Seq(S) /\ Len(s \o t) = Len(s) + Len(t)
           /\ \A k \in 1 .. Len(s) : (s \o t)[k] = s[k]
           /\ \A k \in 1 .. Len(t) : (s \o t)[Len(s) + k] = t[k]
  OBVIOUS
LEMMA AppendIs ==
    ASSUME NEW S, NEW s \in Seq(S), NEW x \in S
    PROVE  /\ Append(s, x) \in Seq(S) /\ Len(Append(s, x)) = Len(s) + 1
           /\ \A k \in 1 .. Len(s) : Append(s, x)[k] = s[k]
           /\ Append(s, x)[Len(s) + 1] = x
  OBVIOUS

\* Two parts in a row.
LEMMA PartJoin ==
    ASSUME NEW S, NEW s \in Seq(S), NEW a \in Nat, NEW b \in Nat, NEW c \in Nat, a <= b, b <= c, c <= Len(s)
    PROVE  Part(s, a, b) \o Part(s, b, c) = Part(s, a, c)
<1>1. b <= Len(s) /\ a <= c
  OBVIOUS
<1>2. /\ Part(s, a, b) \in Seq(S) /\ Len(Part(s, a, b)) = b - a
      /\ \A k \in 1 .. b - a : Part(s, a, b)[k] = s[a + k]
  BY <1>1, PartIs
<1>3. /\ Part(s, b, c) \in Seq(S) /\ Len(Part(s, b, c)) = c - b
      /\ \A k \in 1 .. c - b : Part(s, b, c)[k] = s[b + k]
  BY <1>1, PartIs
<1>4. /\ Part(s, a, c) \in Seq(S) /\ Len(Part(s, a, c)) = c - a
      /\ \A k \in 1 .. c - a : Part(s, a, c)[k] = s[a + k]
  BY <1>1, PartIs
<1> DEFINE x == Part(s, a, b)
           y == Part(s, b, c)
           z == Part(s, a, c)
<1>5. /\ x \o y \in Seq(S) /\ Len(x \o y) = Len(x) + Len(y)
      /\ \A k \in 1 .. Len(x) : (x \o y)[k] = x[k]
      /\ \A k \in 1 .. Len(y) : (x \o y)[Len(x) + k] = y[k]
  <2>1. x \in Seq(S) /\ y \in Seq(S)
    BY <1>2, <1>3
  <2> HIDE DEF x, y
  <2> QED
    BY <2>1, JoinIs
<1> HIDE DEF x, y, z
<1>6. Len(x \o y) = Len(z)
  BY <1>2, <1>3, <1>4, <1>5 DEF x, y, z
<1>7. ASSUME NEW k \in 1 .. Len(x \o y) PROVE (x \o y)[k] = z[k]
  <2>1. CASE k \in 1 .. b - a
    <3>1. k \in 1 .. c - a
      BY <2>1
    <3> QED
      BY <1>2, <1>4, <1>5, <2>1, <3>1 DEF x, y, z
  <2>2. CASE k \notin 1 .. b - a
    <3> DEFINE j == k - (b - a)
    <3>1. j \in 1 .. c - b /\ (b - a) + j = k /\ b + j = a + k /\ k \in 1 .. c - a
      BY <1>2, <1>3, <1>5, <1>7, <2>2 DEF x, y
    <3> HIDE DEF j
    <3>2. (x \o y)[(b - a) + j] = s[b + j]
      BY <1>2, <1>3, <1>5, <3>1 DEF x, y
    <3> QED
      BY <1>4, <3>1, <3>2 DEF z
  <2> QED
    BY <2>1, <2>2
<1> QED
  BY <1>4, <1>5, <1>6, <1>7, SameSeq DEF x, y, z

-----------------------------------------------------------------------------
(* Numbers and headers *)

\* Quotient and remainder.
LEMMA DivMod ==
    ASSUME NEW a \in Nat, NEW m \in Nat \ {0}
    PROVE  /\ a \div m \in Nat /\ a % m \in Nat /\ a % m < m
           /\ a = m * (a \div m) + (a % m)
  OBVIOUS

\* A length is its two digits.
LEMMA Digits ==
    ASSUME NEW n \in Nat, NEW b \in Nat \ {0}, n < b * b
    PROVE  /\ (n \div b) * b + (n % b) = n
           /\ n \div b \in 0 .. b - 1 /\ n % b \in 0 .. b - 1
<1>1. PICK d \in Nat, r \in Nat : r < b /\ n = b * d + r /\ d = n \div b /\ r = n % b
  BY DivMod
<1>2. d < b
  <2> SUFFICES ASSUME d >= b PROVE FALSE
    BY <1>1
  <2>1. \A x, y, z \in Nat : x >= y => z * x >= z * y
    OBVIOUS
  <2>2. b * d >= b * b
    BY <2>1
  <2>3. b * d \in Nat /\ b * b \in Nat
    OBVIOUS
  <2> QED
    BY <1>1, <2>2, <2>3
<1>3. b * d = d * b
  OBVIOUS
<1>4. d \in 0 .. b - 1 /\ r \in 0 .. b - 1
  BY <1>1, <1>2
<1> QED
  BY <1>1, <1>3, <1>4

\* Packets that can be sent.
Sendable(ps) == ps \in Seq(Seq(Byte)) /\ \A k \in 1 .. Len(ps) : Len(ps[k]) < Base * Base

\* s is the packets of ps up to the last end in e, each behind its header.
Framed(s, e, ps) ==
    /\ s \in Seq(Byte) /\ e \in Seq(Nat) /\ Len(e) <= Len(ps) /\ Len(s) = Begin(e, Len(e))
    /\ \A k \in 1 .. Len(e) :
         /\ e[k] = Begin(e, k - 1) + 2 + Len(ps[k]) /\ e[k] <= Len(s)
         /\ Part(s, Begin(e, k - 1), e[k]) = lpack(ps[k])
    /\ \A j, k \in 0 .. Len(e) : j < k => Begin(e, j) < Begin(e, k)

\* A packet behind its header.
LEMMA PackIs ==
    ASSUME NEW p \in Seq(Byte), Len(p) < Base * Base
    PROVE  /\ lpack(p) \in Seq(Byte) /\ Len(lpack(p)) = Len(p) + 2
           /\ lpack(p)[1] = Len(p) \div Base /\ lpack(p)[2] = Len(p) % Base
           /\ \A k \in 1 .. Len(p) : lpack(p)[2 + k] = p[k]
<1>1. Len(p) \in Nat /\ Base \in Nat \ {0}
  BY NetAssumption
<1>2. Len(p) \div Base \in Byte /\ Len(p) % Base \in Byte
  BY <1>1, Digits DEF Byte
<1> DEFINE h == Header(Len(p))
<1>3. h \in Seq(Byte) /\ Len(h) = 2 /\ h[1] = Len(p) \div Base /\ h[2] = Len(p) % Base
  BY <1>2 DEF Header
<1>4. lpack(p) = h \o p
  BY DEF lpack
<1> HIDE DEF h
<1>5. /\ h \o p \in Seq(Byte) /\ Len(h \o p) = Len(h) + Len(p)
      /\ \A k \in 1 .. Len(h) : (h \o p)[k] = h[k]
      /\ \A k \in 1 .. Len(p) : (h \o p)[Len(h) + k] = p[k]
  <2>1. h \in Seq(Byte) /\ p \in Seq(Byte)
    BY <1>3
  <2> QED
    BY <2>1, JoinIs
<1>6. 1 \in 1 .. Len(h) /\ 2 \in 1 .. Len(h) /\ Len(h) + Len(p) = Len(p) + 2
  BY <1>1, <1>3
<1> QED
  BY <1>3, <1>4, <1>5, <1>6

\* A packet that is at place b of a stream: its header and its bytes.
LEMMA PackAt ==
    ASSUME NEW s \in Seq(Byte), NEW p \in Seq(Byte), Len(p) < Base * Base,
           NEW b \in Nat, b + 2 + Len(p) <= Len(s), Part(s, b, b + 2 + Len(p)) = lpack(p)
    PROVE  /\ s[b + 1] = Len(p) \div Base /\ s[b + 2] = Len(p) % Base
           /\ \A m \in 0 .. Len(p) : Part(s, b + 2, b + 2 + m) = Take(p, m)
<1> DEFINE n == Len(p)
           x == lpack(p)
           t == b + 2 + n
<1>1. n \in Nat /\ Len(s) \in Nat /\ t <= Len(s)
  OBVIOUS
<1>2. /\ x \in Seq(Byte) /\ Len(x) = n + 2 /\ x[1] = n \div Base /\ x[2] = n % Base
      /\ \A i \in 1 .. n : x[2 + i] = p[i]
  BY PackIs
<1>3. Part(s, b, t) = x
  OBVIOUS
<1>4. t \in Nat /\ b <= t /\ t - b = n + 2
  BY <1>1
<1> HIDE DEF n, x, t
<1>5. \A i \in 1 .. n + 2 : x[i] = s[b + i]
  <2>1. /\ Part(s, b, t) \in Seq(Byte) /\ Len(Part(s, b, t)) = t - b
        /\ \A i \in 1 .. t - b : Part(s, b, t)[i] = s[b + i]
    BY <1>1, <1>4, PartIs, ZenonT(40)
  <2> QED
    BY <1>3, <1>4, <2>1
<1>6. s[b + 1] = n \div Base /\ s[b + 2] = n % Base
  <2>1. 1 \in 1 .. n + 2 /\ 2 \in 1 .. n + 2
    BY <1>1
  <2> QED
    BY <1>2, <1>5, <2>1
<1>7. ASSUME NEW m \in 0 .. n PROVE Part(s, b + 2, b + 2 + m) = Take(p, m)
  <2> DEFINE u == b + 2
             v == b + 2 + m
  <2>1. u \in Nat /\ v \in Nat /\ u <= v /\ v <= t /\ v - u = m
    BY <1>1 DEF t
  <2>2. v <= Len(s) /\ m \in Nat /\ m <= n
    BY <1>1, <1>4, <2>1
  <2>3. \A i \in 1 .. m : 2 + i \in 1 .. n + 2 /\ b + (2 + i) = u + i /\ i \in 1 .. n
    BY <1>1
  <2> HIDE DEF u, v
  <2>4. /\ Part(s, u, v) \in Seq(Byte) /\ Len(Part(s, u, v)) = v - u
        /\ \A i \in 1 .. v - u : Part(s, u, v)[i] = s[u + i]
    BY <2>1, <2>2, PartIs, ZenonT(40)
  <2>5. /\ Take(p, m) \in Seq(Byte) /\ Len(Take(p, m)) = m
        /\ \A i \in 1 .. m : Take(p, m)[i] = p[i]
    BY <2>2, TakeIs DEF n
  <2>6. ASSUME NEW i \in 1 .. m PROVE s[u + i] = p[i]
    <3>1. x[2 + i] = s[b + (2 + i)] /\ x[2 + i] = p[i] /\ b + (2 + i) = u + i
      BY <1>2, <1>5, <2>3
    <3> QED
      BY <3>1
  <2>7. \A i \in 1 .. Len(Part(s, u, v)) : Part(s, u, v)[i] = Take(p, m)[i]
    BY <2>1, <2>4, <2>5, <2>6
  <2>8. Len(Part(s, u, v)) = Len(Take(p, m))
    BY <2>1, <2>4, <2>5
  <2>9. Part(s, u, v) = Take(p, m)
    BY <2>4, <2>5, <2>7, <2>8, SameSeq
  <2> QED
    BY <2>9 DEF u, v
<1> QED
  BY <1>6, <1>7 DEF n

\* Where packets begin.
LEMMA BeginIn ==
    ASSUME NEW e \in Seq(Nat), NEW k \in 0 .. Len(e)
    PROVE  Begin(e, k) \in Nat
  BY DEF Begin

\* Where the packet after c others is, its header and its bytes.
LEMMA PacketAt ==
    ASSUME NEW s, NEW e, NEW ps, Framed(s, e, ps), Sendable(ps), NEW c \in Nat, c + 1 \in 1 .. Len(e)
    PROVE  LET b == Begin(e, c)
               p == ps[c + 1]
           IN  /\ b \in Nat /\ Len(p) \in Nat /\ p \in Seq(Byte) /\ Len(p) < Base * Base
               /\ e[c + 1] = b + 2 + Len(p) /\ e[c + 1] <= Len(s)
               /\ s[b + 1] = Len(p) \div Base /\ s[b + 2] = Len(p) % Base
               /\ \A m \in 0 .. Len(p) : Part(s, b + 2, b + 2 + m) = Take(p, m)
<1>1. s \in Seq(Byte) /\ e \in Seq(Nat) /\ Len(e) \in Nat /\ Len(e) <= Len(ps)
  BY DEF Framed
<1>2. ps \in Seq(Seq(Byte)) /\ c + 1 \in 1 .. Len(ps) /\ Len(ps) \in Nat /\ c \in 0 .. Len(e)
  BY <1>1 DEF Sendable
<1> DEFINE b == Begin(e, c)
           p == ps[c + 1]
<1>3. p \in Seq(Byte) /\ Len(p) \in Nat
  <2>1. p \in Seq(Byte)
    BY <1>2
  <2> QED
    BY <2>1
<1>4. Len(p) < Base * Base
  BY <1>2 DEF Sendable
<1>5. b \in Nat
  BY <1>1, <1>2, BeginIn
<1>6. e[c + 1] = b + 2 + Len(p) /\ e[c + 1] <= Len(s) /\ Part(s, b, e[c + 1]) = lpack(p)
  <2> DEFINE k == c + 1
  <2>1. k \in 1 .. Len(e) /\ k - 1 = c
    OBVIOUS
  <2> HIDE DEF k
  <2>2. e[k] = Begin(e, k - 1) + 2 + Len(ps[k]) /\ e[k] <= Len(s) /\ Part(s, Begin(e, k - 1), e[k]) = lpack(ps[k])
    BY <2>1 DEF Framed
  <2> QED
    BY <2>1, <2>2 DEF k
<1> HIDE DEF b, p
<1>7. b + 2 + Len(p) <= Len(s) /\ Part(s, b, b + 2 + Len(p)) = lpack(p)
  BY <1>6
<1>8. /\ s[b + 1] = Len(p) \div Base /\ s[b + 2] = Len(p) % Base
      /\ \A m \in 0 .. Len(p) : Part(s, b + 2, b + 2 + m) = Take(p, m)
  BY <1>1, <1>3, <1>4, <1>5, <1>7, PackAt
<1> QED
  BY <1>3, <1>4, <1>5, <1>6, <1>8 DEF b, p

\* The first of these facts.
LEMMA PacketNumbers ==
    ASSUME NEW s, NEW e, NEW ps, Framed(s, e, ps), Sendable(ps), NEW c \in Nat, c + 1 \in 1 .. Len(e)
    PROVE  /\ Begin(e, c) \in Nat /\ Len(ps[c + 1]) \in Nat /\ ps[c + 1] \in Seq(Byte)
           /\ Len(ps[c + 1]) < Base * Base /\ e[c + 1] = Begin(e, c) + 2 + Len(ps[c + 1])
  BY PacketAt

\* The first bytes of a longer stream.
LEMMA PartOfJoin ==
    ASSUME NEW S, NEW s \in Seq(S), NEW t \in Seq(S), NEW a \in Nat, NEW b \in Nat, a <= b, b <= Len(s)
    PROVE  Part(s \o t, a, b) = Part(s, a, b)
<1> DEFINE u == s \o t
<1>1. u \in Seq(S) /\ Len(u) = Len(s) + Len(t) /\ \A k \in 1 .. Len(s) : u[k] = s[k]
  BY JoinIs
<1> HIDE DEF u
<1>2. b <= Len(u)
  <2>1. Len(s) \in Nat /\ Len(t) \in Nat
    OBVIOUS
  <2> QED
    BY <1>1, <2>1
<1>3. /\ Part(u, a, b) \in Seq(S) /\ Len(Part(u, a, b)) = b - a
      /\ \A k \in 1 .. b - a : Part(u, a, b)[k] = u[a + k]
  <2>1. u \in Seq(S) /\ b <= Len(u)
    BY <1>1, <1>2
  <2> QED
    BY <2>1, PartIs
<1>4. /\ Part(s, a, b) \in Seq(S) /\ Len(Part(s, a, b)) = b - a
      /\ \A k \in 1 .. b - a : Part(s, a, b)[k] = s[a + k]
  BY PartIs
<1>5. \A k \in 1 .. b - a : u[a + k] = s[a + k]
  <2>1. \A k \in 1 .. b - a : a + k \in 1 .. Len(s)
    OBVIOUS
  <2> QED
    BY <1>1, <2>1
<1>6. \A k \in 1 .. b - a : Part(u, a, b)[k] = Part(s, a, b)[k]
  BY <1>3, <1>4, <1>5
<1> DEFINE x == Part(u, a, b)
           y == Part(s, a, b)
<1>7. x \in Seq(S) /\ y \in Seq(S) /\ Len(x) = Len(y) /\ \A k \in 1 .. Len(x) : x[k] = y[k]
  BY <1>3, <1>4, <1>6
<1> HIDE DEF x, y
<1>8. x = y
  BY <1>7, SameSeq
<1> QED
  BY <1>8 DEF x, y, u

\* Nothing has been sent.
LEMMA FramedNone == ASSUME NEW ps, Sendable(ps) PROVE Framed(<<>>, <<>>, ps)
<1>1. Len(ps) \in Nat
  BY DEF Sendable
<1>2. <<>> \in Seq(Byte) /\ <<>> \in Seq(Nat) /\ Len(<<>>) = 0 /\ Begin(<<>>, 0) = 0
  BY DEF Begin
<1> QED
  BY <1>1, <1>2 DEF Framed

\* The beginnings of the packets when there is one more end.
LEMMA BeginMore ==
    ASSUME NEW e \in Seq(Nat), NEW x \in Nat
    PROVE  /\ Append(e, x) \in Seq(Nat) /\ Len(Append(e, x)) = Len(e) + 1
           /\ \A k \in 1 .. Len(e) : Append(e, x)[k] = e[k]
           /\ \A k \in 0 .. Len(e) : Begin(Append(e, x), k) = Begin(e, k)
           /\ Append(e, x)[Len(e) + 1] = x /\ Begin(Append(e, x), Len(e) + 1) = x
<1>1. /\ Append(e, x) \in Seq(Nat) /\ Len(Append(e, x)) = Len(e) + 1
      /\ \A k \in 1 .. Len(e) : Append(e, x)[k] = e[k]
      /\ Append(e, x)[Len(e) + 1] = x
  BY AppendIs
<1>2. Len(e) \in Nat
  OBVIOUS
<1> DEFINE f == Append(e, x)
<1> HIDE DEF f
<1>3. \A k \in 0 .. Len(e) : Begin(f, k) = Begin(e, k)
  BY <1>1, <1>2 DEF Begin, f
<1>4. Begin(f, Len(e) + 1) = x
  BY <1>1, <1>2 DEF Begin, f
<1> QED
  BY <1>1, <1>3, <1>4 DEF f

\* The next packet is sent.
LEMMA FramedMore ==
    ASSUME NEW s, NEW e, NEW ps, Framed(s, e, ps), Sendable(ps), Len(e) < Len(ps)
    PROVE  LET t == s \o lpack(ps[Len(e) + 1])
           IN  /\ Framed(t, Append(e, Len(t)), ps) /\ Len(s) < Len(t)
               /\ \A a, b \in Nat : a <= b /\ b <= Len(s) => Part(t, a, b) = Part(s, a, b)
<1> DEFINE n == Len(e)
           x == lpack(ps[n + 1])
           m == Len(ps[n + 1])
           u == s \o x
           f == Append(e, Len(u))
<1>1. s \in Seq(Byte) /\ e \in Seq(Nat) /\ n \in Nat /\ Len(s) \in Nat /\ Len(s) = Begin(e, n)
  BY DEF Framed
<1>2. ps \in Seq(Seq(Byte)) /\ Len(ps) \in Nat /\ n + 1 \in 1 .. Len(ps)
  BY <1>1 DEF Sendable
<1>3. ps[n + 1] \in Seq(Byte) /\ m < Base * Base
  BY <1>2 DEF Sendable
<1>4. x \in Seq(Byte) /\ Len(x) = m + 2 /\ m \in Nat
  BY <1>3, PackIs
<1> HIDE DEF x
<1>5. /\ u \in Seq(Byte) /\ Len(u) = Len(s) + Len(x)
      /\ \A k \in 1 .. Len(s) : u[k] = s[k]
      /\ \A k \in 1 .. Len(x) : u[Len(s) + k] = x[k]
  <2>1. s \in Seq(Byte) /\ x \in Seq(Byte)
    BY <1>1, <1>4
  <2> QED
    BY <2>1, JoinIs
<1>6. \A a, b \in Nat : a <= b /\ b <= Len(s) => Part(u, a, b) = Part(s, a, b)
  BY <1>1, <1>4, PartOfJoin
<1> HIDE DEF u
<1> HIDE DEF m
<1>7. Len(u) \in Nat /\ Len(u) = Len(s) + 2 + m
  BY <1>1, <1>4, <1>5
<1>8. /\ f \in Seq(Nat) /\ Len(f) = n + 1
      /\ \A k \in 1 .. n : f[k] = e[k]
      /\ \A k \in 0 .. n : Begin(f, k) = Begin(e, k)
      /\ f[n + 1] = Len(u) /\ Begin(f, n + 1) = Len(u)
  BY <1>1, <1>7, BeginMore
<1> HIDE DEF f
<1>9. Part(u, Len(s), Len(u)) = x
  <2>1. Len(u) - Len(s) = Len(x) /\ Len(x) \in Nat
    BY <1>1, <1>4, <1>5
  <2>2. /\ Part(u, Len(s), Len(u)) \in Seq(Byte) /\ Len(Part(u, Len(s), Len(u))) = Len(u) - Len(s)
        /\ \A k \in 1 .. Len(u) - Len(s) : Part(u, Len(s), Len(u))[k] = u[Len(s) + k]
    <3>1. Len(s) <= Len(u) /\ Len(u) <= Len(u)
      BY <1>1, <1>4, <1>7
    <3> DEFINE a == Len(s)
               b == Len(u)
    <3>2. u \in Seq(Byte) /\ a \in Nat /\ b \in Nat /\ a <= b /\ b <= Len(u)
      BY <1>1, <1>5, <1>7, <3>1
    <3> HIDE DEF a, b
    <3>3. /\ Part(u, a, b) \in Seq(Byte) /\ Len(Part(u, a, b)) = b - a
          /\ \A k \in 1 .. b - a : Part(u, a, b)[k] = u[a + k]
      BY <3>2, PartIs
    <3> QED
      BY <3>3 DEF a, b
  <2>3. \A k \in 1 .. Len(x) : Part(u, Len(s), Len(u))[k] = x[k]
    BY <1>5, <2>1, <2>2
  <2> DEFINE y == Part(u, Len(s), Len(u))
  <2>4. y \in Seq(Byte) /\ Len(y) = Len(x) /\ \A k \in 1 .. Len(y) : y[k] = x[k]
    BY <2>1, <2>2, <2>3
  <2> HIDE DEF y
  <2>5. y = x
    BY <1>4, <2>4, SameSeq
  <2> QED
    BY <2>5 DEF y
<1>10. ASSUME NEW k \in 1 .. n + 1
       PROVE  /\ f[k] = Begin(f, k - 1) + 2 + Len(ps[k]) /\ f[k] <= Len(u)
              /\ Part(u, Begin(f, k - 1), f[k]) = lpack(ps[k])
  <2>1. CASE k = n + 1
    <3>1. Begin(f, k - 1) = Len(s)
      <4>1. k - 1 = n /\ n \in 0 .. n
        BY <1>1, <2>1
      <4> QED
        BY <1>1, <1>8, <4>1
    <3>2. f[k] = Len(u)
      BY <1>8, <2>1
    <3>3. lpack(ps[k]) = x /\ Len(ps[k]) = m
      BY <2>1 DEF x, m
    <3> QED
      BY <1>7, <1>9, <3>1, <3>2, <3>3
  <2>2. CASE k # n + 1
    <3>1. k \in 1 .. n /\ k - 1 \in 0 .. n
      BY <1>1, <2>2
    <3>2. /\ e[k] = Begin(e, k - 1) + 2 + Len(ps[k]) /\ e[k] <= Len(s)
          /\ Part(s, Begin(e, k - 1), e[k]) = lpack(ps[k])
      BY <3>1 DEF Framed
    <3>3. f[k] = e[k] /\ Begin(f, k - 1) = Begin(e, k - 1)
      BY <1>8, <3>1
    <3>4. Begin(e, k - 1) \in Nat /\ e[k] \in Nat
      BY <1>1, <3>1, BeginIn
    <3>5. Begin(e, k - 1) <= e[k]
      <4>1. ps[k] \in Seq(Byte)
        <5>1. k \in 1 .. Len(ps)
          BY <1>1, <1>2, <3>1
        <5> QED
          BY <1>2, <5>1
      <4>2. Len(ps[k]) \in Nat
        BY <4>1
      <4> QED
        BY <3>2, <3>4, <4>2
    <3>6. Part(u, Begin(e, k - 1), e[k]) = Part(s, Begin(e, k - 1), e[k])
      BY <1>6, <3>2, <3>4, <3>5
    <3>7. e[k] <= Len(u)
      BY <1>1, <1>4, <1>7, <3>2, <3>4
    <3> QED
      BY <3>2, <3>3, <3>6, <3>7
  <2> QED
    BY <2>1, <2>2
<1>11. ASSUME NEW j \in 0 .. n + 1, NEW k \in 0 .. n + 1, j < k PROVE Begin(f, j) < Begin(f, k)
  <2>1. j \in 0 .. n
    BY <1>1, <1>11
  <2>2. CASE k \in 0 .. n
    <3>1. Begin(e, j) < Begin(e, k)
      BY <1>11, <2>1, <2>2 DEF Framed
    <3> QED
      BY <1>8, <2>1, <2>2, <3>1
  <2>3. CASE k \notin 0 .. n
    <3>1. k = n + 1
      BY <1>1, <2>3
    <3>2. Begin(e, j) \in Nat /\ Begin(e, j) <= Begin(e, n)
      <4>1. Begin(e, j) \in Nat /\ Begin(e, n) \in Nat
        BY <1>1, <2>1, BeginIn
      <4>2. CASE j = n
        BY <4>1, <4>2
      <4>3. CASE j # n
        <5>1. j < n /\ n \in 0 .. n
          BY <1>1, <2>1, <4>3
        <5> QED
          BY <2>1, <4>1, <5>1 DEF Framed
      <4> QED
        BY <4>2, <4>3
    <3> QED
      BY <1>1, <1>4, <1>7, <1>8, <2>1, <3>1, <3>2
  <2> QED
    BY <2>2, <2>3
<1>12. Len(f) <= Len(ps) /\ Len(u) = Begin(f, Len(f))
  BY <1>1, <1>2, <1>8
<1>13. Framed(u, f, ps)
  BY <1>5, <1>8, <1>10, <1>11, <1>12 DEF Framed
<1>14. Len(s) < Len(u)
  BY <1>1, <1>4, <1>7
<1> QED
  BY <1>6, <1>13, <1>14 DEF f, u, x

\* r bytes are the first c packets and less than one more.
Spot(e, r, c) == c \in 0 .. Len(e) /\ Begin(e, c) <= r /\ (c = Len(e) \/ r < e[c + 1])

\* There is one such number.
LEMMA SpotUnique ==
    ASSUME NEW s, NEW e, NEW ps, Framed(s, e, ps), NEW r \in Nat,
           NEW c, NEW d, Spot(e, r, c), Spot(e, r, d)
    PROVE  c = d
<1>1. e \in Seq(Nat) /\ Len(e) \in Nat
  BY DEF Framed
<1>2. ASSUME NEW a \in 0 .. Len(e), NEW b \in 0 .. Len(e), a < b, Begin(e, b) <= r, a = Len(e) \/ r < e[a + 1]
      PROVE  FALSE
  <2>1. a + 1 \in 0 .. Len(e) /\ a + 1 # 0 /\ a # Len(e)
    BY <1>1, <1>2
  <2>2. Begin(e, a + 1) = e[a + 1] /\ r < e[a + 1]
    BY <1>2, <2>1 DEF Begin
  <2>3. Begin(e, a + 1) \in Nat /\ Begin(e, b) \in Nat
    BY <1>1, <2>1, BeginIn
  <2>4. Begin(e, a + 1) <= Begin(e, b)
    <3>1. CASE a + 1 = b
      BY <2>3, <3>1
    <3>2. CASE a + 1 # b
      <4>1. a + 1 < b
        BY <1>1, <1>2, <3>2
      <4>2. Begin(e, a + 1) < Begin(e, b)
        BY <2>1, <4>1 DEF Framed
      <4> QED
        BY <2>3, <4>2
    <3> QED
      BY <3>1, <3>2
  <2> QED
    BY <1>2, <2>2, <2>3, <2>4
<1>3. c \in 0 .. Len(e) /\ d \in 0 .. Len(e) /\ ~(c < d) /\ ~(d < c)
  BY <1>2 DEF Spot
<1> QED
  BY <1>1, <1>3

\* It stays when a packet is sent.
LEMMA SpotMore ==
    ASSUME NEW s, NEW e, NEW ps, Framed(s, e, ps), NEW r \in Nat, r <= Len(s),
           NEW c, Spot(e, r, c), NEW x \in Nat, Len(s) < x
    PROVE  Spot(Append(e, x), r, c)
<1>1. e \in Seq(Nat) /\ Len(e) \in Nat /\ Len(s) \in Nat
  BY DEF Framed
<1> DEFINE f == Append(e, x)
<1>2. /\ Len(f) = Len(e) + 1 /\ f[Len(e) + 1] = x
      /\ \A k \in 1 .. Len(e) : f[k] = e[k]
      /\ \A k \in 0 .. Len(e) : Begin(f, k) = Begin(e, k)
  BY <1>1, BeginMore
<1> HIDE DEF f
<1>3. c \in 0 .. Len(e) /\ Begin(e, c) <= r /\ (c = Len(e) \/ r < e[c + 1])
  BY DEF Spot
<1>4. c \in 0 .. Len(f) /\ Begin(f, c) <= r
  BY <1>1, <1>2, <1>3
<1>5. r < f[c + 1]
  <2>1. CASE c = Len(e)
    BY <1>1, <1>2, <2>1
  <2>2. CASE c # Len(e)
    <3>1. c + 1 \in 1 .. Len(e)
      BY <1>1, <1>3, <2>2
    <3> QED
      BY <1>2, <1>3, <2>2, <3>1
  <2> QED
    BY <2>1, <2>2
<1>6. Spot(f, r, c)
  BY <1>4, <1>5 DEF Spot
<1> QED
  BY <1>6 DEF f

\* What is left over when no packet is unfinished is nothing.
LEMMA SpotLast ==
    ASSUME NEW s, NEW e, NEW ps, Framed(s, e, ps), Sendable(ps), NEW r \in Nat, r <= Len(s),
           NEW c, Spot(e, r, c)
    PROVE  /\ c \in Nat /\ c <= Len(ps) /\ Begin(e, c) \in Nat /\ Begin(e, c) <= r
           /\ r # Begin(e, c) => c + 1 \in 1 .. Len(e) /\ r < e[c + 1]
<1>1. e \in Seq(Nat) /\ Len(e) \in Nat /\ Len(s) \in Nat /\ Len(s) = Begin(e, Len(e)) /\ Len(e) <= Len(ps)
  BY DEF Framed
<1>2. c \in 0 .. Len(e) /\ Begin(e, c) <= r /\ (c = Len(e) \/ r < e[c + 1])
  BY DEF Spot
<1>3. Begin(e, c) \in Nat
  BY <1>1, <1>2, BeginIn
<1>4. c \in Nat /\ c <= Len(e)
  BY <1>1, <1>2
<1>5. c = Len(e) => r = Begin(e, c)
  BY <1>1, <1>2, <1>3
<1>6. c # Len(e) => c + 1 \in 1 .. Len(e)
  BY <1>1, <1>4
<1>7. c <= Len(ps)
  <2>1. Len(ps) \in Nat
    BY DEF Sendable
  <2> QED
    BY <1>1, <1>4, <2>1
<1> QED
  BY <1>2, <1>3, <1>4, <1>5, <1>6, <1>7

-----------------------------------------------------------------------------
(* The lists of half packets *)

Bucket == 0 .. HashSize - 1
Half == {u \in [id : Fd, read : Int, header : Byte, size : Nat, data : Seq(Byte)] :
           (u.read = -1 /\ u.data = <<>>) \/ (u.read = Len(u.data) /\ u.read < u.size)}
Lists == [Bucket -> Seq(Half)]

\* No half packet of fd is in h; exactly one, u, is, in its list.
Lacks(h, fd) == \A b \in Bucket : \A k \in 1 .. Len(h[b]) : h[b][k].id # fd
HoldsAt(h, fd, u, i) ==
    /\ i \in 1 .. Len(h[hash_fd(fd)]) /\ h[hash_fd(fd)][i] = u /\ u.id = fd
    /\ \A b \in Bucket : \A k \in 1 .. Len(h[b]) : h[b][k].id = fd => b = hash_fd(fd) /\ k = i
Holds(h, fd, u) == \E i \in 1 .. Len(h[hash_fd(fd)]) : HoldsAt(h, fd, u, i)

\* The others keep theirs.
Keeps(h, g, fd) ==
    \A other \in Fd : other # fd =>
      /\ Lacks(h, other) => Lacks(g, other)
      /\ \A u : Holds(h, other, u) => Holds(g, other, u)

\* Every descriptor has a list.
LEMMA HashIn == ASSUME NEW fd \in Fd PROVE hash_fd(fd) \in Bucket
<1>1. fd \in Nat /\ HashSize \in Nat \ {0}
  BY NetAssumption
<1>2. fd \div 16777216 \in Nat /\ fd \div 4096 \in Nat
  BY <1>1, DivMod
<1> DEFINE a == fd \div 16777216 + fd \div 4096 + fd
<1>3. a \in Nat
  BY <1>1, <1>2
<1> HIDE DEF a
<1>4. a % HashSize \in Nat /\ a % HashSize < HashSize
  BY <1>1, <1>3, DivMod
<1> QED
  BY <1>1, <1>4 DEF hash_fd, Bucket, a

\* The lists with an entry in front of one of them.
Saved(h, u) == [h EXCEPT ![hash_fd(u.id)] = <<u>> \o @]

\* A new half packet.
LEMMA SaveIs ==
    ASSUME NEW h \in Lists, NEW u \in Half, Lacks(h, u.id)
    PROVE  Saved(h, u) \in Lists /\ Holds(Saved(h, u), u.id, u) /\ Keeps(h, Saved(h, u), u.id)
<1> DEFINE b == hash_fd(u.id)
           s == h[b]
           t == <<u>> \o s
           g == Saved(h, u)
<1>1. u.id \in Fd
  BY DEF Half
<1>2. b \in Bucket
  BY <1>1, HashIn
<1>3. s \in Seq(Half) /\ Len(s) \in Nat
  BY <1>2 DEF Lists
<1>4. g = [h EXCEPT ![b] = t]
  BY DEF Saved
<1> HIDE DEF b, g, s
<1>5. /\ t \in Seq(Half) /\ Len(t) = Len(s) + 1 /\ t[1] = u
      /\ \A k \in 1 .. Len(s) : t[k + 1] = s[k]
  <2> DEFINE o == <<u>>
  <2>1. o \in Seq(Half) /\ Len(o) = 1 /\ o[1] = u
    OBVIOUS
  <2> HIDE DEF o
  <2>2. /\ o \o s \in Seq(Half) /\ Len(o \o s) = Len(o) + Len(s)
        /\ \A k \in 1 .. Len(o) : (o \o s)[k] = o[k]
        /\ \A k \in 1 .. Len(s) : (o \o s)[Len(o) + k] = s[k]
    <3>1. o \in Seq(Half) /\ s \in Seq(Half)
      BY <1>3, <2>1
    <3> QED
      BY <3>1, JoinIs
  <2>3. t = o \o s
    BY DEF o
  <2> HIDE DEF t
  <2>4. 1 \in 1 .. Len(o)
    BY <2>1
  <2>5. \A k \in 1 .. Len(s) : Len(o) + k = k + 1
    BY <2>1, <1>3
  <2> QED
    BY <1>3, <2>1, <2>2, <2>3, <2>4, <2>5
<1> HIDE DEF t
<1>6. g \in Lists /\ g[b] = t /\ \A c \in Bucket : c # b => g[c] = h[c]
  BY <1>2, <1>4, <1>5 DEF Lists
<1>7. h[b] = s
  BY DEF s
<1>8. \A k \in 1 .. Len(t) : k = 1 \/ (k - 1 \in 1 .. Len(s) /\ t[k] = s[k - 1])
  <2> TAKE k \in 1 .. Len(t)
  <2>1. CASE k = 1
    BY <2>1
  <2>2. CASE k # 1
    <3>1. k - 1 \in 1 .. Len(s) /\ (k - 1) + 1 = k
      BY <1>3, <1>5, <2>2
    <3> QED
      BY <1>5, <3>1
  <2> QED
    BY <2>1, <2>2
<1>9. Holds(g, u.id, u)
  <2>1. 1 \in 1 .. Len(g[b]) /\ g[b][1] = u
    BY <1>3, <1>5, <1>6
  <2>2. ASSUME NEW c \in Bucket, NEW k \in 1 .. Len(g[c]), g[c][k].id = u.id PROVE c = b /\ k = 1
    <3>1. c = b
      BY <1>6, <2>2 DEF Lacks
    <3>2. k \in 1 .. Len(t) /\ t[k].id = u.id
      BY <1>6, <2>2, <3>1
    <3>3. k = 1
      BY <1>2, <1>7, <1>8, <3>2 DEF Lacks
    <3> QED
      BY <3>1, <3>3
  <2>3. HoldsAt(g, u.id, u, 1)
    BY <2>1, <2>2 DEF HoldsAt, b
  <2> QED
    BY <2>1, <2>3 DEF Holds, b
<1>10. ASSUME NEW fd \in Fd, fd # u.id, Lacks(h, fd) PROVE Lacks(g, fd)
  <2> SUFFICES ASSUME NEW c \in Bucket, NEW k \in 1 .. Len(g[c]) PROVE g[c][k].id # fd
    BY DEF Lacks
  <2>1. CASE c # b
    BY <1>6, <1>10, <2>1 DEF Lacks
  <2>2. CASE c = b
    <3>1. k \in 1 .. Len(t) /\ g[c][k] = t[k]
      BY <1>6, <2>2
    <3>2. CASE k = 1
      BY <1>5, <1>10, <3>1, <3>2
    <3>3. CASE k # 1
      BY <1>2, <1>7, <1>8, <1>10, <3>1, <3>3 DEF Lacks
    <3> QED
      BY <3>2, <3>3
  <2> QED
    BY <2>1, <2>2
<1>11. ASSUME NEW fd \in Fd, fd # u.id, NEW v, Holds(h, fd, v) PROVE Holds(g, fd, v)
  <2> DEFINE a == hash_fd(fd)
  <2>1. a \in Bucket
    BY HashIn
  <2>2. PICK i \in 1 .. Len(h[a]) : HoldsAt(h, fd, v, i)
    BY <1>11 DEF Holds
  <2> DEFINE j == IF a = b THEN i + 1 ELSE i
  <2>3. j \in 1 .. Len(g[a]) /\ g[a][j] = v
    <3>1. h[a][i] = v
      BY <2>2 DEF HoldsAt
    <3>2. CASE a = b
      BY <1>3, <1>5, <1>6, <1>7, <3>1, <3>2
    <3>3. CASE a # b
      BY <1>6, <2>1, <3>1, <3>3
    <3> QED
      BY <3>2, <3>3
  <2>4. ASSUME NEW c \in Bucket, NEW k \in 1 .. Len(g[c]), g[c][k].id = fd PROVE c = a /\ k = j
    <3>1. CASE c # b
      <4>1. g[c] = h[c]
        BY <1>6, <3>1
      <4>2. c = a /\ k = i
        BY <2>2, <2>4, <4>1 DEF HoldsAt
      <4> QED
        BY <3>1, <4>2
    <3>2. CASE c = b
      <4>1. k \in 1 .. Len(t) /\ t[k].id = fd
        BY <1>6, <2>4, <3>2
      <4>2. k - 1 \in 1 .. Len(s) /\ s[k - 1].id = fd
        BY <1>5, <1>8, <1>11, <4>1
      <4>3. b = a /\ k - 1 = i
        BY <1>2, <1>7, <2>2, <4>2 DEF HoldsAt
      <4> QED
        BY <3>2, <4>1, <4>3
    <3> QED
      BY <3>1, <3>2
  <2>5. v.id = fd
    BY <2>2 DEF HoldsAt
  <2> HIDE DEF j
  <2>6. HoldsAt(g, fd, v, j)
    BY <2>3, <2>4, <2>5 DEF HoldsAt
  <2> QED
    BY <2>3, <2>6 DEF Holds
<1> QED
  BY <1>6, <1>9, <1>10, <1>11 DEF Keeps, g

\* A sequence without its i-th element.
LEMMA RemoveIs ==
    ASSUME NEW S, NEW s \in Seq(S), NEW i \in 1 .. Len(s)
    PROVE  /\ RemoveAt(s, i) \in Seq(S) /\ Len(RemoveAt(s, i)) = Len(s) - 1
           /\ \A k \in 1 .. Len(s) - 1 : RemoveAt(s, i)[k] = IF k < i THEN s[k] ELSE s[k + 1]
<1> DEFINE a == Take(s, i - 1)
           b == Drop(s, i)
<1>1. Len(s) \in Nat /\ i \in Nat /\ i - 1 \in Nat /\ i - 1 <= Len(s) /\ i <= Len(s)
  OBVIOUS
<1>2. a \in Seq(S) /\ Len(a) = i - 1 /\ \A k \in 1 .. i - 1 : a[k] = s[k]
  BY <1>1, TakeIs
<1>3. b \in Seq(S) /\ Len(b) = Len(s) - i /\ \A k \in 1 .. Len(s) - i : b[k] = s[i + k]
  BY <1>1, DropIs
<1>4. RemoveAt(s, i) = a \o b
  BY DEF RemoveAt, Take, Drop
<1> HIDE DEF a, b
<1>5. /\ a \o b \in Seq(S) /\ Len(a \o b) = Len(a) + Len(b)
      /\ \A k \in 1 .. Len(a) : (a \o b)[k] = a[k]
      /\ \A k \in 1 .. Len(b) : (a \o b)[Len(a) + k] = b[k]
  <2>1. a \in Seq(S) /\ b \in Seq(S)
    BY <1>2, <1>3
  <2> QED
    BY <2>1, JoinIs
<1>6. Len(a \o b) = Len(s) - 1
  BY <1>1, <1>2, <1>3, <1>5
<1> DEFINE c == a \o b
<1> HIDE DEF c
<1>7. ASSUME NEW k \in 1 .. Len(s) - 1 PROVE c[k] = IF k < i THEN s[k] ELSE s[k + 1]
  <2>1. CASE k < i
    <3>1. k \in 1 .. i - 1
      BY <1>1, <2>1
    <3> QED
      BY <1>2, <1>5, <2>1, <3>1 DEF c
  <2>2. CASE ~(k < i)
    <3> DEFINE j == k - (i - 1)
    <3>1. j \in 1 .. Len(s) - i /\ (i - 1) + j = k /\ i + j = k + 1
      BY <1>1, <2>2
    <3> HIDE DEF j
    <3>2. c[(i - 1) + j] = s[i + j]
      BY <1>2, <1>3, <1>5, <3>1 DEF c
    <3> QED
      BY <2>2, <3>1, <3>2
  <2> QED
    BY <2>1, <2>2
<1> QED
  BY <1>4, <1>5, <1>6, <1>7 DEF c

\* The half packet of a descriptor is found, and nothing else.
LEMMA FindIs ==
    ASSUME q.hash \in Lists, NEW fd \in Fd
    PROVE  /\ Lacks(q.hash, fd) => FindAt(fd) = 0
           /\ \A u, i : HoldsAt(q.hash, fd, u, i) => FindAt(fd) = i
<1> DEFINE s == q.hash[hash_fd(fd)]
<1>1. hash_fd(fd) \in Bucket
  BY HashIn
<1>2. s \in Seq(Half) /\ DOMAIN s = 1 .. Len(s) /\ Len(s) \in Nat
  BY <1>1 DEF Lists
<1>3. FindAt(fd) = IF \E k \in DOMAIN s : s[k].id = fd
                   THEN CHOOSE k \in DOMAIN s : s[k].id = fd /\ \A j \in 1 .. k - 1 : s[j].id # fd
                   ELSE 0
  BY DEF FindAt
<1>4. ASSUME Lacks(q.hash, fd) PROVE FindAt(fd) = 0
  <2>1. \A k \in DOMAIN s : s[k].id # fd
    BY <1>1, <1>2, <1>4 DEF Lacks
  <2> HIDE DEF s
  <2> QED
    BY <1>3, <2>1
<1>5. ASSUME NEW u, NEW i, HoldsAt(q.hash, fd, u, i) PROVE FindAt(fd) = i
  <2>1. i \in 1 .. Len(s) /\ s[i].id = fd
    BY <1>5 DEF HoldsAt
  <2>2. \A k \in 1 .. Len(s) : s[k].id = fd => k = i
    BY <1>1, <1>5 DEF HoldsAt
  <2> HIDE DEF s
  <2>3. \A j \in 1 .. i - 1 : s[j].id # fd
    <3> TAKE j \in 1 .. i - 1
    <3>1. j \in 1 .. Len(s) /\ j # i
      BY <1>2, <2>1
    <3> QED
      BY <2>2, <3>1
  <2> DEFINE P(k) == s[k].id = fd /\ \A j \in 1 .. k - 1 : s[j].id # fd
  <2>4. i \in DOMAIN s /\ P(i)
    BY <1>2, <2>1, <2>3
  <2>5. \A k \in DOMAIN s : P(k) => k = i
    BY <1>2, <2>2
  <2>6. FindAt(fd) = CHOOSE k \in DOMAIN s : P(k)
    BY <1>2, <1>3, <2>1
  <2> HIDE DEF P
  <2> QED
    BY <2>4, <2>5, <2>6
<1> QED
  BY <1>4, <1>5

\* A half packet is taken out.
LEMMA UnlinkIs ==
    ASSUME q.hash \in Lists, NEW fd \in Fd, NEW u, NEW i, HoldsAt(q.hash, fd, u, i),
           NEW g, g = [q.hash EXCEPT ![hash_fd(fd)] = RemoveAt(@, i)]
    PROVE  g \in Lists /\ Lacks(g, fd) /\ Keeps(q.hash, g, fd)
<1> DEFINE h == q.hash
           b == hash_fd(fd)
           s == h[b]
           t == RemoveAt(s, i)
<1>1. b \in Bucket
  BY HashIn
<1>2. s \in Seq(Half) /\ Len(s) \in Nat
  BY <1>1 DEF Lists
<1>3. /\ i \in 1 .. Len(s) /\ s[i] = u /\ u.id = fd
      /\ \A c \in Bucket : \A k \in 1 .. Len(h[c]) : h[c][k].id = fd => c = b /\ k = i
  BY DEF HoldsAt
<1>4. g = [h EXCEPT ![b] = t] /\ h \in Lists
  OBVIOUS
<1> HIDE DEF h, b, s
<1>5. /\ t \in Seq(Half) /\ Len(t) = Len(s) - 1
      /\ \A k \in 1 .. Len(s) - 1 : t[k] = IF k < i THEN s[k] ELSE s[k + 1]
  BY <1>2, <1>3, RemoveIs
<1> HIDE DEF t
<1>6. g \in Lists /\ g[b] = t /\ \A c \in Bucket : c # b => g[c] = h[c]
  BY <1>1, <1>4, <1>5 DEF Lists
<1>7. h[b] = s
  BY DEF s
<1> DEFINE old(k) == IF k < i THEN k ELSE k + 1
<1>8. \A k \in 1 .. Len(t) : old(k) \in 1 .. Len(s) /\ old(k) # i /\ t[k] = s[old(k)]
  BY <1>2, <1>3, <1>5
<1>9. Lacks(g, fd)
  <2> SUFFICES ASSUME NEW c \in Bucket, NEW k \in 1 .. Len(g[c]), g[c][k].id = fd PROVE FALSE
    BY DEF Lacks
  <2>1. CASE c # b
    <3>1. g[c] = h[c]
      BY <1>6, <2>1
    <3> QED
      BY <1>3, <2>1, <3>1
  <2>2. CASE c = b
    <3>1. k \in 1 .. Len(t) /\ t[k].id = fd
      BY <1>6, <2>2
    <3>2. old(k) \in 1 .. Len(s) /\ old(k) # i /\ s[old(k)].id = fd
      BY <1>8, <3>1
    <3> HIDE DEF old
    <3> QED
      BY <1>1, <1>3, <1>7, <3>2
  <2> QED
    BY <2>1, <2>2
<1>10. ASSUME NEW f \in Fd, f # fd, Lacks(h, f) PROVE Lacks(g, f)
  <2> SUFFICES ASSUME NEW c \in Bucket, NEW k \in 1 .. Len(g[c]) PROVE g[c][k].id # f
    BY DEF Lacks
  <2>1. CASE c # b
    BY <1>6, <1>10, <2>1 DEF Lacks
  <2>2. CASE c = b
    <3>1. k \in 1 .. Len(t) /\ g[c][k] = t[k]
      BY <1>6, <2>2
    <3>2. old(k) \in 1 .. Len(s) /\ t[k] = s[old(k)]
      BY <1>8, <3>1
    <3> HIDE DEF old
    <3> QED
      BY <1>1, <1>7, <1>10, <3>1, <3>2 DEF Lacks
  <2> QED
    BY <2>1, <2>2
<1>11. ASSUME NEW f \in Fd, f # fd, NEW v, Holds(h, f, v) PROVE Holds(g, f, v)
  <2> DEFINE a == hash_fd(f)
  <2>1. a \in Bucket
    BY HashIn
  <2>2. PICK l \in 1 .. Len(h[a]) : HoldsAt(h, f, v, l)
    BY <1>11 DEF Holds
  <2> DEFINE j == IF a = b /\ l > i THEN l - 1 ELSE l
  <2>9. a = b => l # i
    BY <1>3, <1>7, <1>11, <2>2 DEF HoldsAt
  <2>3. j \in 1 .. Len(g[a]) /\ g[a][j] = v
    <3>1. h[a][l] = v
      BY <2>2 DEF HoldsAt
    <3>2. CASE a = b
      <4>1. l \in 1 .. Len(s) /\ l # i /\ s[l] = v
        BY <1>7, <2>9, <3>1, <3>2
      <4>2. j \in 1 .. Len(s) - 1 /\ old(j) = l
        BY <1>2, <1>3, <3>2, <4>1
      <4> HIDE DEF j
      <4> QED
        BY <1>5, <1>6, <1>8, <3>2, <4>1, <4>2
    <3>3. CASE a # b
      BY <1>6, <2>1, <3>1, <3>3
    <3> QED
      BY <3>2, <3>3
  <2>4. ASSUME NEW c \in Bucket, NEW k \in 1 .. Len(g[c]), g[c][k].id = f PROVE c = a /\ k = j
    <3>1. CASE c # b
      <4>1. g[c] = h[c]
        BY <1>6, <3>1
      <4>2. c = a /\ k = l
        BY <2>2, <2>4, <4>1 DEF HoldsAt
      <4> QED
        BY <3>1, <4>2
    <3>2. CASE c = b
      <4>1. k \in 1 .. Len(t) /\ t[k].id = f
        BY <1>6, <2>4, <3>2
      <4>2. old(k) \in 1 .. Len(s) /\ s[old(k)].id = f
        BY <1>8, <4>1
      <4> DEFINE o == old(k)
      <4>3. b = a /\ o = l
        <5>1. o \in 1 .. Len(s) /\ s[o].id = f
          BY <4>2
        <5> HIDE DEF o
        <5> QED
          BY <1>1, <1>7, <2>2, <5>1 DEF HoldsAt
      <4>4. k \in 1 .. Len(s) - 1
        BY <1>5, <4>1
      <4>5. k = j
        BY <1>2, <1>3, <4>3, <4>4
      <4> QED
        BY <3>2, <4>3, <4>5
    <3> QED
      BY <3>1, <3>2
  <2>5. v.id = f
    BY <2>2 DEF HoldsAt
  <2> HIDE DEF j
  <2>6. HoldsAt(g, f, v, j)
    BY <2>3, <2>4, <2>5 DEF HoldsAt
  <2> QED
    BY <2>3, <2>6 DEF Holds
<1> QED
  BY <1>6, <1>9, <1>10, <1>11 DEF Keeps, h

-----------------------------------------------------------------------------
(* The ring *)

Packets == Fd \X Seq(Byte)
Cell == {<<>>} \cup Packets
Rings == UNION {[0 .. n - 1 -> Cell] : n \in Nat}
Queues == [cap : Nat, head : Nat, tail : Nat, ring : Rings, hash : Lists]

\* A queue whose ends are inside the ring, with packets between them.
RingOK(qq) ==
    /\ qq \in Queues /\ qq.cap >= 2 /\ qq.head < qq.cap /\ qq.tail < qq.cap
    /\ qq.ring \in [0 .. qq.cap - 1 -> Cell]
    /\ \A k \in 1 .. Waiting(qq) : qq.ring[Place(qq, k)] \in Packets

\* Where the packets are, and that one place is free.
LEMMA PlaceIs ==
    ASSUME NEW qq, RingOK(qq)
    PROVE  /\ Waiting(qq) \in Nat /\ Waiting(qq) < qq.cap /\ (Waiting(qq) = 0 <=> qq.head = qq.tail)
           /\ \A k \in 1 .. qq.cap : Place(qq, k) \in 0 .. qq.cap - 1
           /\ Place(qq, Waiting(qq) + 1) = qq.tail
           /\ \A k \in 1 .. Waiting(qq) : Place(qq, k) # qq.tail
<1>1. qq.cap \in Nat /\ qq.head \in Nat /\ qq.tail \in Nat /\ qq.head < qq.cap /\ qq.tail < qq.cap
  BY DEF RingOK, Queues
<1> QED
  BY <1>1 DEF Waiting, Place

\* The packets of the ring.
LEMMA InRingIs ==
    ASSUME NEW qq, RingOK(qq)
    PROVE  /\ InRing(qq) \in Seq(Packets) /\ Len(InRing(qq)) = Waiting(qq)
           /\ \A k \in 1 .. Waiting(qq) : InRing(qq)[k] = qq.ring[Place(qq, k)]
<1>1. Waiting(qq) \in Nat
  BY PlaceIs
<1>2. InRing(qq) \in [1 .. Waiting(qq) -> Packets]
  BY DEF InRing, RingOK
<1> QED
  BY <1>1, <1>2 DEF InRing

\* Two queues with the same packets.
LEMMA SameRing ==
    ASSUME NEW qq, NEW rr, RingOK(qq), RingOK(rr), Waiting(rr) = Waiting(qq),
           \A k \in 1 .. Waiting(qq) : rr.ring[Place(rr, k)] = qq.ring[Place(qq, k)]
    PROVE  InRing(rr) = InRing(qq)
  BY DEF InRing

\* A larger ring holds the same packets.
LEMMA GrowIs ==
    ASSUME NEW qq, RingOK(qq), NextPlace(qq, qq.tail) = qq.head
    PROVE  LET rr == expand_queue(qq, qq.cap * 2)
           IN  /\ RingOK(rr) /\ rr.hash = qq.hash /\ InRing(rr) = InRing(qq)
               /\ NextPlace(rr, rr.tail) # rr.head
<1> DEFINE c == qq.cap
           h == qq.head
           t == qq.tail
           n == IF h > t THEN c - h ELSE 0
           copied(k) == IF h > t
                        THEN IF k < n THEN qq.ring[h + k] ELSE IF k - n <= t THEN qq.ring[k - n] ELSE <<>>
                        ELSE IF k < t - h THEN qq.ring[h + k] ELSE <<>>
           new == [k \in 0 .. c * 2 - 1 |-> copied(k)]
           end == IF h > t THEN n + t ELSE t - h
           rr == expand_queue(qq, c * 2)
<1>1. c \in Nat /\ h \in Nat /\ t \in Nat /\ c >= 2 /\ h < c /\ t < c
  BY DEF RingOK, Queues
<1>2. qq \in Queues /\ qq.ring \in [0 .. c - 1 -> Cell] /\ qq.hash \in Lists
  BY DEF RingOK, Queues
<1>3. rr = [qq EXCEPT !.cap = c * 2, !.head = 0, !.ring = new, !.tail = end]
  BY DEF expand_queue
<1>4. (h = 0 /\ t = c - 1) \/ h = t + 1
  BY <1>1 DEF NextPlace
<1>5. new \in [0 .. c * 2 - 1 -> Cell]
  <2>1. ASSUME NEW k \in 0 .. c * 2 - 1 PROVE copied(k) \in Cell
    <3>1. <<>> \in Cell
      BY DEF Cell
    <3>2. \A j \in 0 .. c - 1 : qq.ring[j] \in Cell
      BY <1>2
    <3>3. h > t => (k < n => h + k \in 0 .. c - 1) /\ (~(k < n) /\ k - n <= t => k - n \in 0 .. c - 1)
      BY <1>1
    <3>4. ~(h > t) => (k < t - h => h + k \in 0 .. c - 1)
      BY <1>1
    <3> QED
      BY <3>1, <3>2, <3>3, <3>4
  <2> QED
    BY <2>1
<1>6. c * 2 \in Nat /\ c * 2 >= 2 /\ end \in Nat /\ end = c - 1 /\ 0 < c * 2 /\ end < c * 2
  BY <1>1, <1>4
<1>7. new \in Rings
  BY <1>5, <1>6 DEF Rings
<1> HIDE DEF new, end, rr
<1>8. rr \in Queues /\ rr.cap = c * 2 /\ rr.head = 0 /\ rr.tail = c - 1 /\ rr.ring = new /\ rr.hash = qq.hash
  <2>3. qq = [cap |-> c, head |-> h, tail |-> t, ring |-> qq.ring, hash |-> qq.hash]
    BY <1>2 DEF Queues
  <2>4. rr = [cap |-> c * 2, head |-> 0, tail |-> end, ring |-> new, hash |-> qq.hash]
    BY <1>3, <2>3
  <2>1. rr \in Queues
    BY <1>2, <1>6, <1>7, <2>4 DEF Queues
  <2> QED
    BY <1>6, <2>1, <2>4
<1>9. Waiting(rr) = c - 1 /\ Waiting(qq) = c - 1
  BY <1>1, <1>4, <1>8 DEF Waiting
<1>10. ASSUME NEW k \in 1 .. c - 1 PROVE rr.ring[Place(rr, k)] = qq.ring[Place(qq, k)]
  <2>1. Place(rr, k) = k - 1 /\ k - 1 \in 0 .. c * 2 - 1
    BY <1>1, <1>6, <1>8 DEF Place
  <2>2. rr.ring[Place(rr, k)] = copied(k - 1)
    BY <1>8, <2>1 DEF new
  <2>3. copied(k - 1) = qq.ring[Place(qq, k)]
    <3>1. CASE h > t
      <4>1. h = t + 1
        BY <1>1, <1>4, <3>1
      <4>2. CASE k - 1 < n
        <5>1. Place(qq, k) = h + (k - 1)
          BY <1>1, <3>1, <4>2 DEF Place
        <5> QED
          BY <3>1, <4>2, <5>1
      <4>3. CASE ~(k - 1 < n)
        <5>1. Place(qq, k) = (k - 1) - n /\ (k - 1) - n <= t
          BY <1>1, <3>1, <4>1, <4>3 DEF Place
        <5> QED
          BY <3>1, <4>3, <5>1
      <4> QED
        BY <4>2, <4>3
    <3>2. CASE ~(h > t)
      <4>1. h = 0 /\ t = c - 1
        BY <1>1, <1>4, <3>2
      <4>2. Place(qq, k) = h + (k - 1) /\ k - 1 < t - h
        BY <1>1, <4>1 DEF Place
      <4> QED
        BY <3>2, <4>2
    <3> QED
      BY <3>1, <3>2
  <2> QED
    BY <2>2, <2>3
<1>11. \A k \in 1 .. Waiting(rr) : rr.ring[Place(rr, k)] \in Packets
  BY <1>9, <1>10 DEF RingOK
<1>12. RingOK(rr)
  BY <1>1, <1>5, <1>6, <1>8, <1>11 DEF RingOK
<1>13. InRing(rr) = InRing(qq)
  BY <1>9, <1>10, <1>12, SameRing
<1>14. NextPlace(rr, rr.tail) # rr.head
  BY <1>1, <1>8 DEF NextPlace
<1> QED
  BY <1>8, <1>12, <1>13, <1>14 DEF rr

\* A packet in a ring with room for it.
LEMMA PutIs ==
    ASSUME NEW qq, RingOK(qq), NextPlace(qq, qq.tail) # qq.head, NEW x \in Packets,
           NEW rr, rr = [qq EXCEPT !.ring[qq.tail] = x, !.tail = NextPlace(qq, qq.tail)]
    PROVE  RingOK(rr) /\ rr.hash = qq.hash /\ InRing(rr) = Append(InRing(qq), x)
<1> DEFINE c == qq.cap
           h == qq.head
           t == qq.tail
           w == Waiting(qq)
           new == [qq.ring EXCEPT ![t] = x]
<1>1. c \in Nat /\ h \in Nat /\ t \in Nat /\ c >= 2 /\ h < c /\ t < c
  BY DEF RingOK, Queues
<1>2. qq \in Queues /\ qq.ring \in [0 .. c - 1 -> Cell] /\ qq.hash \in Lists
  BY DEF RingOK, Queues
<1>3. new \in [0 .. c - 1 -> Cell] /\ new[t] = x /\ \A k \in 0 .. c - 1 : k # t => new[k] = qq.ring[k]
  BY <1>1, <1>2 DEF Cell
<1>4. new \in Rings
  BY <1>1, <1>3 DEF Rings
<1>5. NextPlace(qq, t) \in Nat /\ NextPlace(qq, t) < c
  BY <1>1 DEF NextPlace
<1>6. rr = [qq EXCEPT !.ring = new, !.tail = NextPlace(qq, t)]
  BY <1>2 DEF Queues
<1> HIDE DEF new
<1>7. rr \in Queues /\ rr.cap = c /\ rr.head = h /\ rr.tail = NextPlace(qq, t) /\ rr.ring = new /\ rr.hash = qq.hash
  BY <1>2, <1>4, <1>5, <1>6 DEF Queues
<1>8. w \in Nat /\ w < c /\ Place(qq, w + 1) = t /\ \A k \in 1 .. w : Place(qq, k) # t
  BY PlaceIs
<1>9. \A k \in 1 .. c : Place(qq, k) \in 0 .. c - 1
  BY PlaceIs
<1>10. Waiting(rr) = w + 1
  BY <1>1, <1>7 DEF Waiting, NextPlace
<1>11. \A k : Place(rr, k) = Place(qq, k)
  BY <1>7 DEF Place
<1>12. \A k \in 1 .. w : rr.ring[Place(rr, k)] = qq.ring[Place(qq, k)]
  <2> TAKE k \in 1 .. w
  <2>1. k \in 1 .. c
    BY <1>1, <1>8
  <2>2. Place(qq, k) \in 0 .. c - 1 /\ Place(qq, k) # t
    BY <1>8, <1>9, <2>1
  <2> QED
    BY <1>3, <1>7, <1>11, <2>2
<1>13. rr.ring[Place(rr, w + 1)] = x
  BY <1>3, <1>7, <1>8, <1>11
<1>14. \A k \in 1 .. Waiting(rr) : rr.ring[Place(rr, k)] \in Packets
  <2> TAKE k \in 1 .. Waiting(rr)
  <2>1. k \in 1 .. w \/ k = w + 1
    BY <1>8, <1>10
  <2> QED
    BY <1>12, <1>13, <2>1 DEF RingOK
<1>15. RingOK(rr)
  BY <1>1, <1>3, <1>5, <1>7, <1>14 DEF RingOK
<1> DEFINE a == InRing(qq)
           b == InRing(rr)
<1>16. a \in Seq(Packets) /\ Len(a) = w /\ \A k \in 1 .. w : a[k] = qq.ring[Place(qq, k)]
  BY InRingIs
<1>17. b \in Seq(Packets) /\ Len(b) = w + 1 /\ \A k \in 1 .. w + 1 : b[k] = rr.ring[Place(rr, k)]
  BY <1>10, <1>15, InRingIs
<1> HIDE DEF a, b, w
<1> DEFINE d == Append(a, x)
<1>18. /\ d \in Seq(Packets) /\ Len(d) = w + 1 /\ d[w + 1] = x
       /\ \A k \in 1 .. w : d[k] = a[k]
  <2>1. a \in Seq(Packets)
    BY <1>16
  <2> QED
    BY <1>16, <2>1, AppendIs
<1> HIDE DEF d
<1>19. ASSUME NEW k \in 1 .. Len(b) PROVE b[k] = d[k]
  <2>1. k \in 1 .. w \/ k = w + 1
    BY <1>8, <1>17
  <2>2. CASE k \in 1 .. w
    <3>1. k \in 1 .. w + 1
      BY <1>8, <2>2
    <3> QED
      BY <1>12, <1>16, <1>17, <1>18, <2>2, <3>1
  <2>3. CASE k = w + 1
    <3>1. w + 1 \in 1 .. w + 1 /\ d[w + 1] = x
      BY <1>8, <1>18
    <3> QED
      BY <1>13, <1>17, <2>3, <3>1
  <2> QED
    BY <2>1, <2>2, <2>3
<1>20. b = d
  BY <1>17, <1>18, <1>19, SameSeq
<1> QED
  BY <1>7, <1>15, <1>20 DEF a, b, d

\* push_data appends, whether the ring has to grow or not.
LEMMA PushIs ==
    ASSUME NEW qq, RingOK(qq), NEW fd \in Fd, NEW data \in Seq(Byte)
    PROVE  /\ RingOK(push_data(qq, fd, data)) /\ push_data(qq, fd, data).hash = qq.hash
           /\ InRing(push_data(qq, fd, data)) = Append(InRing(qq), <<fd, data>>)
<1>1. <<fd, data>> \in Packets
  BY DEF Packets
<1> DEFINE x == <<fd, data>>
           room == IF NextPlace(qq, qq.tail) = qq.head THEN expand_queue(qq, qq.cap * 2) ELSE qq
           rr == push_data(qq, fd, data)
<1>2. RingOK(room) /\ room.hash = qq.hash /\ InRing(room) = InRing(qq) /\ NextPlace(room, room.tail) # room.head
  BY GrowIs
<1>3. push_data(qq, fd, data) = [room EXCEPT !.ring[room.tail] = x, !.tail = NextPlace(room, room.tail)]
  BY DEF push_data
<1> HIDE DEF room, x, rr
<1>4. RingOK(rr) /\ rr.hash = room.hash /\ InRing(rr) = Append(InRing(room), x)
  <2>1. RingOK(room) /\ NextPlace(room, room.tail) # room.head /\ x \in Packets
    BY <1>1, <1>2 DEF x
  <2>2. rr = [room EXCEPT !.ring[room.tail] = x, !.tail = NextPlace(room, room.tail)]
    BY <1>3 DEF rr
  <2> QED
    BY <2>1, <2>2, PutIs
<1> QED
  BY <1>2, <1>4 DEF x, rr

\* The first packet of the ring is popped.
LEMMA PopIs ==
    ASSUME NEW qq, RingOK(qq), qq.head # qq.tail
    PROVE  /\ RingOK(lpop(qq)) /\ lpop(qq).hash = qq.hash
           /\ InRing(qq) = <<qq.ring[qq.head]>> \o InRing(lpop(qq))
           /\ qq.ring[qq.head] \in Packets
<1> DEFINE c == qq.cap
           h == qq.head
           t == qq.tail
           w == Waiting(qq)
           rr == lpop(qq)
<1>1. c \in Nat /\ h \in Nat /\ t \in Nat /\ c >= 2 /\ h < c /\ t < c
  BY DEF RingOK, Queues
<1>2. qq \in Queues /\ qq.ring \in [0 .. c - 1 -> Cell] /\ qq.hash \in Lists
  BY DEF RingOK, Queues
<1>3. NextPlace(qq, h) \in Nat /\ NextPlace(qq, h) < c
  BY <1>1 DEF NextPlace
<1>4. rr = [qq EXCEPT !.head = NextPlace(qq, h)]
  BY DEF lpop
<1> HIDE DEF rr
<1>5. rr \in Queues /\ rr.cap = c /\ rr.head = NextPlace(qq, h) /\ rr.tail = t /\ rr.ring = qq.ring /\ rr.hash = qq.hash
  BY <1>2, <1>3, <1>4 DEF Queues
<1>6. w \in Nat /\ w >= 1 /\ w < c
  BY PlaceIs
<1>7. Waiting(rr) = w - 1
  BY <1>1, <1>5, <1>6 DEF Waiting, NextPlace
<1>8. \A k \in 1 .. w - 1 : Place(rr, k) = Place(qq, k + 1)
  BY <1>1, <1>5, <1>6 DEF Place, NextPlace
<1>9. Place(qq, 1) = h
  BY <1>1 DEF Place
<1>10. \A k \in 1 .. Waiting(rr) : rr.ring[Place(rr, k)] \in Packets
  <2> TAKE k \in 1 .. Waiting(rr)
  <2>1. k \in 1 .. w - 1 /\ k + 1 \in 1 .. w
    BY <1>6, <1>7
  <2> QED
    BY <1>5, <1>8, <2>1 DEF RingOK
<1>11. RingOK(rr)
  BY <1>1, <1>2, <1>3, <1>5, <1>10 DEF RingOK
<1>12. qq.ring[h] \in Packets
  <2>1. 1 \in 1 .. w
    BY <1>6
  <2> QED
    BY <1>9, <2>1 DEF RingOK
<1> DEFINE a == InRing(qq)
           b == InRing(rr)
           o == <<qq.ring[h]>>
<1>13. a \in Seq(Packets) /\ Len(a) = w /\ \A k \in 1 .. w : a[k] = qq.ring[Place(qq, k)]
  BY InRingIs
<1>14. b \in Seq(Packets) /\ Len(b) = w - 1 /\ \A k \in 1 .. w - 1 : b[k] = rr.ring[Place(rr, k)]
  BY <1>7, <1>11, InRingIs
<1>15. o \in Seq(Packets) /\ Len(o) = 1 /\ o[1] = qq.ring[h]
  BY <1>12
<1> HIDE DEF a, b, o, w
<1> DEFINE d == o \o b
<1>16. /\ d \in Seq(Packets) /\ Len(d) = Len(o) + Len(b)
       /\ \A k \in 1 .. Len(o) : d[k] = o[k]
       /\ \A k \in 1 .. Len(b) : d[Len(o) + k] = b[k]
  <2>1. o \in Seq(Packets) /\ b \in Seq(Packets)
    BY <1>14, <1>15
  <2> QED
    BY <2>1, JoinIs
<1> HIDE DEF d
<1>17. ASSUME NEW k \in 1 .. Len(a) PROVE a[k] = d[k]
  <2>1. CASE k = 1
    BY <1>6, <1>9, <1>13, <1>15, <1>16, <2>1
  <2>2. CASE k # 1
    <3> DEFINE j == k - 1
    <3>1. j \in 1 .. w - 1 /\ 1 + j = k /\ j + 1 = k
      BY <1>6, <1>13, <2>2
    <3> HIDE DEF j
    <3>2. d[1 + j] = b[j]
      BY <1>14, <1>15, <1>16, <3>1
    <3>3. b[j] = qq.ring[Place(qq, j + 1)]
      BY <1>5, <1>8, <1>14, <3>1
    <3> QED
      BY <1>13, <3>1, <3>2, <3>3
  <2> QED
    BY <2>1, <2>2
<1>18. Len(a) = Len(d)
  BY <1>6, <1>13, <1>14, <1>15, <1>16
<1>19. a = d
  BY <1>13, <1>16, <1>17, <1>18, SameSeq
<1> QED
  BY <1>5, <1>11, <1>12, <1>19 DEF a, b, d, o, rr

-----------------------------------------------------------------------------
(* Counting packets *)

At(s, x) == {k \in 1 .. Len(s) : s[k] = x}
Times(s, x) == Cardinality(At(s, x))

\* A sequence has finitely many places.
LEMMA TimesIn ==
    ASSUME NEW S, NEW s \in Seq(S), NEW x
    PROVE  IsFiniteSet(At(s, x)) /\ Times(s, x) \in Nat
<1>1. Len(s) \in Nat
  OBVIOUS
<1>2. IsFiniteSet(1 .. Len(s))
  <2>1. 1 \in Int /\ Len(s) \in Int
    BY <1>1
  <2> QED
    BY <2>1, FS_Interval
<1>3. At(s, x) \in SUBSET (1 .. Len(s))
  BY DEF At
<1>4. IsFiniteSet(At(s, x))
  BY <1>2, <1>3, FS_Subset
<1> QED
  BY <1>4, FS_CardinalityType DEF Times

\* One more element.
LEMMA TimesMore ==
    ASSUME NEW S, NEW s \in Seq(S), NEW t \in Seq(S), NEW x, NEW y, Len(t) = Len(s) + 1,
           \A k \in 1 .. Len(s) : t[k] = s[k], t[Len(s) + 1] = y
    PROVE  Times(t, x) = Times(s, x) + (IF y = x THEN 1 ELSE 0)
<1> DEFINE n == Len(s)
<1>1. n \in Nat
  OBVIOUS
<1>2. IsFiniteSet(At(s, x)) /\ Times(s, x) \in Nat
  BY TimesIn
<1>3. n + 1 \notin At(s, x)
  BY <1>1 DEF At
<1>4. CASE y = x
  <2>1. At(t, x) = At(s, x) \cup {n + 1}
    <3>1. \A k : k \in 1 .. n + 1 <=> (k \in 1 .. n \/ k = n + 1)
      BY <1>1
    <3> QED
      BY <1>4, <3>1 DEF At
  <2>2. Cardinality(At(s, x) \cup {n + 1}) = Cardinality(At(s, x)) + 1
    <3> DEFINE m == n + 1
    <3>1. m \notin At(s, x)
      BY <1>3
    <3> HIDE DEF m
    <3>2. Cardinality(At(s, x) \cup {m}) = IF m \in At(s, x) THEN Cardinality(At(s, x)) ELSE Cardinality(At(s, x)) + 1
      BY <1>2, FS_AddElement
    <3>3. Cardinality(At(s, x) \cup {m}) = Cardinality(At(s, x)) + 1
      BY <3>1, <3>2
    <3> QED
      BY <3>3 DEF m
  <2> QED
    BY <1>2, <1>4, <2>1, <2>2 DEF Times
<1>5. CASE y # x
  <2>1. At(t, x) = At(s, x)
    <3>1. \A k : k \in 1 .. n + 1 <=> (k \in 1 .. n \/ k = n + 1)
      BY <1>1
    <3> QED
      BY <1>5, <3>1 DEF At
  <2> QED
    BY <1>2, <1>5, <2>1 DEF Times
<1> QED
  BY <1>4, <1>5

\* One more in front.
LEMMA TimesFront ==
    ASSUME NEW S, NEW s \in Seq(S), NEW y \in S, NEW x
    PROVE  Times(<<y>> \o s, x) = Times(s, x) + (IF y = x THEN 1 ELSE 0)
<1> DEFINE n == Len(s)
           o == <<y>>
           t == o \o s
           A == At(s, x)
           B == {k \in At(t, x) : k # 1}
           f == [k \in A |-> k + 1]
<1>1. n \in Nat
  OBVIOUS
<1>2. IsFiniteSet(A) /\ Times(s, x) \in Nat /\ Times(s, x) = Cardinality(A)
  BY TimesIn DEF Times
<1>3. o \in Seq(S) /\ Len(o) = 1 /\ o[1] = y
  OBVIOUS
<1> HIDE DEF o
<1>4. /\ t \in Seq(S) /\ Len(t) = Len(o) + Len(s)
      /\ \A k \in 1 .. Len(o) : t[k] = o[k]
      /\ \A k \in 1 .. Len(s) : t[Len(o) + k] = s[k]
  <2>1. o \in Seq(S) /\ s \in Seq(S)
    BY <1>3
  <2> QED
    BY <2>1, JoinIs
<1> HIDE DEF t
<1>5. Len(t) = n + 1 /\ t[1] = y /\ \A k \in 1 .. n : t[k + 1] = s[k]
  <2>1. Len(t) = n + 1 /\ t[1] = y
    BY <1>1, <1>3, <1>4
  <2>2. \A k \in 1 .. n : t[k + 1] = s[k]
    <3> TAKE k \in 1 .. n
    <3>1. Len(o) + k = k + 1
      BY <1>1, <1>3
    <3> QED
      BY <1>4, <3>1
  <2> QED
    BY <2>1, <2>2
<1>6. f \in Bijection(A, B)
  <2>1. \A k \in A : k \in Nat /\ k + 1 \in B
    BY <1>1, <1>5 DEF At
  <2>2. \A j \in B : j - 1 \in A /\ (j - 1) + 1 = j
    <3> TAKE j \in B
    <3>1. j \in 1 .. n + 1 /\ j # 1 /\ t[j] = x
      BY <1>5 DEF At
    <3>2. j - 1 \in 1 .. n /\ (j - 1) + 1 = j
      BY <1>1, <3>1
    <3>3. s[j - 1] = x
      BY <1>5, <3>1, <3>2
    <3> QED
      BY <3>2, <3>3 DEF At
  <2>3. f \in [A -> B]
    BY <2>1
  <2>4. \A k, l \in A : f[k] = f[l] => k = l
    BY <2>1
  <2>5. \A j \in B : \E k \in A : f[k] = j
    BY <2>2
  <2> HIDE DEF f, A, B
  <2> QED
    BY <2>3, <2>4, <2>5 DEF Bijection, Injection, Surjection, IsInjective
<1>7. IsFiniteSet(B) /\ Cardinality(B) = Cardinality(A)
  <2>1. ExistsBijection(A, B)
    BY <1>6 DEF ExistsBijection
  <2> HIDE DEF A, B
  <2> QED
    BY <1>2, <2>1, FS_Bijection
<1>8. CASE y = x
  <2>1. At(t, x) = B \cup {1} /\ 1 \notin B
    <3>1. 1 \in At(t, x)
      BY <1>1, <1>5, <1>8 DEF At
    <3> QED
      BY <3>1
  <2> HIDE DEF A, B
  <2>2. Cardinality(B \cup {1}) = Cardinality(B) + 1
    <3>1. Cardinality(B \cup {1}) = IF 1 \in B THEN Cardinality(B) ELSE Cardinality(B) + 1
      BY <1>7, FS_AddElement
    <3> QED
      BY <2>1, <3>1
  <2>3. Times(t, x) = Times(s, x) + 1
    BY <1>2, <1>7, <2>1, <2>2 DEF Times
  <2> QED
    BY <1>8, <2>3 DEF t, o
<1>9. CASE y # x
  <2>1. At(t, x) = B
    <3>1. 1 \notin At(t, x)
      BY <1>5, <1>9 DEF At
    <3> QED
      BY <3>1
  <2>2. Times(t, x) = Times(s, x)
    BY <1>2, <1>7, <2>1 DEF Times
  <2> QED
    BY <1>2, <1>9, <2>2 DEF t, o
<1> QED
  BY <1>8, <1>9

-----------------------------------------------------------------------------
(* Taking a stream apart *)

\* What the header of the next packet says.
LEMMA HeaderAt ==
    ASSUME NEW s, NEW e, NEW ps, Framed(s, e, ps), Sendable(ps), NEW c \in Nat, c + 1 \in 1 .. Len(e)
    PROVE  /\ s[Begin(e, c) + 1] \in Byte /\ s[Begin(e, c) + 1] = Len(ps[c + 1]) \div Base
           /\ s[Begin(e, c) + 1] * Base + s[Begin(e, c) + 2] = Len(ps[c + 1])
<1> DEFINE n == Len(ps[c + 1])
           b == Begin(e, c)
<1>1. n \in Nat /\ n < Base * Base /\ s[b + 1] = n \div Base /\ s[b + 2] = n % Base
  BY PacketAt
<1>2. Base \in Nat \ {0}
  BY NetAssumption
<1> HIDE DEF n, b
<1>3. (n \div Base) * Base + (n % Base) = n /\ n \div Base \in Byte
  BY <1>1, <1>2, Digits DEF Byte
<1> QED
  BY <1>1, <1>3 DEF n, b

\* Where the next packet ends, and the number of packets there.
LEMMA SpotNext ==
    ASSUME NEW s, NEW e, NEW ps, Framed(s, e, ps), NEW c \in Nat, c + 1 \in 1 .. Len(e)
    PROVE  e[c + 1] \in Nat /\ Spot(e, e[c + 1], c + 1) /\ Begin(e, c + 1) = e[c + 1]
<1>1. e \in Seq(Nat) /\ Len(e) \in Nat
  BY DEF Framed
<1>2. e[c + 1] \in Nat /\ Begin(e, c + 1) = e[c + 1]
  BY <1>1 DEF Begin
<1>3. c + 1 = Len(e) \/ e[c + 1] < e[(c + 1) + 1]
  <2> SUFFICES ASSUME c + 1 # Len(e) PROVE e[c + 1] < e[(c + 1) + 1]
    OBVIOUS
  <2>1. c + 1 \in 0 .. Len(e) /\ (c + 1) + 1 \in 0 .. Len(e) /\ c + 1 < (c + 1) + 1 /\ (c + 1) + 1 # 0
    BY <1>1
  <2>2. Begin(e, c + 1) < Begin(e, (c + 1) + 1)
    BY <2>1 DEF Framed
  <2> QED
    BY <1>2, <2>1, <2>2 DEF Begin
<1> QED
  BY <1>1, <1>2, <1>3 DEF Spot

\* d bytes of the next packet are there, more come.
LEMMA NextBytes ==
    ASSUME NEW s, NEW e, NEW ps, Framed(s, e, ps), Sendable(ps), NEW c \in Nat, c + 1 \in 1 .. Len(e),
           NEW d \in 0 .. Len(ps[c + 1]), NEW t \in Nat, Begin(e, c) + 2 + d <= t, t <= Len(s)
    PROVE  LET p == ps[c + 1]
               more == Part(s, Begin(e, c) + 2 + d, t)
               need == Len(p) - d
           IN  /\ p \in Seq(Byte) /\ more \in Seq(Byte) /\ Len(more) = t - (Begin(e, c) + 2 + d)
               /\ Len(more) < need =>
                    /\ Take(p, d) \o more = Take(p, d + Len(more)) /\ d + Len(more) \in 0 .. Len(p)
                    /\ t < e[c + 1]
               /\ ~(Len(more) < need) =>
                    /\ Take(p, d) \o Take(more, need) = p /\ Drop(more, need) = Part(s, e[c + 1], t)
                    /\ e[c + 1] <= t
<1> DEFINE b == Begin(e, c)
           p == ps[c + 1]
           u == b + 2 + d
           more == Part(s, u, t)
           need == Len(p) - d
<1>3. /\ b \in Nat /\ Len(p) \in Nat /\ p \in Seq(Byte) /\ e[c + 1] = b + 2 + Len(p) /\ e[c + 1] <= Len(s)
      /\ \A m \in 0 .. Len(p) : Part(s, b + 2, b + 2 + m) = Take(p, m)
  BY PacketAt
<1>4. s \in Seq(Byte) /\ Len(s) \in Nat
  BY DEF Framed
<1>5. d \in 0 .. Len(p) /\ u <= t
  OBVIOUS
<1> HIDE DEF b, p
<1>6. u \in Nat /\ b + 2 \in Nat /\ b + 2 <= u
  BY <1>3, <1>5
<1>7. more \in Seq(Byte) /\ Len(more) = t - u
  <2> HIDE DEF u
  <2> QED
    BY <1>4, <1>5, <1>6, PartIs
<1>8. Take(p, d) = Part(s, b + 2, u)
  BY <1>3, <1>5
<1> DEFINE v == b + 2
<1>9. ASSUME NEW w \in Nat, u <= w, w <= Len(s), w <= e[c + 1]
      PROVE  Take(p, d) \o Part(s, u, w) = Take(p, w - v) /\ w - v \in 0 .. Len(p)
  <2>1. Part(s, v, u) \o Part(s, u, w) = Part(s, v, w)
    <3>1. v \in Nat /\ v <= u
      BY <1>6
    <3> HIDE DEF u, v
    <3> QED
      BY <1>4, <1>6, <1>9, <3>1, PartJoin, ZenonT(40)
  <2> DEFINE m == w - v
  <2>2. m \in 0 .. Len(p) /\ v + m = w
    BY <1>3, <1>5, <1>6, <1>9
  <2>3. Part(s, v, v + m) = Take(p, m)
    <3> HIDE DEF m
    <3> QED
      BY <1>3, <2>2
  <2> QED
    BY <1>8, <2>1, <2>2, <2>3
<1>10. ASSUME Len(more) < need
       PROVE  /\ Take(p, d) \o more = Take(p, d + Len(more)) /\ d + Len(more) \in 0 .. Len(p)
              /\ t < e[c + 1]
  <2>1. t < e[c + 1] /\ t - v = d + Len(more)
    BY <1>3, <1>5, <1>6, <1>7, <1>10
  <2>2. t <= e[c + 1]
    BY <1>3, <2>1
  <2>3. Take(p, d) \o Part(s, u, t) = Take(p, t - v) /\ t - v \in 0 .. Len(p)
    <3> HIDE DEF u, v
    <3> QED
      BY <1>5, <1>9, <2>2
  <2> QED
    BY <2>1, <2>3
<1>11. ASSUME ~(Len(more) < need)
       PROVE  /\ Take(p, d) \o Take(more, need) = p /\ Drop(more, need) = Part(s, e[c + 1], t)
              /\ e[c + 1] <= t
  <2> DEFINE w == e[c + 1]
  <2>1. w \in Nat /\ w <= t /\ w <= Len(s) /\ u <= w /\ u + need = w /\ need \in Nat /\ need <= t - u /\ w - v = Len(p)
    BY <1>3, <1>5, <1>6, <1>7, <1>11
  <2> HIDE DEF w, need
  <2>2. Take(more, need) = Part(s, u, u + need) /\ Drop(more, need) = Part(s, u + need, t)
    <3> HIDE DEF u
    <3> QED
      BY <1>4, <1>5, <1>6, <2>1, PartTake
  <2>3. Take(p, d) \o Part(s, u, w) = Take(p, w - v)
    <3>1. w <= e[c + 1]
      BY <2>1 DEF w
    <3> HIDE DEF u, v
    <3> QED
      BY <1>9, <2>1, <3>1
  <2>4. Take(p, Len(p)) = p
    <3>1. /\ Take(p, Len(p)) \in Seq(Byte) /\ Len(Take(p, Len(p))) = Len(p)
          /\ \A i \in 1 .. Len(p) : Take(p, Len(p))[i] = p[i]
      <4> DEFINE m == Len(p)
      <4>1. m \in Nat /\ m <= Len(p) /\ p \in Seq(Byte)
        BY <1>3
      <4> HIDE DEF m
      <4>2. Take(p, m) \in Seq(Byte) /\ Len(Take(p, m)) = m /\ \A i \in 1 .. m : Take(p, m)[i] = p[i]
        BY <4>1, TakeIs
      <4> QED
        BY <4>2 DEF m
    <3> DEFINE x == Take(p, Len(p))
    <3>2. x \in Seq(Byte) /\ Len(x) = Len(p) /\ \A i \in 1 .. Len(x) : x[i] = p[i]
      BY <3>1
    <3> HIDE DEF x
    <3>3. x = p
      BY <1>3, <3>2, SameSeq
    <3> QED
      BY <3>3 DEF x
  <2> QED
    BY <2>1, <2>2, <2>3, <2>4 DEF w
<1> QED
  BY <1>3, <1>7, <1>10, <1>11 DEF b, p

\* The half packet after r bytes of a stream, the first c packets of which are whole.
HalfFor(h, fd, e, r, c) ==
    LET m == r - Begin(e, c)
        p == Sent[fd][c + 1]
    IN  /\ m = 0 => Lacks(h, fd)
        /\ m = 1 => Holds(h, fd, HalfHeader(fd, Len(p) \div Base))
        /\ m >= 2 => Holds(h, fd, HalfPacket(fd, Len(p), Take(p, m - 2)))

\* r bytes of the stream of fd have been taken apart.
Reads(h, fd, s, e, r, c) ==
    /\ Framed(s, e, Sent[fd]) /\ r \in Nat /\ r <= Len(s) /\ Spot(e, r, c)
    /\ HalfFor(h, fd, e, r, c)

\* What can be sent.
LEMMA SentIs == ASSUME NEW fd \in Fd PROVE Sendable(Sent[fd]) /\ Base \in Nat \ {0}
<1>1. Sent[fd] \in Seq(Seq(Byte)) /\ \A k \in DOMAIN Sent[fd] : Len(Sent[fd][k]) < Base * Base
  BY NetAssumption
<1>2. DOMAIN Sent[fd] = 1 .. Len(Sent[fd])
  BY <1>1
<1> QED
  BY <1>1, <1>2, NetAssumption DEF Sendable

\* Half packets.
LEMMA HalvesIn ==
    ASSUME NEW fd \in Fd
    PROVE  /\ \A b \in Byte : HalfHeader(fd, b) \in Half /\ HalfHeader(fd, b).id = fd
           /\ \A n \in Nat : \A d \in Seq(Byte) :
                Len(d) < n => HalfPacket(fd, n, d) \in Half /\ HalfPacket(fd, n, d).id = fd
<1>1. 0 \in Byte /\ <<>> \in Seq(Byte)
  BY NetAssumption DEF Byte
<1>2. ASSUME NEW b \in Byte PROVE HalfHeader(fd, b) \in Half /\ HalfHeader(fd, b).id = fd
  BY <1>1 DEF HalfHeader, Half
<1>3. ASSUME NEW n \in Nat, NEW d \in Seq(Byte), Len(d) < n
      PROVE  HalfPacket(fd, n, d) \in Half /\ HalfPacket(fd, n, d).id = fd
  <2>1. Len(d) \in Int
    OBVIOUS
  <2> QED
    BY <1>1, <1>3, <2>1 DEF HalfPacket, Half
<1> QED
  BY <1>2, <1>3

\* A packet is whole.
LEMMA ReadsWhole ==
    ASSUME NEW fd \in Fd, NEW s, NEW e, Framed(s, e, Sent[fd]), NEW c \in Nat, c + 1 \in 1 .. Len(e),
           NEW h, Lacks(h, fd)
    PROVE  Reads(h, fd, s, e, e[c + 1], c + 1)
<1>1. e[c + 1] \in Nat /\ Spot(e, e[c + 1], c + 1) /\ Begin(e, c + 1) = e[c + 1]
  BY SpotNext
<1>2. e[c + 1] <= Len(s)
  BY DEF Framed
<1>3. e[c + 1] - Begin(e, c + 1) = 0
  BY <1>1
<1> QED
  BY <1>1, <1>2, <1>3 DEF Reads, HalfFor

\* A header, or a part of a packet, is saved.
LEMMA ReadsHalf ==
    ASSUME NEW fd \in Fd, NEW s, NEW e, Framed(s, e, Sent[fd]), NEW c \in Nat, c + 1 \in 1 .. Len(e),
           NEW t \in Nat, t <= Len(s), Begin(e, c) <= t, t < e[c + 1],
           NEW h \in Lists, Lacks(h, fd)
    PROVE  LET p == Sent[fd][c + 1]
               m == t - Begin(e, c)
               one == Saved(h, HalfHeader(fd, Len(p) \div Base))
               more == Saved(h, HalfPacket(fd, Len(p), Take(p, m - 2)))
           IN  /\ m = 1 => one \in Lists /\ Keeps(h, one, fd) /\ Reads(one, fd, s, e, t, c)
               /\ m >= 2 => more \in Lists /\ Keeps(h, more, fd) /\ Reads(more, fd, s, e, t, c)
<1> DEFINE ps == Sent[fd]
           p == ps[c + 1]
           b == Begin(e, c)
           m == t - b
<1>1. Sendable(ps) /\ Base \in Nat \ {0}
  BY SentIs
<1>2. b \in Nat /\ Len(p) \in Nat /\ p \in Seq(Byte) /\ Len(p) < Base * Base /\ e[c + 1] = b + 2 + Len(p)
  <2>1. Framed(s, e, ps) /\ c \in Nat /\ c + 1 \in 1 .. Len(e)
    OBVIOUS
  <2> HIDE DEF ps
  <2>2. /\ Begin(e, c) \in Nat /\ Len(ps[c + 1]) \in Nat /\ ps[c + 1] \in Seq(Byte)
        /\ Len(ps[c + 1]) < Base * Base /\ e[c + 1] = Begin(e, c) + 2 + Len(ps[c + 1])
    BY <1>1, <2>1, PacketNumbers
  <2> QED
    BY <2>2
<1>3. Spot(e, t, c)
  <2>1. e \in Seq(Nat) /\ Len(e) \in Nat
    BY DEF Framed
  <2> QED
    BY <2>1 DEF Spot
<1>4. m \in Nat /\ m < Len(p) + 2
  <2>1. b <= t /\ t < e[c + 1]
    OBVIOUS
  <2> HIDE DEF b, p
  <2> QED
    BY <1>2, <2>1
<1>5. ASSUME m = 1
      PROVE  LET one == Saved(h, HalfHeader(fd, Len(p) \div Base))
             IN  one \in Lists /\ Keeps(h, one, fd) /\ Reads(one, fd, s, e, t, c)
  <2> DEFINE u == HalfHeader(fd, Len(p) \div Base)
  <2>1. Len(p) \div Base \in Byte
    <3> HIDE DEF p
    <3> QED
      BY <1>1, <1>2, Digits DEF Byte
  <2>2. u \in Half /\ u.id = fd
    BY <2>1, HalvesIn
  <2>3. Saved(h, u) \in Lists /\ Holds(Saved(h, u), fd, u) /\ Keeps(h, Saved(h, u), fd)
    <3> HIDE DEF u
    <3>1. u \in Half /\ Lacks(h, u.id)
      BY <2>2
    <3>2. Saved(h, u) \in Lists /\ Holds(Saved(h, u), u.id, u) /\ Keeps(h, Saved(h, u), u.id)
      BY <3>1, SaveIs
    <3> QED
      BY <2>2, <3>2
  <2>4. HalfFor(Saved(h, u), fd, e, t, c)
    BY <1>5, <2>3 DEF HalfFor
  <2> QED
    BY <1>3, <2>3, <2>4 DEF Reads
<1>6. ASSUME m >= 2
      PROVE  LET more == Saved(h, HalfPacket(fd, Len(p), Take(p, m - 2)))
             IN  more \in Lists /\ Keeps(h, more, fd) /\ Reads(more, fd, s, e, t, c)
  <2> DEFINE d == Take(p, m - 2)
             u == HalfPacket(fd, Len(p), d)
  <2>1. m - 2 \in Nat /\ m - 2 < Len(p)
    <3> HIDE DEF b, p, m
    <3> QED
      BY <1>2, <1>4, <1>6
  <2>2. d \in Seq(Byte) /\ Len(d) = m - 2
    <3> DEFINE n == m - 2
    <3>1. n \in Nat /\ n <= Len(p)
      BY <1>2, <2>1
    <3> HIDE DEF n
    <3>2. Take(p, n) \in Seq(Byte) /\ Len(Take(p, n)) = n
      <4> HIDE DEF p
      <4> QED
        BY <1>2, <3>1, TakeIs
    <3> QED
      BY <3>2 DEF n
  <2>3. u \in Half /\ u.id = fd
    <3>1. Len(d) < Len(p)
      BY <2>1, <2>2
    <3> HIDE DEF d, p
    <3> QED
      BY <1>2, <2>2, <3>1, HalvesIn
  <2>4. Saved(h, u) \in Lists /\ Holds(Saved(h, u), fd, u) /\ Keeps(h, Saved(h, u), fd)
    <3> HIDE DEF u
    <3>1. u \in Half /\ Lacks(h, u.id)
      BY <2>3
    <3>2. Saved(h, u) \in Lists /\ Holds(Saved(h, u), u.id, u) /\ Keeps(h, Saved(h, u), u.id)
      BY <3>1, SaveIs
    <3> QED
      BY <2>3, <3>2
  <2>5. m # 0 /\ m # 1
    BY <1>4, <1>6
  <2>6. HalfFor(Saved(h, u), fd, e, t, c)
    BY <2>4, <2>5 DEF HalfFor
  <2> QED
    BY <1>3, <2>4, <2>6 DEF Reads
<1> QED
  BY <1>5, <1>6

\* A buffer that begins with a header.
LEMMA NewIs ==
    ASSUME NEW fd \in Fd, NEW s, NEW e, NEW c, NEW h \in Lists,
           Reads(h, fd, s, e, Begin(e, c), c), NEW t \in Nat, Begin(e, c) < t, t <= Len(s)
    PROVE  LET buffer == Part(s, Begin(e, c), t)
               size == read_size(buffer)
               data == Drop(buffer, 2)
               one == Saved(h, HalfHeader(fd, buffer[1]))
               more == Saved(h, HalfPacket(fd, size, data))
           IN  /\ buffer \in Seq(Byte) /\ Len(buffer) = t - Begin(e, c) /\ c \in Nat /\ c + 1 \in 1 .. Len(e)
               /\ Lacks(h, fd)
               /\ Len(buffer) = 1 => one \in Lists /\ Keeps(h, one, fd) /\ Reads(one, fd, s, e, t, c)
               /\ Len(buffer) # 1 /\ Len(data) < size =>
                    more \in Lists /\ Keeps(h, more, fd) /\ Reads(more, fd, s, e, t, c)
               /\ Len(buffer) # 1 /\ ~(Len(data) < size) =>
                    /\ Take(data, size) = Sent[fd][c + 1] /\ Drop(data, size) = Part(s, e[c + 1], t)
                    /\ e[c + 1] <= t
<1> DEFINE ps == Sent[fd]
           p == ps[c + 1]
           b == Begin(e, c)
           buffer == Part(s, b, t)
           size == read_size(buffer)
           data == Drop(buffer, 2)
<1>1. Sendable(ps) /\ Base \in Nat \ {0}
  BY SentIs
<1>2. Framed(s, e, ps) /\ b \in Nat /\ b <= Len(s) /\ Spot(e, b, c) /\ HalfFor(h, fd, e, b, c)
  BY DEF Reads
<1>3. c \in Nat /\ c + 1 \in 1 .. Len(e)
  <2>1. e \in Seq(Nat) /\ Len(e) \in Nat /\ Len(s) = Begin(e, Len(e)) /\ Len(s) \in Nat
    BY <1>2 DEF Framed
  <2>2. c \in 0 .. Len(e)
    BY <1>2 DEF Spot
  <2>3. c # Len(e)
    BY <1>2, <2>1
  <2> QED
    BY <2>1, <2>2, <2>3
<1>4. /\ Len(p) \in Nat /\ p \in Seq(Byte)
      /\ e[c + 1] = b + 2 + Len(p) /\ e[c + 1] <= Len(s)
      /\ s[b + 1] = Len(p) \div Base
  <2>1. Framed(s, e, ps) /\ Sendable(ps) /\ c \in Nat /\ c + 1 \in 1 .. Len(e)
    BY <1>1, <1>2, <1>3
  <2> HIDE DEF ps
  <2> QED
    BY <2>1, PacketAt
<1>5. s[b + 1] \in Byte /\ s[b + 1] * Base + s[b + 2] = Len(p)
  <2>1. Framed(s, e, ps) /\ Sendable(ps) /\ c \in Nat /\ c + 1 \in 1 .. Len(e)
    BY <1>1, <1>2, <1>3
  <2> HIDE DEF ps
  <2> QED
    BY <2>1, HeaderAt
<1>6. s \in Seq(Byte) /\ Len(s) \in Nat
  BY <1>2 DEF Framed
<1>7. buffer \in Seq(Byte) /\ Len(buffer) = t - b /\ \A k \in 1 .. t - b : buffer[k] = s[b + k]
  <2>1. b \in Nat /\ b <= t
    BY <1>2
  <2> HIDE DEF b
  <2> QED
    BY <1>6, <2>1, PartIs
<1>8. Lacks(h, fd)
  <2>1. b - b = 0
    BY <1>2
  <2> QED
    BY <1>2, <2>1 DEF HalfFor
<1> HIDE DEF buffer
<1>9. buffer[1] = Len(p) \div Base
  <2>1. 1 \in 1 .. t - b
    BY <1>2
  <2> QED
    BY <1>4, <1>7, <2>1
<1>10. ASSUME Len(buffer) = 1
       PROVE  LET one == Saved(h, HalfHeader(fd, buffer[1]))
              IN  one \in Lists /\ Keeps(h, one, fd) /\ Reads(one, fd, s, e, t, c)
  <2>1. b <= t /\ t < e[c + 1] /\ t - b = 1
    <3>1. t - b = 1 /\ b \in Nat /\ Len(p) \in Nat /\ e[c + 1] = b + 2 + Len(p)
      BY <1>2, <1>4, <1>7, <1>10
    <3> HIDE DEF b, p
    <3> QED
      BY <3>1
  <2> QED
    BY <1>2, <1>3, <1>8, <1>9, <2>1, ReadsHalf
<1>11. ASSUME Len(buffer) # 1
       PROVE  /\ size = Len(p) /\ data = Part(s, b + 2 + 0, t) /\ b + 2 + 0 <= t /\ b + 2 + 0 = b + 2
  <2>1. t - b \in Nat /\ t - b >= 2 /\ b + 2 <= t /\ b + 2 + 0 = b + 2
    BY <1>2, <1>7, <1>11
  <2>2. buffer[1] = s[b + 1] /\ buffer[2] = s[b + 2]
    <3>1. 1 \in 1 .. t - b /\ 2 \in 1 .. t - b
      BY <2>1
    <3> QED
      BY <1>7, <3>1
  <2>3. data = Part(s, b + 2, t)
    <3>1. b \in Nat /\ b <= t /\ 2 \in Nat /\ 2 <= t - b
      BY <1>2, <2>1
    <3> HIDE DEF b
    <3>2. Drop(Part(s, b, t), 2) = Part(s, b + 2, t)
      BY <1>6, <3>1, PartTake
    <3> QED
      BY <3>2 DEF buffer
  <2>4. size = Len(p)
    BY <1>5, <2>2 DEF read_size
  <2> QED
    BY <2>1, <2>3, <2>4
<1>12. ASSUME Len(buffer) # 1
       PROVE  LET need == Len(p) - 0
              IN  /\ data \in Seq(Byte) /\ Len(data) = t - (b + 2 + 0)
                  /\ Len(data) < need =>
                       /\ Take(p, 0) \o data = Take(p, 0 + Len(data)) /\ 0 + Len(data) \in 0 .. Len(p)
                       /\ t < e[c + 1]
                  /\ ~(Len(data) < need) =>
                       /\ Take(p, 0) \o Take(data, need) = p /\ Drop(data, need) = Part(s, e[c + 1], t)
                       /\ e[c + 1] <= t
  <2> DEFINE d == 0
  <2>1. d \in 0 .. Len(p) /\ b + 2 + d <= t
    BY <1>4, <1>11, <1>12
  <2>2. data = Part(s, b + 2 + d, t)
    BY <1>11, <1>12
  <2> HIDE DEF d
  <2>3. LET more == Part(s, b + 2 + d, t)
            need == Len(p) - d
        IN  /\ p \in Seq(Byte) /\ more \in Seq(Byte) /\ Len(more) = t - (b + 2 + d)
            /\ Len(more) < need =>
                 /\ Take(p, d) \o more = Take(p, d + Len(more)) /\ d + Len(more) \in 0 .. Len(p)
                 /\ t < e[c + 1]
            /\ ~(Len(more) < need) =>
                 /\ Take(p, d) \o Take(more, need) = p /\ Drop(more, need) = Part(s, e[c + 1], t)
                 /\ e[c + 1] <= t
    BY <1>1, <1>2, <1>3, <2>1, NextBytes
  <2> HIDE DEF data, p, b, buffer
  <2> QED
    BY <2>2, <2>3 DEF d
<1>13. \A x \in Seq(Byte) : Take(p, 0) \o x = x
  <2>1. Take(p, 0) \in Seq(Byte) /\ Len(Take(p, 0)) = 0
    <3> DEFINE n == 0
    <3>1. n \in Nat /\ n <= Len(p)
      BY <1>4
    <3> HIDE DEF n, p
    <3>2. Take(p, n) \in Seq(Byte) /\ Len(Take(p, n)) = n
      BY <1>4, <3>1, TakeIs
    <3> QED
      BY <3>2 DEF n
  <2> DEFINE y == Take(p, 0)
  <2>2. y \in Seq(Byte) /\ Len(y) = 0
    BY <2>1
  <2> HIDE DEF y
  <2>3. \A x \in Seq(Byte) : y \o x = x
    <3> TAKE x \in Seq(Byte)
    <3> QED
      BY <2>2
  <2> QED
    BY <2>3 DEF y
<1>14. ASSUME Len(buffer) # 1, Len(data) < size
       PROVE  LET more == Saved(h, HalfPacket(fd, size, data))
              IN  more \in Lists /\ Keeps(h, more, fd) /\ Reads(more, fd, s, e, t, c)
  <2>1. Len(p) - 0 = Len(p)
    BY <1>4
  <2>2. data \in Seq(Byte) /\ Len(data) = t - (b + 2) /\ t < e[c + 1] /\ Take(p, 0) \o data = Take(p, 0 + Len(data))
    BY <1>11, <1>12, <1>14, <2>1
  <2>3. 0 + Len(data) = (t - b) - 2 /\ b <= t /\ t - b >= 2
    BY <1>2, <1>11, <1>14, <2>2
  <2>4. data = Take(p, (t - b) - 2)
    BY <1>13, <2>2, <2>3
  <2>5. size = Len(p)
    BY <1>11, <1>14
  <2> HIDE DEF size, data
  <2> QED
    BY <1>2, <1>3, <1>8, <2>2, <2>3, <2>4, <2>5, ReadsHalf
<1>15. ASSUME Len(buffer) # 1, ~(Len(data) < size)
       PROVE  /\ Take(data, size) = p /\ Drop(data, size) = Part(s, e[c + 1], t)
              /\ e[c + 1] <= t
  <2>1. Len(p) - 0 = Len(p) /\ size = Len(p)
    BY <1>4, <1>11, <1>15
  <2>2. /\ Take(p, 0) \o Take(data, size) = p /\ Drop(data, size) = Part(s, e[c + 1], t)
        /\ e[c + 1] <= t /\ data \in Seq(Byte) /\ Len(data) \in Nat
    BY <1>12, <1>15, <2>1
  <2>3. Take(data, size) \in Seq(Byte)
    <3>1. size \in Nat /\ size <= Len(data)
      BY <1>4, <1>15, <2>1, <2>2
    <3> HIDE DEF size, data
    <3> QED
      BY <2>2, <3>1, TakeIs
  <2> QED
    BY <1>13, <2>2, <2>3
<1> QED
  BY <1>3, <1>7, <1>8, <1>10, <1>14, <1>15 DEF buffer

\* The lists change, the ring does not.
LEMMA HashOnly ==
    ASSUME NEW qq, RingOK(qq), NEW g \in Lists
    PROVE  LET rr == [qq EXCEPT !.hash = g]
           IN  RingOK(rr) /\ rr.hash = g /\ InRing(rr) = InRing(qq)
<1> DEFINE rr == [qq EXCEPT !.hash = g]
<1>1. qq \in Queues
  BY DEF RingOK
<1>2. /\ rr \in Queues /\ rr.hash = g
      /\ rr.cap = qq.cap /\ rr.head = qq.head /\ rr.tail = qq.tail /\ rr.ring = qq.ring
  BY <1>1 DEF Queues
<1> HIDE DEF rr
<1>3. Waiting(rr) = Waiting(qq) /\ \A k : Place(rr, k) = Place(qq, k)
  BY <1>2 DEF Waiting, Place
<1>4. RingOK(rr)
  BY <1>2, <1>3 DEF RingOK
<1>5. InRing(rr) = InRing(qq)
  BY <1>2, <1>3, <1>4, SameRing
<1> QED
  BY <1>2, <1>4, <1>5 DEF rr

\* A half packet is saved.
LEMMA SaveStep ==
    ASSUME NEW qq, RingOK(qq), NEW u, Saved(qq.hash, u) \in Lists
    PROVE  LET rr == save_uncomplete(qq, u)
           IN  RingOK(rr) /\ rr.hash = Saved(qq.hash, u) /\ InRing(rr) = InRing(qq)
<1> DEFINE g == Saved(qq.hash, u)
<1>1. qq \in Queues
  BY DEF RingOK
<1>2. save_uncomplete(qq, u) = [qq EXCEPT !.hash = g]
  BY <1>1 DEF save_uncomplete, Saved, Queues
<1>3. g \in Lists
  OBVIOUS
<1> HIDE DEF g
<1> QED
  BY <1>2, <1>3, HashOnly DEF g

\* Keeping twice.
LEMMA KeepsKeeps ==
    ASSUME NEW h, NEW g, NEW k, NEW fd, Keeps(h, g, fd), Keeps(g, k, fd)
    PROVE  Keeps(h, k, fd)
  BY DEF Keeps
LEMMA KeepsSame == ASSUME NEW h, NEW fd PROVE Keeps(h, h, fd)
  BY DEF Keeps

\* What is kept of other streams.
LEMMA ReadsKept ==
    ASSUME NEW h, NEW g, NEW fd, Keeps(h, g, fd), NEW f \in Fd, f # fd, NEW s, NEW e, NEW r, NEW c,
           Reads(h, f, s, e, r, c)
    PROVE  Reads(g, f, s, e, r, c)
  BY DEF Reads, HalfFor, Keeps

\* What filter_data does to a stream: the bytes up to t are in the lists, or a packet
\* is whole and the bytes behind it are left.
Filtered(rq, rjob, fd, s, e, t, c) ==
    /\ RingOK(rq) /\ InRing(rq) = InRing(q) /\ Keeps(q.hash, rq.hash, fd)
    /\ \/ rjob = Idle /\ Reads(rq.hash, fd, s, e, t, c)
       \/ /\ c \in Nat /\ c + 1 \in 1 .. Len(e) /\ e[c + 1] <= t
          /\ Reads(rq.hash, fd, s, e, e[c + 1], c + 1)
          /\ rjob = Returns(rq, fd, Sent[fd][c + 1], Part(s, e[c + 1], t)).job

\* A DATA message where no half packet is.
LEMMA FilterNewIs ==
    ASSUME NEW fd \in Fd, NEW s, NEW e, NEW c, RingOK(q),
           Reads(q.hash, fd, s, e, Begin(e, c), c), NEW t \in Nat, Begin(e, c) < t, t <= Len(s),
           NEW r, r = FilterNew(fd, Part(s, Begin(e, c), t))
    PROVE  Filtered(r.q, r.job, fd, s, e, t, c)
<1> DEFINE buffer == Part(s, Begin(e, c), t)
           size == read_size(buffer)
           data == Drop(buffer, 2)
           one == Saved(q.hash, HalfHeader(fd, buffer[1]))
           more == Saved(q.hash, HalfPacket(fd, size, data))
<1>1. q.hash \in Lists
  BY DEF RingOK, Queues
<1>2. /\ c \in Nat /\ c + 1 \in 1 .. Len(e) /\ Lacks(q.hash, fd)
      /\ Len(buffer) = 1 => one \in Lists /\ Keeps(q.hash, one, fd) /\ Reads(one, fd, s, e, t, c)
      /\ Len(buffer) # 1 /\ Len(data) < size =>
           more \in Lists /\ Keeps(q.hash, more, fd) /\ Reads(more, fd, s, e, t, c)
      /\ Len(buffer) # 1 /\ ~(Len(data) < size) =>
           /\ Take(data, size) = Sent[fd][c + 1] /\ Drop(data, size) = Part(s, e[c + 1], t)
           /\ e[c + 1] <= t
  BY <1>1, NewIs
<1>3. r = FilterNew(fd, buffer)
  OBVIOUS
<1>4. r = IF Len(buffer) = 1 THEN Nothing(save_uncomplete(q, HalfHeader(fd, buffer[1])))
          ELSE IF Len(data) < size THEN Nothing(save_uncomplete(q, HalfPacket(fd, size, data)))
          ELSE Returns(q, fd, Take(data, size), Drop(data, size))
  BY <1>3 DEF FilterNew
<1>5. CASE Len(buffer) = 1
  <2> DEFINE u == HalfHeader(fd, buffer[1])
  <2>1. r.q = save_uncomplete(q, u) /\ r.job = Idle
    BY <1>4, <1>5 DEF Nothing
  <2>2. RingOK(r.q) /\ r.q.hash = one /\ InRing(r.q) = InRing(q)
    <3> HIDE DEF u
    <3> QED
      BY <1>2, <1>5, <2>1, SaveStep DEF u
  <2> QED
    BY <1>2, <1>5, <2>1, <2>2 DEF Filtered
<1>6. CASE Len(buffer) # 1 /\ Len(data) < size
  <2> DEFINE u == HalfPacket(fd, size, data)
  <2>1. r.q = save_uncomplete(q, u) /\ r.job = Idle
    BY <1>4, <1>6 DEF Nothing
  <2>2. RingOK(r.q) /\ r.q.hash = more /\ InRing(r.q) = InRing(q)
    <3> HIDE DEF u
    <3> QED
      BY <1>2, <1>6, <2>1, SaveStep DEF u
  <2> QED
    BY <1>2, <1>6, <2>1, <2>2 DEF Filtered
<1>7. CASE Len(buffer) # 1 /\ ~(Len(data) < size)
  <2>1. r = Returns(q, fd, Sent[fd][c + 1], Part(s, e[c + 1], t))
    BY <1>2, <1>4, <1>7
  <2>2. r.q = q /\ r.job = Returns(r.q, fd, Sent[fd][c + 1], Part(s, e[c + 1], t)).job
    BY <2>1 DEF Returns
  <2>3. Framed(s, e, Sent[fd])
    BY DEF Reads
  <2>4. Reads(q.hash, fd, s, e, e[c + 1], c + 1)
    BY <1>2, <2>3, ReadsWhole
  <2> QED
    BY <1>2, <1>7, <2>2, <2>4, KeepsSame DEF Filtered
<1> QED
  BY <1>5, <1>6, <1>7

\* The half packet is found and taken out.
LEMMA UnlinkStep ==
    ASSUME NEW fd \in Fd, RingOK(q), NEW u, Holds(q.hash, fd, u)
    PROVE  /\ q.hash[hash_fd(fd)][FindAt(fd)] = u /\ FindAt(fd) # 0
           /\ RingOK(Unlink(fd)) /\ InRing(Unlink(fd)) = InRing(q)
           /\ Unlink(fd).hash \in Lists /\ Lacks(Unlink(fd).hash, fd) /\ Keeps(q.hash, Unlink(fd).hash, fd)
<1>1. q.hash \in Lists /\ q \in Queues
  BY DEF RingOK, Queues
<1>2. hash_fd(fd) \in Bucket
  BY HashIn
<1>3. PICK i \in 1 .. Len(q.hash[hash_fd(fd)]) : HoldsAt(q.hash, fd, u, i)
  BY DEF Holds
<1>4. FindAt(fd) = i
  BY <1>1, <1>3, FindIs
<1>5. i # 0 /\ q.hash[hash_fd(fd)][i] = u
  <2>1. i # 0
    <3>1. q.hash[hash_fd(fd)] \in Seq(Half)
      BY <1>1, <1>2 DEF Lists
    <3> QED
      BY <3>1
  <2> QED
    BY <1>3, <2>1 DEF HoldsAt
<1> DEFINE b == hash_fd(fd)
           g == [q.hash EXCEPT ![b] = RemoveAt(@, i)]
<1>6. g \in Lists /\ Lacks(g, fd) /\ Keeps(q.hash, g, fd)
  BY <1>1, <1>3, UnlinkIs
<1>7. Unlink(fd) = [q EXCEPT !.hash = g]
  <2>1. Unlink(fd) = [q EXCEPT !.hash[b] = RemoveAt(@, i)]
    BY <1>4, <1>5 DEF Unlink
  <2> QED
    BY <1>1, <2>1 DEF Queues
<1> HIDE DEF g
<1>8. RingOK(Unlink(fd)) /\ Unlink(fd).hash = g /\ InRing(Unlink(fd)) = InRing(q)
  BY <1>6, <1>7, HashOnly
<1> QED
  BY <1>4, <1>5, <1>6, <1>8

\* A DATA message where a half packet is.
LEMMA FillIs ==
    ASSUME NEW fd \in Fd, NEW s, NEW e, NEW c, NEW r, RingOK(q), Reads(q.hash, fd, s, e, r, c),
           r # Begin(e, c), NEW t \in Nat, r < t, t <= Len(s),
           NEW x, x = FillUncomplete(fd, Part(s, r, t))
    PROVE  FindAt(fd) # 0 /\ Filtered(x.q, x.job, fd, s, e, t, c)
<1> DEFINE ps == Sent[fd]
           p == ps[c + 1]
           b == Begin(e, c)
           m == r - b
           buffer == Part(s, r, t)
           d == IF m = 1 THEN 0 ELSE m - 2
           u == IF m = 1 THEN HalfHeader(fd, Len(p) \div Base) ELSE HalfPacket(fd, Len(p), Take(p, m - 2))
           g == Unlink(fd).hash
<1>1. Sendable(ps) /\ Base \in Nat \ {0}
  BY SentIs
<1>2. Framed(s, e, ps) /\ r \in Nat /\ r <= Len(s) /\ Spot(e, r, c) /\ HalfFor(q.hash, fd, e, r, c)
  BY DEF Reads
<1>3. c \in Nat /\ b \in Nat /\ b <= r /\ c + 1 \in 1 .. Len(e) /\ r < e[c + 1]
  <2> HIDE DEF ps
  <2> QED
    BY <1>1, <1>2, SpotLast
<1>4. Framed(s, e, ps) /\ Sendable(ps) /\ c \in Nat /\ c + 1 \in 1 .. Len(e)
  BY <1>1, <1>2, <1>3
<1>5. /\ Len(p) \in Nat /\ p \in Seq(Byte)
      /\ e[c + 1] = b + 2 + Len(p) /\ e[c + 1] <= Len(s)
  <2> HIDE DEF ps
  <2> QED
    BY <1>4, PacketAt
<1>6. s[b + 1] = Len(p) \div Base /\ s[b + 1] * Base + s[b + 2] = Len(p)
  <2> HIDE DEF ps
  <2> QED
    BY <1>4, HeaderAt
<1>7. s \in Seq(Byte) /\ Len(s) \in Nat
  BY <1>2 DEF Framed
<1>8. m \in Nat /\ m # 0 /\ m < Len(p) + 2
  <2>1. r # b
    OBVIOUS
  <2> HIDE DEF b, p
  <2> QED
    BY <1>2, <1>3, <1>5, <2>1
<1>9. d \in 0 .. Len(p) /\ (m = 1 => d = 0) /\ (m # 1 => m >= 2 /\ d = m - 2 /\ b + 2 + d = r)
  <2> HIDE DEF p, b
  <2>1. m # 1 => m >= 2 /\ m - 2 \in 0 .. Len(p) /\ b + 2 + (m - 2) = r
    BY <1>2, <1>3, <1>5, <1>8
  <2> HIDE DEF m
  <2>2. CASE m = 1
    BY <1>5, <2>2
  <2>3. CASE m # 1
    BY <2>1, <2>3
  <2> QED
    BY <2>2, <2>3
<1>10. Holds(q.hash, fd, u)
  <2>1. m = 1 \/ m >= 2
    BY <1>9
  <2> QED
    BY <1>2, <2>1, <1>9 DEF HalfFor
<1>11. /\ q.hash[hash_fd(fd)][FindAt(fd)] = u /\ FindAt(fd) # 0
       /\ RingOK(Unlink(fd)) /\ InRing(Unlink(fd)) = InRing(q)
       /\ g \in Lists /\ Lacks(g, fd) /\ Keeps(q.hash, g, fd)
  <2> HIDE DEF u
  <2> QED
    BY <1>10, UnlinkStep
<1>12. buffer \in Seq(Byte) /\ Len(buffer) = t - r /\ \A k \in 1 .. t - r : buffer[k] = s[r + k]
  <2>1. r \in Nat /\ r <= t /\ s \in Seq(Byte)
    BY <1>2, <1>7
  <2> QED
    BY <2>1, PartIs
<1> DEFINE size == IF u.read < 0 THEN u.header * Base + buffer[1] ELSE u.size
           more == IF u.read < 0 THEN Drop(buffer, 1) ELSE buffer
           need == size - Len(u.data)
<1>13. Take(p, d) \in Seq(Byte) /\ Len(Take(p, d)) = d
  <2>1. p \in Seq(Byte) /\ d \in Nat /\ d <= Len(p)
    BY <1>5, <1>9
  <2> HIDE DEF p, d
  <2> QED
    BY <2>1, TakeIs
<1>14. size = Len(p) /\ more = Part(s, b + 2 + d, t) /\ u.data = Take(p, d) /\ b + 2 + d <= t
  <2>1. CASE m = 1
    <3>1. u.read = -1 /\ u.header = Len(p) \div Base /\ u.data = <<>>
      BY <2>1 DEF HalfHeader
    <3>2. d = 0
      BY <1>9, <2>1
    <3>3. r = b + 1 /\ r + 1 = b + 2 /\ b + 2 + d = r + 1 /\ r + 1 <= t
      BY <1>2, <1>3, <2>1, <3>2
    <3>4. buffer[1] = s[b + 2]
      <4>1. 1 \in 1 .. t - r
        BY <1>2
      <4> QED
        BY <1>12, <3>3, <4>1
    <3>5. size = Len(p)
      <4>1. size = u.header * Base + buffer[1]
        BY <3>1
      <4> QED
        BY <1>6, <3>1, <3>4, <4>1
    <3>6. Drop(buffer, 1) = Part(s, r + 1, t)
      <4>1. s \in Seq(Byte) /\ r \in Nat /\ r <= t /\ 1 \in Nat /\ 1 <= t - r
        BY <1>2, <1>7
      <4> QED
        BY <4>1, PartTake
    <3>7. more = Drop(buffer, 1)
      BY <3>1
    <3>8. Take(p, d) = <<>>
      BY <1>13, <3>2
    <3> HIDE DEF size, more, u, d, b, p, m, buffer
    <3> QED
      BY <3>1, <3>3, <3>5, <3>6, <3>7, <3>8
  <2>2. CASE m # 1
    <3>1. d = m - 2 /\ b + 2 + d = r /\ m >= 2
      BY <1>9, <2>2
    <3>2. u = HalfPacket(fd, Len(p), Take(p, d))
      BY <2>2, <3>1
    <3> HIDE DEF d
    <3>3. u.read = d /\ u.size = Len(p) /\ u.data = Take(p, d)
      BY <1>13, <3>2 DEF HalfPacket
    <3>4. ~(u.read < 0)
      BY <1>9, <3>3
    <3>5. size = Len(p) /\ more = buffer
      BY <3>3, <3>4
    <3> HIDE DEF size, more, u, b, p, m
    <3> QED
      BY <1>2, <3>1, <3>3, <3>5
  <2> QED
    BY <2>1, <2>2
<1>15. x = IF Len(more) < need THEN Nothing(save_uncomplete(Unlink(fd), HalfPacket(fd, size, u.data \o more)))
           ELSE Returns(Unlink(fd), fd, u.data \o Take(more, need), Drop(more, need))
  BY <1>11 DEF FillUncomplete
<1>16. LET part == Part(s, b + 2 + d, t)
           lack == Len(p) - d
       IN  /\ p \in Seq(Byte) /\ part \in Seq(Byte) /\ Len(part) = t - (b + 2 + d)
           /\ Len(part) < lack =>
                /\ Take(p, d) \o part = Take(p, d + Len(part)) /\ d + Len(part) \in 0 .. Len(p)
                /\ t < e[c + 1]
           /\ ~(Len(part) < lack) =>
                /\ Take(p, d) \o Take(part, lack) = p /\ Drop(part, lack) = Part(s, e[c + 1], t)
                /\ e[c + 1] <= t
  <2>1. d \in 0 .. Len(p) /\ b + 2 + d <= t
    BY <1>9, <1>14
  <2> HIDE DEF d, ps
  <2> QED
    BY <1>4, <2>1, NextBytes
<1>17. need = Len(p) - d
  <2> HIDE DEF size, more, u, b, p, m, d
  <2> QED
    BY <1>13, <1>14
<1> HIDE DEF size, more, need, u, d, m, p, b, buffer, g
<1>18. CASE Len(more) < need
  <2> DEFINE v == HalfPacket(fd, Len(p), Take(p, (t - b) - 2))
  <2>1. u.data \o more = Take(p, d + Len(more)) /\ t < e[c + 1] /\ Len(more) = t - (b + 2 + d)
    BY <1>14, <1>16, <1>17, <1>18
  <2>2. d + Len(more) = (t - b) - 2 /\ t - b >= 2 /\ b <= t
    BY <1>3, <1>9, <1>14, <1>5, <2>1
  <2>3. x.q = save_uncomplete(Unlink(fd), v) /\ x.job = Idle
    <3>1. x = Nothing(save_uncomplete(Unlink(fd), HalfPacket(fd, size, u.data \o more)))
      BY <1>15, <1>18
    <3>2. HalfPacket(fd, size, u.data \o more) = v
      BY <1>14, <2>1, <2>2
    <3> HIDE DEF v
    <3> QED
      BY <3>1, <3>2 DEF Nothing
  <2>4. Saved(g, v) \in Lists /\ Keeps(g, Saved(g, v), fd) /\ Reads(Saved(g, v), fd, s, e, t, c)
    <3>1. LET one == Saved(g, HalfHeader(fd, Len(Sent[fd][c + 1]) \div Base))
              more2 == Saved(g, HalfPacket(fd, Len(Sent[fd][c + 1]), Take(Sent[fd][c + 1], (t - Begin(e, c)) - 2)))
          IN  /\ t - Begin(e, c) = 1 => one \in Lists /\ Keeps(g, one, fd) /\ Reads(one, fd, s, e, t, c)
              /\ t - Begin(e, c) >= 2 => more2 \in Lists /\ Keeps(g, more2, fd) /\ Reads(more2, fd, s, e, t, c)
      <4>1. Begin(e, c) <= t
        BY <2>2 DEF b
      <4> QED
        BY <1>4, <1>11, <2>1, <4>1, ReadsHalf
    <3> QED
      BY <2>2, <3>1 DEF b, p
  <2> DEFINE k == Unlink(fd)
  <2>5. RingOK(k) /\ InRing(k) = InRing(q) /\ k.hash = g
    BY <1>11 DEF g
  <2> HIDE DEF k, v
  <2>6. RingOK(x.q) /\ x.q.hash = Saved(g, v) /\ InRing(x.q) = InRing(q)
    <3>1. x.q = save_uncomplete(k, v) /\ Saved(k.hash, v) \in Lists
      BY <2>3, <2>4, <2>5 DEF k
    <3> QED
      BY <2>5, <3>1, SaveStep
  <2>7. Keeps(q.hash, x.q.hash, fd)
    BY <1>11, <2>4, <2>6, KeepsKeeps
  <2> QED
    BY <1>11, <2>3, <2>4, <2>6, <2>7 DEF Filtered
<1>19. CASE ~(Len(more) < need)
  <2>1. u.data \o Take(more, need) = p /\ Drop(more, need) = Part(s, e[c + 1], t) /\ e[c + 1] <= t
    BY <1>14, <1>16, <1>17, <1>19
  <2>2. x = Returns(Unlink(fd), fd, p, Part(s, e[c + 1], t))
    BY <1>15, <1>19, <2>1
  <2>3. x.q = Unlink(fd) /\ x.job = Returns(x.q, fd, Sent[fd][c + 1], Part(s, e[c + 1], t)).job
    BY <2>2 DEF Returns, p
  <2>4. Reads(g, fd, s, e, e[c + 1], c + 1)
    <3>1. Framed(s, e, Sent[fd]) /\ Lacks(g, fd)
      BY <1>2, <1>11
    <3> QED
      BY <1>3, <3>1, ReadsWhole
  <2> QED
    BY <1>3, <1>11, <2>1, <2>3, <2>4 DEF Filtered, g
<1> QED
  BY <1>18, <1>19

\* A DATA message.
LEMMA FilterIs ==
    ASSUME NEW fd \in Fd, NEW s, NEW e, NEW c, NEW r, RingOK(q), Reads(q.hash, fd, s, e, r, c),
           NEW t \in Nat, r < t, t <= Len(s), NEW x, x = filter_data(fd, Part(s, r, t))
    PROVE  Filtered(x.q, x.job, fd, s, e, t, c)
<1>1. CASE r = Begin(e, c)
  <2>1. Lacks(q.hash, fd)
    <3>1. r - Begin(e, c) = 0
      BY <1>1 DEF Reads
    <3> QED
      BY <3>1 DEF Reads, HalfFor
  <2>2. FindAt(fd) = 0
    <3>1. q.hash \in Lists
      BY DEF RingOK, Queues
    <3> QED
      BY <2>1, <3>1, FindIs
  <2>3. x = FilterNew(fd, Part(s, Begin(e, c), t))
    BY <1>1, <2>2 DEF filter_data
  <2>4. Reads(q.hash, fd, s, e, Begin(e, c), c) /\ Begin(e, c) < t
    BY <1>1
  <2> QED
    BY <2>3, <2>4, FilterNewIs
<1>2. CASE r # Begin(e, c)
  <2> DEFINE y == FillUncomplete(fd, Part(s, r, t))
  <2>1. FindAt(fd) # 0 /\ Filtered(y.q, y.job, fd, s, e, t, c)
    BY <1>2, FillIs
  <2>2. x = y
    BY <2>1 DEF filter_data
  <2> QED
    BY <2>1, <2>2
<1> QED
  BY <1>1, <1>2

-----------------------------------------------------------------------------
(* The invariant *)

Jobs == {j \in [step : {"idle", "push", "data", "more"}, pkt : Cell, left : Seq(Byte)] :
           /\ j.step = "idle" => j = Idle
           /\ j.step # "idle" => j.pkt \in Packets
           /\ j.left = <<>> <=> j.step # "push"}

\* The bytes of the stream of fd that have been taken apart, and the packets in them.
ParsedBy(r, j, fd) == r - (IF j.step = "push" /\ j.pkt[1] = fd THEN Len(j.left) ELSE 0)
TakenAt(e, r) == CHOOSE c : Spot(e, r, c)
TakenOf(e, r, j, fd, st) == IF fd \in st THEN 0 ELSE TakenAt(e, ParsedBy(r, j, fd))

\* The stream of fd: its half packet, and the bytes push_more has still to take apart,
\* which begin with a packet.
ParserOK(h, fd, s, e, r, j) ==
    LET x == ParsedBy(r, j, fd)
        c == TakenAt(e, x)
    IN  /\ r <= Len(s) /\ Reads(h, fd, s, e, x, c)
        /\ j.step = "push" /\ j.pkt[1] = fd => j.left = Part(s, x, r) /\ x = Begin(e, c)

\* A descriptor that is used again with the half packet of an earlier connection: it
\* has one half packet at most, and none while push_more is at work for it.
OneHalf(h, fd) == Lacks(h, fd) \/ \E u : Holds(h, fd, u)
Loose(h, fd, s, e, r, j) ==
    /\ Framed(s, e, Sent[fd]) /\ r <= Len(s) /\ OneHalf(h, fd)
    /\ j.step = "push" /\ j.pkt[1] = fd => Lacks(h, fd)
ParsedOK(h, fd, s, e, r, j, st) ==
    /\ fd \in st => Loose(h, fd, s, e, r, j)
    /\ fd \notin st => ParserOK(h, fd, s, e, r, j)

\* The packets the handler is called with next.
WaitFor(j, qq) == IF j.step = "idle" THEN InRing(qq) ELSE <<j.pkt>> \o InRing(qq)

\* The packets handed out and those that wait for the handler are those taken.
OrderedFor(gs, w, its, c, ps) ==
    /\ c = Len(gs) + (IF its THEN Len(w) ELSE 0)
    /\ \A k \in 1 .. Len(gs) : gs[k] = ps[k]
    /\ its => \A k \in 1 .. Len(w) : w[k][2] = ps[Len(gs) + k]
OrderedIn(g, w, j, tk, st) ==
    /\ j.step = "idle" => w = <<>>
    /\ j.step = "data" => Len(w) = 1
    /\ \A k \in 1 .. Len(w) : w[k][1] = j.pkt[1]
    /\ \A fd \in Fd \ st : OrderedFor(g[fd], w, j.step # "idle" /\ j.pkt[1] = fd, tk[fd], Sent[fd])
CountedIn(g, w, tk) ==
    \A fd \in Fd : \A p : Times(g[fd], p) + Times(w, <<fd, p>>) = Times(Take(Sent[fd], tk[fd]), p)
Delivered(g, w, j, tk, f, c, st) ==
    (f = 0 => OrderedIn(g, w, j, tk, st)) /\ (c = 0 => CountedIn(g, w, tk))

Types ==
    /\ RingOK(q) /\ job \in Jobs
    /\ stream \in [Fd -> Seq(Byte)] /\ ends \in [Fd -> Seq(Nat)]
    /\ read \in [Fd -> Nat] /\ got \in [Fd -> Seq(Seq(Byte))]
    /\ fails \in 0 .. MaxFails /\ closes \in 0 .. MaxCloses
    /\ stale \subseteq Fd /\ (closes = 0 => stale = {})
Taken == [fd \in Fd |-> TakenOf(ends[fd], read[fd], job, fd, stale)]

NetInv ==
    /\ Types
    /\ \A fd \in Fd : ParsedOK(q.hash, fd, stream[fd], ends[fd], read[fd], job, stale)
    /\ Delivered(got, WaitFor(job, q), job, Taken, fails, closes, stale)

\* The number of packets taken is known when it is seen.
LEMMA ParserNow ==
    ASSUME NEW fd \in Fd, NEW h, NEW s, NEW e, NEW r, NEW j, NEW x, NEW c,
           Reads(h, fd, s, e, x, c), x = ParsedBy(r, j, fd), r <= Len(s),
           j.step = "push" /\ j.pkt[1] = fd => j.left = Part(s, x, r) /\ x = Begin(e, c)
    PROVE  ParserOK(h, fd, s, e, r, j) /\ TakenAt(e, ParsedBy(r, j, fd)) = c
<1>1. Framed(s, e, Sent[fd]) /\ x \in Nat /\ Spot(e, x, c)
  BY DEF Reads
<1>2. Spot(e, x, TakenAt(e, x))
  BY <1>1 DEF TakenAt
<1>3. TakenAt(e, x) = c
  BY <1>1, <1>2, SpotUnique
<1> QED
  BY <1>3 DEF ParserOK

LEMMA ParsedNow ==
    ASSUME NEW st, NEW fd \in Fd, fd \notin st, NEW h, NEW s, NEW e, NEW r, NEW j, NEW x, NEW c,
           Reads(h, fd, s, e, x, c), x = ParsedBy(r, j, fd), r <= Len(s),
           j.step = "push" /\ j.pkt[1] = fd => j.left = Part(s, x, r) /\ x = Begin(e, c)
    PROVE  ParsedOK(h, fd, s, e, r, j, st) /\ TakenOf(e, r, j, fd, st) = c
<1>1. ParserOK(h, fd, s, e, r, j) /\ TakenAt(e, ParsedBy(r, j, fd)) = c
  BY ParserNow
<1> QED
  BY <1>1 DEF ParsedOK, TakenOf

\* A descriptor whose half packet is the right one has one half packet at most.
LEMMA OneIs ==
    ASSUME NEW fd \in Fd, NEW h, NEW s, NEW e, NEW r, NEW c, Reads(h, fd, s, e, r, c)
    PROVE  OneHalf(h, fd)
<1>1. /\ Framed(s, e, Sent[fd]) /\ Sendable(Sent[fd]) /\ r \in Nat /\ r <= Len(s) /\ Spot(e, r, c)
      /\ HalfFor(h, fd, e, r, c)
  BY SentIs DEF Reads
<1>2. Begin(e, c) \in Nat /\ Begin(e, c) <= r
  <2> DEFINE ps == Sent[fd]
  <2>1. Framed(s, e, ps) /\ Sendable(ps)
    BY <1>1
  <2> HIDE DEF ps
  <2> QED
    BY <1>1, <2>1, SpotLast
<1> DEFINE m == r - Begin(e, c)
<1>3. m = 0 \/ m = 1 \/ m >= 2
  <2> DEFINE b == Begin(e, c)
  <2>1. b \in Nat /\ b <= r
    BY <1>2
  <2> HIDE DEF b
  <2> QED
    BY <1>1, <2>1 DEF b
<1> QED
  BY <1>1, <1>3 DEF HalfFor, OneHalf

\* The numbers of packets taken.
LEMMA TakenIs ==
    ASSUME NEW fd \in Fd, NEW h, NEW s, NEW e, NEW r, NEW c, Reads(h, fd, s, e, r, c)
    PROVE  c \in Nat /\ c <= Len(Sent[fd])
<1>1. Framed(s, e, Sent[fd]) /\ Sendable(Sent[fd]) /\ r \in Nat /\ r <= Len(s) /\ Spot(e, r, c)
  BY SentIs DEF Reads
<1> DEFINE ps == Sent[fd]
<1> HIDE DEF ps
<1>2. Framed(s, e, ps) /\ Sendable(ps)
  BY <1>1 DEF ps
<1>3. c \in Nat /\ c <= Len(ps)
  BY <1>1, <1>2, SpotLast
<1> QED
  BY <1>3 DEF ps

-----------------------------------------------------------------------------
(* Handing packets out *)

\* One more packet is taken.
LEMMA TimesTake ==
    ASSUME NEW S, NEW s \in Seq(S), NEW c \in Nat, c + 1 <= Len(s), NEW x
    PROVE  Times(Take(s, c + 1), x) = Times(Take(s, c), x) + (IF s[c + 1] = x THEN 1 ELSE 0)
<1> DEFINE a == Take(s, c)
           b == Take(s, c + 1)
<1>1. Len(s) \in Nat /\ c <= Len(s) /\ c + 1 \in Nat
  OBVIOUS
<1>2. a \in Seq(S) /\ Len(a) = c /\ \A k \in 1 .. c : a[k] = s[k]
  BY <1>1, TakeIs
<1>3. b \in Seq(S) /\ Len(b) = c + 1 /\ \A k \in 1 .. c + 1 : b[k] = s[k]
  <2> DEFINE n == c + 1
  <2>1. n \in Nat /\ n <= Len(s)
    BY <1>1
  <2> HIDE DEF n
  <2>2. Take(s, n) \in Seq(S) /\ Len(Take(s, n)) = n /\ \A k \in 1 .. n : Take(s, n)[k] = s[k]
    BY <2>1, TakeIs
  <2> QED
    BY <2>2 DEF n
<1> HIDE DEF a, b
<1>4. \A k \in 1 .. Len(a) : b[k] = a[k]
  BY <1>2, <1>3
<1>5. b[Len(a) + 1] = s[c + 1] /\ Len(b) = Len(a) + 1
  <2>1. c + 1 \in 1 .. c + 1
    OBVIOUS
  <2> QED
    BY <1>2, <1>3, <2>1
<1>6. Times(b, x) = Times(a, x) + (IF s[c + 1] = x THEN 1 ELSE 0)
  BY <1>2, <1>3, <1>4, <1>5, TimesMore
<1> QED
  BY <1>6 DEF a, b

\* Pairs are equal when their parts are.
LEMMA PairIs == ASSUME NEW a, NEW b, NEW c, NEW d PROVE <<a, b>> = <<c, d>> <=> (a = c /\ b = d)
  OBVIOUS

\* The packets of a descriptor, and how many were taken.
Goods(g, w, tk) ==
    /\ g \in [Fd -> Seq(Seq(Byte))] /\ w \in Seq(Packets) /\ tk \in [Fd -> Nat]

\* One more is taken and waits.
LEMMA CountAnother ==
    ASSUME NEW g, NEW w, NEW tk, Goods(g, w, tk), NEW fd \in Fd, tk[fd] + 1 <= Len(Sent[fd]),
           CountedIn(g, w, tk), NEW v,
           \A z : Times(v, z) = Times(w, z) + (IF <<fd, Sent[fd][tk[fd] + 1]>> = z THEN 1 ELSE 0)
    PROVE  CountedIn(g, v, [tk EXCEPT ![fd] = @ + 1])
<1> DEFINE ps == Sent[fd]
           n == tk[fd]
           p == ps[n + 1]
           y == <<fd, p>>
           tl == [tk EXCEPT ![fd] = @ + 1]
<1>1. ps \in Seq(Seq(Byte)) /\ Len(ps) \in Nat
  BY SentIs DEF Sendable
<1>2. n \in Nat
  BY DEF Goods
<1>3. w \in Seq(Packets)
  BY DEF Goods
<1>4. tl \in [Fd -> Nat] /\ tl[fd] = n + 1 /\ \A a \in Fd : a # fd => tl[a] = tk[a]
  BY DEF Goods
<1>5. \A z : Times(v, z) = Times(w, z) + (IF y = z THEN 1 ELSE 0)
  OBVIOUS
<1> HIDE DEF p, tl, y
<1> SUFFICES ASSUME NEW a \in Fd, NEW x
             PROVE  Times(g[a], x) + Times(v, <<a, x>>) = Times(Take(Sent[a], tl[a]), x)
  BY DEF CountedIn, tl
<1>6. Times(g[a], x) + Times(w, <<a, x>>) = Times(Take(Sent[a], tk[a]), x)
  BY DEF CountedIn
<1> DEFINE z == <<a, x>>
<1>7. Times(v, z) = Times(w, z) + (IF y = z THEN 1 ELSE 0)
  BY <1>5
<1>8. y = z <=> (fd = a /\ p = x)
  BY PairIs DEF y
<1> HIDE DEF z
<1>9. Times(g[a], x) \in Nat /\ Times(w, z) \in Nat
  <2>1. g[a] \in Seq(Seq(Byte))
    BY DEF Goods
  <2> QED
    BY <1>3, <2>1, TimesIn
<1>10. CASE a # fd
  <2>1. tl[a] = tk[a] /\ Times(v, z) = Times(w, z)
    BY <1>4, <1>7, <1>8, <1>9, <1>10
  <2> QED
    BY <1>6, <2>1 DEF z
<1>11. CASE a = fd
  <2>1. Times(Take(ps, n + 1), x) = Times(Take(ps, n), x) + (IF p = x THEN 1 ELSE 0)
    <3>1. n + 1 <= Len(ps)
      OBVIOUS
    <3> HIDE DEF ps, n
    <3> QED
      BY <1>1, <1>2, <3>1, TimesTake DEF p
  <2>2. Times(v, z) = Times(w, z) + (IF p = x THEN 1 ELSE 0)
    BY <1>7, <1>8, <1>11
  <2>3. Times(g[a], x) + Times(w, z) = Times(Take(ps, n), x)
    BY <1>6, <1>11 DEF z
  <2>4. Times(g[a], x) + Times(v, z) = Times(Take(ps, n + 1), x)
    <3> HIDE DEF ps, n
    <3>1. CASE p = x
      BY <1>9, <2>1, <2>2, <2>3, <3>1
    <3>2. CASE p # x
      BY <1>9, <2>1, <2>2, <2>3, <3>2
    <3> QED
      BY <3>1, <3>2
  <2> QED
    BY <1>4, <1>11, <2>4 DEF z
<1> QED
  BY <1>10, <1>11

\* A packet is taken while another waits or is in hand: it is the last.
LEMMA TakeAnother ==
    ASSUME NEW g, NEW w, NEW tk, Goods(g, w, tk), NEW fd \in Fd, tk[fd] + 1 <= Len(Sent[fd]),
           NEW j, NEW i, j.step # "idle", i.step \notin {"idle", "data"}, i.pkt = j.pkt, j.pkt[1] = fd,
           NEW st, NEW f, NEW c, Delivered(g, w, j, tk, f, c, st)
    PROVE  Delivered(g, Append(w, <<fd, Sent[fd][tk[fd] + 1]>>), i, [tk EXCEPT ![fd] = @ + 1], f, c, st)
<1> DEFINE ps == Sent[fd]
           n == tk[fd]
           p == ps[n + 1]
           y == <<fd, p>>
           v == Append(w, y)
           tl == [tk EXCEPT ![fd] = @ + 1]
<1>1. ps \in Seq(Seq(Byte)) /\ Len(ps) \in Nat
  BY SentIs DEF Sendable
<1>2. n \in Nat /\ n + 1 \in 1 .. Len(ps)
  BY <1>1 DEF Goods
<1>3. p \in Seq(Byte)
  BY <1>1, <1>2
<1>4. y \in Packets
  BY <1>3 DEF Packets
<1>5. w \in Seq(Packets) /\ Len(w) \in Nat
  BY DEF Goods
<1>6. tl \in [Fd -> Nat] /\ tl[fd] = n + 1 /\ \A a \in Fd : a # fd => tl[a] = tk[a]
  BY DEF Goods
<1>7. y[1] = fd /\ y[2] = p
  OBVIOUS
<1> HIDE DEF y
<1>8. /\ v \in Seq(Packets) /\ Len(v) = Len(w) + 1 /\ v[Len(w) + 1] = y
      /\ \A k \in 1 .. Len(w) : v[k] = w[k]
  BY <1>4, <1>5, AppendIs
<1> HIDE DEF p, v, tl
<1>9. \A k \in 1 .. Len(v) : k \in 1 .. Len(w) \/ k = Len(w) + 1
  BY <1>5, <1>8
<1>10. ASSUME f = 0 PROVE OrderedIn(g, v, i, tl, st)
  <2>1. OrderedIn(g, w, j, tk, st)
    BY <1>10 DEF Delivered
  <2>2. \A k \in 1 .. Len(v) : v[k][1] = i.pkt[1]
    <3>1. \A k \in 1 .. Len(w) : w[k][1] = fd
      BY <2>1 DEF OrderedIn
    <3>2. i.pkt[1] = fd
      OBVIOUS
    <3> QED
      BY <1>7, <1>8, <1>9, <3>1, <3>2
  <2>3. ASSUME NEW a \in Fd \ st PROVE OrderedFor(g[a], v, i.step # "idle" /\ i.pkt[1] = a, tl[a], Sent[a])
    <3>1. OrderedFor(g[a], w, j.step # "idle" /\ j.pkt[1] = a, tk[a], Sent[a])
      BY <2>1 DEF OrderedIn
    <3>2. CASE a # fd
      <4>1. tl[a] = tk[a] /\ i.pkt[1] # a /\ j.pkt[1] # a
        BY <1>6, <3>2
      <4> QED
        BY <3>1, <4>1 DEF OrderedFor
    <3>3. CASE a = fd
      <4> DEFINE gs == g[fd]
      <4>1. gs \in Seq(Seq(Byte)) /\ Len(gs) \in Nat
        BY DEF Goods
      <4>2. /\ n = Len(gs) + Len(w) /\ \A k \in 1 .. Len(gs) : gs[k] = ps[k]
            /\ \A k \in 1 .. Len(w) : w[k][2] = ps[Len(gs) + k]
        BY <3>1, <3>3 DEF OrderedFor
      <4> HIDE DEF gs, n
      <4>3. n + 1 = Len(gs) + Len(v) /\ Len(gs) + (Len(w) + 1) = n + 1
        BY <1>2, <1>5, <1>8, <4>1, <4>2
      <4>4. \A k \in 1 .. Len(v) : v[k][2] = ps[Len(gs) + k]
        <5> TAKE k \in 1 .. Len(v)
        <5>1. CASE k \in 1 .. Len(w)
          BY <1>8, <4>2, <5>1
        <5>2. CASE k = Len(w) + 1
          <6>1. v[k][2] = p
            BY <1>7, <1>8, <5>2
          <6>2. ps[Len(gs) + k] = p
            BY <4>3, <5>2 DEF p
          <6> QED
            BY <6>1, <6>2
        <5> QED
          BY <1>9, <5>1, <5>2
      <4>5. OrderedFor(gs, v, TRUE, n + 1, ps)
        BY <4>2, <4>3, <4>4 DEF OrderedFor
      <4>6. (i.step # "idle" /\ i.pkt[1] = a) = TRUE
        BY <3>3
      <4> QED
        BY <1>6, <3>3, <4>5, <4>6 DEF gs, n
    <3> QED
      BY <3>2, <3>3
  <2> QED
    BY <2>2, <2>3 DEF OrderedIn
<1>11. ASSUME c = 0 PROVE CountedIn(g, v, tl)
  <2>1. CountedIn(g, w, tk)
    BY <1>11 DEF Delivered
  <2>2. \A z : Times(v, z) = Times(w, z) + (IF y = z THEN 1 ELSE 0)
    <3> TAKE z
    <3> QED
      BY <1>5, <1>8, TimesMore
  <2> QED
    BY <2>1, <2>2, CountAnother DEF y, p, tl
<1> QED
  BY <1>10, <1>11 DEF Delivered, v, tl, y, p

\* A packet is taken while none is in hand: it is in front, and those that wait, if
\* any, are what a failed handler left.
LEMMA TakeFirst ==
    ASSUME NEW g, NEW w, NEW tk, Goods(g, w, tk), NEW fd \in Fd, tk[fd] + 1 <= Len(Sent[fd]),
           NEW j, NEW i, j.step = "idle", i.step # "idle", i.pkt = <<fd, Sent[fd][tk[fd] + 1]>>,
           NEW st, NEW f, NEW c, Delivered(g, w, j, tk, f, c, st)
    PROVE  Delivered(g, <<i.pkt>> \o w, i, [tk EXCEPT ![fd] = @ + 1], f, c, st)
<1> DEFINE ps == Sent[fd]
           n == tk[fd]
           p == ps[n + 1]
           y == <<fd, p>>
           v == <<y>> \o w
           tl == [tk EXCEPT ![fd] = @ + 1]
<1>1. ps \in Seq(Seq(Byte)) /\ Len(ps) \in Nat
  BY SentIs DEF Sendable
<1>2. n \in Nat /\ n + 1 \in 1 .. Len(ps)
  BY <1>1 DEF Goods
<1>3. y \in Packets
  BY <1>1, <1>2 DEF Packets
<1>4. w \in Seq(Packets)
  BY DEF Goods
<1>5. tl[fd] = n + 1 /\ \A a \in Fd : a # fd => tl[a] = tk[a]
  BY DEF Goods
<1>6. y[1] = fd /\ y[2] = p /\ i.pkt = y
  OBVIOUS
<1> HIDE DEF y, tl
<1>7. ASSUME f = 0 PROVE OrderedIn(g, v, i, tl, st)
  <2>1. OrderedIn(g, w, j, tk, st)
    BY <1>7 DEF Delivered
  <2>2. w = <<>>
    BY <2>1 DEF OrderedIn
  <2>3. Len(v) = 1 /\ v[1] = y
    <3>1. v = <<y>>
      BY <1>3, <2>2
    <3> HIDE DEF v
    <3> QED
      BY <3>1
  <2> HIDE DEF v
  <2>4. \A k \in 1 .. Len(v) : v[k] = y
    BY <2>3
  <2>5. \A k \in 1 .. Len(v) : v[k][1] = i.pkt[1]
    BY <1>6, <2>4
  <2>6. ASSUME NEW a \in Fd \ st PROVE OrderedFor(g[a], v, i.step # "idle" /\ i.pkt[1] = a, tl[a], Sent[a])
    <3>1. OrderedFor(g[a], w, j.step # "idle" /\ j.pkt[1] = a, tk[a], Sent[a])
      BY <2>1 DEF OrderedIn
    <3>2. g[a] \in Seq(Seq(Byte)) /\ Len(g[a]) \in Nat
      <4>1. g[a] \in Seq(Seq(Byte))
        BY DEF Goods
      <4> QED
        BY <4>1
    <3>3. tk[a] = Len(g[a]) /\ \A k \in 1 .. Len(g[a]) : g[a][k] = Sent[a][k]
      BY <3>1, <3>2 DEF OrderedFor
    <3>4. CASE a # fd
      <4>1. (i.step # "idle" /\ i.pkt[1] = a) = FALSE /\ tl[a] = Len(g[a])
        BY <1>5, <1>6, <3>3, <3>4
      <4>2. OrderedFor(g[a], v, FALSE, Len(g[a]), Sent[a])
        BY <3>2, <3>3 DEF OrderedFor
      <4> QED
        BY <4>1, <4>2
    <3>5. CASE a = fd
      <4> DEFINE gs == g[fd]
      <4>1. n = Len(gs) /\ Len(gs) \in Nat /\ \A k \in 1 .. Len(gs) : gs[k] = ps[k]
        BY <3>2, <3>3, <3>5
      <4> HIDE DEF gs, n
      <4>2. \A k \in 1 .. Len(v) : v[k][2] = ps[Len(gs) + k]
        BY <1>6, <2>3, <4>1
      <4>3. OrderedFor(gs, v, TRUE, n + 1, ps)
        BY <2>3, <4>1, <4>2 DEF OrderedFor
      <4>4. (i.step # "idle" /\ i.pkt[1] = a) = TRUE
        BY <1>6, <3>5
      <4> QED
        BY <1>5, <3>5, <4>3, <4>4 DEF gs, n
    <3> QED
      BY <3>4, <3>5
  <2> QED
    BY <2>3, <2>5, <2>6 DEF OrderedIn
<1>8. ASSUME c = 0 PROVE CountedIn(g, v, tl)
  <2>1. CountedIn(g, w, tk)
    BY <1>8 DEF Delivered
  <2>2. \A z : Times(v, z) = Times(w, z) + (IF y = z THEN 1 ELSE 0)
    <3> TAKE z
    <3> QED
      BY <1>3, <1>4, TimesFront
  <2> HIDE DEF v
  <2> QED
    BY <2>1, <2>2, CountAnother DEF y, tl
<1> QED
  BY <1>6, <1>7, <1>8 DEF Delivered, tl

\* The handler is called with the packet in hand: the first that waits, if any, is
\* the next unless the handler fails.
LEMMA HandOut ==
    ASSUME NEW g, NEW w, NEW tk, Goods(g, w, tk), NEW j, NEW i, j.step # "idle", j.pkt \in Packets,
           i.step = "idle" \/ (i.step = "more" /\ w # <<>> /\ i.pkt = w[1]),
           NEW st, NEW f, NEW d, NEW c, Delivered(g, <<j.pkt>> \o w, j, tk, f, c, st),
           d = 0 => f = 0 /\ (i.step = "idle" => w = <<>>)
    PROVE  Delivered([g EXCEPT ![j.pkt[1]] = Append(@, j.pkt[2])], w, i, tk, d, c, st)
<1> DEFINE fd == j.pkt[1]
           p == j.pkt[2]
           y == j.pkt
           v == <<y>> \o w
           hs == Append(g[fd], p)
           h == [g EXCEPT ![fd] = Append(@, p)]
<1>1. fd \in Fd /\ p \in Seq(Byte) /\ y = <<fd, p>> /\ y \in Packets
  BY DEF Packets
<1>2. w \in Seq(Packets) /\ Len(w) \in Nat
  BY DEF Goods
<1>3. g[fd] \in Seq(Seq(Byte)) /\ Len(g[fd]) \in Nat
  <2>1. g[fd] \in Seq(Seq(Byte))
    BY <1>1 DEF Goods
  <2> QED
    BY <2>1
<1>4. h[fd] = hs /\ \A a \in Fd : a # fd => h[a] = g[a]
  BY <1>1 DEF Goods
<1> HIDE DEF h
<1> HIDE DEF fd, p, y
<1>5. /\ v \in Seq(Packets) /\ Len(v) = Len(w) + 1 /\ v[1] = y
      /\ \A k \in 1 .. Len(w) : v[k + 1] = w[k]
  <2> DEFINE o == <<y>>
  <2>1. o \in Seq(Packets) /\ Len(o) = 1 /\ o[1] = y
    BY <1>1
  <2> HIDE DEF o
  <2>2. /\ o \o w \in Seq(Packets) /\ Len(o \o w) = Len(o) + Len(w)
        /\ \A k \in 1 .. Len(o) : (o \o w)[k] = o[k]
        /\ \A k \in 1 .. Len(w) : (o \o w)[Len(o) + k] = w[k]
    <3>1. o \in Seq(Packets) /\ w \in Seq(Packets)
      BY <1>2, <2>1
    <3> QED
      BY <3>1, JoinIs
  <2>3. v = o \o w
    BY DEF o
  <2> HIDE DEF v
  <2>4. 1 \in 1 .. Len(o) /\ \A k \in 1 .. Len(w) : Len(o) + k = k + 1
    BY <1>2, <2>1
  <2> QED
    BY <1>2, <2>1, <2>2, <2>3, <2>4
<1>6. /\ hs \in Seq(Seq(Byte)) /\ Len(hs) = Len(g[fd]) + 1 /\ hs[Len(g[fd]) + 1] = p
      /\ \A k \in 1 .. Len(g[fd]) : hs[k] = g[fd][k]
  BY <1>1, <1>3, AppendIs
<1>10. Delivered(g, v, j, tk, f, c, st)
  BY DEF v, y
<1>11. \A z : Times(v, z) = Times(w, z) + (IF y = z THEN 1 ELSE 0)
  <2> TAKE z
  <2> QED
    BY <1>1, <1>2, TimesFront
<1> HIDE DEF v, hs
<1>7. ASSUME d = 0 PROVE OrderedIn(h, w, i, tk, st)
  <2>1. OrderedIn(g, v, j, tk, st)
    BY <1>7, <1>10 DEF Delivered
  <2>2. \A k \in 1 .. Len(v) : v[k][1] = fd
    BY <2>1 DEF OrderedIn, fd
  <2>3. \A k \in 1 .. Len(w) : w[k][1] = fd
    <3> TAKE k \in 1 .. Len(w)
    <3>1. k + 1 \in 1 .. Len(v) /\ v[k + 1] = w[k]
      BY <1>2, <1>5
    <3> QED
      BY <2>2, <3>1
  <2>4. i.step # "idle" => i.pkt[1] = fd
    <3>1. w # <<>> => 1 \in 1 .. Len(w)
      BY <1>2
    <3> QED
      BY <2>3, <3>1
  <2>5. i.step = "idle" => w = <<>> /\ Len(w) = 0
    BY <1>7
  <2>6. \A k \in 1 .. Len(w) : w[k][1] = i.pkt[1]
    BY <2>3, <2>4, <2>5
  <2>7. ASSUME NEW a \in Fd \ st PROVE OrderedFor(h[a], w, i.step # "idle" /\ i.pkt[1] = a, tk[a], Sent[a])
    <3>1. OrderedFor(g[a], v, j.step # "idle" /\ j.pkt[1] = a, tk[a], Sent[a])
      BY <2>1 DEF OrderedIn
    <3>2. CASE a # fd
      <4>1. h[a] = g[a] /\ (j.step # "idle" /\ j.pkt[1] = a) = FALSE /\ (i.step # "idle" /\ i.pkt[1] = a) = FALSE
        BY <1>4, <2>4, <3>2 DEF fd
      <4>2. OrderedFor(g[a], v, FALSE, tk[a], Sent[a])
        BY <3>1, <4>1
      <4>3. OrderedFor(g[a], w, FALSE, tk[a], Sent[a])
        BY <4>2 DEF OrderedFor
      <4> QED
        BY <4>1, <4>3
    <3>3. CASE a = fd
      <4> DEFINE gs == g[fd]
                 ps == Sent[fd]
                 n == tk[fd]
      <4>1. (j.step # "idle" /\ j.pkt[1] = a) = TRUE
        BY <3>3 DEF fd
      <4>2. OrderedFor(gs, v, TRUE, n, ps)
        BY <3>1, <3>3, <4>1
      <4> HIDE DEF gs, ps, n
      <4>3. /\ n = Len(gs) + Len(v) /\ \A k \in 1 .. Len(gs) : gs[k] = ps[k]
            /\ \A k \in 1 .. Len(v) : v[k][2] = ps[Len(gs) + k]
        BY <4>2 DEF OrderedFor
      <4>4. /\ Len(gs) \in Nat /\ Len(hs) = Len(gs) + 1 /\ hs[Len(gs) + 1] = p
            /\ \A k \in 1 .. Len(gs) : hs[k] = gs[k]
        BY <1>3, <1>6 DEF gs
      <4>5. n = Len(hs) + Len(w)
        BY <1>2, <1>5, <4>3, <4>4
      <4>6. \A k \in 1 .. Len(hs) : hs[k] = ps[k]
        <5> TAKE k \in 1 .. Len(hs)
        <5>1. k \in 1 .. Len(gs) \/ k = Len(gs) + 1
          BY <4>4
        <5>2. v[1][2] = ps[Len(gs) + 1] /\ v[1][2] = p
          <6>1. 1 \in 1 .. Len(v)
            BY <1>2, <1>5
          <6> QED
            BY <1>5, <4>3, <6>1 DEF p, y
        <5> QED
          BY <4>3, <4>4, <5>1, <5>2
      <4>7. \A k \in 1 .. Len(w) : w[k][2] = ps[Len(hs) + k]
        <5> TAKE k \in 1 .. Len(w)
        <5>1. k + 1 \in 1 .. Len(v) /\ v[k + 1] = w[k] /\ Len(hs) + k = Len(gs) + (k + 1)
          BY <1>2, <1>5, <4>4
        <5> QED
          BY <4>3, <5>1
      <4>8. OrderedFor(hs, w, TRUE, n, ps)
        BY <4>5, <4>6, <4>7 DEF OrderedFor
      <4>9. OrderedFor(hs, w, i.step # "idle" /\ i.pkt[1] = a, n, ps)
        <5>1. CASE i.step = "idle"
          <6>1. Len(w) = 0 /\ (i.step # "idle" /\ i.pkt[1] = a) = FALSE
            BY <2>5, <5>1
          <6>2. OrderedFor(hs, w, FALSE, n, ps)
            BY <4>4, <4>5, <4>6, <6>1 DEF OrderedFor
          <6> QED
            BY <6>1, <6>2
        <5>2. CASE i.step # "idle"
          <6>1. (i.step # "idle" /\ i.pkt[1] = a) = TRUE
            BY <2>4, <3>3, <5>2
          <6> QED
            BY <4>8, <6>1
        <5> QED
          BY <5>1, <5>2
      <4> QED
        BY <1>4, <3>3, <4>9 DEF n, ps
    <3> QED
      BY <3>2, <3>3
  <2>8. i.step # "data"
    OBVIOUS
  <2> QED
    BY <2>5, <2>6, <2>7, <2>8 DEF OrderedIn
<1>8. ASSUME c = 0 PROVE CountedIn(h, w, tk)
  <2>1. CountedIn(g, v, tk)
    BY <1>8, <1>10 DEF Delivered
  <2> SUFFICES ASSUME NEW a \in Fd, NEW x
               PROVE  Times(h[a], x) + Times(w, <<a, x>>) = Times(Take(Sent[a], tk[a]), x)
    BY DEF CountedIn
  <2>2. Times(g[a], x) + Times(v, <<a, x>>) = Times(Take(Sent[a], tk[a]), x)
    BY <2>1 DEF CountedIn
  <2> DEFINE z == <<a, x>>
  <2>3. Times(v, z) = Times(w, z) + (IF y = z THEN 1 ELSE 0)
    BY <1>11
  <2>4. y = z <=> (fd = a /\ p = x)
    BY <1>1, PairIs
  <2> HIDE DEF z
  <2>5. Times(g[a], x) \in Nat /\ Times(w, z) \in Nat
    <3>1. g[a] \in Seq(Seq(Byte))
      BY DEF Goods
    <3> QED
      BY <1>2, <3>1, TimesIn
  <2>6. CASE a # fd
    <3>1. h[a] = g[a] /\ Times(v, z) = Times(w, z)
      BY <1>4, <2>3, <2>4, <2>5, <2>6
    <3> QED
      BY <2>2, <3>1 DEF z
  <2>7. CASE a = fd
    <3>1. Times(hs, x) = Times(g[fd], x) + (IF p = x THEN 1 ELSE 0)
      <4> DEFINE gs == g[fd]
                 S == Seq(Byte)
      <4>1. gs \in Seq(S) /\ hs \in Seq(S) /\ Len(hs) = Len(gs) + 1
        BY <1>3, <1>6
      <4>2. hs[Len(gs) + 1] = p /\ \A k \in 1 .. Len(gs) : hs[k] = gs[k]
        BY <1>6
      <4> HIDE DEF gs, S
      <4>3. Times(hs, x) = Times(gs, x) + (IF p = x THEN 1 ELSE 0)
        BY <4>1, <4>2, TimesMore
      <4> QED
        BY <4>3 DEF gs
    <3>2. Times(v, z) = Times(w, z) + (IF p = x THEN 1 ELSE 0)
      BY <2>3, <2>4, <2>7
    <3>3. Times(hs, x) + Times(w, z) = Times(g[fd], x) + Times(v, z)
      <4>1. Times(g[fd], x) \in Nat
        BY <2>5, <2>7
      <4>2. CASE p = x
        BY <2>5, <3>1, <3>2, <4>1, <4>2
      <4>3. CASE p # x
        BY <2>5, <3>1, <3>2, <4>1, <4>3
      <4> QED
        BY <4>2, <4>3
    <3> QED
      BY <1>4, <2>2, <2>7, <3>3 DEF z
  <2> QED
    BY <2>6, <2>7
<1> QED
  BY <1>7, <1>8 DEF Delivered, h, fd, p

\* A packet of a descriptor with an old half packet: nothing is said of it.
LEMMA StaleAnother ==
    ASSUME NEW g, NEW w, NEW tk, Goods(g, w, tk), NEW st, NEW fd \in st, NEW y \in Packets, y[1] = fd,
           NEW j, NEW i, j.step # "idle", i.step \notin {"idle", "data"}, i.pkt = j.pkt, j.pkt[1] = fd,
           NEW f, NEW c, c # 0, Delivered(g, w, j, tk, f, c, st)
    PROVE  Delivered(g, Append(w, y), i, tk, f, c, st)
<1> DEFINE v == Append(w, y)
<1>1. w \in Seq(Packets) /\ Len(w) \in Nat
  BY DEF Goods
<1>2. Len(v) = Len(w) + 1 /\ v[Len(w) + 1] = y /\ \A k \in 1 .. Len(w) : v[k] = w[k]
  BY <1>1, AppendIs
<1> HIDE DEF v
<1>3. \A k \in 1 .. Len(v) : k \in 1 .. Len(w) \/ k = Len(w) + 1
  BY <1>1, <1>2
<1>4. ASSUME f = 0 PROVE OrderedIn(g, v, i, tk, st)
  <2>1. OrderedIn(g, w, j, tk, st)
    BY <1>4 DEF Delivered
  <2>2. \A k \in 1 .. Len(v) : v[k][1] = i.pkt[1]
    <3>1. \A k \in 1 .. Len(w) : w[k][1] = fd
      BY <2>1 DEF OrderedIn
    <3> QED
      BY <1>2, <1>3, <3>1
  <2>3. ASSUME NEW a \in Fd \ st PROVE OrderedFor(g[a], v, i.step # "idle" /\ i.pkt[1] = a, tk[a], Sent[a])
    <3>1. OrderedFor(g[a], w, j.step # "idle" /\ j.pkt[1] = a, tk[a], Sent[a])
      BY <2>1 DEF OrderedIn
    <3>2. i.pkt[1] # a /\ j.pkt[1] # a
      OBVIOUS
    <3> QED
      BY <3>1, <3>2 DEF OrderedFor
  <2> QED
    BY <2>2, <2>3 DEF OrderedIn
<1> QED
  BY <1>4 DEF Delivered, v
LEMMA StaleFirst ==
    ASSUME NEW g, NEW w, NEW tk, Goods(g, w, tk), NEW st, NEW fd \in st,
           NEW j, NEW i, j.step = "idle", i.step # "idle", i.pkt \in Packets, i.pkt[1] = fd,
           NEW f, NEW c, c # 0, Delivered(g, w, j, tk, f, c, st)
    PROVE  Delivered(g, <<i.pkt>> \o w, i, tk, f, c, st)
<1> DEFINE y == i.pkt
           v == <<y>> \o w
<1>1. ASSUME f = 0 PROVE OrderedIn(g, v, i, tk, st)
  <2>1. OrderedIn(g, w, j, tk, st)
    BY <1>1 DEF Delivered
  <2>2. w = <<>>
    BY <2>1 DEF OrderedIn
  <2>3. Len(v) = 1 /\ v[1] = y
    <3>1. v = <<y>>
      BY <2>2
    <3> HIDE DEF v
    <3> QED
      BY <3>1
  <2> HIDE DEF v
  <2>4. \A k \in 1 .. Len(v) : v[k][1] = i.pkt[1]
    BY <2>3
  <2>5. ASSUME NEW a \in Fd \ st PROVE OrderedFor(g[a], v, i.step # "idle" /\ i.pkt[1] = a, tk[a], Sent[a])
    <3>1. OrderedFor(g[a], w, FALSE, tk[a], Sent[a])
      <4>1. (j.step # "idle" /\ j.pkt[1] = a) = FALSE
        OBVIOUS
      <4> QED
        BY <2>1, <4>1 DEF OrderedIn
    <3>2. (i.step # "idle" /\ i.pkt[1] = a) = FALSE
      OBVIOUS
    <3>3. OrderedFor(g[a], v, FALSE, tk[a], Sent[a])
      BY <3>1 DEF OrderedFor
    <3> QED
      BY <3>2, <3>3
  <2> QED
    BY <2>3, <2>4, <2>5 DEF OrderedIn
<1> QED
  BY <1>1 DEF Delivered

\* A connection is closed while no packet is in hand.
LEMMA CloseOut ==
    ASSUME NEW g, NEW w, NEW tk, Goods(g, w, tk), NEW fd \in Fd, NEW j, j.step = "idle",
           NEW st, NEW sv, st \subseteq sv \cup {fd},
           NEW f, NEW c, NEW d, d # 0, Delivered(g, w, j, tk, f, c, st)
    PROVE  Delivered([g EXCEPT ![fd] = <<>>], w, j, [tk EXCEPT ![fd] = 0], f, d, sv)
<1> DEFINE h == [g EXCEPT ![fd] = <<>>]
           tl == [tk EXCEPT ![fd] = 0]
<1>1. /\ h[fd] = <<>> /\ tl[fd] = 0
      /\ \A a \in Fd : a # fd => h[a] = g[a] /\ tl[a] = tk[a]
  BY DEF Goods
<1> HIDE DEF h, tl
<1>2. ASSUME f = 0 PROVE OrderedIn(h, w, j, tl, sv)
  <2>1. OrderedIn(g, w, j, tk, st)
    BY <1>2 DEF Delivered
  <2>2. ASSUME NEW a \in Fd \ sv PROVE OrderedFor(h[a], w, j.step # "idle" /\ j.pkt[1] = a, tl[a], Sent[a])
    <3>1. CASE a = fd
      <4>1. OrderedFor(<<>>, w, FALSE, 0, Sent[a])
        BY DEF OrderedFor
      <4>2. (j.step # "idle" /\ j.pkt[1] = a) = FALSE
        OBVIOUS
      <4> QED
        BY <1>1, <3>1, <4>1, <4>2
    <3>2. CASE a # fd
      BY <1>1, <2>1, <3>2 DEF OrderedIn
    <3> QED
      BY <3>1, <3>2
  <2> QED
    BY <2>1, <2>2 DEF OrderedIn
<1> QED
  BY <1>2 DEF Delivered, h, tl

\* Nothing is taken and nothing is handed out.
LEMMA StayOut ==
    ASSUME NEW g, NEW w, NEW tk, NEW j, NEW i, i.pkt = j.pkt, i.step = "idle" <=> j.step = "idle",
           i.step = "data" => j.step = "data", NEW st, NEW f, NEW c, Delivered(g, w, j, tk, f, c, st)
    PROVE  Delivered(g, w, i, tk, f, c, st)
<1>1. ASSUME OrderedIn(g, w, j, tk, st) PROVE OrderedIn(g, w, i, tk, st)
  <2>1. ASSUME NEW a \in Fd \ st PROVE OrderedFor(g[a], w, i.step # "idle" /\ i.pkt[1] = a, tk[a], Sent[a])
    <3>1. OrderedFor(g[a], w, j.step # "idle" /\ j.pkt[1] = a, tk[a], Sent[a])
      BY <1>1 DEF OrderedIn
    <3> QED
      BY <3>1 DEF OrderedFor
  <2> QED
    BY <1>1, <2>1 DEF OrderedIn
<1> QED
  BY <1>1 DEF Delivered

-----------------------------------------------------------------------------
(* Every step keeps the invariant *)

\* A stream gets longer.
LEMMA ReadsMore ==
    ASSUME NEW fd \in Fd, NEW h, NEW s, NEW e, NEW r, NEW c, Reads(h, fd, s, e, r, c),
           Len(e) < Len(Sent[fd])
    PROVE  LET t == s \o lpack(Sent[fd][Len(e) + 1])
           IN  /\ Reads(h, fd, t, Append(e, Len(t)), r, c) /\ Begin(Append(e, Len(t)), c) = Begin(e, c)
               /\ t \in Seq(Byte) /\ Append(e, Len(t)) \in Seq(Nat) /\ Len(s) < Len(t)
               /\ \A a, b \in Nat : a <= b /\ b <= Len(s) => Part(t, a, b) = Part(s, a, b)
<1> DEFINE ps == Sent[fd]
           t == s \o lpack(ps[Len(e) + 1])
           f == Append(e, Len(t))
<1>1. /\ Framed(s, e, ps) /\ r \in Nat /\ r <= Len(s) /\ Spot(e, r, c) /\ HalfFor(h, fd, e, r, c)
      /\ Sendable(ps)
  BY SentIs DEF Reads
<1>2. /\ Framed(t, f, ps) /\ Len(s) < Len(t)
      /\ \A a, b \in Nat : a <= b /\ b <= Len(s) => Part(t, a, b) = Part(s, a, b)
  <2>1. Framed(s, e, ps) /\ Sendable(ps) /\ Len(e) < Len(ps)
    BY <1>1
  <2> HIDE DEF ps
  <2> QED
    BY <2>1, FramedMore
<1> HIDE DEF t
<1>3. s \in Seq(Byte) /\ Len(s) \in Nat /\ t \in Seq(Byte) /\ Len(t) \in Nat /\ f \in Seq(Nat) /\ e \in Seq(Nat)
  BY <1>1, <1>2 DEF Framed
<1>4. Spot(f, r, c)
  <2> DEFINE x == Len(t)
  <2>1. x \in Nat /\ Len(s) < x
    BY <1>2, <1>3
  <2> HIDE DEF ps, x
  <2>2. Spot(Append(e, x), r, c)
    BY <1>1, <2>1, SpotMore
  <2> QED
    BY <2>2 DEF x
<1>5. Begin(f, c) = Begin(e, c)
  <2>1. c \in 0 .. Len(e)
    BY <1>1 DEF Spot
  <2> QED
    BY <1>3, <2>1, BeginMore
<1>6. HalfFor(h, fd, f, r, c)
  BY <1>1, <1>5 DEF HalfFor
<1>7. r <= Len(t)
  BY <1>1, <1>2, <1>3
<1>8. Reads(h, fd, t, f, r, c)
  BY <1>1, <1>2, <1>4, <1>6, <1>7 DEF Reads
<1> QED
  BY <1>2, <1>3, <1>5, <1>8 DEF t

\* The other streams.
LEMMA OtherStream ==
    ASSUME NEW fd \in Fd, NEW f \in Fd, f # fd, NEW h, NEW g, Keeps(h, g, fd), NEW s, NEW e, NEW r, NEW j, NEW i,
           NEW st, ParsedOK(h, f, s, e, r, j, st),
           ~(j.step = "push" /\ j.pkt[1] = f), ~(i.step = "push" /\ i.pkt[1] = f)
    PROVE  ParsedOK(g, f, s, e, r, i, st) /\ TakenOf(e, r, i, f, st) = TakenOf(e, r, j, f, st)
<1>1. ParsedBy(r, i, f) = ParsedBy(r, j, f)
  BY DEF ParsedBy
<1> DEFINE x == ParsedBy(r, i, f)
           c == TakenAt(e, x)
<1>2. ASSUME f \notin st PROVE ParserOK(g, f, s, e, r, i)
  <2>1. r <= Len(s) /\ Reads(h, f, s, e, x, c)
    BY <1>1, <1>2 DEF ParsedOK, ParserOK
  <2>2. Reads(g, f, s, e, x, c)
    BY <2>1, ReadsKept
  <2> QED
    BY <1>1, <2>1, <2>2 DEF ParserOK
<1>3. ASSUME f \in st PROVE Loose(g, f, s, e, r, i)
  <2>1. Framed(s, e, Sent[f]) /\ r <= Len(s) /\ OneHalf(h, f)
    BY <1>3 DEF ParsedOK, Loose
  <2>2. OneHalf(g, f)
    BY <2>1 DEF OneHalf, Keeps
  <2> QED
    BY <2>1, <2>2 DEF Loose
<1> QED
  BY <1>1, <1>2, <1>3 DEF ParsedOK, TakenOf

\* What the invariant says.
LEMMA StreamIs ==
    ASSUME NetInv, NEW fd \in Fd, fd \notin stale
    PROVE  /\ Reads(q.hash, fd, stream[fd], ends[fd], ParsedBy(read[fd], job, fd), Taken[fd])
           /\ read[fd] <= Len(stream[fd]) /\ read[fd] \in Nat
           /\ Taken[fd] \in Nat /\ Taken[fd] <= Len(Sent[fd])
           /\ stream[fd] \in Seq(Byte) /\ ends[fd] \in Seq(Nat) /\ got[fd] \in Seq(Seq(Byte))
           /\ job.step = "push" /\ job.pkt[1] = fd =>
                /\ job.left = Part(stream[fd], ParsedBy(read[fd], job, fd), read[fd])
                /\ ParsedBy(read[fd], job, fd) = Begin(ends[fd], Taken[fd])
<1>1. Taken[fd] = TakenAt(ends[fd], ParsedBy(read[fd], job, fd))
  BY DEF Taken, TakenOf
<1>2. ParserOK(q.hash, fd, stream[fd], ends[fd], read[fd], job) /\ Types
  BY DEF NetInv, ParsedOK
<1>3. Reads(q.hash, fd, stream[fd], ends[fd], ParsedBy(read[fd], job, fd), Taken[fd])
  BY <1>1, <1>2 DEF ParserOK
<1>4. Taken[fd] \in Nat /\ Taken[fd] <= Len(Sent[fd])
  BY <1>3, TakenIs
<1> QED
  BY <1>1, <1>2, <1>3, <1>4 DEF ParserOK, Types

LEMMA LooseIs ==
    ASSUME NetInv, NEW fd \in Fd
    PROVE  /\ OneHalf(q.hash, fd) /\ Framed(stream[fd], ends[fd], Sent[fd])
           /\ read[fd] <= Len(stream[fd]) /\ read[fd] \in Nat /\ stream[fd] \in Seq(Byte)
           /\ fd \in stale /\ job.step = "push" /\ job.pkt[1] = fd => Lacks(q.hash, fd)
<1>1. ASSUME fd \notin stale
      PROVE  /\ OneHalf(q.hash, fd) /\ Framed(stream[fd], ends[fd], Sent[fd])
             /\ read[fd] <= Len(stream[fd])
  <2>1. /\ Reads(q.hash, fd, stream[fd], ends[fd], ParsedBy(read[fd], job, fd), Taken[fd])
        /\ read[fd] <= Len(stream[fd])
    BY <1>1, StreamIs
  <2> QED
    BY <2>1, OneIs DEF Reads
<1>2. ASSUME fd \in stale
      PROVE  /\ OneHalf(q.hash, fd) /\ Framed(stream[fd], ends[fd], Sent[fd])
             /\ read[fd] <= Len(stream[fd])
             /\ job.step = "push" /\ job.pkt[1] = fd => Lacks(q.hash, fd)
  BY <1>2 DEF NetInv, ParsedOK, Loose
<1>3. read[fd] \in Nat /\ stream[fd] \in Seq(Byte)
  BY DEF NetInv, Types
<1> QED
  BY <1>1, <1>2, <1>3

\* The packets.
LEMMA GoodsNow == ASSUME NetInv PROVE Goods(got, InRing(q), Taken) /\ Goods(got, WaitFor(job, q), Taken)
<1>1. Taken \in [Fd -> Nat]
  <2>1. \A fd \in Fd : fd \in stale => Taken[fd] = 0
    BY DEF Taken, TakenOf
  <2>2. \A fd \in Fd : Taken[fd] \in Nat
    BY <2>1, StreamIs
  <2> QED
    BY <2>2 DEF Taken
<1>2. got \in [Fd -> Seq(Seq(Byte))] /\ RingOK(q) /\ job \in Jobs
  BY DEF NetInv, Types
<1>3. InRing(q) \in Seq(Packets)
  BY <1>2, InRingIs
<1>4. WaitFor(job, q) \in Seq(Packets)
  <2>1. CASE job.step = "idle"
    BY <1>3, <2>1 DEF WaitFor
  <2>2. CASE job.step # "idle"
    <3>1. job.pkt \in Packets
      BY <1>2, <2>2 DEF Jobs
    <3> DEFINE o == <<job.pkt>>
               w == InRing(q)
    <3>2. o \in Seq(Packets) /\ w \in Seq(Packets)
      BY <1>3, <3>1
    <3> HIDE DEF o, w
    <3>3. o \o w \in Seq(Packets)
      BY <3>2
    <3> QED
      BY <2>2, <3>3 DEF WaitFor, o, w
  <2> QED
    BY <2>1, <2>2
<1> QED
  BY <1>1, <1>2, <1>3, <1>4 DEF Goods

\* The peer sends.
LEMMA PeerSendsInv == ASSUME NetInv, NEW fd \in Fd, PeerSends(fd) PROVE NetInv'
<1> DEFINE s == stream[fd]
           e == ends[fd]
           x == ParsedBy(read[fd], job, fd)
           c == Taken[fd]
           t == s \o lpack(Sent[fd][Len(e) + 1])
           f == Append(e, Len(t))
<1>1. /\ Len(e) < Len(Sent[fd]) /\ stream' = [stream EXCEPT ![fd] = t] /\ ends' = [ends EXCEPT ![fd] = f]
      /\ q' = q /\ read' = read /\ job' = job /\ got' = got /\ fails' = fails /\ closes' = closes
      /\ stale' = stale
  BY DEF PeerSends
<1>2. Framed(s, e, Sent[fd]) /\ read[fd] <= Len(s) /\ read[fd] \in Nat /\ s \in Seq(Byte)
  BY LooseIs
<1>3. /\ Framed(t, f, Sent[fd]) /\ Len(s) < Len(t)
      /\ \A a, b \in Nat : a <= b /\ b <= Len(s) => Part(t, a, b) = Part(s, a, b)
  <2> DEFINE ps == Sent[fd]
  <2>1. Framed(s, e, ps) /\ Sendable(ps) /\ Len(e) < Len(ps)
    BY <1>1, <1>2, SentIs
  <2> HIDE DEF ps, s, e
  <2>2. LET u == s \o lpack(ps[Len(e) + 1])
        IN  /\ Framed(u, Append(e, Len(u)), ps) /\ Len(s) < Len(u)
            /\ \A a, b \in Nat : a <= b /\ b <= Len(s) => Part(u, a, b) = Part(s, a, b)
    BY <2>1, FramedMore
  <2> QED
    BY <2>2 DEF ps
<1>4. t \in Seq(Byte) /\ f \in Seq(Nat) /\ read[fd] <= Len(t)
  <2> HIDE DEF t, f
  <2>1. t \in Seq(Byte) /\ f \in Seq(Nat)
    BY <1>3 DEF Framed
  <2>2. Len(s) \in Nat /\ Len(t) \in Nat
    BY <1>2, <2>1
  <2> QED
    BY <1>2, <1>3, <2>1, <2>2
<1>5. ASSUME fd \notin stale
      PROVE  Reads(q.hash, fd, t, f, x, c) /\ (job.step = "push" /\ job.pkt[1] = fd => job.left = Part(t, x, read[fd]) /\ x = Begin(f, c))
  <2>1. /\ Reads(q.hash, fd, s, e, x, c)
        /\ job.step = "push" /\ job.pkt[1] = fd => job.left = Part(s, x, read[fd]) /\ x = Begin(e, c)
    BY <1>5, StreamIs
  <2>2. Reads(q.hash, fd, t, f, x, c) /\ Begin(f, c) = Begin(e, c)
    <3>1. Len(e) < Len(Sent[fd]) /\ Reads(q.hash, fd, s, e, x, c)
      BY <1>1, <2>1
    <3> HIDE DEF s, e, x, c
    <3> QED
      BY <3>1, ReadsMore
  <2> HIDE DEF t, f
  <2> SUFFICES ASSUME job.step = "push" /\ job.pkt[1] = fd
               PROVE  job.left = Part(t, x, read[fd]) /\ x = Begin(f, c)
    BY <2>2
  <2>3. x \in Nat /\ x <= read[fd]
    <3>1. x = read[fd] - Len(job.left)
      BY DEF ParsedBy
    <3>2. job.left \in Seq(Byte)
      BY DEF NetInv, Types, Jobs
    <3>3. Len(job.left) \in Nat
      BY <3>2
    <3>4. x \in Nat
      BY <2>1 DEF Reads
    <3> HIDE DEF x
    <3> QED
      BY <1>2, <3>1, <3>3, <3>4
  <2> QED
    BY <1>2, <1>3, <2>1, <2>2, <2>3
<1> HIDE DEF t, f
<1>6. ParsedOK(q.hash, fd, t, f, read[fd], job, stale) /\ TakenOf(f, read[fd], job, fd, stale) = c
  <2>1. CASE fd \notin stale
    <3>1. /\ Reads(q.hash, fd, t, f, x, c)
          /\ job.step = "push" /\ job.pkt[1] = fd => job.left = Part(t, x, read[fd]) /\ x = Begin(f, c)
      BY <1>5, <2>1
    <3> QED
      BY <1>4, <2>1, <3>1, ParsedNow
  <2>2. CASE fd \in stale
    <3>1. Loose(q.hash, fd, t, f, read[fd], job)
      BY <1>3, <1>4, <2>2, LooseIs DEF Loose
    <3> QED
      BY <2>2, <3>1 DEF ParsedOK, TakenOf, Taken
  <2> QED
    BY <2>1, <2>2
<1>7. Types
  BY DEF NetInv
<1>8. stream'[fd] = t /\ ends'[fd] = f /\ \A a \in Fd : a # fd => stream'[a] = stream[a] /\ ends'[a] = ends[a]
  BY <1>1, <1>7 DEF Types
<1>9. Types'
  <2>1. stream' \in [Fd -> Seq(Byte)] /\ ends' \in [Fd -> Seq(Nat)]
    BY <1>1, <1>4, <1>7 DEF Types
  <2> QED
    BY <1>1, <1>7, <2>1 DEF Types
<1>10. \A a \in Fd : ParsedOK(q.hash, a, stream'[a], ends'[a], read[a], job, stale)
  <2> TAKE a \in Fd
  <2>1. CASE a = fd
    BY <1>6, <1>8, <2>1
  <2>2. CASE a # fd
    BY <1>8, <2>2 DEF NetInv
  <2> QED
    BY <2>1, <2>2
<1>11. Taken' = Taken
  <2>1. \A a \in Fd : TakenOf(ends'[a], read[a], job, a, stale) = TakenOf(ends[a], read[a], job, a, stale)
    <3> TAKE a \in Fd
    <3>1. CASE a = fd
      BY <1>6, <1>8, <3>1 DEF Taken
    <3>2. CASE a # fd
      BY <1>8, <3>2
    <3> QED
      BY <3>1, <3>2
  <2> QED
    BY <1>1, <2>1 DEF Taken
<1>12. Delivered(got, WaitFor(job, q), job, Taken, fails, closes, stale)
  BY DEF NetInv
<1> QED
  BY <1>1, <1>9, <1>10, <1>11, <1>12 DEF NetInv

\* The bytes that are left from a on.
LEMMA LeftIs ==
    ASSUME NEW s \in Seq(Byte), NEW a \in Nat, NEW t \in Nat, a <= t, t <= Len(s), NEW fd,
           NEW j, j.left = Part(s, a, t), j.pkt[1] = fd, j.step = "push" <=> Part(s, a, t) # <<>>
    PROVE  Part(s, a, t) \in Seq(Byte) /\ ParsedBy(t, j, fd) = a
<1> DEFINE left == Part(s, a, t)
<1>1. left \in Seq(Byte) /\ Len(left) = t - a
  BY PartIs
<1> HIDE DEF left
<1>2. left = <<>> => Len(left) = 0
  OBVIOUS
<1>3. ParsedBy(t, j, fd) = t - (IF left # <<>> THEN Len(left) ELSE 0)
  BY DEF ParsedBy, left
<1>4. CASE left = <<>>
  BY <1>1, <1>2, <1>3, <1>4 DEF left
<1>5. CASE left # <<>>
  BY <1>1, <1>3, <1>5 DEF left
<1> QED
  BY <1>4, <1>5

\* A step on the stream of fd.
LEMMA StreamStep ==
    ASSUME NetInv, NEW fd \in Fd, NEW h, NEW j, NEW k, NEW rd, Keeps(q.hash, h, fd),
           ParsedOK(h, fd, stream[fd], ends[fd], rd[fd], j, stale),
           TakenOf(ends[fd], rd[fd], j, fd, stale) = k,
           job.step = "push" => job.pkt[1] = fd, j.step = "push" => j.pkt[1] = fd,
           \A a \in Fd : a # fd => rd[a] = read[a]
    PROVE  /\ \A a \in Fd : ParsedOK(h, a, stream[a], ends[a], rd[a], j, stale)
           /\ [a \in Fd |-> TakenOf(ends[a], rd[a], j, a, stale)] = [Taken EXCEPT ![fd] = k]
<1>1. ASSUME NEW a \in Fd, a # fd
      PROVE  /\ ParsedOK(h, a, stream[a], ends[a], rd[a], j, stale)
             /\ TakenOf(ends[a], rd[a], j, a, stale) = TakenOf(ends[a], read[a], job, a, stale)
  <2>1. ParsedOK(q.hash, a, stream[a], ends[a], read[a], job, stale)
    BY DEF NetInv
  <2>2. ~(job.step = "push" /\ job.pkt[1] = a) /\ ~(j.step = "push" /\ j.pkt[1] = a)
    BY <1>1
  <2>3. rd[a] = read[a]
    BY <1>1
  <2> QED
    BY <1>1, <2>1, <2>2, <2>3, OtherStream
<1>2. ASSUME NEW a \in Fd PROVE ParsedOK(h, a, stream[a], ends[a], rd[a], j, stale)
  <2>1. CASE a = fd
    BY <2>1
  <2>2. CASE a # fd
    BY <1>1, <2>2
  <2> QED
    BY <2>1, <2>2
<1>3. ASSUME NEW a \in Fd
      PROVE  TakenOf(ends[a], rd[a], j, a, stale) = IF a = fd THEN k ELSE TakenOf(ends[a], read[a], job, a, stale)
  <2>1. CASE a = fd
    BY <2>1
  <2>2. CASE a # fd
    BY <1>1, <2>2
  <2> QED
    BY <2>1, <2>2
<1>4. [a \in Fd |-> TakenOf(ends[a], rd[a], j, a, stale)]
        = [a \in Fd |-> IF a = fd THEN k ELSE TakenOf(ends[a], read[a], job, a, stale)]
  BY <1>3
<1>5. [Taken EXCEPT ![fd] = k] = [a \in Fd |-> IF a = fd THEN k ELSE TakenOf(ends[a], read[a], job, a, stale)]
  BY DEF Taken
<1> QED
  BY <1>2, <1>4, <1>5

\* The same when nothing is read.
LEMMA StreamStepStill ==
    ASSUME NetInv, NEW fd \in Fd, NEW h, NEW j, NEW k, Keeps(q.hash, h, fd),
           ParsedOK(h, fd, stream[fd], ends[fd], read[fd], j, stale),
           TakenOf(ends[fd], read[fd], j, fd, stale) = k,
           job.step = "push" => job.pkt[1] = fd, j.step = "push" => j.pkt[1] = fd
    PROVE  /\ \A a \in Fd : ParsedOK(h, a, stream[a], ends[a], read[a], j, stale)
           /\ [a \in Fd |-> TakenOf(ends[a], read[a], j, a, stale)] = [Taken EXCEPT ![fd] = k]
<1> DEFINE rd == read
<1>1. /\ ParsedOK(h, fd, stream[fd], ends[fd], rd[fd], j, stale)
      /\ TakenOf(ends[fd], rd[fd], j, fd, stale) = k
      /\ \A a \in Fd : a # fd => rd[a] = read[a]
  OBVIOUS
<1> HIDE DEF rd
<1>2. /\ \A a \in Fd : ParsedOK(h, a, stream[a], ends[a], rd[a], j, stale)
      /\ [a \in Fd |-> TakenOf(ends[a], rd[a], j, a, stale)] = [Taken EXCEPT ![fd] = k]
  BY <1>1, StreamStep
<1> QED
  BY <1>2 DEF rd

\* A job is idle, has a packet and bytes left, or has no bytes left.
LEMMA JobIs ==
    /\ Idle \in Jobs /\ Idle.step = "idle" /\ Idle.left = <<>>
    /\ \A x \in Packets, left \in Seq(Byte), step \in {"push", "data", "more"} :
         (left = <<>> <=> step # "push") => [step |-> step, pkt |-> x, left |-> left] \in Jobs
<1>1. <<>> \in Cell /\ <<>> \in Seq(Byte) /\ Packets \subseteq Cell
  BY DEF Cell
<1>2. Idle \in Jobs /\ Idle.step = "idle" /\ Idle.left = <<>>
  BY <1>1 DEF Idle, Jobs
<1>3. ASSUME NEW x \in Packets, NEW left \in Seq(Byte), NEW step \in {"push", "data", "more"},
             left = <<>> <=> step # "push"
      PROVE  [step |-> step, pkt |-> x, left |-> left] \in Jobs
  BY <1>1, <1>3 DEF Jobs
<1> QED
  BY <1>2, <1>3

\* The header of a buffer that has one.
LEMMA SizeIs ==
    ASSUME NEW buffer \in Seq(Byte), Len(buffer) # 0
    PROVE  /\ Len(buffer) > 1 <=> Len(buffer) # 1
           /\ Len(buffer) # 1 => read_size(buffer) \in Nat /\ Len(Drop(buffer, 2)) \in Nat
<1>1. Len(buffer) \in Nat \ {0}
  OBVIOUS
<1> DEFINE l == Len(buffer)
<1>2. (l > 1 <=> l # 1) /\ (l # 1 => 1 \in 1 .. l /\ 2 \in 1 .. l /\ 2 <= l)
  <2>1. l \in Nat \ {0}
    BY <1>1
  <2> HIDE DEF l
  <2> QED
    BY <2>1
<1>3. ASSUME Len(buffer) # 1 PROVE read_size(buffer) \in Nat /\ Len(Drop(buffer, 2)) \in Nat
  <2>1. 1 \in 1 .. Len(buffer) /\ 2 \in 1 .. Len(buffer) /\ 2 <= Len(buffer)
    BY <1>2, <1>3
  <2>2. buffer[1] \in Nat /\ buffer[2] \in Nat /\ Base \in Nat
    BY <2>1, NetAssumption DEF Byte
  <2>3. read_size(buffer) \in Nat
    <3> DEFINE x == buffer[1]
               y == buffer[2]
    <3>1. x \in Nat /\ y \in Nat
      BY <2>2
    <3> HIDE DEF x, y
    <3>2. x * Base + y \in Nat
      BY <2>2, <3>1
    <3> QED
      BY <3>2 DEF read_size, x, y
  <2> DEFINE n == 2
  <2>4. n \in Nat /\ n <= Len(buffer)
    BY <2>1
  <2> HIDE DEF n
  <2>5. Drop(buffer, n) \in Seq(Byte)
    BY <2>4, DropIs
  <2>6. Len(Drop(buffer, n)) \in Nat
    BY <2>5
  <2> QED
    BY <2>3, <2>6 DEF n
<1> QED
  BY <1>2, <1>3

\* An entry is saved where none is.
LEMMA SaveHalf ==
    ASSUME NEW fd \in Fd, NEW qq, RingOK(qq), Lacks(qq.hash, fd), NEW u \in Half, u.id = fd
    PROVE  LET rr == save_uncomplete(qq, u)
           IN  RingOK(rr) /\ InRing(rr) = InRing(qq) /\ OneHalf(rr.hash, fd) /\ Keeps(qq.hash, rr.hash, fd)
<1> DEFINE h == qq.hash
           rr == save_uncomplete(qq, u)
<1>1. h \in Lists
  BY DEF RingOK, Queues
<1>2. Saved(h, u) \in Lists /\ Holds(Saved(h, u), fd, u) /\ Keeps(h, Saved(h, u), fd)
  <2>1. Lacks(h, u.id)
    OBVIOUS
  <2> HIDE DEF h
  <2> QED
    BY <1>1, <2>1, SaveIs
<1>3. RingOK(rr) /\ rr.hash = Saved(h, u) /\ InRing(rr) = InRing(qq)
  BY <1>2, SaveStep
<1> HIDE DEF h, rr
<1> QED
  BY <1>2, <1>3 DEF OneHalf, h, rr

\* What filter_data leaves of a descriptor, whatever the bytes: one half packet at
\* most, and none while there are bytes behind a packet.
Parsed(rq, rjob, fd) ==
    /\ RingOK(rq) /\ InRing(rq) = InRing(q) /\ Keeps(q.hash, rq.hash, fd)
    /\ \/ rjob = Idle /\ OneHalf(rq.hash, fd)
       \/ /\ Lacks(rq.hash, fd) /\ rjob \in Jobs /\ rjob.step \in {"data", "push"}
          /\ rjob.pkt \in Packets /\ rjob.pkt[1] = fd
LEMMA ReturnsIs ==
    ASSUME NEW fd \in Fd, NEW d \in Seq(Byte), NEW left \in Seq(Byte), NEW rq,
           RingOK(rq), InRing(rq) = InRing(q), Keeps(q.hash, rq.hash, fd), Lacks(rq.hash, fd)
    PROVE  Parsed(Returns(rq, fd, d, left).q, Returns(rq, fd, d, left).job, fd)
<1> DEFINE y == <<fd, d>>
           st == IF left = <<>> THEN "data" ELSE "push"
           j == [step |-> st, pkt |-> y, left |-> left]
<1>1. Returns(rq, fd, d, left).q = rq /\ Returns(rq, fd, d, left).job = j
  BY DEF Returns
<1>2. y \in Packets /\ y[1] = fd /\ st \in {"push", "data", "more"} /\ (left = <<>> <=> st # "push")
      /\ st \in {"data", "push"}
  BY DEF Packets
<1>3. j.step = st /\ j.pkt = y
  OBVIOUS
<1>4. j \in Jobs
  <2> HIDE DEF y, st
  <2> QED
    BY <1>2, JobIs
<1> HIDE DEF y, st, j
<1> QED
  BY <1>1, <1>2, <1>3, <1>4 DEF Parsed

\* Parts of a buffer.
LEMMA CutIs ==
    ASSUME NEW b \in Seq(Byte), NEW n \in Nat, ~(Len(b) < n)
    PROVE  Take(b, n) \in Seq(Byte) /\ Drop(b, n) \in Seq(Byte)
<1>1. n <= Len(b)
  <2>1. Len(b) \in Nat
    OBVIOUS
  <2> QED
    BY <2>1
<1> QED
  BY <1>1, TakeIs, DropIs

\* The bytes of a buffer, whatever they are.
LEMMA LooseNew ==
    ASSUME NEW fd \in Fd, RingOK(q), Lacks(q.hash, fd), NEW buffer \in Seq(Byte), Len(buffer) # 0,
           NEW x, x = FilterNew(fd, buffer)
    PROVE  Parsed(x.q, x.job, fd)
<1> DEFINE size == read_size(buffer)
           data == Drop(buffer, 2)
           one == HalfHeader(fd, buffer[1])
           more == HalfPacket(fd, size, data)
<1>1. x = IF Len(buffer) = 1 THEN Nothing(save_uncomplete(q, one))
          ELSE IF Len(data) < size THEN Nothing(save_uncomplete(q, more))
          ELSE Returns(q, fd, Take(data, size), Drop(data, size))
  BY DEF FilterNew
<1>2. Len(buffer) # 1 => size \in Nat /\ data \in Seq(Byte)
  <2>1. Len(buffer) # 1 => read_size(buffer) \in Nat /\ Len(buffer) > 1
    BY SizeIs
  <2> DEFINE n == 2
  <2>2. Len(buffer) # 1 => n \in Nat /\ n <= Len(buffer)
    <3>1. Len(buffer) \in Nat
      OBVIOUS
    <3> DEFINE l == Len(buffer)
    <3> HIDE DEF l
    <3> QED
      BY <2>1, <3>1 DEF l
  <2> HIDE DEF n
  <2>3. Len(buffer) # 1 => Drop(buffer, n) \in Seq(Byte)
    BY <2>2, DropIs
  <2> QED
    BY <2>1, <2>3 DEF n
<1>3. CASE Len(buffer) = 1
  <2>1. buffer[1] \in Byte
    BY <1>3
  <2>2. one \in Half /\ one.id = fd
    BY <2>1, HalvesIn
  <2> HIDE DEF one
  <2>3. x.q = save_uncomplete(q, one) /\ x.job = Idle
    BY <1>1, <1>3 DEF Nothing
  <2> QED
    BY <2>2, <2>3, SaveHalf DEF Parsed
<1>4. CASE Len(buffer) # 1 /\ Len(data) < size
  <2>1. size \in Nat /\ data \in Seq(Byte) /\ Len(data) < size
    BY <1>2, <1>4
  <2>2. more \in Half /\ more.id = fd
    <3> HIDE DEF size, data
    <3> QED
      BY <2>1, HalvesIn
  <2>3. x.q = save_uncomplete(q, more) /\ x.job = Idle
    <3> HIDE DEF size, data, more, one
    <3> QED
      BY <1>1, <1>4 DEF Nothing
  <2> HIDE DEF more
  <2> QED
    BY <2>2, <2>3, SaveHalf DEF Parsed
<1>5. CASE Len(buffer) # 1 /\ ~(Len(data) < size)
  <2> HIDE DEF size, data, more, one
  <2>1. Take(data, size) \in Seq(Byte) /\ Drop(data, size) \in Seq(Byte)
    BY <1>2, <1>5, CutIs
  <2>2. x = Returns(q, fd, Take(data, size), Drop(data, size))
    BY <1>1, <1>5
  <2> QED
    BY <2>1, <2>2, KeepsSame, ReturnsIs
<1> QED
  BY <1>3, <1>4, <1>5
LEMMA LooseFill ==
    ASSUME NEW fd \in Fd, RingOK(q), NEW u, Holds(q.hash, fd, u), NEW buffer \in Seq(Byte), Len(buffer) # 0,
           NEW x, x = FillUncomplete(fd, buffer)
    PROVE  FindAt(fd) # 0 /\ Parsed(x.q, x.job, fd)
<1> DEFINE k == Unlink(fd)
           size == IF u.read < 0 THEN u.header * Base + buffer[1] ELSE u.size
           more == IF u.read < 0 THEN Drop(buffer, 1) ELSE buffer
           need == size - Len(u.data)
           d == u.data
<1>1. /\ q.hash[hash_fd(fd)][FindAt(fd)] = u /\ FindAt(fd) # 0 /\ RingOK(k) /\ InRing(k) = InRing(q)
      /\ k.hash \in Lists /\ Lacks(k.hash, fd) /\ Keeps(q.hash, k.hash, fd)
  BY UnlinkStep
<1>2. u \in Half
  <2>1. PICK i \in 1 .. Len(q.hash[hash_fd(fd)]) : HoldsAt(q.hash, fd, u, i)
    BY DEF Holds
  <2>2. q.hash[hash_fd(fd)] \in Seq(Half)
    BY HashIn DEF RingOK, Queues, Lists
  <2> QED
    BY <2>1, <2>2 DEF HoldsAt
<1>3. /\ u.read \in Int /\ u.header \in Nat /\ u.size \in Nat /\ d \in Seq(Byte)
      /\ (u.read = -1 /\ d = <<>>) \/ (u.read = Len(d) /\ u.read < u.size)
  BY <1>2, NetAssumption DEF Half, Byte
<1>4. Len(d) \in Nat /\ Len(buffer) \in Nat \ {0} /\ buffer[1] \in Nat /\ Base \in Nat
  <2>1. buffer[1] \in Byte
    OBVIOUS
  <2>2. Base \in Nat
    BY NetAssumption
  <2>3. buffer[1] \in Nat
    BY <2>1 DEF Byte
  <2>4. Len(d) \in Nat
    BY <1>3
  <2> QED
    BY <2>2, <2>3, <2>4
<1>5. x = IF Len(more) < need THEN Nothing(save_uncomplete(k, HalfPacket(fd, size, d \o more)))
          ELSE Returns(k, fd, d \o Take(more, need), Drop(more, need))
  BY <1>1 DEF FillUncomplete
<1> HIDE DEF k, d
<1>6. size \in Nat /\ more \in Seq(Byte) /\ need \in Nat
  <2>1. CASE u.read = -1 /\ d = <<>>
    <3>1. u.read < 0 /\ Len(d) = 0
      BY <2>1
    <3> DEFINE h == u.header
               b == buffer[1]
    <3>2. h \in Nat /\ b \in Nat
      BY <1>3, <1>4
    <3> HIDE DEF h, b
    <3>3. h * Base + b \in Nat
      BY <1>4, <3>2
    <3>4. size = h * Base + b /\ more = Drop(buffer, 1)
      BY <3>1 DEF h, b
    <3> DEFINE n == 1
    <3>5. n \in Nat /\ n <= Len(buffer)
      BY <1>4
    <3> HIDE DEF n
    <3>6. Drop(buffer, n) \in Seq(Byte)
      BY <3>5, DropIs
    <3>7. need = size - Len(d)
      BY DEF d
    <3> HIDE DEF size, more, need
    <3> QED
      BY <3>1, <3>3, <3>4, <3>6, <3>7 DEF n
  <2>2. CASE u.read = Len(d) /\ u.read < u.size
    <3>1. ~(u.read < 0)
      BY <1>4, <2>2
    <3>2. size = u.size /\ more = buffer /\ need = size - Len(d)
      BY <3>1 DEF d
    <3> HIDE DEF size, more, need
    <3> QED
      BY <1>3, <1>4, <2>2, <3>2
  <2> QED
    BY <1>3, <2>1, <2>2
<1>7. need = size - Len(d)
  BY DEF d
<1> HIDE DEF size, more, need
<1>8. CASE Len(more) < need
  <2> DEFINE v == HalfPacket(fd, size, d \o more)
  <2>1. d \o more \in Seq(Byte) /\ Len(d \o more) < size
    <3>1. d \o more \in Seq(Byte) /\ Len(d \o more) = Len(d) + Len(more)
      BY <1>3, <1>6, JoinIs
    <3>2. Len(more) \in Nat
      BY <1>6
    <3> QED
      BY <1>4, <1>6, <1>7, <1>8, <3>1, <3>2
  <2>2. v \in Half /\ v.id = fd
    BY <1>6, <2>1, HalvesIn
  <2> HIDE DEF v
  <2>3. x.q = save_uncomplete(k, v) /\ x.job = Idle
    BY <1>5, <1>8 DEF Nothing, v
  <2>4. RingOK(x.q) /\ InRing(x.q) = InRing(k) /\ OneHalf(x.q.hash, fd) /\ Keeps(k.hash, x.q.hash, fd)
    <3>1. RingOK(k) /\ Lacks(k.hash, fd)
      BY <1>1 DEF k
    <3> QED
      BY <2>2, <2>3, <3>1, SaveHalf
  <2>5. Keeps(q.hash, x.q.hash, fd) /\ InRing(x.q) = InRing(q)
    BY <1>1, <2>4, KeepsKeeps DEF k
  <2> QED
    BY <1>1, <2>3, <2>4, <2>5 DEF Parsed
<1>9. CASE ~(Len(more) < need)
  <2>1. Take(more, need) \in Seq(Byte) /\ Drop(more, need) \in Seq(Byte)
    BY <1>6, <1>9, CutIs
  <2>2. d \o Take(more, need) \in Seq(Byte)
    BY <1>3, <2>1, JoinIs
  <2>3. x = Returns(k, fd, d \o Take(more, need), Drop(more, need))
    BY <1>5, <1>9
  <2>4. RingOK(k) /\ InRing(k) = InRing(q) /\ Keeps(q.hash, k.hash, fd) /\ Lacks(k.hash, fd)
    BY <1>1 DEF k
  <2> QED
    BY <1>1, <2>1, <2>2, <2>3, <2>4, ReturnsIs
<1> QED
  BY <1>8, <1>9
LEMMA LooseFilter ==
    ASSUME NEW fd \in Fd, RingOK(q), OneHalf(q.hash, fd), NEW buffer \in Seq(Byte), Len(buffer) # 0,
           NEW x, x = filter_data(fd, buffer)
    PROVE  Parsed(x.q, x.job, fd)
<1>1. CASE Lacks(q.hash, fd)
  <2>1. FindAt(fd) = 0
    <3>1. q.hash \in Lists
      BY DEF RingOK, Queues
    <3> QED
      BY <1>1, <3>1, FindIs
  <2>2. x = FilterNew(fd, buffer)
    BY <2>1 DEF filter_data
  <2> QED
    BY <1>1, <2>2, LooseNew
<1>2. CASE \E u : Holds(q.hash, fd, u)
  <2>1. PICK u : Holds(q.hash, fd, u)
    BY <1>2
  <2> DEFINE y == FillUncomplete(fd, buffer)
  <2>2. FindAt(fd) # 0 /\ Parsed(y.q, y.job, fd)
    BY <2>1, LooseFill
  <2>3. x = y
    BY <2>2 DEF filter_data
  <2> QED
    BY <2>2, <2>3
<1> QED
  BY <1>1, <1>2 DEF OneHalf

\* A DATA message.
LEMMA DispatchDataFresh ==
    ASSUME NetInv, NEW fd \in Fd, fd \notin stale, NEW n \in 1 .. MaxChunk, DispatchData(fd, n)
    PROVE  NetInv'
<1> DEFINE s == stream[fd]
           e == ends[fd]
           r == read[fd]
           c == Taken[fd]
           t == r + n
           x == filter_data(fd, Part(s, r, t))
<1>1. job = Idle /\ t <= Len(s) /\ q' = x.q /\ job' = x.job /\ read' = [read EXCEPT ![fd] = t]
      /\ UNCHANGED <<stream, ends, got, fails, closes, stale>>
  BY DEF DispatchData, Part, peers
<1>2. Types /\ job.step = "idle"
  BY <1>1, JobIs DEF NetInv
<1>3. r \in Nat /\ t \in Nat /\ r < t
  BY <1>2, NetAssumption DEF Types
<1>4. ParsedBy(r, job, fd) = r
  BY <1>2, <1>3 DEF ParsedBy
<1>5. Reads(q.hash, fd, s, e, r, c) /\ s \in Seq(Byte) /\ c \in Nat
  BY <1>4, StreamIs
<1>6. RingOK(q) /\ read \in [Fd -> Nat]
  BY <1>2 DEF Types
<1>7. Filtered(x.q, x.job, fd, s, e, t, c)
  <2> HIDE DEF t, s, e, r, c
  <2> QED
    BY <1>1, <1>3, <1>5, <1>6, FilterIs
<1> HIDE DEF x
<1>8. RingOK(x.q) /\ InRing(x.q) = InRing(q) /\ Keeps(q.hash, x.q.hash, fd)
  BY <1>7 DEF Filtered
<1>9. read' \in [Fd -> Nat] /\ read'[fd] = t /\ \A a \in Fd : a # fd => read'[a] = read[a]
  BY <1>1, <1>3, <1>6
<1>10. WaitFor(job, q) = InRing(q) /\ Delivered(got, InRing(q), job, Taken, fails, closes, stale)
  <2>1. WaitFor(job, q) = InRing(q)
    BY <1>2 DEF WaitFor
  <2> QED
    BY <2>1 DEF NetInv
<1>11. CASE x.job = Idle /\ Reads(x.q.hash, fd, s, e, t, c)
  <2>1. t = ParsedBy(t, x.job, fd) /\ x.job.step = "idle"
    BY <1>3, <1>11, JobIs DEF ParsedBy
  <2>2. ParsedOK(x.q.hash, fd, s, e, t, x.job, stale) /\ TakenOf(e, t, x.job, fd, stale) = c
    <3> HIDE DEF t, s, e, c
    <3> QED
      BY <1>1, <1>11, <2>1, ParsedNow
  <2>3. /\ \A a \in Fd : ParsedOK(x.q.hash, a, stream[a], ends[a], read'[a], x.job, stale)
        /\ [a \in Fd |-> TakenOf(ends[a], read'[a], x.job, a, stale)] = [Taken EXCEPT ![fd] = c]
    <3> DEFINE rd == read'
               j == x.job
               h == x.q.hash
    <3>1. job.step # "push" /\ j.step # "push"
      BY <1>2, <2>1
    <3>2. ParsedOK(h, fd, stream[fd], ends[fd], rd[fd], j, stale) /\ TakenOf(ends[fd], rd[fd], j, fd, stale) = c
      BY <1>9, <2>2
    <3>3. Keeps(q.hash, h, fd) /\ \A a \in Fd : a # fd => rd[a] = read[a]
      BY <1>8, <1>9
    <3> HIDE DEF rd, j, h, c
    <3>4. /\ \A a \in Fd : ParsedOK(h, a, stream[a], ends[a], rd[a], j, stale)
          /\ [a \in Fd |-> TakenOf(ends[a], rd[a], j, a, stale)] = [Taken EXCEPT ![fd] = c]
      BY <3>1, <3>2, <3>3, StreamStep
    <3> QED
      BY <3>4 DEF rd, j, h
  <2>4. Taken' = Taken
    <3>1. Taken' = [Taken EXCEPT ![fd] = c]
      BY <1>1, <2>3 DEF Taken
    <3> QED
      BY <3>1 DEF Taken
  <2>5. Types'
    BY <1>1, <1>2, <1>8, <1>9, <1>11, JobIs DEF Types
  <2>6. WaitFor(x.job, x.q) = InRing(q) /\ x.job = job
    BY <1>1, <1>8, <1>11, <2>1 DEF WaitFor
  <2> QED
    BY <1>1, <1>10, <2>3, <2>4, <2>5, <2>6 DEF NetInv
<1>12. CASE /\ c + 1 \in 1 .. Len(e) /\ e[c + 1] <= t
            /\ Reads(x.q.hash, fd, s, e, e[c + 1], c + 1)
            /\ x.job = Returns(x.q, fd, Sent[fd][c + 1], Part(s, e[c + 1], t)).job
  <2> DEFINE a == e[c + 1]
             p == Sent[fd][c + 1]
             left == Part(s, a, t)
             y == <<fd, p>>
  <2>1. x.job = [step |-> IF left = <<>> THEN "data" ELSE "push", pkt |-> y, left |-> left]
    BY <1>12 DEF Returns
  <2>2. x.job.left = left /\ x.job.pkt = y /\ x.job.pkt[1] = fd /\ (x.job.step = "push" <=> left # <<>>)
        /\ x.job.step \in {"data", "push"}
    BY <2>1
  <2>3. c + 1 <= Len(Sent[fd]) /\ c + 1 \in Nat
    BY <1>12, TakenIs
  <2>4. p \in Seq(Byte) /\ y \in Packets
    <3>1. Sent[fd] \in Seq(Seq(Byte))
      BY SentIs DEF Sendable
    <3>2. c + 1 \in 1 .. Len(Sent[fd])
      <4>1. Len(Sent[fd]) \in Nat
        BY <3>1
      <4> QED
        BY <1>5, <2>3, <4>1
    <3>3. p \in Seq(Byte)
      BY <3>1, <3>2
    <3> QED
      BY <3>3 DEF Packets
  <2>5. a \in Nat /\ Begin(e, c + 1) = a
    <3>1. Framed(s, e, Sent[fd])
      BY <1>5 DEF Reads
    <3> DEFINE ps == Sent[fd]
    <3> HIDE DEF ps
    <3>2. Framed(s, e, ps)
      BY <3>1 DEF ps
    <3> QED
      BY <1>5, <1>12, <3>2, SpotNext
  <2> HIDE DEF y, p, a
  <2>6. left \in Seq(Byte) /\ ParsedBy(t, x.job, fd) = a
    <3> DEFINE i == x.job
    <3>1. s \in Seq(Byte) /\ a \in Nat /\ t \in Nat /\ a <= t /\ t <= Len(s)
      BY <1>1, <1>3, <1>5, <1>12, <2>5 DEF a
    <3>2. i.left = Part(s, a, t) /\ i.pkt[1] = fd /\ (i.step = "push" <=> Part(s, a, t) # <<>>)
      BY <2>2
    <3> HIDE DEF i, s, t
    <3>3. Part(s, a, t) \in Seq(Byte) /\ ParsedBy(t, i, fd) = a
      BY <3>1, <3>2, LeftIs
    <3> QED
      BY <3>3 DEF i
  <2>7. ParsedOK(x.q.hash, fd, s, e, t, x.job, stale) /\ TakenOf(e, t, x.job, fd, stale) = c + 1
    <3>1. Reads(x.q.hash, fd, s, e, a, c + 1)
      BY <1>12 DEF a
    <3> DEFINE k == c + 1
               i == x.job
    <3>2. i.step = "push" /\ i.pkt[1] = fd => i.left = Part(s, a, t) /\ a = Begin(e, k)
      BY <2>2, <2>5
    <3>3. Reads(x.q.hash, fd, s, e, a, k) /\ a = ParsedBy(t, i, fd) /\ t <= Len(s)
      BY <1>1, <2>6, <3>1
    <3> HIDE DEF k, i, s, e, t
    <3>4. ParsedOK(x.q.hash, fd, s, e, t, i, stale) /\ TakenOf(e, t, i, fd, stale) = k
      BY <3>2, <3>3, ParsedNow
    <3> QED
      BY <3>4 DEF k, i
  <2>8. /\ \A b \in Fd : ParsedOK(x.q.hash, b, stream[b], ends[b], read'[b], x.job, stale)
        /\ [b \in Fd |-> TakenOf(ends[b], read'[b], x.job, b, stale)] = [Taken EXCEPT ![fd] = c + 1]
    <3> DEFINE rd == read'
               j == x.job
               h == x.q.hash
               k == c + 1
    <3>1. job.step # "push" /\ j.pkt[1] = fd
      BY <1>2, <2>2
    <3>2. ParsedOK(h, fd, stream[fd], ends[fd], rd[fd], j, stale) /\ TakenOf(ends[fd], rd[fd], j, fd, stale) = k
      BY <1>9, <2>7
    <3>3. Keeps(q.hash, h, fd) /\ \A b \in Fd : b # fd => rd[b] = read[b]
      BY <1>8, <1>9
    <3> HIDE DEF rd, j, h, k
    <3>4. /\ \A b \in Fd : ParsedOK(h, b, stream[b], ends[b], rd[b], j, stale)
          /\ [b \in Fd |-> TakenOf(ends[b], rd[b], j, b, stale)] = [Taken EXCEPT ![fd] = k]
      BY <3>1, <3>2, <3>3, StreamStep
    <3> QED
      BY <3>4 DEF rd, j, h, k
  <2>9. Taken' = [Taken EXCEPT ![fd] = @ + 1]
    BY <1>1, <2>8 DEF Taken
  <2>10. x.job \in Jobs
    BY <2>1, <2>4, <2>6, JobIs
  <2>11. Types'
    BY <1>1, <1>2, <1>8, <1>9, <2>10 DEF Types
  <2>12. WaitFor(x.job, x.q) = <<x.job.pkt>> \o InRing(q)
    BY <1>8, <2>2 DEF WaitFor
  <2>13. Delivered(got, <<x.job.pkt>> \o InRing(q), x.job, [Taken EXCEPT ![fd] = @ + 1], fails, closes, stale)
    <3>1. Goods(got, InRing(q), Taken)
      BY GoodsNow
    <3>2. x.job.step # "idle" /\ x.job.pkt = <<fd, Sent[fd][Taken[fd] + 1]>> /\ Taken[fd] + 1 <= Len(Sent[fd])
      BY <2>2, <2>3 DEF y, p
    <3> QED
      BY <1>2, <1>10, <3>1, <3>2, TakeFirst
  <2> QED
    BY <1>1, <2>8, <2>9, <2>11, <2>12, <2>13 DEF NetInv
<1> QED
  BY <1>7, <1>11, <1>12 DEF Filtered

LEMMA DispatchDataStale ==
    ASSUME NetInv, NEW fd \in Fd, fd \in stale, NEW n \in 1 .. MaxChunk, DispatchData(fd, n)
    PROVE  NetInv'
<1> DEFINE s == stream[fd]
           e == ends[fd]
           r == read[fd]
           t == r + n
           b == Part(s, r, t)
           x == filter_data(fd, b)
<1>1. job = Idle /\ t <= Len(s) /\ q' = x.q /\ job' = x.job /\ read' = [read EXCEPT ![fd] = t]
      /\ UNCHANGED <<stream, ends, got, fails, closes, stale>>
  BY DEF DispatchData, Part, peers
<1>2. Types /\ job.step = "idle" /\ RingOK(q) /\ read \in [Fd -> Nat] /\ closes # 0
  BY <1>1, JobIs DEF NetInv, Types
<1>3. OneHalf(q.hash, fd) /\ Framed(s, e, Sent[fd]) /\ r \in Nat /\ s \in Seq(Byte)
  BY LooseIs
<1>4. t \in Nat /\ r < t /\ r <= t
  BY <1>3, NetAssumption
<1>5. b \in Seq(Byte) /\ Len(b) # 0
  <2> HIDE DEF s, r, t
  <2>1. b \in Seq(Byte) /\ Len(b) = t - r
    BY <1>1, <1>3, <1>4, PartIs
  <2> QED
    BY <1>3, <1>4, <2>1
<1>6. Parsed(x.q, x.job, fd)
  <2> HIDE DEF b
  <2> QED
    BY <1>2, <1>3, <1>5, LooseFilter
<1> HIDE DEF x, b
<1>7. RingOK(x.q) /\ InRing(x.q) = InRing(q) /\ Keeps(q.hash, x.q.hash, fd)
  BY <1>6 DEF Parsed
<1>8. /\ x.job \in Jobs /\ (x.job.step = "push" => x.job.pkt[1] = fd) /\ OneHalf(x.q.hash, fd)
      /\ x.job.step = "push" => Lacks(x.q.hash, fd)
  BY <1>6, JobIs DEF Parsed, OneHalf
<1>9. ParsedOK(x.q.hash, fd, s, e, t, x.job, stale) /\ TakenOf(e, t, x.job, fd, stale) = 0
  <2>1. Loose(x.q.hash, fd, s, e, t, x.job)
    BY <1>1, <1>3, <1>8 DEF Loose
  <2> QED
    BY <2>1 DEF ParsedOK, TakenOf
<1>10. read' \in [Fd -> Nat] /\ read'[fd] = t /\ \A a \in Fd : a # fd => read'[a] = read[a]
  BY <1>1, <1>2, <1>4
<1>11. /\ \A a \in Fd : ParsedOK(x.q.hash, a, stream[a], ends[a], read'[a], x.job, stale)
       /\ [a \in Fd |-> TakenOf(ends[a], read'[a], x.job, a, stale)] = [Taken EXCEPT ![fd] = 0]
  <2> DEFINE j == x.job
             h == x.q.hash
             k == 0
             rd == read'
  <2>1. job.step # "push" /\ (j.step = "push" => j.pkt[1] = fd) /\ Keeps(q.hash, h, fd)
    BY <1>2, <1>7, <1>8
  <2>2. rd[fd] = t /\ \A a \in Fd : a # fd => rd[a] = read[a]
    BY <1>10
  <2>3. ParsedOK(h, fd, s, e, t, j, stale) /\ TakenOf(e, t, j, fd, stale) = k
    BY <1>9
  <2> HIDE DEF j, h, k, rd, t
  <2>4. ParsedOK(h, fd, stream[fd], ends[fd], rd[fd], j, stale) /\ TakenOf(ends[fd], rd[fd], j, fd, stale) = k
    BY <2>2, <2>3
  <2>5. /\ \A a \in Fd : ParsedOK(h, a, stream[a], ends[a], rd[a], j, stale)
        /\ [a \in Fd |-> TakenOf(ends[a], rd[a], j, a, stale)] = [Taken EXCEPT ![fd] = k]
    BY <2>1, <2>2, <2>4, StreamStep
  <2> QED
    BY <2>5 DEF j, h, k, rd
<1>12. Taken' = Taken
  <2>1. Taken' = [Taken EXCEPT ![fd] = 0]
    BY <1>1, <1>11 DEF Taken
  <2>2. Taken[fd] = 0
    BY DEF Taken, TakenOf
  <2> QED
    BY <2>1, <2>2 DEF Taken
<1>13. Types'
  BY <1>1, <1>2, <1>7, <1>8, <1>10 DEF Types
<1>14. Delivered(got, WaitFor(x.job, x.q), x.job, Taken, fails, closes, stale)
  <2>1. Delivered(got, InRing(q), job, Taken, fails, closes, stale)
    BY <1>2 DEF NetInv, WaitFor
  <2>2. CASE x.job = Idle
    <3>1. WaitFor(x.job, x.q) = InRing(q) /\ x.job = job
      BY <1>1, <1>7, <2>2, JobIs DEF WaitFor
    <3> QED
      BY <2>1, <3>1
  <2>3. CASE x.job.step \in {"data", "push"} /\ x.job.pkt \in Packets /\ x.job.pkt[1] = fd
    <3> DEFINE i == x.job
               w == InRing(q)
    <3>1. WaitFor(i, x.q) = <<i.pkt>> \o w
      BY <1>7, <2>3 DEF WaitFor
    <3>2. i.step # "idle" /\ i.pkt \in Packets /\ i.pkt[1] = fd /\ Goods(got, w, Taken)
      BY <2>3, GoodsNow
    <3> HIDE DEF i, w
    <3>3. Delivered(got, <<i.pkt>> \o w, i, Taken, fails, closes, stale)
      BY <1>2, <2>1, <3>2, StaleFirst DEF w
    <3> QED
      BY <3>1, <3>3 DEF i
  <2> QED
    BY <1>6, <2>2, <2>3 DEF Parsed
<1> QED
  BY <1>1, <1>11, <1>12, <1>13, <1>14 DEF NetInv
LEMMA DispatchDataInv == ASSUME NetInv, NEW fd \in Fd, NEW n \in 1 .. MaxChunk, DispatchData(fd, n) PROVE NetInv'
  BY DispatchDataFresh, DispatchDataStale

\* Joining what is appended to.
LEMMA JoinAppend ==
    ASSUME NEW S, NEW s \in Seq(S), NEW t \in Seq(S), NEW x \in S
    PROVE  s \o Append(t, x) = Append(s \o t, x)
<1> DEFINE a == Append(t, x)
           b == s \o t
           u == s \o a
           v == Append(b, x)
<1>1. a \in Seq(S) /\ Len(a) = Len(t) + 1 /\ a[Len(t) + 1] = x /\ \A k \in 1 .. Len(t) : a[k] = t[k]
  BY AppendIs
<1>2. /\ b \in Seq(S) /\ Len(b) = Len(s) + Len(t) /\ \A k \in 1 .. Len(s) : b[k] = s[k]
      /\ \A k \in 1 .. Len(t) : b[Len(s) + k] = t[k]
  BY JoinIs
<1>3. Len(s) \in Nat /\ Len(t) \in Nat
  OBVIOUS
<1> HIDE DEF a, b
<1>4. /\ u \in Seq(S) /\ Len(u) = Len(s) + Len(a) /\ \A k \in 1 .. Len(s) : u[k] = s[k]
      /\ \A k \in 1 .. Len(a) : u[Len(s) + k] = a[k]
  <2>1. a \in Seq(S) /\ s \in Seq(S)
    BY <1>1
  <2>2. /\ s \o a \in Seq(S) /\ Len(s \o a) = Len(s) + Len(a)
        /\ \A k \in 1 .. Len(s) : (s \o a)[k] = s[k]
        /\ \A k \in 1 .. Len(a) : (s \o a)[Len(s) + k] = a[k]
    BY ONLY <2>1, JoinIs
  <2> QED
    BY <2>2, Zenon
<1>5. v \in Seq(S) /\ Len(v) = Len(b) + 1 /\ v[Len(b) + 1] = x /\ \A k \in 1 .. Len(b) : v[k] = b[k]
  <2>1. b \in Seq(S)
    BY <1>2
  <2>2. /\ Append(b, x) \in Seq(S) /\ Len(Append(b, x)) = Len(b) + 1
        /\ \A k \in 1 .. Len(b) : Append(b, x)[k] = b[k]
        /\ Append(b, x)[Len(b) + 1] = x
    BY <2>1, AppendIs
  <2> QED
    BY <2>2, Zenon
<1> HIDE DEF u, v
<1>6. \A k \in 1 .. Len(u) : u[k] = v[k]
  <2> TAKE k \in 1 .. Len(u)
  <2>1. CASE k \in 1 .. Len(s)
    <3>1. k \in 1 .. Len(b)
      BY <1>2, <1>3, <2>1
    <3> QED
      BY <1>2, <1>4, <1>5, <2>1, <3>1
  <2>2. CASE k \notin 1 .. Len(s)
    <3> DEFINE m == k - Len(s)
    <3>1. m \in 1 .. Len(a) /\ Len(s) + m = k
      BY <1>1, <1>3, <1>4, <2>2
    <3> HIDE DEF m
    <3>2. u[k] = a[m]
      BY <1>4, <3>1
    <3>3. CASE m \in 1 .. Len(t)
      <4>1. k \in 1 .. Len(b)
        BY <1>2, <1>3, <3>1, <3>3
      <4>2. v[k] = b[k] /\ b[Len(s) + m] = t[m] /\ a[m] = t[m]
        BY <1>1, <1>2, <1>5, <3>3, <4>1
      <4> QED
        BY <3>1, <3>2, <4>2
    <3>4. CASE m = Len(t) + 1
      <4>1. k = Len(b) + 1
        BY <1>2, <1>3, <3>1, <3>4
      <4> QED
        BY <1>1, <1>5, <3>2, <3>4, <4>1
    <3> QED
      BY <1>1, <1>3, <3>1, <3>3, <3>4
  <2> QED
    BY <2>1, <2>2
<1>7. Len(u) = Len(v)
  BY <1>1, <1>2, <1>3, <1>4, <1>5
<1>8. u = v
  BY <1>4, <1>5, <1>6, <1>7, SameSeq
<1> QED
  BY <1>8 DEF u, v, a, b

\* A turn of the loop of push_more.
LEMMA PushMoreFresh == ASSUME NetInv, push_more, job.pkt[1] \notin stale PROVE NetInv'
<1> DEFINE fd == job.pkt[1]
           s == stream[fd]
           e == ends[fd]
           r == read[fd]
           c == Taken[fd]
           buffer == Part(s, Begin(e, c), r)
           size == read_size(buffer)
           data == Drop(buffer, 2)
           one == HalfHeader(fd, buffer[1])
           more == HalfPacket(fd, size, data)
<1>1. Types /\ job.step = "push" /\ job \in Jobs /\ job.pkt \in Packets /\ job.left # <<>> /\ RingOK(q)
  BY DEF push_more, NetInv, Types, Jobs
<1>2. fd \in Fd /\ fd \notin stale
  BY <1>1 DEF Packets
<1>3. /\ Reads(q.hash, fd, s, e, Begin(e, c), c) /\ r <= Len(s) /\ r \in Nat /\ s \in Seq(Byte) /\ c \in Nat
      /\ job.left = buffer /\ ParsedBy(r, job, fd) = Begin(e, c)
  <2> HIDE DEF fd
  <2>1. /\ Reads(q.hash, fd, stream[fd], ends[fd], ParsedBy(read[fd], job, fd), Taken[fd])
        /\ read[fd] <= Len(stream[fd]) /\ read[fd] \in Nat /\ stream[fd] \in Seq(Byte) /\ Taken[fd] \in Nat
        /\ job.step = "push" /\ job.pkt[1] = fd =>
             /\ job.left = Part(stream[fd], ParsedBy(read[fd], job, fd), read[fd])
             /\ ParsedBy(read[fd], job, fd) = Begin(ends[fd], Taken[fd])
    BY <1>2, StreamIs
  <2>2. job.pkt[1] = fd
    BY DEF fd
  <2> QED
    BY <1>1, <2>1, <2>2
<1>4. Begin(e, c) < r
  <2>1. Begin(e, c) = r - Len(job.left)
    BY <1>1, <1>3 DEF ParsedBy
  <2>2. job.left \in Seq(Byte)
    BY <1>1 DEF Jobs
  <2>3. Len(job.left) \in Nat \ {0}
    BY <1>1, <2>2
  <2> QED
    BY <1>3, <2>1, <2>3
<1>5. q.hash \in Lists
  BY <1>1 DEF RingOK, Queues
<1> HIDE DEF fd
<1>6. /\ buffer \in Seq(Byte) /\ c + 1 \in 1 .. Len(e) /\ Lacks(q.hash, fd)
      /\ Len(buffer) = 1 =>
           /\ Saved(q.hash, one) \in Lists /\ Keeps(q.hash, Saved(q.hash, one), fd)
           /\ Reads(Saved(q.hash, one), fd, s, e, r, c)
      /\ Len(buffer) # 1 /\ Len(data) < size =>
           /\ Saved(q.hash, more) \in Lists /\ Keeps(q.hash, Saved(q.hash, more), fd)
           /\ Reads(Saved(q.hash, more), fd, s, e, r, c)
      /\ Len(buffer) # 1 /\ ~(Len(data) < size) =>
           /\ Take(data, size) = Sent[fd][c + 1] /\ Drop(data, size) = Part(s, e[c + 1], r)
           /\ e[c + 1] <= r
  <2> HIDE DEF s, e, r, c
  <2> QED
    BY <1>2, <1>3, <1>4, <1>5, NewIs DEF buffer, size, data, one, more
<1>7. /\ Len(buffer) > 1 <=> Len(buffer) # 1
      /\ Len(buffer) # 1 => size \in Nat /\ Len(data) \in Nat
  <2>1. buffer \in Seq(Byte) /\ Len(buffer) # 0
    BY <1>1, <1>3, <1>6
  <2> HIDE DEF buffer
  <2> QED
    BY <2>1, SizeIs
<1> DEFINE whole == Len(buffer) > 1 /\ Len(data) >= size
           left == Drop(data, size)
           uc == IF Len(buffer) = 1 THEN one ELSE more
<1>8. /\ whole => /\ q' = push_data(q, fd, Take(data, size))
                  /\ job' = [job EXCEPT !.left = left, !.step = IF left = <<>> THEN "more" ELSE "push"]
      /\ ~whole => /\ q' = save_uncomplete(q, uc)
                   /\ job' = [job EXCEPT !.left = <<>>, !.step = "more"]
      /\ UNCHANGED <<stream, ends, read, got, fails, closes, stale>>
  <2> HIDE DEF buffer
  <2> QED
    BY <1>3 DEF push_more, peers, fd
<1>9. /\ read \in [Fd -> Nat]
      /\ Delivered(got, WaitFor(job, q), job, Taken, fails, closes, stale)
      /\ Goods(got, WaitFor(job, q), Taken)
  BY <1>1, GoodsNow DEF NetInv, Types
<1>10. WaitFor(job, q) = <<job.pkt>> \o InRing(q)
  BY <1>1 DEF WaitFor
<1>11. job.pkt[1] = fd /\ job.pkt \in Packets /\ job.step # "idle"
  BY <1>1 DEF fd
<1> HIDE DEF data, size, uc
<1>12. ASSUME ~whole PROVE NetInv'
  <2>1. /\ Saved(q.hash, uc) \in Lists /\ Keeps(q.hash, Saved(q.hash, uc), fd)
        /\ Reads(Saved(q.hash, uc), fd, s, e, r, c)
    <3>1. CASE Len(buffer) = 1
      <4>1. uc = one
        BY <3>1 DEF uc
      <4> QED
        BY <1>6, <3>1, <4>1
    <3>2. CASE Len(buffer) # 1
      <4>1. uc = more /\ Len(data) < size
        <5>1. Len(buffer) > 1 /\ size \in Nat /\ Len(data) \in Nat
          BY <1>7, <3>2
        <5>2. Len(data) < size
          <6> HIDE DEF buffer
          <6> QED
            BY <1>12, <5>1
        <5> QED
          BY <1>12, <3>2, <5>1, <5>2 DEF uc
      <4> QED
        BY <1>6, <3>2, <4>1
    <3> QED
      BY <3>1, <3>2
  <2>2. RingOK(q') /\ q'.hash = Saved(q.hash, uc) /\ InRing(q') = InRing(q)
    BY <1>1, <1>8, <1>12, <2>1, SaveStep
  <2>3. job' = [step |-> "more", pkt |-> job.pkt, left |-> <<>>]
    BY <1>1, <1>8, <1>12 DEF Jobs
  <2>4. job' \in Jobs /\ job'.step = "more" /\ job'.pkt = job.pkt
    <3>1. <<>> \in Seq(Byte)
      OBVIOUS
    <3> QED
      BY <1>1, <2>3, <3>1, JobIs
  <2>5. Types'
    BY <1>1, <1>8, <2>2, <2>4 DEF Types
  <2> DEFINE j == job'
             h == Saved(q.hash, uc)
  <2>6. ParsedOK(h, fd, s, e, r, j, stale) /\ TakenOf(e, r, j, fd, stale) = c
    <3>1. Reads(h, fd, s, e, r, c) /\ r = ParsedBy(r, j, fd) /\ r <= Len(s) /\ j.step # "push"
      BY <1>3, <2>1, <2>4 DEF ParsedBy
    <3> HIDE DEF h, s, e, r, c, j
    <3> QED
      BY <1>2, <3>1, ParsedNow
  <2>7. /\ \A a \in Fd : ParsedOK(h, a, stream[a], ends[a], read[a], j, stale)
        /\ [a \in Fd |-> TakenOf(ends[a], read[a], j, a, stale)] = [Taken EXCEPT ![fd] = c]
    <3>1. j.step # "push" /\ Keeps(q.hash, h, fd)
      BY <2>1, <2>4
    <3> HIDE DEF h, j
    <3> QED
      BY <1>2, <1>9, <1>11, <2>6, <3>1, StreamStepStill
  <2>8. Taken' = Taken
    <3>1. Taken' = [Taken EXCEPT ![fd] = c]
      BY <1>8, <2>7 DEF Taken
    <3> QED
      BY <3>1 DEF Taken
  <2>9. WaitFor(j, q') = WaitFor(job, q)
    BY <1>10, <2>2, <2>4 DEF WaitFor
  <2>10. Delivered(got, WaitFor(job, q), j, Taken, fails, closes, stale)
    <3>1. j.pkt = job.pkt /\ (j.step = "idle" <=> job.step = "idle") /\ (j.step = "data" => job.step = "data")
      BY <1>1, <2>4
    <3> HIDE DEF j
    <3> QED
      BY <1>9, <3>1, StayOut
  <2> QED
    BY <1>8, <2>2, <2>5, <2>7, <2>8, <2>9, <2>10 DEF NetInv
<1>13. ASSUME whole PROVE NetInv'
  <2> DEFINE a == e[c + 1]
             p == Sent[fd][c + 1]
             y == <<fd, p>>
             rest == Part(s, a, r)
             j == job'
  <2>1. Take(data, size) = p /\ left = rest /\ a <= r
    <3>1. Len(buffer) # 1
      BY <1>7, <1>13
    <3>2. ~(Len(data) < size)
      <4> HIDE DEF buffer
      <4> QED
        BY <1>7, <1>13, <3>1
    <3> QED
      BY <1>6, <3>1, <3>2
  <2>2. c + 1 <= Len(Sent[fd]) /\ p \in Seq(Byte) /\ y \in Packets
    <3>1. c + 1 <= Len(Sent[fd]) /\ c + 1 \in Nat
      <4>1. Framed(s, e, Sent[fd])
        BY <1>3 DEF Reads
      <4>2. Len(e) <= Len(Sent[fd]) /\ Len(e) \in Nat
        BY <4>1 DEF Framed
      <4>3. Len(Sent[fd]) \in Nat
        <5>1. Sent[fd] \in Seq(Seq(Byte))
          BY <1>2, SentIs DEF Sendable
        <5> QED
          BY <5>1
      <4> QED
        BY <1>3, <1>6, <4>2, <4>3
    <3>2. Sent[fd] \in Seq(Seq(Byte))
      BY <1>2, SentIs DEF Sendable
    <3>3. c + 1 \in 1 .. Len(Sent[fd])
      <4>1. Len(Sent[fd]) \in Nat
        BY <3>2
      <4> QED
        BY <1>3, <3>1, <4>1
    <3>4. p \in Seq(Byte)
      BY <3>2, <3>3
    <3> QED
      BY <1>2, <3>1, <3>4 DEF Packets
  <2>3. RingOK(q') /\ q'.hash = q.hash /\ InRing(q') = Append(InRing(q), y)
    <3>1. q' = push_data(q, fd, p)
      BY <1>8, <1>13, <2>1
    <3> HIDE DEF p
    <3> QED
      BY <1>1, <1>2, <2>2, <3>1, PushIs
  <2>4. j.left = rest /\ j.pkt = job.pkt /\ j = [step |-> j.step, pkt |-> job.pkt, left |-> rest]
        /\ j.step = (IF rest = <<>> THEN "more" ELSE "push")
    <3>1. job' = [job EXCEPT !.left = rest, !.step = IF rest = <<>> THEN "more" ELSE "push"]
      <4> HIDE DEF rest, left
      <4> QED
        BY <1>8, <1>13, <2>1
    <3> HIDE DEF rest
    <3> QED
      BY <1>1, <3>1 DEF Jobs
  <2>5. a \in Nat /\ Begin(e, c + 1) = a /\ Framed(s, e, Sent[fd])
    <3>1. Framed(s, e, Sent[fd])
      BY <1>3 DEF Reads
    <3> DEFINE ps == Sent[fd]
    <3>2. Framed(s, e, ps)
      BY <3>1
    <3> HIDE DEF ps, s, e, c
    <3>3. e[c + 1] \in Nat /\ Begin(e, c + 1) = e[c + 1]
      BY <1>3, <1>6, <3>2, SpotNext
    <3> QED
      BY <3>1, <3>3
  <2>6. Reads(q.hash, fd, s, e, a, c + 1)
    <3> HIDE DEF s, e, c
    <3> QED
      BY <1>2, <1>3, <1>6, <2>5, ReadsWhole
  <2> HIDE DEF a, y, p
  <2>7. rest \in Seq(Byte) /\ ParsedBy(r, j, fd) = a
    <3>1. a \in Nat /\ a <= r /\ r <= Len(s) /\ r \in Nat /\ s \in Seq(Byte)
      BY <1>3, <2>1, <2>5
    <3>2. j.left = Part(s, a, r) /\ j.pkt[1] = fd /\ (j.step = "push" <=> Part(s, a, r) # <<>>)
      BY <1>11, <2>4
    <3> HIDE DEF s, r, j
    <3>3. Part(s, a, r) \in Seq(Byte) /\ ParsedBy(r, j, fd) = a
      BY <3>1, <3>2, LeftIs
    <3> QED
      BY <3>3
  <2>8. j \in Jobs /\ j.step \in {"more", "push"} /\ j.pkt = job.pkt
    <3> HIDE DEF rest, j
    <3> QED
      BY <1>11, <2>4, <2>7, JobIs
  <2>9. Types'
    BY <1>1, <1>8, <2>3, <2>8 DEF Types
  <2>10. ParsedOK(q.hash, fd, s, e, r, j, stale) /\ TakenOf(e, r, j, fd, stale) = c + 1
    <3> DEFINE k == c + 1
    <3>1. Reads(q.hash, fd, s, e, a, k) /\ a = ParsedBy(r, j, fd) /\ r <= Len(s)
      BY <1>3, <2>6, <2>7
    <3>2. j.step = "push" /\ j.pkt[1] = fd => j.left = Part(s, a, r) /\ a = Begin(e, k)
      BY <2>4, <2>5
    <3> HIDE DEF k, s, e, r, j
    <3>3. ParsedOK(q.hash, fd, s, e, r, j, stale) /\ TakenOf(e, r, j, fd, stale) = k
      BY <1>2, <3>1, <3>2, ParsedNow
    <3> QED
      BY <3>3 DEF k
  <2>11. /\ \A b \in Fd : ParsedOK(q.hash, b, stream[b], ends[b], read[b], j, stale)
         /\ [b \in Fd |-> TakenOf(ends[b], read[b], j, b, stale)] = [Taken EXCEPT ![fd] = c + 1]
    <3> DEFINE h == q.hash
               k == c + 1
    <3>1. Keeps(q.hash, h, fd) /\ j.pkt[1] = fd
      BY <1>11, <2>8, KeepsSame
    <3>2. ParsedOK(h, fd, stream[fd], ends[fd], read[fd], j, stale) /\ TakenOf(ends[fd], read[fd], j, fd, stale) = k
      BY <2>10
    <3> HIDE DEF j, h, k
    <3>3. /\ \A b \in Fd : ParsedOK(h, b, stream[b], ends[b], read[b], j, stale)
          /\ [b \in Fd |-> TakenOf(ends[b], read[b], j, b, stale)] = [Taken EXCEPT ![fd] = k]
      BY <1>2, <1>11, <3>1, <3>2, StreamStepStill
    <3> QED
      BY <3>3 DEF h, k
  <2>12. Taken' = [Taken EXCEPT ![fd] = @ + 1]
    BY <1>8, <2>11 DEF Taken
  <2>13. WaitFor(j, q') = Append(WaitFor(job, q), y)
    <3> DEFINE o == <<job.pkt>>
               w == InRing(q)
    <3>1. o \in Seq(Packets) /\ w \in Seq(Packets)
      BY <1>1, <1>11, InRingIs
    <3>2. WaitFor(j, q') = o \o Append(w, y)
      BY <2>3, <2>8 DEF WaitFor
    <3> HIDE DEF o, w
    <3>3. o \o Append(w, y) = Append(o \o w, y)
      BY <2>2, <3>1, JoinAppend
    <3> QED
      BY <1>10, <3>2, <3>3 DEF o, w
  <2>14. Delivered(got, Append(WaitFor(job, q), y), j, [Taken EXCEPT ![fd] = @ + 1], fails, closes, stale)
    <3> DEFINE w == WaitFor(job, q)
    <3>1. /\ Goods(got, w, Taken) /\ Taken[fd] + 1 <= Len(Sent[fd])
          /\ job.step # "idle" /\ j.step \notin {"idle", "data"} /\ j.pkt = job.pkt
          /\ Delivered(got, w, job, Taken, fails, closes, stale)
      BY <1>9, <1>11, <2>2, <2>8
    <3> HIDE DEF w, j
    <3>2. Delivered(got, Append(w, <<fd, Sent[fd][Taken[fd] + 1]>>), j, [Taken EXCEPT ![fd] = @ + 1], fails, closes, stale)
      BY <1>2, <1>11, <3>1, TakeAnother
    <3> QED
      BY <3>2 DEF w, y, p
  <2> QED
    BY <1>8, <2>3, <2>9, <2>11, <2>12, <2>13, <2>14 DEF NetInv
<1> QED
  BY <1>12, <1>13

LEMMA PushMoreStale == ASSUME NetInv, push_more, job.pkt[1] \in stale PROVE NetInv'
<1> DEFINE fd == job.pkt[1]
           s == stream[fd]
           e == ends[fd]
           r == read[fd]
           b == job.left
           size == read_size(b)
           data == Drop(b, 2)
           left == Drop(data, size)
           p == Take(data, size)
           uc == IF Len(b) = 1 THEN HalfHeader(fd, b[1]) ELSE HalfPacket(fd, size, data)
           whole == Len(b) > 1 /\ Len(data) >= size
<1>1. /\ Types /\ job.step = "push" /\ job \in Jobs /\ job.pkt \in Packets /\ b # <<>> /\ RingOK(q)
      /\ read \in [Fd -> Nat] /\ b \in Seq(Byte) /\ closes # 0
  BY DEF push_more, NetInv, Types, Jobs
<1>2. fd \in Fd /\ fd \in stale /\ job.pkt[1] = fd
  BY <1>1 DEF Packets
<1>3. /\ whole => q' = push_data(q, fd, p) /\ job' = [job EXCEPT !.left = left, !.step = IF left = <<>> THEN "more" ELSE "push"]
      /\ ~whole => q' = save_uncomplete(q, uc) /\ job' = [job EXCEPT !.left = <<>>, !.step = "more"]
      /\ UNCHANGED <<stream, ends, read, got, fails, closes, stale>>
  BY DEF push_more, peers
<1> HIDE DEF fd, b
<1>4. /\ Lacks(q.hash, fd) /\ Framed(s, e, Sent[fd]) /\ r <= Len(s)
  BY <1>1, <1>2, LooseIs
<1>5. Len(b) # 0
  BY <1>1
<1>6. /\ Len(b) > 1 <=> Len(b) # 1
      /\ Len(b) # 1 => size \in Nat /\ data \in Seq(Byte) /\ Len(data) \in Nat
  <2>1. /\ Len(b) > 1 <=> Len(b) # 1
        /\ Len(b) # 1 => size \in Nat /\ Len(data) \in Nat
    BY <1>1, <1>5, SizeIs
  <2> DEFINE n == 2
             l == Len(b)
  <2>2. l \in Nat
    BY <1>1
  <2> HIDE DEF l
  <2>3. Len(b) # 1 => n \in Nat /\ n <= Len(b)
    BY <2>1, <2>2 DEF l
  <2> HIDE DEF n
  <2>4. Len(b) # 1 => Drop(b, n) \in Seq(Byte)
    BY <1>1, <2>3, DropIs
  <2> QED
    BY <2>1, <2>4 DEF n
<1> DEFINE w == WaitFor(job, q)
<1>7. Delivered(got, w, job, Taken, fails, closes, stale) /\ Goods(got, w, Taken) /\ w = <<job.pkt>> \o InRing(q)
  <2>1. w = <<job.pkt>> \o InRing(q)
    BY <1>1 DEF WaitFor
  <2> QED
    BY <2>1, GoodsNow DEF NetInv
<1> HIDE DEF size, data, left, p, uc, w
<1>8. ASSUME NEW h, Keeps(q.hash, h, fd), OneHalf(h, fd), job'.step = "push" => Lacks(h, fd), job'.pkt = job.pkt
      PROVE  /\ \A a \in Fd : ParsedOK(h, a, stream[a], ends[a], read[a], job', stale)
             /\ [a \in Fd |-> TakenOf(ends[a], read[a], job', a, stale)] = Taken
  <2> DEFINE j == job'
  <2>1. ParsedOK(h, fd, s, e, r, j, stale) /\ TakenOf(e, r, j, fd, stale) = 0
    <3>1. Loose(h, fd, s, e, r, j)
      BY <1>4, <1>8 DEF Loose
    <3> QED
      BY <1>2, <3>1 DEF ParsedOK, TakenOf
  <2>2. j.pkt[1] = fd
    BY <1>2, <1>8
  <2>6. ParsedOK(h, fd, stream[fd], ends[fd], read[fd], j, stale) /\ TakenOf(ends[fd], read[fd], j, fd, stale) = 0
    BY <2>1
  <2> DEFINE k == 0
  <2> HIDE DEF j, s, e, r, k
  <2>7. /\ \A a \in Fd : ParsedOK(h, a, stream[a], ends[a], read[a], j, stale)
        /\ [a \in Fd |-> TakenOf(ends[a], read[a], j, a, stale)] = [Taken EXCEPT ![fd] = k]
    <3>1. /\ fd \in Fd /\ Keeps(q.hash, h, fd)
          /\ ParsedOK(h, fd, stream[fd], ends[fd], read[fd], j, stale)
          /\ TakenOf(ends[fd], read[fd], j, fd, stale) = k
          /\ job.step = "push" => job.pkt[1] = fd
          /\ j.step = "push" => j.pkt[1] = fd
      BY <1>2, <1>8, <2>2, <2>6 DEF k
    <3> QED
      BY <3>1, StreamStepStill, Z3
  <2>3. /\ \A a \in Fd : ParsedOK(h, a, stream[a], ends[a], read[a], j, stale)
        /\ [a \in Fd |-> TakenOf(ends[a], read[a], j, a, stale)] = [Taken EXCEPT ![fd] = 0]
    BY <2>7 DEF k
  <2>4. Taken[fd] = 0
    BY <1>2 DEF Taken, TakenOf
  <2>5. [Taken EXCEPT ![fd] = 0] = Taken
    BY <2>4 DEF Taken
  <2> QED
    BY <2>3, <2>5 DEF j
<1>9. ASSUME ~whole PROVE NetInv'
  <2>1. uc \in Half /\ uc.id = fd
    <3>1. CASE Len(b) = 1
      <4>1. b[1] \in Byte
        BY <1>1, <3>1
      <4>2. uc = HalfHeader(fd, b[1])
        BY <3>1 DEF uc
      <4> QED
        BY <1>2, <4>1, <4>2, HalvesIn
    <3>2. CASE Len(b) # 1
      <4>1. size \in Nat /\ data \in Seq(Byte) /\ Len(data) < size
        BY <1>6, <1>9, <3>2
      <4>2. uc = HalfPacket(fd, size, data)
        BY <3>2 DEF uc
      <4> QED
        BY <1>2, <4>1, <4>2, HalvesIn
    <3> QED
      BY <3>1, <3>2
  <2>2. RingOK(q') /\ InRing(q') = InRing(q) /\ OneHalf(q'.hash, fd) /\ Keeps(q.hash, q'.hash, fd)
    BY <1>1, <1>2, <1>3, <1>4, <1>9, <2>1, SaveHalf
  <2>3. job' = [step |-> "more", pkt |-> job.pkt, left |-> <<>>]
    BY <1>1, <1>3, <1>9 DEF Jobs
  <2>4. job' \in Jobs /\ job'.step = "more" /\ job'.pkt = job.pkt
    <3>1. <<>> \in Seq(Byte)
      OBVIOUS
    <3> QED
      BY <1>1, <2>3, <3>1, JobIs
  <2>5. Types'
    BY <1>1, <1>3, <2>2, <2>4 DEF Types
  <2>6. /\ \A a \in Fd : ParsedOK(q'.hash, a, stream[a], ends[a], read[a], job', stale)
        /\ [a \in Fd |-> TakenOf(ends[a], read[a], job', a, stale)] = Taken
    BY <1>8, <2>2, <2>4
  <2>7. Taken' = Taken
    BY <1>3, <2>6 DEF Taken
  <2>8. WaitFor(job', q') = w
    BY <1>7, <2>2, <2>4 DEF WaitFor
  <2>9. Delivered(got, w, job', Taken, fails, closes, stale)
    <3> DEFINE j == job'
    <3>1. j.pkt = job.pkt /\ (j.step = "idle" <=> job.step = "idle") /\ (j.step = "data" => job.step = "data")
      BY <1>1, <2>4
    <3> HIDE DEF j
    <3> QED
      BY <1>7, <3>1, StayOut DEF j
  <2> QED
    BY <1>3, <2>5, <2>6, <2>7, <2>8, <2>9 DEF NetInv
<1>10. ASSUME whole PROVE NetInv'
  <2> DEFINE y == <<fd, p>>
  <2>1. p \in Seq(Byte) /\ left \in Seq(Byte)
    <3>1. size \in Nat /\ data \in Seq(Byte) /\ ~(Len(data) < size)
      BY <1>6, <1>10
    <3> QED
      BY <3>1, CutIs DEF p, left
  <2>2. y \in Packets /\ y[1] = fd
    BY <1>2, <2>1 DEF Packets
  <2>3. RingOK(q') /\ q'.hash = q.hash /\ InRing(q') = Append(InRing(q), y)
    <3>1. q' = push_data(q, fd, p)
      BY <1>3, <1>10
    <3> QED
      BY <1>1, <1>2, <2>1, <3>1, PushIs
  <2> DEFINE st == IF left = <<>> THEN "more" ELSE "push"
  <2>4. job' = [step |-> st, pkt |-> job.pkt, left |-> left]
    BY <1>1, <1>3, <1>10 DEF Jobs
  <2>5. st \in {"push", "data", "more"} /\ (left = <<>> <=> st # "push") /\ st \in {"push", "more"}
    OBVIOUS
  <2> HIDE DEF st, y
  <2>6. job' \in Jobs /\ job'.step \in {"push", "more"} /\ job'.pkt = job.pkt
    BY <1>1, <2>1, <2>4, <2>5, JobIs
  <2>7. Types'
    BY <1>1, <1>3, <2>3, <2>6 DEF Types
  <2>8. /\ \A a \in Fd : ParsedOK(q'.hash, a, stream[a], ends[a], read[a], job', stale)
        /\ [a \in Fd |-> TakenOf(ends[a], read[a], job', a, stale)] = Taken
    <3>1. Keeps(q.hash, q'.hash, fd) /\ Lacks(q'.hash, fd) /\ OneHalf(q'.hash, fd)
      BY <1>4, <2>3, KeepsSame DEF OneHalf
    <3> QED
      BY <1>8, <2>6, <3>1
  <2>9. Taken' = Taken
    BY <1>3, <2>8 DEF Taken
  <2>10. WaitFor(job', q') = Append(w, y)
    <3> DEFINE o == <<job.pkt>>
               v == InRing(q)
    <3>1. o \in Seq(Packets) /\ v \in Seq(Packets)
      BY <1>1, InRingIs
    <3>2. WaitFor(job', q') = o \o Append(v, y)
      BY <2>3, <2>6 DEF WaitFor
    <3> HIDE DEF o, v
    <3>3. o \o Append(v, y) = Append(o \o v, y)
      BY <2>2, <3>1, JoinAppend
    <3> QED
      BY <1>7, <3>2, <3>3 DEF o, v
  <2>11. Delivered(got, Append(w, y), job', Taken, fails, closes, stale)
    <3> DEFINE j == job'
    <3>1. job.step # "idle" /\ j.step \notin {"idle", "data"} /\ j.pkt = job.pkt
      BY <1>1, <2>6
    <3> HIDE DEF j
    <3> QED
      BY <1>1, <1>2, <1>7, <2>2, <3>1, StaleAnother DEF j
  <2> QED
    BY <1>3, <2>7, <2>8, <2>9, <2>10, <2>11 DEF NetInv
<1> QED
  BY <1>9, <1>10
LEMMA PushMoreInv == ASSUME NetInv, push_more PROVE NetInv'
  BY PushMoreFresh, PushMoreStale

\* Sequences with no element.
LEMMA NoneIs ==
    ASSUME NEW S, NEW s \in Seq(S), Len(s) = 0
    PROVE  s = <<>> /\ \A x : Times(s, x) = 0
<1>1. s = <<>>
  OBVIOUS
<1>2. ASSUME NEW x PROVE Times(s, x) = 0
  <2>1. At(s, x) = {}
    BY DEF At
  <2> QED
    BY <2>1, FS_EmptySet DEF Times
<1> QED
  BY <1>1, <1>2

\* A call of the handler: the packet in hand is handed out.
LEMMA HandledInv ==
    ASSUME NetInv, Handled, job' \in Jobs, RingOK(q'), q'.hash = q.hash, fails' \in 0 .. MaxFails,
           WaitFor(job', q') = InRing(q),
           job'.step = "idle" \/ (job'.step = "more" /\ InRing(q) # <<>> /\ job'.pkt = InRing(q)[1]),
           fails' = 0 => fails = 0 /\ (job'.step = "idle" => InRing(q) = <<>>)
    PROVE  NetInv'
<1>1. /\ job.step \in {"data", "more"} /\ got' = [got EXCEPT ![job.pkt[1]] = Append(@, job.pkt[2])]
      /\ UNCHANGED <<stream, ends, read, closes, stale>>
  BY DEF Handled, peers
<1>2. Types /\ job \in Jobs /\ job.pkt \in Packets /\ job.step # "idle" /\ job.step # "push"
  BY <1>1 DEF NetInv, Types, Jobs
<1>3. job'.step # "push"
  OBVIOUS
<1>4. ASSUME NEW a \in Fd
      PROVE  /\ ParsedOK(q'.hash, a, stream[a], ends[a], read[a], job', stale)
             /\ TakenOf(ends[a], read[a], job', a, stale) = TakenOf(ends[a], read[a], job, a, stale)
  <2>1. ParsedOK(q.hash, a, stream[a], ends[a], read[a], job, stale)
    BY DEF NetInv
  <2>2. ParsedBy(read[a], job', a) = ParsedBy(read[a], job, a)
    BY <1>2, <1>3 DEF ParsedBy
  <2>3. a \notin stale => ParserOK(q'.hash, a, stream[a], ends[a], read[a], job')
    BY <1>3, <2>1, <2>2 DEF ParserOK, ParsedOK
  <2>4. a \in stale => Loose(q'.hash, a, stream[a], ends[a], read[a], job')
    BY <1>3, <2>1 DEF Loose, ParsedOK
  <2> QED
    BY <2>2, <2>3, <2>4 DEF ParsedOK, TakenOf
<1>5. Taken' = Taken
  <2>1. \A a \in Fd : TakenOf(ends[a], read[a], job', a, stale) = TakenOf(ends[a], read[a], job, a, stale)
    BY <1>4
  <2> QED
    BY <1>1, <2>1 DEF Taken
<1>6. got' \in [Fd -> Seq(Seq(Byte))]
  <2> DEFINE fd == job.pkt[1]
             p == job.pkt[2]
             S == Seq(Byte)
  <2>1. fd \in Fd /\ p \in S
    BY <1>2 DEF Packets
  <2>2. got \in [Fd -> Seq(S)]
    BY <1>2 DEF Types
  <2>3. got' = [got EXCEPT ![fd] = Append(@, p)]
    BY <1>1
  <2> HIDE DEF fd, p, S
  <2>4. got' \in [Fd -> Seq(S)]
    BY <2>1, <2>2, <2>3
  <2> QED
    BY <2>4 DEF S
<1>7. Types'
  BY <1>1, <1>2, <1>6 DEF Types
<1>8. Delivered(got', WaitFor(job', q'), job', Taken, fails', closes, stale)
  <2> DEFINE w == InRing(q)
             i == job'
             d == fails'
  <2>1. Goods(got, w, Taken)
    BY GoodsNow
  <2>2. Delivered(got, <<job.pkt>> \o w, job, Taken, fails, closes, stale)
    <3>1. WaitFor(job, q) = <<job.pkt>> \o w
      BY <1>2 DEF WaitFor
    <3> QED
      BY <3>1 DEF NetInv
  <2>3. /\ i.step = "idle" \/ (i.step = "more" /\ w # <<>> /\ i.pkt = w[1])
        /\ d = 0 => fails = 0 /\ (i.step = "idle" => w = <<>>)
    OBVIOUS
  <2> HIDE DEF w, i, d
  <2>4. Delivered([got EXCEPT ![job.pkt[1]] = Append(@, job.pkt[2])], w, i, Taken, d, closes, stale)
    BY <1>2, <2>1, <2>2, <2>3, HandOut
  <2> QED
    BY <1>1, <2>4 DEF w, i, d
<1> QED
  BY <1>1, <1>4, <1>5, <1>7, <1>8 DEF NetInv

\* The ring is empty when its ends meet, and its first packet is the one at head.
LEMMA FirstIs ==
    ASSUME RingOK(q)
    PROVE  /\ q.head = q.tail => InRing(q) = <<>>
           /\ q.head # q.tail => InRing(q) # <<>> /\ InRing(q)[1] = q.ring[q.head]
<1> DEFINE n == Waiting(q)
           w == InRing(q)
<1>1. n \in Nat /\ (n = 0 <=> q.head = q.tail)
  BY PlaceIs
<1>2. w \in Seq(Packets) /\ Len(w) = n /\ \A k \in 1 .. n : w[k] = q.ring[Place(q, k)]
  BY InRingIs
<1>3. Place(q, 1) = q.head
  BY DEF Place, RingOK, Queues
<1> HIDE DEF w, n
<1>4. ASSUME q.head = q.tail PROVE w = <<>>
  <2>1. Len(w) = 0
    BY <1>1, <1>2, <1>4
  <2> QED
    BY <1>2, <2>1, NoneIs
<1>5. ASSUME q.head # q.tail PROVE w # <<>> /\ w[1] = q.ring[q.head]
  <2>1. 1 \in 1 .. n /\ Len(w) # 0
    BY <1>1, <1>2, <1>5
  <2> QED
    BY <1>2, <1>3, <2>1
<1> QED
  BY <1>4, <1>5 DEF w

\* The handler returns.
LEMMA HandlerReturnsInv == ASSUME NetInv, HandlerReturns PROVE NetInv'
<1>1. Types /\ RingOK(q) /\ job \in Jobs /\ job.step \in {"data", "more"} /\ job.pkt \in Packets /\ Handled
      /\ fails' = fails /\ fails \in 0 .. MaxFails
  BY DEF NetInv, Types, Jobs, HandlerReturns, Handled
<1>2. CASE job.step = "more" /\ q.head # q.tail
  <2>1. q' = lpop(q) /\ job' = [job EXCEPT !.pkt = q.ring[q.head]]
    BY <1>2 DEF HandlerReturns
  <2>2. /\ RingOK(lpop(q)) /\ lpop(q).hash = q.hash /\ q.ring[q.head] \in Packets
        /\ InRing(q) = <<q.ring[q.head]>> \o InRing(lpop(q))
    BY <1>1, <1>2, PopIs
  <2>3. job' = [step |-> "more", pkt |-> q.ring[q.head], left |-> <<>>]
    BY <1>1, <1>2, <2>1 DEF Jobs
  <2>4. job' \in Jobs /\ job'.step = "more" /\ job'.pkt = q.ring[q.head]
    <3>1. <<>> \in Seq(Byte)
      OBVIOUS
    <3> QED
      BY <2>2, <2>3, <3>1, JobIs
  <2>5. WaitFor(job', q') = InRing(q)
    BY <2>1, <2>2, <2>4 DEF WaitFor
  <2>6. InRing(q) # <<>> /\ InRing(q)[1] = job'.pkt
    BY <1>1, <1>2, <2>4, FirstIs
  <2> QED
    BY <1>1, <2>1, <2>2, <2>4, <2>5, <2>6, HandledInv
<1>3. CASE ~(job.step = "more" /\ q.head # q.tail)
  <2>1. q' = q /\ job' = Idle
    BY <1>3 DEF HandlerReturns
  <2>2. job' \in Jobs /\ job'.step = "idle"
    BY <2>1, JobIs
  <2>3. WaitFor(job', q') = InRing(q)
    BY <2>1, <2>2 DEF WaitFor
  <2>4. ASSUME fails = 0 PROVE InRing(q) = <<>>
    <3>1. CASE job.step = "more"
      BY <1>1, <1>3, <3>1, FirstIs
    <3>2. CASE job.step = "data"
      <4>1. OrderedIn(got, WaitFor(job, q), job, Taken, stale)
        BY <2>4 DEF NetInv, Delivered
      <4>2. Len(<<job.pkt>> \o InRing(q)) = 1
        BY <3>2, <4>1 DEF OrderedIn, WaitFor
      <4> DEFINE o == <<job.pkt>>
                 w == InRing(q)
      <4>3. o \in Seq(Packets) /\ Len(o) = 1 /\ w \in Seq(Packets) /\ Len(o \o w) = 1
        BY <1>1, <4>2, InRingIs
      <4> HIDE DEF o, w
      <4>4. Len(w) = 0
        <5>1. Len(o \o w) = Len(o) + Len(w) /\ Len(w) \in Nat
          BY <4>3, JoinIs
        <5> QED
          BY <4>3, <5>1
      <4>5. w = <<>>
        BY <4>3, <4>4, NoneIs
      <4> QED
        BY <4>5 DEF w
    <3> QED
      BY <1>1, <3>1, <3>2
  <2> QED
    BY <1>1, <2>1, <2>2, <2>3, <2>4, HandledInv
<1> QED
  BY <1>2, <1>3

\* The handler raises an error.
LEMMA HandlerFailsInv == ASSUME NetInv, HandlerFails PROVE NetInv'
<1>1. RingOK(q) /\ fails \in 0 .. MaxFails /\ MaxFails \in Nat
  BY NetAssumption DEF NetInv, Types
<1>2. Handled /\ q' = q /\ job' = Idle /\ fails' \in 0 .. MaxFails /\ fails' # 0
  BY <1>1 DEF HandlerFails
<1>3. job' \in Jobs /\ job'.step = "idle"
  BY <1>2, JobIs
<1>4. WaitFor(job', q') = InRing(q)
  BY <1>2, <1>3 DEF WaitFor
<1> QED
  BY <1>1, <1>2, <1>3, <1>4, HandledInv

\* A stream that begins.
LEMMA BeginsIs ==
    ASSUME NEW fd \in Fd, NEW h, Lacks(h, fd), NEW j, j.step # "push"
    PROVE  ParserOK(h, fd, <<>>, <<>>, 0, j) /\ TakenAt(<<>>, ParsedBy(0, j, fd)) = 0
<1> DEFINE s == <<>>
           r == 0
<1>1. Framed(s, s, Sent[fd])
  BY SentIs, FramedNone
<1>2. Spot(s, r, r) /\ r \in Nat /\ r <= Len(s) /\ ParsedBy(r, j, fd) = r
  <2>1. Len(s) = 0 /\ Begin(s, r) = 0
    BY DEF Begin
  <2>2. ParsedBy(r, j, fd) = r
    <3> DEFINE l == IF j.step = "push" /\ j.pkt[1] = fd THEN Len(j.left) ELSE 0
    <3>1. l = 0
      OBVIOUS
    <3> HIDE DEF l
    <3>2. 0 - l = 0
      BY <3>1
    <3> QED
      BY <3>2 DEF ParsedBy, l
  <2>3. r \in 0 .. Len(s) /\ Begin(s, r) <= r /\ r = Len(s) /\ r \in Nat /\ r <= Len(s)
    BY <2>1
  <2> HIDE DEF s, r
  <2> QED
    BY <2>2, <2>3 DEF Spot
<1>3. HalfFor(h, fd, s, r, r)
  <2>1. r - Begin(s, r) = 0
    BY DEF Begin
  <2> QED
    BY <2>1 DEF HalfFor
<1>4. Reads(h, fd, s, s, r, r)
  BY <1>1, <1>2, <1>3 DEF Reads
<1> HIDE DEF s, r
<1>5. ParserOK(h, fd, s, s, r, j) /\ TakenAt(s, ParsedBy(r, j, fd)) = r
  BY <1>2, <1>4, ParserNow
<1> QED
  BY <1>5 DEF s, r

\* A descriptor is used again, with a half packet of before or without.
LEMMA ReopenedInv ==
    ASSUME NetInv, NEW fd \in Fd, Reopened(fd), RingOK(q'), InRing(q') = InRing(q), Keeps(q.hash, q'.hash, fd),
           \/ Lacks(q'.hash, fd) /\ stale' = stale \ {fd}
           \/ OneHalf(q'.hash, fd) /\ stale' = stale \cup {fd}
    PROVE  NetInv'
<1>1. /\ job = Idle /\ closes < MaxCloses /\ closes' = closes + 1
      /\ stream' = [stream EXCEPT ![fd] = <<>>] /\ ends' = [ends EXCEPT ![fd] = <<>>]
      /\ read' = [read EXCEPT ![fd] = 0] /\ got' = [got EXCEPT ![fd] = <<>>]
      /\ job' = job /\ fails' = fails
  BY DEF Reopened
<1>2. Types /\ job.step = "idle" /\ RingOK(q)
  BY <1>1, JobIs DEF NetInv, Types
<1>3. fd \in stale' => OneHalf(q'.hash, fd)
  OBVIOUS
<1>4. fd \notin stale' => Lacks(q'.hash, fd)
  OBVIOUS
<1>5. /\ stream'[fd] = <<>> /\ ends'[fd] = <<>> /\ read'[fd] = 0
      /\ \A a \in Fd : a # fd => stream'[a] = stream[a] /\ ends'[a] = ends[a] /\ read'[a] = read[a]
  BY <1>1, <1>2 DEF Types
<1>6. Types'
  <2>1. /\ stream' \in [Fd -> Seq(Byte)] /\ ends' \in [Fd -> Seq(Nat)] /\ read' \in [Fd -> Nat]
        /\ got' \in [Fd -> Seq(Seq(Byte))]
    <3>1. <<>> \in Seq(Byte) /\ <<>> \in Seq(Nat) /\ <<>> \in Seq(Seq(Byte)) /\ 0 \in Nat
      OBVIOUS
    <3>2. /\ stream \in [Fd -> Seq(Byte)] /\ ends \in [Fd -> Seq(Nat)] /\ read \in [Fd -> Nat]
          /\ got \in [Fd -> Seq(Seq(Byte))]
      BY <1>2 DEF Types
    <3> DEFINE S == Seq(Byte)
    <3> HIDE DEF S
    <3>3. got \in [Fd -> Seq(S)] /\ <<>> \in Seq(S)
      BY <3>1, <3>2 DEF S
    <3>4. got' \in [Fd -> Seq(S)]
      BY <1>1, <3>3
    <3> QED
      BY <1>1, <3>1, <3>2, <3>4 DEF S
  <2>2. closes' \in 0 .. MaxCloses
    BY <1>1, <1>2, NetAssumption DEF Types
  <2>3. stale' \subseteq Fd /\ closes' # 0
    BY <1>1, <1>2 DEF Types
  <2> QED
    BY <1>1, <1>2, <2>1, <2>2, <2>3 DEF Types
<1>7. ASSUME NEW a \in Fd
      PROVE  /\ ParsedOK(q'.hash, a, stream'[a], ends'[a], read'[a], job, stale')
             /\ TakenOf(ends'[a], read'[a], job, a, stale') = IF a = fd THEN 0 ELSE Taken[a]
  <2>1. CASE a = fd /\ a \notin stale'
    <3> DEFINE none == <<>>
    <3>1. ParserOK(q'.hash, a, none, none, 0, job) /\ TakenAt(none, ParsedBy(0, job, a)) = 0
      BY <1>2, <1>4, <2>1, BeginsIs
    <3>2. stream'[a] = none /\ ends'[a] = none /\ read'[a] = 0
      BY <1>5, <2>1
    <3> HIDE DEF none
    <3> QED
      BY <2>1, <3>1, <3>2 DEF ParsedOK, TakenOf
  <2>2. CASE a = fd /\ a \in stale'
    <3> DEFINE none == <<>>
    <3>1. Framed(none, none, Sent[a])
      BY SentIs, FramedNone
    <3>2. 0 <= Len(none)
      OBVIOUS
    <3>3. stream'[a] = none /\ ends'[a] = none /\ read'[a] = 0
      BY <1>5, <2>2
    <3> HIDE DEF none
    <3>4. Loose(q'.hash, a, none, none, 0, job)
      BY <1>2, <1>3, <2>2, <3>1, <3>2 DEF Loose
    <3> QED
      BY <2>2, <3>3, <3>4 DEF ParsedOK, TakenOf
  <2>3. CASE a # fd
    <3>1. ParsedOK(q.hash, a, stream[a], ends[a], read[a], job, stale)
      BY DEF NetInv
    <3>2. ParsedOK(q'.hash, a, stream[a], ends[a], read[a], job, stale)
      BY <1>2, <2>3, <3>1, OtherStream
    <3>3. a \in stale' <=> a \in stale
      BY <2>3
    <3>4. ParsedOK(q'.hash, a, stream[a], ends[a], read[a], job, stale')
      BY <3>2, <3>3 DEF ParsedOK
    <3>5. Taken[a] = TakenOf(ends[a], read[a], job, a, stale')
      BY <3>3 DEF Taken, TakenOf
    <3> QED
      BY <1>5, <2>3, <3>4, <3>5
  <2> QED
    BY <2>1, <2>2, <2>3
<1>8. Taken' = [Taken EXCEPT ![fd] = 0]
  <2>1. Taken' = [a \in Fd |-> IF a = fd THEN 0 ELSE Taken[a]]
    BY <1>1, <1>7 DEF Taken
  <2>2. [Taken EXCEPT ![fd] = 0] = [a \in Fd |-> IF a = fd THEN 0 ELSE Taken[a]]
    BY DEF Taken
  <2> QED
    BY <2>1, <2>2
<1>9. Delivered(got', WaitFor(job', q'), job', Taken', fails', closes', stale')
  <2> DEFINE w == WaitFor(job, q)
             d == closes'
             sv == stale'
  <2>1. Goods(got, w, Taken) /\ Delivered(got, w, job, Taken, fails, closes, stale) /\ d # 0
    BY <1>1, <1>2, GoodsNow DEF NetInv, Types
  <2>2. WaitFor(job', q') = w
    BY <1>1, <1>2 DEF WaitFor
  <2>3. stale \subseteq sv \cup {fd}
    OBVIOUS
  <2> HIDE DEF w, d, sv
  <2>4. Delivered([got EXCEPT ![fd] = <<>>], w, job, [Taken EXCEPT ![fd] = 0], fails, d, sv)
    BY <1>2, <2>1, <2>3, CloseOut
  <2> QED
    BY <1>1, <1>8, <2>2, <2>4 DEF d, sv
<1> QED
  BY <1>1, <1>6, <1>7, <1>9 DEF NetInv

\* A CLOSE message.
LEMMA DispatchCloseInv == ASSUME NetInv, NEW fd \in Fd, DispatchClose(fd) PROVE NetInv'
<1>1. Reopened(fd) /\ q' = Unlink(fd) /\ stale' = stale \ {fd}
  BY DEF DispatchClose
<1>2. RingOK(q) /\ OneHalf(q.hash, fd)
  BY LooseIs DEF NetInv, Types
<1>3. RingOK(q') /\ InRing(q') = InRing(q) /\ Lacks(q'.hash, fd) /\ Keeps(q.hash, q'.hash, fd)
  <2>1. CASE Lacks(q.hash, fd)
    <3>1. FindAt(fd) = 0
      <4>1. q.hash \in Lists
        BY <1>2 DEF RingOK, Queues
      <4> QED
        BY <2>1, <4>1, FindIs
    <3> QED
      BY <1>1, <1>2, <2>1, <3>1, KeepsSame DEF Unlink
  <2>2. CASE \E u : Holds(q.hash, fd, u)
    <3>1. PICK u : Holds(q.hash, fd, u)
      BY <2>2
    <3> QED
      BY <1>1, <1>2, <3>1, UnlinkStep
  <2> QED
    BY <1>2, <2>1, <2>2 DEF OneHalf
<1> QED
  BY <1>1, <1>3, ReopenedInv

\* The service closes the descriptor.
LEMMA SocketCloseInv == ASSUME NetInv, NEW fd \in Fd, SocketClose(fd) PROVE NetInv'
<1>1. /\ Reopened(fd) /\ q' = q
      /\ stale' = IF FindAt(fd) = 0 THEN stale \ {fd} ELSE stale \cup {fd}
  BY DEF SocketClose
<1>2. RingOK(q) /\ OneHalf(q.hash, fd)
  BY LooseIs DEF NetInv, Types
<1>3. RingOK(q') /\ InRing(q') = InRing(q) /\ Keeps(q.hash, q'.hash, fd)
  BY <1>1, <1>2, KeepsSame
<1>4. FindAt(fd) = 0 => Lacks(q'.hash, fd)
  <2>1. CASE Lacks(q.hash, fd)
    BY <1>1, <2>1
  <2>2. CASE \E u : Holds(q.hash, fd, u)
    <3>1. PICK u : Holds(q.hash, fd, u)
      BY <2>2
    <3> QED
      BY <1>2, <3>1, UnlinkStep
  <2> QED
    BY <1>2, <2>1, <2>2 DEF OneHalf
<1>5. OneHalf(q'.hash, fd)
  BY <1>1, <1>2
<1> QED
  BY <1>1, <1>3, <1>4, <1>5, ReopenedInv

-----------------------------------------------------------------------------
(* The properties *)

\* Nothing is counted where nothing was taken.
LEMMA CountNone ==
    ASSUME NEW g, NEW tk, \A a \in Fd : tk[a] = 0 /\ g[a] = <<>>
    PROVE  CountedIn(g, <<>>, tk)
<1> SUFFICES ASSUME NEW a \in Fd, NEW x
             PROVE  Times(g[a], x) + Times(<<>>, <<a, x>>) = Times(Take(Sent[a], tk[a]), x)
  BY Zenon DEF CountedIn
<1>1. ASSUME NEW y PROVE Times(<<>>, y) = 0
  <2> DEFINE s == <<>>
  <2>1. s \in Seq(Nat) /\ Len(s) = 0
    OBVIOUS
  <2> HIDE DEF s
  <2>2. Times(s, y) = 0
    BY <2>1, NoneIs
  <2> QED
    BY <2>2 DEF s
<1>2. Take(Sent[a], tk[a]) = <<>>
  <2> DEFINE n == 0
             ps == Sent[a]
             S == Seq(Byte)
  <2>1. ps \in Seq(S) /\ n \in Nat /\ n <= Len(ps)
    <3>1. ps \in Seq(S)
      BY SentIs DEF Sendable
    <3> QED
      BY <3>1
  <2> HIDE DEF n, ps, S
  <2>2. Take(ps, n) \in Seq(S) /\ Len(Take(ps, n)) = n
    BY <2>1, TakeIs
  <2> DEFINE t == Take(ps, n)
  <2>3. t \in Seq(S) /\ Len(t) = 0
    BY <2>2 DEF n
  <2> HIDE DEF t
  <2>4. t = <<>>
    BY <2>3, NoneIs
  <2> QED
    BY <2>4 DEF t, n, ps
<1>3. Times(g[a], x) = 0 /\ Times(<<>>, <<a, x>>) = 0 /\ Times(Take(Sent[a], tk[a]), x) = 0
  BY <1>1, <1>2
<1> QED
  BY <1>3

\* At the start.
LEMMA InitInv == ASSUME Init PROVE NetInv
<1>1. /\ q = lcreate /\ job = Idle /\ fails = 0 /\ closes = 0 /\ stale = {}
      /\ stream = [fd \in Fd |-> <<>>] /\ ends = [fd \in Fd |-> <<>>] /\ read = [fd \in Fd |-> 0]
      /\ got = [fd \in Fd |-> <<>>]
  BY DEF Init
<1>2. job \in Jobs /\ job.step = "idle"
  BY <1>1, JobIs
<1>3. /\ QueueSize \in Nat /\ QueueSize >= 2
      /\ q.cap = QueueSize /\ q.head = 0 /\ q.tail = 0
      /\ q.ring = [k \in 0 .. QueueSize - 1 |-> <<>>] /\ q.hash = [h \in Bucket |-> <<>>]
      /\ q = [cap |-> q.cap, head |-> q.head, tail |-> q.tail, ring |-> q.ring, hash |-> q.hash]
  BY <1>1, NetAssumption DEF lcreate, Bucket
<1>4. q.ring \in [0 .. q.cap - 1 -> Cell] /\ q.ring \in Rings
  BY <1>3 DEF Cell, Rings
<1>5. q.hash \in Lists
  <2>1. <<>> \in Seq(Half)
    OBVIOUS
  <2> QED
    BY <1>3, <2>1 DEF Lists
<1>6. Waiting(q) = 0
  BY <1>3 DEF Waiting
<1>7. RingOK(q)
  <2>1. q \in Queues
    BY <1>3, <1>4, <1>5 DEF Queues
  <2> QED
    BY <1>3, <1>4, <1>6, <2>1 DEF RingOK
<1>8. InRing(q) = <<>> /\ WaitFor(job, q) = <<>>
  <2>1. InRing(q) = <<>>
    BY <1>3, <1>7, FirstIs
  <2> QED
    BY <1>2, <2>1 DEF WaitFor
<1>9. Types
  <2>1. <<>> \in Seq(Byte) /\ <<>> \in Seq(Nat) /\ <<>> \in Seq(Seq(Byte)) /\ 0 \in Nat
    OBVIOUS
  <2>2. 0 \in 0 .. MaxFails /\ 0 \in 0 .. MaxCloses
    BY NetAssumption
  <2> QED
    BY <1>1, <1>2, <1>7, <2>1, <2>2 DEF Types
<1>10. ASSUME NEW a \in Fd
       PROVE  /\ ParsedOK(q.hash, a, stream[a], ends[a], read[a], job, stale)
              /\ TakenOf(ends[a], read[a], job, a, stale) = 0
  <2> DEFINE none == <<>>
  <2>1. Lacks(q.hash, a)
    BY <1>3 DEF Lacks
  <2>2. ParserOK(q.hash, a, none, none, 0, job) /\ TakenAt(none, ParsedBy(0, job, a)) = 0
    BY <1>2, <2>1, BeginsIs
  <2>3. stream[a] = none /\ ends[a] = none /\ read[a] = 0 /\ a \notin stale
    BY <1>1
  <2> HIDE DEF none
  <2> QED
    BY <2>2, <2>3 DEF ParsedOK, TakenOf
<1>11. \A a \in Fd : Taken[a] = 0 /\ got[a] = <<>>
  BY <1>1, <1>10 DEF Taken
<1>12. OrderedIn(got, <<>>, job, Taken, stale)
  <2>1. ASSUME NEW a \in Fd \ stale PROVE OrderedFor(got[a], <<>>, job.step # "idle" /\ job.pkt[1] = a, Taken[a], Sent[a])
    <3>1. OrderedFor(<<>>, <<>>, FALSE, 0, Sent[a])
      BY DEF OrderedFor
    <3>2. (job.step # "idle" /\ job.pkt[1] = a) = FALSE
      BY <1>2
    <3> QED
      BY <1>11, <3>1, <3>2
  <2> QED
    BY <1>2, <2>1 DEF OrderedIn
<1>13. CountedIn(got, <<>>, Taken)
  BY <1>11, CountNone
<1>14. Delivered(got, WaitFor(job, q), job, Taken, fails, closes, stale)
  BY <1>8, <1>12, <1>13 DEF Delivered
<1> QED
  BY <1>9, <1>10, <1>14 DEF NetInv

\* Every step keeps the invariant.
LEMMA NextInv == ASSUME NetInv, [Next]_vars PROVE NetInv'
<1>1. ASSUME NEW fd \in Fd, PeerSends(fd) PROVE NetInv'
  BY <1>1, PeerSendsInv
<1>2. ASSUME NEW fd \in Fd, NEW n \in 1 .. MaxChunk, DispatchData(fd, n) PROVE NetInv'
  BY <1>2, DispatchDataInv
<1>3. ASSUME NEW fd \in Fd, DispatchClose(fd) PROVE NetInv'
  BY <1>3, DispatchCloseInv
<1>4. ASSUME NEW fd \in Fd, SocketClose(fd) PROVE NetInv'
  BY <1>4, SocketCloseInv
<1>5. ASSUME push_more PROVE NetInv'
  BY <1>5, PushMoreInv
<1>6. ASSUME HandlerReturns PROVE NetInv'
  BY <1>6, HandlerReturnsInv
<1>7. ASSUME HandlerFails PROVE NetInv'
  BY <1>7, HandlerFailsInv
<1>8. ASSUME UNCHANGED vars PROVE NetInv'
  <2>1. /\ q' = q /\ stream' = stream /\ ends' = ends /\ read' = read /\ job' = job
        /\ got' = got /\ fails' = fails /\ closes' = closes /\ stale' = stale
    BY <1>8 DEF vars, peers
  <2>2. Taken' = Taken
    BY <2>1 DEF Taken
  <2>3. Types'
    BY <2>1 DEF NetInv, Types
  <2>4. \A fd \in Fd : ParsedOK(q'.hash, fd, stream'[fd], ends'[fd], read'[fd], job', stale')
    BY <2>1 DEF NetInv
  <2>5. Delivered(got', WaitFor(job', q'), job', Taken', fails', closes', stale')
    BY <2>1, <2>2 DEF NetInv
  <2> QED
    BY <2>3, <2>4, <2>5 DEF NetInv
<1> QED
  BY <1>1, <1>2, <1>3, <1>4, <1>5, <1>6, <1>7, <1>8 DEF Next

\* The number of packets read in full is the number taken, unless push_more is at work.
LEMMA CompleteIs ==
    ASSUME NetInv, NEW fd \in Fd, fd \notin stale, ~(job.step = "push" /\ job.pkt[1] = fd)
    PROVE  /\ Complete(fd) = Taken[fd] /\ Taken[fd] \in Nat /\ Taken[fd] <= Len(Sent[fd])
           /\ Reads(q.hash, fd, stream[fd], ends[fd], read[fd], Taken[fd])
<1> DEFINE s == stream[fd]
           e == ends[fd]
           r == read[fd]
           c == Taken[fd]
           ps == Sent[fd]
<1>1. Reads(q.hash, fd, s, e, ParsedBy(r, job, fd), c) /\ r \in Nat /\ c \in Nat /\ c <= Len(Sent[fd])
  BY StreamIs
<1>2. ParsedBy(r, job, fd) = r
  BY <1>1 DEF ParsedBy
<1>3. Reads(q.hash, fd, s, e, r, c)
  BY <1>1, <1>2
<1>4. Framed(s, e, ps) /\ Spot(e, r, c)
  BY <1>3 DEF Reads
<1>5. \A k \in 0 .. Len(e) : Spot(e, r, k) <=> Begin(e, k) <= r /\ (k = Len(e) \/ e[k + 1] > r)
  <2> TAKE k \in 0 .. Len(e)
  <2>1. k # Len(e) => e[k + 1] \in Nat
    <3>1. e \in Seq(Nat)
      BY <1>4 DEF Framed
    <3> HIDE DEF e
    <3> QED
      BY <3>1
  <2> HIDE DEF e, r
  <2> QED
    BY <1>1, <2>1 DEF Spot
<1>6. c \in 0 .. Len(e)
  BY <1>4 DEF Spot
<1> DEFINE C == Complete(fd)
           P(k) == Begin(e, k) <= r /\ (k = Len(e) \/ e[k + 1] > r)
<1>7. C = CHOOSE k \in 0 .. Len(e) : P(k)
  BY DEF Complete
<1>8. P(c)
  BY <1>4, <1>5, <1>6
<1> HIDE DEF P, C
<1>9. C \in 0 .. Len(e) /\ P(C)
  BY <1>6, <1>7, <1>8
<1>10. Spot(e, r, C)
  BY <1>5, <1>9 DEF P
<1>11. C = c
  <2> HIDE DEF s, e, r, c, ps
  <2> QED
    BY <1>1, <1>4, <1>10, SpotUnique
<1> QED
  BY <1>1, <1>3, <1>11 DEF C

\* Sequences of one and of two elements.
LEMMA ShortIs ==
    ASSUME NEW S, NEW s \in Seq(S)
    PROVE  (Len(s) = 1 => s = <<s[1]>>) /\ (Len(s) = 2 => s = <<s[1], s[2]>>)
<1>1. Len(s) \in Nat /\ \A k \in 1 .. Len(s) : s[k] \in S
  OBVIOUS
<1>2. ASSUME Len(s) = 1 PROVE s = <<s[1]>>
  <2> DEFINE t == <<s[1]>>
  <2>1. s[1] \in S
    BY <1>1, <1>2
  <2>2. t \in Seq(S) /\ Len(t) = 1 /\ t[1] = s[1]
    BY <2>1
  <2> HIDE DEF t
  <2>3. \A k \in 1 .. Len(s) : s[k] = t[k]
    BY <1>2, <2>2
  <2>4. s = t
    BY <1>2, <2>2, <2>3, SameSeq
  <2> QED
    BY <2>4 DEF t
<1>3. ASSUME Len(s) = 2 PROVE s = <<s[1], s[2]>>
  <2> DEFINE t == <<s[1], s[2]>>
  <2>1. s[1] \in S /\ s[2] \in S
    BY <1>1, <1>3
  <2>2. t \in Seq(S) /\ Len(t) = 2 /\ t[1] = s[1] /\ t[2] = s[2]
    BY <2>1
  <2> HIDE DEF t
  <2>3. \A k \in 1 .. Len(s) : s[k] = t[k]
    <3>1. \A k \in 1 .. 2 : k = 1 \/ k = 2
      OBVIOUS
    <3> QED
      BY <1>3, <2>2, <3>1
  <2>4. s = t
    BY <1>3, <2>2, <2>3, SameSeq
  <2> QED
    BY <2>4 DEF t
<1> QED
  BY <1>2, <1>3

\* What is read of an unfinished packet is in one half packet, in its list.
LEMMA HalfIs ==
    ASSUME NetInv, NEW fd \in Fd, fd \notin stale, ~(job.step = "push" /\ job.pkt[1] = fd)
    PROVE  HalfPacketExact(fd)
<1> DEFINE s == stream[fd]
           e == ends[fd]
           r == read[fd]
           c == Taken[fd]
           ps == Sent[fd]
           p == ps[c + 1]
           b == Begin(e, c)
           m == r - b
           left == Part(s, b, r)
           list == q.hash[hash_fd(fd)]
           Its(h, k) == q.hash[h][k].id = fd
           Same(k) == left = IF list[k].read = -1 THEN <<list[k].header>>
                             ELSE Header(list[k].size) \o list[k].data
           Only(k) == \A h \in DOMAIN q.hash : \A j \in DOMAIN q.hash[h] : Its(h, j) <=> h = hash_fd(fd) /\ j = k
<1>1. Complete(fd) = c /\ Reads(q.hash, fd, s, e, r, c)
  BY CompleteIs
<1>2. HalfPacketExact(fd) <=>
        IF left = <<>> THEN \A h \in DOMAIN q.hash : \A k \in DOMAIN q.hash[h] : ~Its(h, k)
        ELSE \E k \in DOMAIN list : Same(k) /\ Only(k)
  BY <1>1 DEF HalfPacketExact, Part
<1>3. Framed(s, e, ps) /\ Sendable(ps) /\ r \in Nat /\ r <= Len(s) /\ Spot(e, r, c) /\ s \in Seq(Byte)
  BY <1>1, SentIs DEF Reads, Framed
<1>4. c \in Nat /\ b \in Nat /\ b <= r /\ (r # b => c + 1 \in 1 .. Len(e) /\ r < e[c + 1])
  <2> HIDE DEF s, e, r, c, ps
  <2> QED
    BY <1>3, SpotLast
<1>5. m \in Nat /\ (m = 0 <=> r = b) /\ r = b + m
  <2> HIDE DEF b, r
  <2> QED
    BY <1>3, <1>4
<1>6. left \in Seq(Byte) /\ Len(left) = m /\ \A k \in 1 .. m : left[k] = s[b + k]
  <2> HIDE DEF b, r, s
  <2> QED
    BY <1>3, <1>4, PartIs
<1>7. DOMAIN q.hash = Bucket /\ \A h \in Bucket : q.hash[h] \in Seq(Half) /\ DOMAIN q.hash[h] = 1 .. Len(q.hash[h])
  <2>1. q.hash \in Lists
    BY DEF NetInv, Types, RingOK, Queues
  <2> QED
    BY <2>1 DEF Lists
<1>8. hash_fd(fd) \in Bucket
  BY HashIn
<1>9. HalfFor(q.hash, fd, e, r, c)
  BY <1>1 DEF Reads
<1> HIDE DEF left
<1>10. CASE m = 0
  <2>1. left = <<>>
    BY <1>6, <1>10, NoneIs
  <2>2. Lacks(q.hash, fd)
    BY <1>9, <1>10 DEF HalfFor
  <2> QED
    BY <1>2, <1>7, <2>1, <2>2 DEF Lacks
<1>11. CASE m # 0
  <2>1. left # <<>> /\ c + 1 \in 1 .. Len(e) /\ r < e[c + 1]
    <3>1. left # <<>>
      <4>1. Len(left) # 0
        BY <1>6, <1>11
      <4> QED
        BY <4>1
    <3> QED
      BY <1>4, <1>5, <1>11, <3>1
  <2>2. /\ Len(p) \in Nat /\ p \in Seq(Byte) /\ e[c + 1] = b + 2 + Len(p) /\ e[c + 1] <= Len(s)
        /\ s[b + 1] = Len(p) \div Base /\ s[b + 2] = Len(p) % Base
        /\ \A n \in 0 .. Len(p) : Part(s, b + 2, b + 2 + n) = Take(p, n)
    <3>1. Framed(s, e, ps) /\ Sendable(ps) /\ c \in Nat /\ c + 1 \in 1 .. Len(e)
      BY <1>3, <1>4, <2>1
    <3> HIDE DEF ps, s, e, c
    <3> QED
      BY <3>1, PacketAt
  <2>3. ASSUME NEW u, NEW i, HoldsAt(q.hash, fd, u, i),
               left = IF u.read = -1 THEN <<u.header>> ELSE Header(u.size) \o u.data
        PROVE  HalfPacketExact(fd)
    <3>1. i \in DOMAIN list /\ list[i] = u /\ u.id = fd
      BY <1>7, <1>8, <2>3 DEF HoldsAt
    <3>2. Only(i)
      <4>1. \A h \in Bucket : \A j \in 1 .. Len(q.hash[h]) : Its(h, j) => h = hash_fd(fd) /\ j = i
        BY <2>3 DEF HoldsAt
      <4> QED
        BY <1>7, <3>1, <4>1
    <3>3. Same(i)
      BY <2>3, <3>1
    <3> QED
      BY <1>2, <2>1, <3>1, <3>2, <3>3
  <2>4. CASE m = 1
    <3> DEFINE u == HalfHeader(fd, Len(p) \div Base)
    <3>1. Holds(q.hash, fd, u)
      BY <1>9, <2>4 DEF HalfFor
    <3>2. PICK i : HoldsAt(q.hash, fd, u, i)
      BY <3>1 DEF Holds
    <3>3. u.read = -1 /\ u.header = s[b + 1]
      BY <2>2 DEF HalfHeader
    <3>4. left = <<s[b + 1]>>
      <4>1. left[1] = s[b + 1] /\ Len(left) = 1
        <5>1. 1 \in 1 .. m
          BY <2>4
        <5> QED
          BY <1>6, <2>4, <5>1
      <4> QED
        BY <1>6, <4>1, ShortIs
    <3> HIDE DEF u
    <3>5. left = IF u.read = -1 THEN <<u.header>> ELSE Header(u.size) \o u.data
      BY <3>3, <3>4
    <3> QED
      BY <2>3, <3>2, <3>5
  <2>5. CASE m >= 2
    <3> DEFINE n == m - 2
               d == Take(p, n)
               u == HalfPacket(fd, Len(p), d)
               o == Header(Len(p))
    <3>1. n \in 0 .. Len(p) /\ n \in Nat /\ n <= Len(p) /\ b + 2 + n = r /\ b + 2 <= r /\ b + 2 \in Nat
      <4> DEFINE l == Len(p)
      <4>1. /\ l \in Nat /\ b \in Nat /\ m \in Nat /\ r = b + m /\ m >= 2 /\ r < b + 2 + l
        BY <1>4, <1>5, <2>1, <2>2, <2>5
      <4> HIDE DEF b, r, m, l
      <4>2. m - 2 \in 0 .. l /\ m - 2 \in Nat /\ m - 2 <= l /\ b + 2 + (m - 2) = r /\ b + 2 <= r /\ b + 2 \in Nat
        BY <4>1
      <4> QED
        BY <4>2 DEF l
    <3>2. Holds(q.hash, fd, u)
      BY <1>9, <2>5 DEF HalfFor
    <3>3. PICK i : HoldsAt(q.hash, fd, u, i)
      BY <3>2 DEF Holds
    <3>4. d \in Seq(Byte) /\ Len(d) = n
      <4> HIDE DEF p, n
      <4> QED
        BY <2>2, <3>1, TakeIs
    <3> HIDE DEF n
    <3>5. u.read # -1 /\ u.size = Len(p) /\ u.data = d
      <4> HIDE DEF d
      <4>1. u.read = n /\ u.size = Len(p) /\ u.data = d
        BY <3>4 DEF HalfPacket
      <4> HIDE DEF u
      <4> QED
        BY <3>1, <4>1
    <3>6. Part(s, b + 2, r) = d
      BY <2>2, <3>1
    <3>7. Part(s, b, b + 2) = o
      <4> DEFINE k == b + 2
                 t == Part(s, b, k)
      <4>1. b \in Nat /\ k \in Nat /\ b <= k /\ k <= Len(s) /\ k - b = 2
        <5> HIDE DEF b, r, s
        <5> QED
          BY <1>3, <1>4, <3>1
      <4> HIDE DEF k, b, s
      <4>2. t \in Seq(Byte) /\ Len(t) = k - b /\ \A a \in 1 .. k - b : t[a] = s[b + a]
        BY <1>3, <4>1, PartIs
      <4> HIDE DEF t
      <4>3. 1 \in 1 .. k - b /\ 2 \in 1 .. k - b
        BY <4>1
      <4>4. Len(t) = 2 /\ t[1] = s[b + 1] /\ t[2] = s[b + 2]
        BY <4>1, <4>2, <4>3
      <4>5. t = <<s[b + 1], s[b + 2]>>
        BY <4>2, <4>4, ShortIs
      <4> QED
        BY <2>2, <4>5 DEF t, k, Header
    <3>8. left = o \o d
      <4> DEFINE k == b + 2
      <4>1. Part(s, b, k) = o /\ Part(s, k, r) = d /\ k \in Nat /\ b <= k /\ k <= r
        <5>1. b <= b + 2
          <6> HIDE DEF b
          <6> QED
            BY <1>4
        <5> QED
          BY <3>1, <3>6, <3>7, <5>1
      <4> HIDE DEF k, o, d, b, s, r
      <4>2. Part(s, b, k) \o Part(s, k, r) = Part(s, b, r)
        BY <1>3, <1>4, <4>1, PartJoin
      <4> QED
        BY <4>1, <4>2 DEF left
    <3> HIDE DEF u, d
    <3>9. left = IF u.read = -1 THEN <<u.header>> ELSE Header(u.size) \o u.data
      BY <3>5, <3>8
    <3> QED
      BY <2>3, <3>3, <3>9
  <2>6. m = 1 \/ m >= 2
    <3> HIDE DEF m
    <3> QED
      BY <1>5, <1>11
  <2> QED
    BY <2>4, <2>5, <2>6
<1> QED
  BY <1>10, <1>11

\* The types.
LEMMA TypesAre == ASSUME NetInv PROVE TypeOK
<1>1. Types
  BY DEF NetInv
<1>2. /\ q.cap \in Nat \ {0, 1} /\ DOMAIN q.ring = 0 .. q.cap - 1
      /\ q.head \in 0 .. q.cap - 1 /\ q.tail \in 0 .. q.cap - 1 /\ q.hash \in Lists
  <2>1. /\ q.cap \in Nat /\ q.cap >= 2 /\ q.head \in Nat /\ q.head < q.cap /\ q.tail \in Nat /\ q.tail < q.cap
        /\ q.ring \in [0 .. q.cap - 1 -> Cell] /\ q.hash \in Lists
    BY <1>1 DEF Types, RingOK, Queues
  <2> QED
    BY <2>1
<1>3. ASSUME NEW h \in DOMAIN q.hash, NEW k \in DOMAIN q.hash[h]
      PROVE  LET uc == q.hash[h][k]
             IN  uc.id \in Fd /\ (uc.read = -1 \/ (uc.read = Len(uc.data) /\ uc.read < uc.size))
  <2>1. q.hash[h] \in Seq(Half)
    BY <1>2, <1>3 DEF Lists
  <2>2. q.hash[h][k] \in Half
    BY <1>3, <2>1
  <2> QED
    BY <2>2 DEF Half
<1>4. ASSUME NEW fd \in Fd PROVE read[fd] \in 0 .. Len(stream[fd])
  <2>1. read[fd] \in Nat /\ read[fd] <= Len(stream[fd]) /\ stream[fd] \in Seq(Byte)
    BY LooseIs
  <2>2. Len(stream[fd]) \in Nat
    BY <2>1
  <2> QED
    BY <2>1, <2>2
<1>5. job.step \in {"idle", "push", "data", "more"} /\ (job.left = <<>> <=> job.step # "push")
  BY <1>1 DEF Types, Jobs
<1> QED
  BY <1>1, <1>2, <1>3, <1>4, <1>5 DEF TypeOK, Types

\* Without errors of the handler it has been called with the packets read in full.
LEMMA GotIs ==
    ASSUME NetInv, fails = 0, job = Idle, NEW fd \in Fd, fd \notin stale
    PROVE  got[fd] = Take(Sent[fd], Complete(fd))
<1> DEFINE gs == got[fd]
           ps == Sent[fd]
           c == Taken[fd]
           w == WaitFor(job, q)
           S == Seq(Byte)
<1>1. job.step = "idle"
  BY JobIs
<1>2. Complete(fd) = c /\ c \in Nat /\ c <= Len(ps)
  BY <1>1, CompleteIs
<1>3. OrderedIn(got, w, job, Taken, stale)
  BY DEF NetInv, Delivered
<1>4. (job.step # "idle" /\ job.pkt[1] = fd) = FALSE
  BY <1>1
<1>5. OrderedFor(gs, w, FALSE, c, ps)
  BY <1>3, <1>4 DEF OrderedIn
<1>6. gs \in Seq(S) /\ ps \in Seq(S)
  BY SentIs DEF NetInv, Types, Sendable
<1> HIDE DEF gs, ps, c, w, S
<1>7. c = Len(gs) /\ \A k \in 1 .. Len(gs) : gs[k] = ps[k]
  <2>1. Len(gs) \in Nat
    BY <1>6
  <2> QED
    BY <1>5, <2>1 DEF OrderedFor
<1> DEFINE t == Take(ps, c)
<1>8. t \in Seq(S) /\ Len(t) = c /\ \A k \in 1 .. c : t[k] = ps[k]
  BY <1>2, <1>6, TakeIs
<1> HIDE DEF t
<1>9. gs = t
  BY <1>6, <1>7, <1>8, SameSeq
<1> QED
  BY <1>2, <1>9 DEF t, gs, ps

\* However the streams are cut and mixed, as long as no handler raises an error it
\* has been called, when a DATA message is done, with exactly the packets whose last
\* byte has been read, in order, and what is read of an unfinished packet is in one
\* half packet (filter_data, push_more, push_data, dispatch_socket).
THEOREM PacketsAreExact == Spec => []PacketsExact
<1>1. Init => NetInv
  BY InitInv
<1>2. NetInv /\ [Next]_vars => NetInv'
  BY NextInv
<1>3. NetInv => PacketsExact
  <2> SUFFICES ASSUME NetInv PROVE PacketsExact
    OBVIOUS
  <2>1. TypeOK
    BY TypesAre
  <2>2. \A fd \in Fd \ stale : ~(job.step = "push" /\ job.pkt[1] = fd) => HalfPacketExact(fd)
    BY HalfIs
  <2>3. fails = 0 /\ job = Idle => \A fd \in Fd \ stale : got[fd] = Take(Sent[fd], Complete(fd))
    BY GotIs
  <2> QED
    BY <2>1, <2>2, <2>3 DEF PacketsExact
<1> QED
  BY <1>1, <1>2, <1>3, PTL DEF Spec

\* The packets handed out, in hand and in the ring are the packets read in full.
LEMMA CountIs ==
    ASSUME NetInv, closes = 0, job.step # "push", NEW fd \in Fd, NEW p
    PROVE  Count(fd, p) = Cardinality({k \in 1 .. Complete(fd) : Sent[fd][k] = p})
<1> DEFINE gs == got[fd]
           ps == Sent[fd]
           c == Taken[fd]
           w == InRing(q)
           x == <<fd, p>>
           S == Seq(Byte)
           hand == IF job.pkt = x THEN 1 ELSE 0
<1>0. fd \notin stale
  BY DEF NetInv, Types
<1>1. Complete(fd) = c /\ c \in Nat /\ c <= Len(ps)
  BY <1>0, CompleteIs
<1>2. gs \in Seq(S) /\ ps \in Seq(S) /\ RingOK(q) /\ job \in Jobs
  BY SentIs DEF NetInv, Types, Sendable
<1>3. w \in Seq(Packets)
  BY <1>2, InRingIs
<1>4. CountedIn(got, WaitFor(job, q), Taken)
  BY DEF NetInv, Delivered
<1>5. Times(gs, p) + Times(WaitFor(job, q), x) = Times(Take(ps, c), p)
  BY <1>4 DEF CountedIn
<1>6. Count(fd, p) = Cardinality({k \in DOMAIN gs : gs[k] = p}) + hand + Cardinality({k \in DOMAIN w : w[k] = x})
  BY DEF Count
<1> HIDE DEF gs, ps, c, S
<1>7. Cardinality({k \in DOMAIN gs : gs[k] = p}) = Times(gs, p) /\ Times(gs, p) \in Nat
  <2>1. DOMAIN gs = 1 .. Len(gs)
    BY <1>2
  <2> QED
    BY <1>2, <2>1, TimesIn DEF Times, At
<1>8. Cardinality({k \in 1 .. c : ps[k] = p}) = Times(Take(ps, c), p)
  <2> DEFINE t == Take(ps, c)
  <2>1. t \in Seq(S) /\ Len(t) = c /\ \A k \in 1 .. c : t[k] = ps[k]
    BY <1>1, <1>2, TakeIs
  <2> HIDE DEF t
  <2>2. At(t, p) = {k \in 1 .. c : ps[k] = p}
    BY <2>1 DEF At
  <2> QED
    BY <2>2 DEF Times, t
<1>9. x # <<>> /\ Idle.pkt = <<>>
  BY DEF Idle
<1> HIDE DEF x
<1>10. Cardinality({k \in DOMAIN w : w[k] = x}) = Times(w, x) /\ Times(w, x) \in Nat
  <2> HIDE DEF w
  <2>1. DOMAIN w = 1 .. Len(w)
    BY <1>3
  <2> QED
    BY <1>3, <2>1, TimesIn DEF Times, At
<1>11. Times(WaitFor(job, q), x) = Times(w, x) + hand
  <2>1. CASE job.step = "idle"
    <3>1. hand = 0
      BY <1>2, <1>9, <2>1 DEF Jobs
    <3>2. WaitFor(job, q) = w
      BY <2>1 DEF WaitFor
    <3> HIDE DEF w, hand
    <3> QED
      BY <1>10, <3>1, <3>2
  <2>2. CASE job.step # "idle"
    <3> DEFINE y == job.pkt
    <3>1. y \in Packets /\ WaitFor(job, q) = <<y>> \o w
      BY <1>2, <2>2 DEF WaitFor, Jobs
    <3>2. hand = IF y = x THEN 1 ELSE 0
      OBVIOUS
    <3> HIDE DEF w, y, hand
    <3>3. Times(<<y>> \o w, x) = Times(w, x) + (IF y = x THEN 1 ELSE 0)
      BY <1>3, <3>1, TimesFront
    <3> QED
      BY <3>1, <3>2, <3>3
  <2> QED
    BY <2>1, <2>2
<1>12. hand \in Nat
  OBVIOUS
<1>13. Times(gs, p) + hand + Times(w, x) = Times(Take(ps, c), p)
  <2> DEFINE a == Times(gs, p)
             b == Times(w, x)
             d == Times(WaitFor(job, q), x)
  <2>1. a \in Nat /\ b \in Nat /\ hand \in Nat /\ d = b + hand
    BY <1>7, <1>10, <1>11, <1>12
  <2>2. a + d = Times(Take(ps, c), p)
    BY <1>5
  <2> HIDE DEF a, b, d, hand
  <2>3. a + hand + b = a + d
    BY <2>1
  <2> QED
    BY <2>2, <2>3 DEF a, b
<1>14. Count(fd, p) = Times(gs, p) + hand + Times(w, x)
  BY <1>6, <1>7, <1>10
<1> QED
  BY <1>1, <1>8, <1>13, <1>14 DEF ps, c

\* Errors of the handler lose and repeat no packet: each one read in full has been
\* handed to the handler, is in its hand or waits in the ring, through its growth and
\* wrap-around (expand_queue, push_data, lpop, dispatch_socket).
THEOREM NoPacketIsLost == Spec => []NoPacketLost
<1>1. Init => NetInv
  BY InitInv
<1>2. NetInv /\ [Next]_vars => NetInv'
  BY NextInv
<1>3. NetInv => NoPacketLost
  BY CountIs DEF NoPacketLost
<1> QED
  BY <1>1, <1>2, <1>3, PTL DEF Spec
=============================================================================

-------------------------- MODULE Connection_proofs --------------------------
(***************************************************************************)
(* Proofs about Connection, for any packets, threads and buffer sizes: the *)
(* peer gets every accepted packet whole, once and in order, and wbSize is *)
(* what is queued.                                                         *)
(***************************************************************************)
EXTENDS Connection, TLAPS, FiniteSetTheorems, WellFoundedInduction

-----------------------------------------------------------------------------
(* The inductive invariant *)

\* The places in which the socket thread holds the lock.
Flushing == {"write", "flushed"}

\* writeBuffersLock is with the socket thread while it flushes a buffer that is there,
\* and `written` counts nothing else; at the end of a flush the high list is served first.
Held ==
    /\ lock = Socket <=> pc[Socket] \in Flushing
    /\ lock = Socket => wb.there
    /\ lock # Socket => reg[Socket].written = 0
    /\ pc[Socket] = "flushed" => wb.high # <<>>
    /\ lock # Socket /\ wb.high = <<>> => wb.low = <<>>

\* Before there is a descriptor nothing has happened, and a managed connection has its
\* buffer: RemoveConn takes the entry out of conns first.
Begun ==
    /\ fd = "none" => /\ ~conn.managed /\ wb = NoBuffer
                      /\ wire = <<>> /\ accepted = <<>> /\ warned = <<>>
                      /\ \A t \in Thread : pc[t] = "idle"
    /\ conn.managed => \A t \in Thread : pc[t] \notin {"erase", "close"}

\* What workers are about to write is new.
Sends ==
    /\ pc[Socket] # "send"
    /\ \A w \in Worker : pc[w] = "send" => reg[w].pkt \in Packet \ ToSet(accepted)
    /\ \A v, w \in Worker : pc[v] = "send" /\ pc[w] = "send" /\ reg[v].pkt = reg[w].pkt => v = w

\* The lists: only the first object was written in part, only packets of low priority
\* are on the low list, and a packet is queued once, after it was accepted.
Lists ==
    /\ \A k \in DOMAIN wb.high : k > 1 => wb.high[k].start = 0
    /\ \A k \in DOMAIN wb.low : wb.low[k].start = 0 /\ wb.low[k].pkt \in Low
    /\ \A k \in DOMAIN Line : Line[k].pkt \in ToSet(accepted)
    /\ \A k, l \in DOMAIN Line : Line[k].pkt = Line[l].pkt => k = l

\* wbSize is what is queued, and what the flush has written meanwhile.
Total ==
    /\ IsFiniteSet(Unwritten)
    /\ wb.size = Cardinality(Unwritten) + reg[Socket].written

\* The next threshold is twice the last one.
Warns ==
    conn.managed =>
      /\ wb.warn = IF warned = <<>> THEN 0 ELSE 2 * Threshold[Len(warned) - 1]
      /\ \A k \in DOMAIN warned : warned[k] >= Threshold[k - 1]

\* The pieces of s are the packets of acc, whole, once and in order.
Pieces == [pkt : Packet, from : Nat, to : Nat]
Earlier(acc, p, q) == \A i, j \in DOMAIN acc : acc[i] = p /\ acc[j] = q => i < j
Whole(s, acc) ==
    /\ s \in Seq(Pieces)
    /\ \A k \in DOMAIN s : \E i \in DOMAIN acc : acc[i] = s[k].pkt
    /\ \A i \in DOMAIN acc : \E k \in DOMAIN s : acc[i] = s[k].pkt
    /\ Len(s) > 0 => s[1].from = 0 /\ s[Len(s)].to = PktLen[s[Len(s)].pkt]
    /\ \A k \in DOMAIN s : k + 1 \in DOMAIN s => Follows(s[k], s[k + 1])
    /\ \A k, l \in DOMAIN s : k < l /\ s[k].pkt = s[l].pkt => s[k].to <= s[l].from
    /\ \A k, l \in DOMAIN s :
         k < l /\ s[k].pkt # s[l].pkt /\ (s[k].pkt \in Low <=> s[l].pkt \in Low) =>
           Earlier(acc, s[k].pkt, s[l].pkt)

InOrder == conn.managed => Whole(Stream, accepted)

ConnInv == TypeOK /\ Held /\ Begun /\ Sends /\ Lists /\ Total /\ Warns /\ InOrder

-----------------------------------------------------------------------------
(* Induction over the naturals, and the thresholds of the warnings *)

\* The order of the naturals is well-founded.
LEMMA LessFounded ==
    \E R, S : S = Nat /\ IsWellFoundedOn(R, S) /\ \A x, y \in S : x < y => <<x, y>> \in R
<1> DEFINE R == OpToRel(<, Nat)
<1>1. IsWellFoundedOn(R, Nat)
  BY NatLessThanWellFounded
<1>2. \A x, y \in Nat : x < y => <<x, y>> \in R
  BY DEF OpToRel
<1> QED
  BY <1>1, <1>2, Zenon

\* A set of naturals has a least element.
LEMMA Least ==
    ASSUME NEW T \in SUBSET Nat, T # {}
    PROVE  \E x \in T : \A y \in T : x <= y
<1>1. PICK R, S : S = Nat /\ IsWellFoundedOn(R, S) /\ \A x, y \in S : x < y => <<x, y>> \in R
  BY LessFounded
<1>2. IsWellFoundedOn(R, S) /\ T \subseteq S
  BY <1>1
<1>3. PICK x \in T : \A y \in T : ~(<<y, x>> \in R)
  BY <1>2, WFMin
<1>4. ASSUME NEW y \in T PROVE x <= y
  <2>1. ~(y < x)
    BY <1>1, <1>2, <1>3, Zenon
  <2>2. x \in Nat /\ y \in Nat
    OBVIOUS
  <2> QED
    BY <2>1, <2>2
<1> QED
  BY <1>4

\* Induction, for a set of naturals.
LEMMA SetInduction ==
    ASSUME NEW S \in SUBSET Nat, 0 \in S, \A n \in S : n + 1 \in S
    PROVE  S = Nat
<1> SUFFICES ASSUME S # Nat PROVE FALSE
  OBVIOUS
<1>1. PICK x \in Nat \ S : \A y \in Nat \ S : x <= y
  BY Least
<1>2. x # 0 /\ x - 1 \in S
  BY <1>1
<1> QED
  BY <1>1, <1>2

\* g doubles up to n.
Doubles(g, n) == g \in [Nat -> Nat] /\ g[0] = WarningSize /\ \A i \in 1 .. n : g[i] = 2 * g[i - 1]

\* The recursive definition of Threshold has a solution.
LEMMA ThresholdIs ==
    /\ Threshold[0] = WarningSize /\ \A n \in Nat : Threshold[n] \in Nat \ {0}
    /\ \A n \in Nat : Threshold[n + 1] = 2 * Threshold[n]
<1>0. WarningSize \in Nat \ {0}
  BY ConnectionAssumption
<1> DEFINE S == {n \in Nat : \E g : Doubles(g, n)}
<1>1. S = Nat
  <2>1. 0 \in S
    <3>1. Doubles([i \in Nat |-> WarningSize], 0)
      BY <1>0 DEF Doubles
    <3> QED
      BY <3>1
  <2>2. ASSUME NEW n \in S PROVE n + 1 \in S
    <3>1. PICK g : Doubles(g, n)
      OBVIOUS
    <3> DEFINE h == [i \in Nat |-> IF i = n + 1 THEN 2 * g[n] ELSE g[i]]
    <3>2. n \in Nat /\ g \in [Nat -> Nat]
      BY <3>1 DEF Doubles
    <3>3. h \in [Nat -> Nat] /\ h[0] = WarningSize
      BY <3>1, <3>2 DEF Doubles
    <3>4. ASSUME NEW i \in 1 .. n + 1 PROVE h[i] = 2 * h[i - 1]
      <4>1. CASE i = n + 1
        BY <3>2, <4>1
      <4>2. CASE i \in 1 .. n
        BY <3>1, <3>2, <4>2 DEF Doubles
      <4> QED
        BY <3>2, <4>1, <4>2
    <3>5. Doubles(h, n + 1)
      BY <3>3, <3>4 DEF Doubles
    <3> QED
      BY <3>2, <3>5
  <2> QED
    BY <2>1, <2>2, SetInduction
<1>2. ASSUME NEW n \in Nat, NEW g, Doubles(g, n), NEW h, Doubles(h, n + 1) PROVE g[n] = h[n]
  <2> DEFINE T == {i \in Nat : i <= n => g[i] = h[i]}
  <2>1. 0 \in T
    BY <1>2 DEF Doubles
  <2>2. ASSUME NEW i \in T PROVE i + 1 \in T
    <3>1. CASE i + 1 <= n
      <4>1. i \in Nat /\ g[i] = h[i] /\ i + 1 \in 1 .. n /\ i + 1 \in 1 .. n + 1 /\ (i + 1) - 1 = i
        BY <1>2, <3>1
      <4>2. g[i + 1] = 2 * g[(i + 1) - 1] /\ h[i + 1] = 2 * h[(i + 1) - 1]
        BY <1>2, <4>1 DEF Doubles
      <4> QED
        BY <4>1, <4>2
    <3>2. CASE ~(i + 1 <= n)
      BY <3>2
    <3> QED
      BY <3>1, <3>2
  <2>3. T = Nat
    BY <2>1, <2>2, SetInduction
  <2> QED
    BY <1>2, <2>3
<1> DEFINE f == [n \in Nat |-> (CHOOSE g : Doubles(g, n))[n]]
<1>3. \A n \in Nat : Doubles(CHOOSE g : Doubles(g, n), n)
  BY <1>1
<1>4. f \in [Nat -> Nat] /\ f[0] = WarningSize
  BY <1>3 DEF Doubles
<1>5. ASSUME NEW n \in Nat PROVE f[n + 1] = 2 * f[n]
  <2>1. PICK g : Doubles(g, n) /\ f[n] = g[n]
    BY <1>3
  <2>3. n + 1 \in Nat /\ n + 1 \in 1 .. n + 1 /\ (n + 1) - 1 = n
    OBVIOUS
  <2>5. \A m \in Nat : \E h : Doubles(h, m) /\ f[m] = h[m]
    BY <1>3
  <2> HIDE DEF f
  <2>2. PICK h : Doubles(h, n + 1) /\ f[n + 1] = h[n + 1]
    BY <2>3, <2>5, Zenon
  <2>4. h[n + 1] = 2 * h[(n + 1) - 1]
    BY <2>2, <2>3 DEF Doubles
  <2> QED
    BY <1>2, <2>1, <2>2, <2>3, <2>4
<1> HIDE DEF f
<1>6. f = [k \in Nat |-> IF k = 0 THEN WarningSize ELSE 2 * f[k - 1]]
  <2>1. ASSUME NEW k \in Nat, k # 0 PROVE f[k] = 2 * f[k - 1]
    <3>1. k - 1 \in Nat /\ (k - 1) + 1 = k
      BY <2>1
    <3> QED
      BY <1>5, <3>1
  <2> QED
    BY <1>4, <2>1
<1>7. Threshold = [k \in Nat |-> IF k = 0 THEN WarningSize ELSE 2 * Threshold[k - 1]]
  BY <1>6 DEF Threshold
<1> DEFINE U == {n \in Nat : Threshold[n] \in Nat \ {0}}
<1>8. Threshold[0] = WarningSize /\ \A n \in Nat : Threshold[n + 1] = 2 * Threshold[n]
  <2>1. Threshold[0] = WarningSize
    BY <1>7
  <2>2. ASSUME NEW n \in Nat PROVE Threshold[n + 1] = 2 * Threshold[n]
    <3>1. n + 1 \in Nat /\ n + 1 # 0 /\ (n + 1) - 1 = n
      OBVIOUS
    <3> QED
      BY <1>7, <3>1
  <2> QED
    BY <2>1, <2>2
<1>9. U = Nat
  <2>1. 0 \in U /\ \A n \in U : n + 1 \in U
    BY <1>0, <1>8
  <2> QED
    BY <2>1, SetInduction
<1> QED
  BY <1>8, <1>9

-----------------------------------------------------------------------------
(* Counting bytes *)

\* Bytes a + 1 to b of packet p.
Slice(p, a, b) == {<<p, k>> : k \in a + 1 .. b}

\* There are b - a of them.
LEMMA SliceSize ==
    ASSUME NEW p, NEW a \in Nat, NEW b \in Nat, a <= b
    PROVE  IsFiniteSet(Slice(p, a, b)) /\ Cardinality(Slice(p, a, b)) = b - a
<1> DEFINE I == a + 1 .. b
           T == Slice(p, a, b)
           f == [k \in I |-> <<p, k>>]
<1>1. IsFiniteSet(I) /\ Cardinality(I) = b - a
  <2>1. a + 1 \in Int /\ b \in Int
    OBVIOUS
  <2>2. IsFiniteSet(I) /\ Cardinality(I) = IF a + 1 > b THEN 0 ELSE b - (a + 1) + 1
    BY <2>1, FS_Interval
  <2> QED
    BY <2>2
<1>2. f \in Bijection(I, T)
  <2>1. f \in [I -> T]
    BY DEF Slice
  <2>2. \A k, l \in I : f[k] = f[l] => k = l
    OBVIOUS
  <2>3. \A x \in T : \E k \in I : f[k] = x
    BY DEF Slice
  <2> HIDE DEF f, I, T
  <2> QED
    BY <2>1, <2>2, <2>3 DEF Bijection, Injection, Surjection, IsInjective
<1>3. ExistsBijection(I, T)
  BY <1>2 DEF ExistsBijection
<1> HIDE DEF I, T, f
<1>4. IsFiniteSet(T) /\ Cardinality(T) = Cardinality(I)
  BY <1>1, <1>3, FS_Bijection
<1> QED
  BY <1>1, <1>4 DEF T

\* V has the elements of U and of T, which are others.
Parts(V, U, T) == V = U \cup T /\ U \cap T = {}

\* A set that grows by a slice.
LEMMA SliceAdds ==
    ASSUME NEW p, NEW a \in Nat, NEW b \in Nat, a <= b, NEW U, NEW V, NEW T, T = Slice(p, a, b),
           Parts(V, U, T), IsFiniteSet(U)
    PROVE  IsFiniteSet(V) /\ Cardinality(U) \in Nat /\ Cardinality(V) = Cardinality(U) + (b - a)
<1>1. IsFiniteSet(T) /\ Cardinality(T) = b - a
  BY SliceSize
<1>2. /\ IsFiniteSet(U \cup T)
      /\ Cardinality(U \cup T) = Cardinality(U) + Cardinality(T) - Cardinality(U \cap T)
  BY <1>1, FS_Union
<1>3. U \cap T = {} /\ V = U \cup T
  BY DEF Parts
<1>4. Cardinality(U \cap T) = 0
  BY <1>3, FS_EmptySet
<1>5. Cardinality(U) \in Nat
  BY FS_CardinalityType
<1>6. Cardinality(V) = Cardinality(U) + Cardinality(T) - Cardinality(U \cap T)
  BY <1>2, <1>3, Zenon
<1>7. Cardinality(V) = Cardinality(U) + ((b - a) - 0)
  BY <1>1, <1>4, <1>6
<1>8. IsFiniteSet(V)
  BY <1>2, <1>3
<1> QED
  BY <1>5, <1>7, <1>8

-----------------------------------------------------------------------------
(* Sequences *)

\* A sequence is known by its elements.
LEMMA SameSeq ==
    ASSUME NEW S, NEW s \in Seq(S), NEW t \in Seq(S), Len(s) = Len(t), \A k \in 1 .. Len(s) : s[k] = t[k]
    PROVE  s = t
  OBVIOUS

\* The pieces of w, and of the objects of q after them.
StreamOf(w, q) == w \o [k \in DOMAIN q |-> Piece(q[k].pkt, q[k].start, PktLen[q[k].pkt])]

\* What an object is.
LEMMA ObjectIs ==
    ASSUME NEW o \in WriteObject
    PROVE  /\ o = [pkt |-> o.pkt, start |-> o.start]
           /\ o.pkt \in Packet /\ o.start \in Nat /\ PktLen[o.pkt] \in Nat /\ o.start < PktLen[o.pkt]
           /\ Rest(o) \in Nat \ {0}
           /\ Piece(o.pkt, o.start, PktLen[o.pkt]) \in Pieces
<1>1. /\ o = [pkt |-> o.pkt, start |-> o.start]
      /\ o.pkt \in Packet /\ o.start \in Nat /\ o.start < PktLen[o.pkt]
  BY DEF WriteObject
<1>2. PktLen[o.pkt] \in Nat
  BY <1>1, ConnectionAssumption
<1>3. Piece(o.pkt, o.start, PktLen[o.pkt]) \in Pieces
  BY <1>1, <1>2 DEF Piece, Pieces
<1>4. Rest(o) \in Nat \ {0}
  BY <1>1, <1>2 DEF Rest
<1> QED
  BY <1>1, <1>2, <1>3, <1>4

\* The elements of the two lists in a row.
LEMMA JoinAt ==
    ASSUME NEW S, NEW a \in Seq(S), NEW b \in Seq(S)
    PROVE  /\ a \o b \in Seq(S) /\ Len(a \o b) = Len(a) + Len(b)
           /\ \A k \in 1 .. Len(a) : (a \o b)[k] = a[k]
           /\ \A k \in 1 .. Len(b) : (a \o b)[Len(a) + k] = b[k]
  OBVIOUS

\* The elements of the stream.
LEMMA StreamAt ==
    ASSUME NEW w \in Seq(Pieces), NEW q \in Seq(WriteObject)
    PROVE  /\ StreamOf(w, q) \in Seq(Pieces)
           /\ Len(StreamOf(w, q)) = Len(w) + Len(q)
           /\ \A k \in 1 .. Len(w) : StreamOf(w, q)[k] = w[k]
           /\ \A k \in 1 .. Len(q) :
                StreamOf(w, q)[Len(w) + k] = Piece(q[k].pkt, q[k].start, PktLen[q[k].pkt])
<1> DEFINE f == [k \in DOMAIN q |-> Piece(q[k].pkt, q[k].start, PktLen[q[k].pkt])]
<1>1. \A k \in 1 .. Len(q) : Piece(q[k].pkt, q[k].start, PktLen[q[k].pkt]) \in Pieces
  <2> TAKE k \in 1 .. Len(q)
  <2>1. q[k] \in WriteObject
    OBVIOUS
  <2> QED
    BY <2>1, ObjectIs
<1>2. \A k \in 1 .. Len(q) : f[k] = Piece(q[k].pkt, q[k].start, PktLen[q[k].pkt])
  OBVIOUS
<1>3. f \in Seq(Pieces) /\ Len(f) = Len(q)
  <2>1. DOMAIN f = 1 .. Len(q) /\ f \in [1 .. Len(q) -> Pieces]
    BY <1>1
  <2>2. Len(q) \in Nat
    OBVIOUS
  <2> HIDE DEF f
  <2> QED
    BY <2>1, <2>2
<1>4. StreamOf(w, q) = w \o f
  BY DEF StreamOf
<1> HIDE DEF f
<1>5. /\ w \o f \in Seq(Pieces) /\ Len(w \o f) = Len(w) + Len(f)
      /\ \A k \in 1 .. Len(w) : (w \o f)[k] = w[k]
      /\ \A k \in 1 .. Len(f) : (w \o f)[Len(w) + k] = f[k]
  <2>1. f \in Seq(Pieces) /\ w \in Seq(Pieces)
    BY <1>3
  <2>2. \A g \in Seq(Pieces) :
          /\ w \o g \in Seq(Pieces) /\ Len(w \o g) = Len(w) + Len(g)
          /\ \A k \in 1 .. Len(w) : (w \o g)[k] = w[k]
          /\ \A k \in 1 .. Len(g) : (w \o g)[Len(w) + k] = g[k]
    BY JoinAt
  <2> QED
    BY <2>1, <2>2
<1>6. \A k \in 1 .. Len(q) : (w \o f)[Len(w) + k] = Piece(q[k].pkt, q[k].start, PktLen[q[k].pkt])
  BY <1>2, <1>3, <1>5, Zenon
<1> QED
  BY <1>3, <1>4, <1>5, <1>6, Zenon

-----------------------------------------------------------------------------
(* Streams of whole packets *)

\* t is s with x after its first i elements.
Inserts(s, t, i, x) ==
    /\ i \in 0 .. Len(s) /\ Len(t) = Len(s) + 1
    /\ \A k \in 1 .. i : t[k] = s[k]
    /\ t[i + 1] = x
    /\ \A k \in i + 1 .. Len(s) : t[k + 1] = s[k]

\* p is not in acc, and may come after i pieces of s: a packet ends there, and
\* what follows is of the other priority.
New(acc, p) == \A j \in DOMAIN acc : acc[j] # p
Fits(s, i, p) ==
    /\ i > 0 => s[i].to = PktLen[s[i].pkt]
    /\ \A k \in i + 1 .. Len(s) : s[k].pkt \in Low /\ p \notin Low
    /\ i < Len(s) => s[i + 1].from = 0

\* A new packet takes a place between two others, after all of its priority.
LEMMA InsertWhole ==
    ASSUME NEW s, NEW acc \in Seq(Packet), Whole(s, acc), NEW t \in Seq(Pieces), NEW i,
           NEW p \in Packet, NEW x, x = Piece(p, 0, PktLen[p]), Inserts(s, t, i, x),
           New(acc, p), Fits(s, i, p)
    PROVE  Whole(t, Append(acc, p))
<1> USE DEF Inserts, New, Fits
<1> DEFINE old(k) == IF k <= i THEN k ELSE k - 1
           new == Append(acc, p)
<1>1. s \in Seq(Pieces) /\ Len(s) \in Nat /\ DOMAIN s = 1 .. Len(s) /\ DOMAIN t = 1 .. Len(s) + 1
  BY DEF Whole
<1>2. ASSUME NEW k \in DOMAIN t, k # i + 1
      PROVE  old(k) \in DOMAIN s /\ t[k] = s[old(k)]
  <2>1. CASE k <= i
    BY <1>1, <1>2, <2>1
  <2>2. CASE k > i
    <3>1. k - 1 \in i + 1 .. Len(s) /\ (k - 1) + 1 = k
      BY <1>1, <1>2, <2>2
    <3>2. t[(k - 1) + 1] = s[k - 1]
      BY <3>1
    <3> QED
      BY <1>1, <2>2, <3>1, <3>2
  <2> QED
    BY <1>1, <2>1, <2>2
<1>3. \A k \in DOMAIN s : s[k].pkt # p
  BY <1>1 DEF Whole
<1>4. /\ new \in Seq(Packet) /\ DOMAIN new = 1 .. Len(acc) + 1 /\ new[Len(acc) + 1] = p
      /\ \A j \in DOMAIN acc : j \in DOMAIN new /\ new[j] = acc[j]
      /\ \A j \in DOMAIN new : j # Len(acc) + 1 => j \in DOMAIN acc /\ new[j] = acc[j]
      /\ Len(acc) \in Nat /\ DOMAIN acc = 1 .. Len(acc)
  <2>1. \A a \in Seq(Packet) : \A q \in Packet :
          /\ Append(a, q) \in Seq(Packet) /\ DOMAIN Append(a, q) = 1 .. Len(a) + 1
          /\ Append(a, q)[Len(a) + 1] = q /\ Len(a) \in Nat /\ DOMAIN a = 1 .. Len(a)
          /\ \A j \in 1 .. Len(a) : Append(a, q)[j] = a[j]
    OBVIOUS
  <2>2. /\ new \in Seq(Packet) /\ DOMAIN new = 1 .. Len(acc) + 1
        /\ new[Len(acc) + 1] = p /\ Len(acc) \in Nat /\ DOMAIN acc = 1 .. Len(acc)
        /\ \A j \in 1 .. Len(acc) : new[j] = acc[j]
    BY <2>1
  <2> HIDE DEF new
  <2> QED
    BY <2>2
<1>5. t[i + 1].pkt = p /\ t[i + 1].from = 0 /\ t[i + 1].to = PktLen[p] /\ i + 1 \in DOMAIN t
  BY <1>1 DEF Piece
<1> HIDE DEF new
<1>6. ASSUME NEW k \in DOMAIN t PROVE \E j \in DOMAIN new : new[j] = t[k].pkt
  <2>1. CASE k = i + 1
    BY <1>4, <1>5, <2>1
  <2>2. CASE k # i + 1
    <3>1. PICK j \in DOMAIN acc : acc[j] = s[old(k)].pkt
      BY <1>2, <2>2 DEF Whole
    <3> QED
      BY <1>2, <1>4, <2>2, <3>1
  <2> QED
    BY <2>1, <2>2
<1>7. ASSUME NEW j \in DOMAIN new PROVE \E k \in DOMAIN t : new[j] = t[k].pkt
  <2>1. CASE j = Len(acc) + 1
    BY <1>4, <1>5, <2>1
  <2>2. CASE j # Len(acc) + 1
    <3>1. PICK k \in DOMAIN s : acc[j] = s[k].pkt
      BY <1>4, <2>2 DEF Whole
    <3>2. CASE k <= i
      BY <1>1, <1>4, <2>2, <3>1, <3>2
    <3>3. CASE k > i
      <4>1. k \in i + 1 .. Len(s) /\ k + 1 \in DOMAIN t
        BY <1>1, <3>1, <3>3
      <4> QED
        BY <1>4, <2>2, <3>1, <4>1
    <3> QED
      BY <1>1, <3>2, <3>3
  <2> QED
    BY <2>1, <2>2
<1>8. t[1].from = 0 /\ t[Len(t)].to = PktLen[t[Len(t)].pkt]
  <2>1. t[1].from = 0
    <3>1. CASE i = 0
      BY <1>5, <3>1
    <3>2. CASE i > 0
      BY <1>1, <3>2 DEF Whole
    <3> QED
      BY <3>1, <3>2
  <2>2. CASE i = Len(s)
    BY <1>1, <1>5, <2>1, <2>2
  <2>3. CASE i < Len(s)
    <3>1. t[Len(t)] = s[Len(s)]
      BY <1>1, <2>3
    <3> QED
      BY <1>1, <2>1, <2>3, <3>1 DEF Whole
  <2>4. i = Len(s) \/ i < Len(s)
    <3>1. \A n \in Nat : \A j \in 0 .. n : j = n \/ j < n
      OBVIOUS
    <3> QED
      BY <1>1, <3>1, Zenon
  <2> QED
    BY <2>2, <2>3, <2>4, Zenon
<1>9. ASSUME NEW k \in DOMAIN t, k + 1 \in DOMAIN t PROVE Follows(t[k], t[k + 1])
  <2>1. CASE k = i + 1
    <3>1. i + 1 \in i + 1 .. Len(s)
      BY <1>1, <1>9, <2>1
    <3>2. t[k + 1] = s[i + 1] /\ s[i + 1].from = 0
      BY <1>1, <2>1, <3>1
    <3> QED
      BY <1>5, <2>1, <3>2 DEF Follows
  <2>2. CASE k = i
    <3>1. t[k] = s[i] /\ s[i].to = PktLen[s[i].pkt]
      BY <1>1, <2>2
    <3> QED
      BY <1>5, <2>2, <3>1 DEF Follows
  <2>3. CASE k # i /\ k # i + 1
    <3>1. old(k + 1) = old(k) + 1 /\ k + 1 # i + 1
      BY <1>1, <2>3
    <3>2. old(k) \in DOMAIN s /\ old(k) + 1 \in DOMAIN s /\ t[k] = s[old(k)] /\ t[k + 1] = s[old(k) + 1]
      BY <1>2, <1>9, <2>3, <3>1
    <3> QED
      BY <3>2 DEF Whole
  <2> QED
    BY <2>1, <2>2, <2>3
<1>10. ASSUME NEW k \in DOMAIN t, NEW l \in DOMAIN t, k < l, k # i + 1, l # i + 1
       PROVE  /\ old(k) \in DOMAIN s /\ old(l) \in DOMAIN s /\ old(k) < old(l)
              /\ t[k] = s[old(k)] /\ t[l] = s[old(l)]
  BY <1>1, <1>2, <1>10
<1>11. ASSUME NEW k \in DOMAIN t, NEW l \in DOMAIN t, k < l, t[k].pkt = t[l].pkt PROVE t[k].to <= t[l].from
  <2>1. k # i + 1 /\ l # i + 1
    BY <1>2, <1>3, <1>5, <1>11
  <2>2. PICK a \in DOMAIN s, b \in DOMAIN s : a < b /\ t[k] = s[a] /\ t[l] = s[b]
    BY <1>10, <1>11, <2>1
  <2> QED
    BY <1>11, <2>2 DEF Whole
<1>12. ASSUME NEW k \in DOMAIN t, NEW l \in DOMAIN t, k < l, t[k].pkt # t[l].pkt,
              t[k].pkt \in Low <=> t[l].pkt \in Low
       PROVE  Earlier(new, t[k].pkt, t[l].pkt)
  <2>1. CASE k = i + 1
    <3>1. l - 1 \in i + 1 .. Len(s) /\ (l - 1) + 1 = l
      BY <1>1, <1>12, <2>1
    <3>2. t[(l - 1) + 1] = s[l - 1]
      BY <3>1
    <3>3. t[l].pkt \in Low /\ p \notin Low
      BY <3>1, <3>2
    <3> QED
      BY <1>5, <1>12, <2>1, <3>3
  <2>2. CASE l = i + 1
    <3>1. t[k].pkt # p /\ t[l].pkt = p
      BY <1>5, <1>12, <2>2
    <3>2. \A j \in DOMAIN new : new[j] = p => j = Len(acc) + 1
      BY <1>4
    <3>3. \A j \in DOMAIN new : new[j] # p => j < Len(acc) + 1
      BY <1>4
    <3> QED
      BY <3>1, <3>2, <3>3 DEF Earlier
  <2>3. CASE k # i + 1 /\ l # i + 1
    <3>1. Earlier(acc, t[k].pkt, t[l].pkt)
      <4>1. PICK a \in DOMAIN s, b \in DOMAIN s : a < b /\ t[k] = s[a] /\ t[l] = s[b]
        BY <1>10, <1>12, <2>3
      <4> QED
        BY <1>12, <4>1 DEF Whole
    <3>2. t[k].pkt # p /\ t[l].pkt # p
      BY <1>2, <1>3, <2>3
    <3> QED
      BY <1>4, <3>1, <3>2 DEF Earlier
  <2> QED
    BY <2>1, <2>2, <2>3
<1> QED
  BY <1>6, <1>7, <1>8, <1>9, <1>11, <1>12 DEF Whole, new

\* t is s with piece i cut in two after byte c.
Splits(s, t, i, c) ==
    /\ i \in 1 .. Len(s) /\ c \in Nat /\ s[i].from <= c /\ c <= s[i].to /\ Len(t) = Len(s) + 1
    /\ \A k \in 1 .. i - 1 : t[k] = s[k]
    /\ t[i] = Piece(s[i].pkt, s[i].from, c) /\ t[i + 1] = Piece(s[i].pkt, c, s[i].to)
    /\ \A k \in i + 1 .. Len(s) : t[k + 1] = s[k]

\* A piece is written in two.
LEMMA SplitWhole ==
    ASSUME NEW s, NEW acc, Whole(s, acc), NEW t \in Seq(Pieces), NEW i, NEW c, Splits(s, t, i, c)
    PROVE  Whole(t, acc)
<1> USE DEF Splits
<1> DEFINE old(k) == IF k <= i THEN k ELSE k - 1
<1>1. s \in Seq(Pieces) /\ Len(s) \in Nat /\ DOMAIN s = 1 .. Len(s) /\ DOMAIN t = 1 .. Len(s) + 1
  BY DEF Whole
<1>2. /\ t[i].pkt = s[i].pkt /\ t[i].from = s[i].from /\ t[i].to = c
      /\ t[i + 1].pkt = s[i].pkt /\ t[i + 1].from = c /\ t[i + 1].to = s[i].to
      /\ i \in DOMAIN s /\ i \in DOMAIN t /\ i + 1 \in DOMAIN t /\ i \in Nat
  BY <1>1 DEF Piece
<1>3. ASSUME NEW k \in DOMAIN s PROVE s[k].from \in Nat /\ s[k].to \in Nat
  <2>1. s[k] \in Pieces
    BY <1>1
  <2> QED
    BY <2>1 DEF Pieces
<1>4. ASSUME NEW k \in DOMAIN t, k # i, k # i + 1 PROVE old(k) \in DOMAIN s /\ t[k] = s[old(k)]
  <2>1. CASE k < i
    BY <1>1, <1>2, <2>1
  <2>2. CASE k > i + 1
    <3>1. k - 1 \in i + 1 .. Len(s) /\ (k - 1) + 1 = k
      BY <1>1, <1>2, <2>2
    <3>2. t[(k - 1) + 1] = s[k - 1]
      BY <3>1
    <3> QED
      BY <1>1, <1>2, <2>2, <3>1, <3>2
  <2>3. k \in Nat
    BY <1>1
  <2> QED
    BY <1>2, <1>4, <2>1, <2>2, <2>3
<1>5. ASSUME NEW k \in DOMAIN t
      PROVE  \E a \in DOMAIN s : a = old(k) /\ t[k].pkt = s[a].pkt /\ t[k].from >= s[a].from /\ t[k].to <= s[a].to
  <2>1. CASE k = i
    BY <1>2, <1>3, <2>1
  <2>2. CASE k = i + 1
    BY <1>2, <1>3, <2>2
  <2>3. CASE k # i /\ k # i + 1
    BY <1>3, <1>4, <2>3
  <2> QED
    BY <2>1, <2>2, <2>3
<1>6. ASSUME NEW k \in DOMAIN s PROVE \E l \in DOMAIN t : s[k].pkt = t[l].pkt
  <2>1. CASE k <= i
    <3>1. k = i \/ k \in 1 .. i - 1
      BY <1>1, <1>2, <2>1
    <3> QED
      BY <1>1, <1>2, <3>1
  <2>2. CASE k > i
    <3>1. k \in i + 1 .. Len(s) /\ k + 1 \in DOMAIN t
      BY <1>1, <1>2, <2>2
    <3> QED
      BY <3>1
  <2> QED
    BY <1>1, <1>2, <2>1, <2>2
<1>7. t[1].from = 0 /\ t[Len(t)].to = PktLen[t[Len(t)].pkt]
  <2>0. Len(s) > 0 /\ s[1].from = 0 /\ s[Len(s)].to = PktLen[s[Len(s)].pkt]
    BY <1>1, <1>2 DEF Whole
  <2>1. t[1].from = 0
    <3>1. CASE i = 1
      BY <1>2, <2>0, <3>1
    <3>2. CASE i > 1
      <4>1. t[1] = s[1]
        BY <1>1, <1>2, <3>2
      <4> QED
        BY <2>0, <4>1
    <3>3. i = 1 \/ i > 1
      BY <1>1, <1>2
    <3> QED
      BY <3>1, <3>2, <3>3, Zenon
  <2>2. CASE i = Len(s)
    BY <1>2, <2>0, <2>1, <2>2
  <2>3. CASE i < Len(s)
    <3>1. t[Len(t)] = s[Len(s)]
      BY <1>1, <1>2, <2>3
    <3> QED
      BY <2>0, <2>1, <3>1
  <2>4. i = Len(s) \/ i < Len(s)
    BY <1>1, <1>2
  <2> QED
    BY <2>2, <2>3, <2>4, Zenon
<1>8. ASSUME NEW k \in DOMAIN t, k + 1 \in DOMAIN t PROVE Follows(t[k], t[k + 1])
  <2>1. CASE k = i
    BY <1>2, <2>1 DEF Follows
  <2>2. CASE k = i + 1
    <3>1. i + 1 \in i + 1 .. Len(s) /\ i + 1 \in DOMAIN s
      BY <1>1, <1>2, <1>8, <2>2
    <3>2. t[k + 1] = s[i + 1] /\ Follows(s[i], s[i + 1])
      BY <1>2, <2>2, <3>1 DEF Whole
    <3> QED
      BY <1>2, <2>2, <3>2 DEF Follows
  <2>3. CASE k + 1 = i
    <3>1. k \in DOMAIN s /\ k + 1 \in DOMAIN s /\ t[k] = s[k]
      BY <1>1, <1>2, <2>3
    <3>2. Follows(s[k], s[k + 1])
      BY <3>1 DEF Whole
    <3> QED
      BY <1>2, <2>3, <3>1, <3>2 DEF Follows
  <2>4. CASE k # i /\ k # i + 1 /\ k + 1 # i
    <3>1. old(k + 1) = old(k) + 1 /\ k + 1 # i + 1
      <4>1. k \in Nat /\ (k + 1 < i \/ k > i + 1)
        BY <1>1, <1>2, <2>4
      <4> QED
        BY <1>2, <4>1
    <3>2. old(k) \in DOMAIN s /\ old(k) + 1 \in DOMAIN s /\ t[k] = s[old(k)] /\ t[k + 1] = s[old(k) + 1]
      BY <1>4, <1>8, <2>4, <3>1
    <3> QED
      BY <3>2 DEF Whole
  <2> QED
    BY <2>1, <2>2, <2>3, <2>4
<1>9. ASSUME NEW k \in DOMAIN t, NEW l \in DOMAIN t, k < l
      PROVE  (k = i /\ l = i + 1) \/ old(k) < old(l)
  BY <1>1, <1>2, <1>9
<1>10. ASSUME NEW k \in DOMAIN t, NEW l \in DOMAIN t, k < l, t[k].pkt = t[l].pkt PROVE t[k].to <= t[l].from
  <2>1. CASE k = i /\ l = i + 1
    BY <1>2, <2>1
  <2>2. CASE old(k) < old(l)
    <3>1. PICK a \in DOMAIN s : a = old(k) /\ t[k].pkt = s[a].pkt /\ t[k].to <= s[a].to
      BY <1>5
    <3>2. PICK b \in DOMAIN s : b = old(l) /\ t[l].pkt = s[b].pkt /\ t[l].from >= s[b].from
      BY <1>5
    <3>3. s[a].to <= s[b].from
      <4>1. a < b /\ s[a].pkt = s[b].pkt
        BY <1>10, <2>2, <3>1, <3>2
      <4> QED
        BY <4>1 DEF Whole
    <3>4. t[k].to \in Nat /\ t[l].from \in Nat
      <4>1. t[k] \in Pieces /\ t[l] \in Pieces
        BY <1>1
      <4> QED
        BY <4>1 DEF Pieces
    <3>5. s[a].to \in Nat /\ s[b].from \in Nat
      BY <1>3
    <3>6. \A x, y, u, v \in Nat : x <= y /\ y <= u /\ v >= u => x <= v
      OBVIOUS
    <3> QED
      BY <3>1, <3>2, <3>3, <3>4, <3>5, <3>6, Zenon
  <2> QED
    BY <1>9, <1>10, <2>1, <2>2
<1>11. ASSUME NEW k \in DOMAIN t, NEW l \in DOMAIN t, k < l, t[k].pkt # t[l].pkt,
              t[k].pkt \in Low <=> t[l].pkt \in Low
       PROVE  Earlier(acc, t[k].pkt, t[l].pkt)
  <2>1. old(k) < old(l)
    BY <1>2, <1>9, <1>11
  <2>2. PICK a \in DOMAIN s : a = old(k) /\ t[k].pkt = s[a].pkt
    BY <1>5
  <2>3. PICK b \in DOMAIN s : b = old(l) /\ t[l].pkt = s[b].pkt
    BY <1>5
  <2>4. a < b /\ s[a].pkt # s[b].pkt /\ (s[a].pkt \in Low <=> s[b].pkt \in Low)
    BY <1>11, <2>1, <2>2, <2>3
  <2>5. Earlier(acc, s[a].pkt, s[b].pkt)
    BY <2>4 DEF Whole
  <2> QED
    BY <2>2, <2>3, <2>5
<1>12. \A k \in DOMAIN t : \E j \in DOMAIN acc : acc[j] = t[k].pkt
  <2> TAKE k \in DOMAIN t
  <2>1. PICK a \in DOMAIN s : t[k].pkt = s[a].pkt
    BY <1>5
  <2>2. PICK j \in DOMAIN acc : acc[j] = s[a].pkt
    BY DEF Whole
  <2> QED
    BY <2>1, <2>2
<1>13. \A j \in DOMAIN acc : \E l \in DOMAIN t : acc[j] = t[l].pkt
  <2> TAKE j \in DOMAIN acc
  <2>1. PICK a \in DOMAIN s : acc[j] = s[a].pkt
    BY DEF Whole
  <2> QED
    BY <1>6, <2>1
<1> HIDE DEF old
<1> QED
  BY <1>7, <1>8, <1>10, <1>11, <1>12, <1>13 DEF Whole

-----------------------------------------------------------------------------
(* The queue: what it holds, and what one more object or one write() does *)

\* The bytes of the objects of q.
Bytes(q) == UNION {{<<q[k].pkt, b>> : b \in q[k].start + 1 .. PktLen[q[k].pkt]} : k \in DOMAIN q}

\* They are the slices of the objects.
LEMMA BytesAre ==
    ASSUME NEW q, NEW x
    PROVE  x \in Bytes(q) <=> \E k \in DOMAIN q : x \in Slice(q[k].pkt, q[k].start, PktLen[q[k].pkt])
  BY DEF Bytes, Slice

\* r has the objects of q and one more, of another packet.
Adds(q, r, o) ==
    /\ \A k \in DOMAIN q : q[k].pkt # o.pkt /\ \E l \in DOMAIN r : r[l] = q[k]
    /\ \E l \in DOMAIN r : r[l] = o
    /\ \A l \in DOMAIN r : r[l] = o \/ \E k \in DOMAIN q : r[l] = q[k]

\* Its bytes are added.
LEMMA Grows ==
    ASSUME NEW q \in Seq(WriteObject), NEW r \in Seq(WriteObject), NEW o \in WriteObject,
           Adds(q, r, o), IsFiniteSet(Bytes(q))
    PROVE  /\ IsFiniteSet(Bytes(r)) /\ Cardinality(Bytes(q)) \in Nat
           /\ Cardinality(Bytes(r)) = Cardinality(Bytes(q)) + Rest(o)
<1> USE DEF Adds
<1> DEFINE T == Slice(o.pkt, o.start, PktLen[o.pkt])
           U == Bytes(q)
           V == Bytes(r)
<1>1. o.pkt \in Packet /\ o.start \in Nat /\ PktLen[o.pkt] \in Nat /\ o.start <= PktLen[o.pkt]
  BY ObjectIs
<1>2. ASSUME NEW x PROVE x \in V <=> x \in U \/ x \in T
  <2>1. ASSUME x \in V PROVE x \in U \/ x \in T
    <3>1. PICK l \in DOMAIN r : x \in Slice(r[l].pkt, r[l].start, PktLen[r[l].pkt])
      BY <2>1, BytesAre
    <3>2. CASE r[l] = o
      BY <3>1, <3>2
    <3>3. CASE \E k \in DOMAIN q : r[l] = q[k]
      BY <3>1, <3>3, BytesAre
    <3> QED
      BY <3>2, <3>3
  <2>2. ASSUME x \in U PROVE x \in V
    <3>1. PICK k \in DOMAIN q : x \in Slice(q[k].pkt, q[k].start, PktLen[q[k].pkt])
      BY <2>2, BytesAre
    <3>2. PICK l \in DOMAIN r : r[l] = q[k]
      OBVIOUS
    <3> QED
      BY <3>1, <3>2, BytesAre
  <2>3. ASSUME x \in T PROVE x \in V
    BY <2>3, BytesAre
  <2> QED
    BY <2>1, <2>2, <2>3
<1>3. ASSUME NEW x, x \in U, x \in T PROVE FALSE
  <2>1. PICK k \in DOMAIN q : x \in Slice(q[k].pkt, q[k].start, PktLen[q[k].pkt])
    BY <1>3, BytesAre
  <2>2. x[1] = q[k].pkt /\ x[1] = o.pkt
    BY <1>3, <2>1 DEF Slice
  <2> QED
    BY <2>2
<1> HIDE DEF U, V, T
<1>4. V = U \cup T /\ U \cap T = {}
  BY <1>2, <1>3
<1>5. IsFiniteSet(V) /\ Cardinality(U) \in Nat /\ Cardinality(V) = Cardinality(U) + (PktLen[o.pkt] - o.start)
  <2>1. Parts(V, U, T) /\ T = Slice(o.pkt, o.start, PktLen[o.pkt]) /\ IsFiniteSet(U)
    BY <1>4 DEF Parts, T, U
  <2> QED
    BY <1>1, <2>1, SliceAdds
<1> QED
  BY <1>5 DEF U, V, Rest

\* A new packet is queued at place i + 1, after all of its priority.
LEMMA Enqueued ==
    ASSUME NEW w \in Seq(Pieces), NEW q \in Seq(WriteObject), NEW r \in Seq(WriteObject),
           NEW i, NEW p \in Packet, NEW acc \in Seq(Packet), NEW o, o = [pkt |-> p, start |-> 0],
           Inserts(q, r, i, o), New(acc, p), Whole(StreamOf(w, q), acc), i > 0 \/ Len(q) = 0,
           \A k \in i + 1 .. Len(q) : q[k].start = 0 /\ q[k].pkt \in Low /\ p \notin Low
    PROVE  Whole(StreamOf(w, r), Append(acc, p))
<1>0. /\ i \in 0 .. Len(q) /\ Len(r) = Len(q) + 1 /\ r[i + 1] = [pkt |-> p, start |-> 0]
      /\ \A k \in 1 .. i : r[k] = q[k]
      /\ \A k \in i + 1 .. Len(q) : r[k + 1] = q[k]
  BY DEF Inserts
<1> DEFINE s == StreamOf(w, q)
           t == StreamOf(w, r)
           m == Len(w) + i
<1>1. /\ s \in Seq(Pieces) /\ Len(s) = Len(w) + Len(q)
      /\ \A k \in 1 .. Len(w) : s[k] = w[k]
      /\ \A k \in 1 .. Len(q) : s[Len(w) + k] = Piece(q[k].pkt, q[k].start, PktLen[q[k].pkt])
  BY StreamAt
<1>2. /\ t \in Seq(Pieces) /\ Len(t) = Len(w) + Len(r)
      /\ \A k \in 1 .. Len(w) : t[k] = w[k]
      /\ \A k \in 1 .. Len(r) : t[Len(w) + k] = Piece(r[k].pkt, r[k].start, PktLen[r[k].pkt])
  BY StreamAt
<1>3. Whole(s, acc)
  OBVIOUS
<1> HIDE DEF s, t
<1>4. /\ Len(w) \in Nat /\ Len(q) \in Nat /\ Len(r) = Len(q) + 1 /\ i \in Nat /\ i <= Len(q)
      /\ m \in 0 .. Len(s) /\ Len(t) = Len(s) + 1 /\ Len(s) = Len(w) + Len(q)
  BY <1>0, <1>1, <1>2
<1>5. ASSUME NEW k \in 1 .. m PROVE t[k] = s[k]
  <2>1. CASE k <= Len(w)
    BY <1>1, <1>2, <1>4, <2>1
  <2>2. CASE k > Len(w)
    <3> DEFINE l == k - Len(w)
    <3>1. l \in 1 .. i /\ l \in 1 .. Len(q) /\ l \in 1 .. Len(r) /\ Len(w) + l = k
      BY <1>0, <1>4, <2>2
    <3> HIDE DEF l
    <3>2. r[l] = q[l]
      BY <1>0, <3>1
    <3>3. s[Len(w) + l] = Piece(q[l].pkt, q[l].start, PktLen[q[l].pkt])
      BY <1>1, <3>1
    <3>4. t[Len(w) + l] = Piece(r[l].pkt, r[l].start, PktLen[r[l].pkt])
      BY <1>2, <3>1
    <3> QED
      BY <3>1, <3>2, <3>3, <3>4
  <2> QED
    BY <1>4, <2>1, <2>2
<1>6. t[m + 1] = Piece(p, 0, PktLen[p])
  <2>1. i + 1 \in 1 .. Len(r) /\ Len(w) + (i + 1) = m + 1
    BY <1>4
  <2>2. t[Len(w) + (i + 1)] = Piece(r[i + 1].pkt, r[i + 1].start, PktLen[r[i + 1].pkt])
    BY <1>2, <2>1
  <2> QED
    BY <1>0, <2>1, <2>2
<1>7. ASSUME NEW k \in m + 1 .. Len(s)
      PROVE  t[k + 1] = s[k] /\ s[k].pkt \in Low /\ p \notin Low /\ s[k].from = 0
  <2> DEFINE l == k - Len(w)
  <2>1. /\ l \in i + 1 .. Len(q) /\ l \in 1 .. Len(q) /\ l + 1 \in 1 .. Len(r)
        /\ Len(w) + l = k /\ Len(w) + (l + 1) = k + 1
    BY <1>4
  <2> HIDE DEF l
  <2>2. r[l + 1] = q[l] /\ q[l].start = 0 /\ q[l].pkt \in Low /\ p \notin Low
    BY <1>0, <2>1
  <2>3. s[Len(w) + l] = Piece(q[l].pkt, q[l].start, PktLen[q[l].pkt])
    BY <1>1, <2>1
  <2>4. t[Len(w) + (l + 1)] = Piece(r[l + 1].pkt, r[l + 1].start, PktLen[r[l + 1].pkt])
    BY <1>2, <2>1
  <2> QED
    BY <2>1, <2>2, <2>3, <2>4 DEF Piece
<1>8. m > 0 => s[m].to = PktLen[s[m].pkt]
  <2>1. CASE i > 0
    <3>1. i \in 1 .. Len(q)
      BY <1>4, <2>1
    <3>2. s[m] = Piece(q[i].pkt, q[i].start, PktLen[q[i].pkt])
      BY <1>1, <3>1
    <3> QED
      BY <3>2 DEF Piece
  <2>2. CASE i = 0
    <3>1. m = Len(s)
      BY <1>1, <1>4, <2>2
    <3> QED
      BY <1>3, <1>4, <3>1 DEF Whole
  <2> QED
    BY <1>4, <2>1, <2>2
<1>9. m < Len(s) => s[m + 1].from = 0
  BY <1>4, <1>7
<1> HIDE DEF m
<1>10. Inserts(s, t, m, Piece(p, 0, PktLen[p])) /\ Fits(s, m, p)
  BY <1>4, <1>5, <1>6, <1>7, <1>8, <1>9 DEF Inserts, Fits
<1>11. Whole(t, Append(acc, p))
  BY <1>2, <1>3, <1>10, InsertWhole
<1> QED
  BY <1>11 DEF t

\* List r is q when n bytes of its first object have been written.
Written(q, r, n) ==
    /\ Len(q) > 0 /\ n \in 0 .. Rest(q[1])
    /\ n = Rest(q[1]) => Len(r) = Len(q) - 1 /\ \A k \in 1 .. Len(r) : r[k] = q[k + 1]
    /\ n < Rest(q[1]) => /\ Len(r) = Len(q) /\ r[1] = [pkt |-> q[1].pkt, start |-> q[1].start + n]
                         /\ \A k \in 2 .. Len(q) : r[k] = q[k]

\* The wire when n bytes of o have been written to w.
Wired(w, o, n) == IF n = 0 THEN w ELSE Append(w, Piece(o.pkt, o.start, o.start + n))

\* One more element.
LEMMA AppendAt ==
    ASSUME NEW S, NEW a \in Seq(S), NEW x \in S
    PROVE  /\ Append(a, x) \in Seq(S) /\ Len(Append(a, x)) = Len(a) + 1
           /\ Append(a, x)[Len(a) + 1] = x
           /\ \A k \in 1 .. Len(a) : Append(a, x)[k] = a[k]
  OBVIOUS

\* A write() leaves the stream as it is, but for a piece cut in two.
LEMMA SentStream ==
    ASSUME NEW w \in Seq(Pieces), NEW q \in Seq(WriteObject), NEW r \in Seq(WriteObject), NEW n,
           Written(q, r, n), NEW acc, Whole(StreamOf(w, q), acc), NEW v, v = Wired(w, q[1], n)
    PROVE  v \in Seq(Pieces) /\ Whole(StreamOf(v, r), acc)
<1> DEFINE o == q[1]
           x == Piece(o.pkt, o.start, o.start + n)
           s == StreamOf(w, q)
           t == StreamOf(v, r)
<1>1. Len(q) \in Nat \ {0} /\ o \in WriteObject /\ n \in 0 .. Rest(o) /\ Len(w) \in Nat
  BY DEF Written
<1>2. /\ o = [pkt |-> o.pkt, start |-> o.start]
      /\ o.pkt \in Packet /\ o.start \in Nat /\ PktLen[o.pkt] \in Nat /\ o.start < PktLen[o.pkt]
      /\ Rest(o) \in Nat \ {0} /\ Rest(o) = PktLen[o.pkt] - o.start
  <2> HIDE DEF o
  <2> QED
    BY <1>1, ObjectIs DEF Rest
<1>3. n \in Nat /\ o.start + n \in Nat /\ n <= Rest(o)
  BY <1>1, <1>2
<1>4. x \in Pieces
  BY <1>2, <1>3 DEF Piece, Pieces
<1>5. /\ s \in Seq(Pieces) /\ Len(s) = Len(w) + Len(q)
      /\ \A k \in 1 .. Len(w) : s[k] = w[k]
      /\ \A k \in 1 .. Len(q) : s[Len(w) + k] = Piece(q[k].pkt, q[k].start, PktLen[q[k].pkt])
  BY StreamAt
<1>6. Whole(s, acc)
  OBVIOUS
<1>7. /\ n = Rest(o) => Len(r) = Len(q) - 1 /\ \A k \in 1 .. Len(r) : r[k] = q[k + 1]
      /\ n < Rest(o) => /\ Len(r) = Len(q) /\ r[1] = [pkt |-> o.pkt, start |-> o.start + n]
                        /\ \A k \in 2 .. Len(q) : r[k] = q[k]
  BY DEF Written
<1>8. v = IF n = 0 THEN w ELSE Append(w, x)
  BY DEF Wired
<1>9. s[Len(w) + 1] = Piece(o.pkt, o.start, PktLen[o.pkt])
  <2>1. 1 \in 1 .. Len(q)
    BY <1>1
  <2> HIDE DEF s
  <2> QED
    BY <1>5, <2>1
<1>10. CASE n = 0
  <2>1. v = w
    BY <1>8, <1>10
  <2>2. r = q
    <3>1. Len(r) = Len(q) /\ r[1] = [pkt |-> o.pkt, start |-> o.start + 0] /\ \A k \in 2 .. Len(q) : r[k] = q[k]
      BY <1>2, <1>7, <1>10
    <3>2. r[1] = o
      BY <1>2, <3>1
    <3>3. \A k \in 1 .. Len(q) : r[k] = q[k]
      <4> TAKE k \in 1 .. Len(q)
      <4>1. k = 1 \/ k \in 2 .. Len(q)
        BY <1>1
      <4> QED
        BY <3>1, <3>2, <4>1
    <3> QED
      BY <3>1, <3>3, SameSeq
  <2> QED
    BY <2>1, <2>2
<1>11. ASSUME n > 0
       PROVE  /\ v \in Seq(Pieces) /\ Len(v) = Len(w) + 1 /\ v[Len(w) + 1] = x
              /\ \A k \in 1 .. Len(w) : v[k] = w[k]
  <2>1. v = Append(w, x)
    BY <1>3, <1>8, <1>11
  <2> HIDE DEF x
  <2> QED
    BY <1>4, <2>1, AppendAt
<1>12. ASSUME v \in Seq(Pieces)
       PROVE  /\ t \in Seq(Pieces) /\ Len(t) = Len(v) + Len(r)
              /\ \A k \in 1 .. Len(v) : t[k] = v[k]
              /\ \A k \in 1 .. Len(r) : t[Len(v) + k] = Piece(r[k].pkt, r[k].start, PktLen[r[k].pkt])
  BY <1>12, StreamAt
<1>13. CASE n > 0 /\ n = Rest(o)
  <2>1. x = Piece(o.pkt, o.start, PktLen[o.pkt])
    BY <1>2, <1>13
  <2>5. v \in Seq(Pieces) /\ Len(v) = Len(w) + 1 /\ v[Len(w) + 1] = x /\ \A k \in 1 .. Len(w) : v[k] = w[k]
    BY <1>11, <1>13
  <2>6. /\ t \in Seq(Pieces) /\ Len(t) = Len(v) + Len(r)
        /\ \A k \in 1 .. Len(v) : t[k] = v[k]
        /\ \A k \in 1 .. Len(r) : t[Len(v) + k] = Piece(r[k].pkt, r[k].start, PktLen[r[k].pkt])
    BY <1>12, <2>5
  <2>7. Len(r) = Len(q) - 1 /\ \A k \in 1 .. Len(r) : r[k] = q[k + 1]
    BY <1>7, <1>13
  <2> HIDE DEF s, t, x, o
  <2>8. Len(s) = Len(w) + Len(q) /\ Len(w) \in Nat /\ Len(q) \in Nat \ {0}
    BY <1>1, <1>5
  <2>9. Len(v) = Len(w) + 1 /\ Len(t) = Len(v) + Len(r) /\ Len(r) = Len(q) - 1
    BY <2>5, <2>6, <2>7
  <2>2. Len(t) = Len(s)
    BY <2>8, <2>9
  <2>3. ASSUME NEW k \in 1 .. Len(s) PROVE t[k] = s[k]
    <3>1. CASE k <= Len(w)
      <4>1. k \in 1 .. Len(w) /\ k \in 1 .. Len(v)
        BY <2>8, <2>9, <3>1
      <4> QED
        BY <1>5, <2>5, <2>6, <4>1
    <3>2. CASE k = Len(w) + 1
      <4>1. k \in 1 .. Len(v)
        BY <2>8, <2>9, <3>2
      <4> QED
        BY <1>9, <2>1, <2>5, <2>6, <3>2, <4>1
    <3>3. CASE k > Len(w) + 1
      <4> DEFINE l == k - (Len(w) + 1)
      <4>1. l \in 1 .. Len(r) /\ l + 1 \in 1 .. Len(q) /\ Len(v) + l = k /\ Len(w) + (l + 1) = k
        BY <2>8, <2>9, <3>3
      <4> HIDE DEF l
      <4>2. r[l] = q[l + 1]
        BY <2>7, <4>1
      <4>3. s[Len(w) + (l + 1)] = Piece(q[l + 1].pkt, q[l + 1].start, PktLen[q[l + 1].pkt])
        BY <1>5, <4>1
      <4>4. t[Len(v) + l] = Piece(r[l].pkt, r[l].start, PktLen[r[l].pkt])
        BY <2>6, <4>1
      <4> QED
        BY <4>1, <4>2, <4>3, <4>4
    <3>4. k <= Len(w) \/ k = Len(w) + 1 \/ k > Len(w) + 1
      BY <2>8
    <3> QED
      BY <3>1, <3>2, <3>3, <3>4, Zenon
  <2>4. t = s
    <3>1. t \in Seq(Pieces) /\ s \in Seq(Pieces)
      BY <1>5, <2>6
    <3> QED
      BY <2>2, <2>3, <3>1, SameSeq
  <2> QED
    BY <1>6, <2>4, <2>5 DEF t
<1>14. CASE n > 0 /\ n < Rest(o)
  <2> DEFINE c == o.start + n
             i == Len(w) + 1
  <2>1. v \in Seq(Pieces) /\ Len(v) = i /\ v[i] = x /\ \A k \in 1 .. Len(w) : v[k] = w[k]
    BY <1>11, <1>14
  <2>2. Len(r) = Len(q) /\ r[1] = [pkt |-> o.pkt, start |-> c] /\ \A k \in 2 .. Len(q) : r[k] = q[k]
    BY <1>7, <1>14
  <2>3. s[i].pkt = o.pkt /\ s[i].from = o.start /\ s[i].to = PktLen[o.pkt]
    BY <1>9 DEF Piece
  <2>4. c \in Nat /\ o.start <= c /\ c <= PktLen[o.pkt]
    BY <1>2, <1>3
  <2>5. x = Piece(o.pkt, o.start, c)
    OBVIOUS
  <2>12. t \in Seq(Pieces) /\ Len(t) = i + Len(r)
    BY <1>12, <2>1
  <2> HIDE DEF s, t, x, o, c
  <2>6. i \in 1 .. Len(s) /\ Len(t) = Len(s) + 1
    BY <1>1, <1>5, <2>2, <2>12
  <2>7. \A k \in 1 .. i - 1 : t[k] = s[k]
    <3> TAKE k \in 1 .. i - 1
    <3>1. k \in 1 .. Len(w) /\ k \in 1 .. Len(v)
      BY <1>1, <2>1
    <3> QED
      BY <1>5, <1>12, <2>1, <3>1
  <2>8. t[i] = Piece(o.pkt, o.start, c)
    <3>1. i \in 1 .. Len(v)
      BY <1>1, <2>1
    <3> QED
      BY <1>12, <2>1, <2>5, <3>1
  <2>9. t[i + 1] = Piece(o.pkt, c, PktLen[o.pkt])
    <3>1. 1 \in 1 .. Len(r)
      BY <1>1, <2>2
    <3>2. t[i + 1] = Piece(r[1].pkt, r[1].start, PktLen[r[1].pkt])
      BY <1>12, <2>1, <3>1
    <3> QED
      BY <2>2, <3>2
  <2>10. ASSUME NEW k \in i + 1 .. Len(s) PROVE t[k + 1] = s[k]
    <3> DEFINE l == k - Len(w)
    <3>1. /\ l \in 2 .. Len(q) /\ l \in 1 .. Len(q) /\ l \in 1 .. Len(r)
          /\ Len(w) + l = k /\ i + l = k + 1
      BY <1>1, <1>5, <2>2
    <3> HIDE DEF l
    <3>2. r[l] = q[l]
      BY <2>2, <3>1
    <3>3. s[Len(w) + l] = Piece(q[l].pkt, q[l].start, PktLen[q[l].pkt])
      BY <1>5, <3>1
    <3>4. t[i + l] = Piece(r[l].pkt, r[l].start, PktLen[r[l].pkt])
      BY <1>12, <2>1, <3>1
    <3> QED
      BY <3>1, <3>2, <3>3, <3>4
  <2>11. Splits(s, t, i, c)
    BY <2>3, <2>4, <2>6, <2>7, <2>8, <2>9, <2>10 DEF Splits
  <2>13. Whole(t, acc)
    BY <1>6, <2>11, <2>12, SplitWhole
  <2> QED
    BY <2>1, <2>13 DEF t
<1> HIDE DEF o
<1> QED
  BY <1>2, <1>3, <1>10, <1>13, <1>14

\* No packet is in q twice.
Once(q) == \A k, l \in DOMAIN q : q[k].pkt = q[l].pkt => k = l

\* A write() takes n bytes from those that are queued.
LEMMA SentBytes ==
    ASSUME NEW q \in Seq(WriteObject), NEW r \in Seq(WriteObject), NEW n, Written(q, r, n),
           Once(q), IsFiniteSet(Bytes(q))
    PROVE  /\ IsFiniteSet(Bytes(r)) /\ Cardinality(Bytes(r)) \in Nat
           /\ Cardinality(Bytes(q)) = Cardinality(Bytes(r)) + n
<1> DEFINE o == q[1]
           u == Tail(q)
<1>1. Len(q) \in Nat \ {0} /\ o \in WriteObject /\ n \in 0 .. Rest(o) /\ q # <<>>
  BY DEF Written
<1>2. u \in Seq(WriteObject) /\ Len(u) = Len(q) - 1 /\ \A k \in 1 .. Len(u) : u[k] = q[k + 1]
  BY <1>1
<1>3. Rest(o) \in Nat /\ n \in Nat /\ n <= Rest(o)
  <2> HIDE DEF o
  <2>1. Rest(o) \in Nat \ {0}
    BY <1>1, ObjectIs
  <2> QED
    BY <1>1, <2>1
<1> HIDE DEF u
<1>4. DOMAIN q = 1 .. Len(q) /\ DOMAIN u = 1 .. Len(u) /\ DOMAIN r = 1 .. Len(r) /\ 1 \in DOMAIN q
  BY <1>1, <1>2
<1>5. \A k \in DOMAIN u : k + 1 \in DOMAIN q /\ k + 1 # 1 /\ u[k] = q[k + 1] /\ u[k].pkt # o.pkt
  <2> TAKE k \in DOMAIN u
  <2>1. k + 1 \in DOMAIN q /\ k + 1 # 1 /\ u[k] = q[k + 1]
    BY <1>1, <1>2, <1>4
  <2> QED
    BY <1>4, <2>1 DEF Once
<1>6. IsFiniteSet(Bytes(u))
  <2>1. ASSUME NEW x \in Bytes(u) PROVE x \in Bytes(q)
    <3>1. PICK k \in DOMAIN u : x \in Slice(u[k].pkt, u[k].start, PktLen[u[k].pkt])
      BY BytesAre
    <3> QED
      BY <1>5, <3>1, BytesAre
  <2>2. Bytes(u) \subseteq Bytes(q)
    BY <2>1
  <2> QED
    BY <2>2, FS_Subset
<1>7. Cardinality(Bytes(u)) \in Nat /\ Cardinality(Bytes(q)) = Cardinality(Bytes(u)) + Rest(o)
  <2>1. \A k \in DOMAIN u : u[k].pkt # o.pkt /\ \E l \in DOMAIN q : q[l] = u[k]
    BY <1>5
  <2>2. \E l \in DOMAIN q : q[l] = o
    BY <1>4
  <2>3. \A l \in DOMAIN q : q[l] = o \/ \E k \in DOMAIN u : q[l] = u[k]
    <3> TAKE l \in DOMAIN q
    <3>1. l = 1 \/ (l - 1 \in DOMAIN u /\ (l - 1) + 1 = l)
      BY <1>1, <1>2, <1>4
    <3> QED
      BY <1>5, <3>1
  <2>4. o \in WriteObject /\ u \in Seq(WriteObject)
    BY <1>1, <1>2
  <2> HIDE DEF o
  <2> QED
    <3>1. Adds(u, q, o)
      BY <2>1, <2>2, <2>3 DEF Adds
    <3> QED
      BY <1>6, <2>4, <3>1, Grows
<1>8. CASE n = Rest(o)
  <2>1. Len(r) = Len(q) - 1 /\ \A k \in 1 .. Len(r) : r[k] = q[k + 1]
    BY <1>8 DEF Written
  <2>2. r = u
    BY <1>2, <2>1, SameSeq
  <2> QED
    BY <1>6, <1>7, <1>8, <2>2
<1>9. CASE n < Rest(o)
  <2> DEFINE m == [pkt |-> o.pkt, start |-> o.start + n]
  <2>1. Len(r) = Len(q) /\ r[1] = m /\ \A k \in 2 .. Len(q) : r[k] = q[k]
    BY <1>9 DEF Written
  <2>2. m \in WriteObject /\ m.pkt = o.pkt
    BY <1>1, <2>1
  <2>3. o.start \in Nat /\ PktLen[o.pkt] \in Nat /\ Rest(o) = PktLen[o.pkt] - o.start
    <3> HIDE DEF o
    <3> QED
      BY <1>1, ObjectIs DEF Rest
  <2>4. Rest(m) = Rest(o) - n
    <3>1. Rest(m) = PktLen[o.pkt] - (o.start + n)
      BY DEF Rest
    <3> QED
      BY <1>3, <2>3, <3>1
  <2> HIDE DEF m
  <2>5. \A k \in DOMAIN u : u[k].pkt # m.pkt /\ \E l \in DOMAIN r : r[l] = u[k]
    <3> TAKE k \in DOMAIN u
    <3>1. k + 1 \in 2 .. Len(q) /\ k + 1 \in DOMAIN r
      BY <1>1, <1>2, <1>4, <2>1
    <3> QED
      BY <1>5, <2>1, <2>2, <3>1
  <2>6. \E l \in DOMAIN r : r[l] = m
    BY <1>1, <1>4, <2>1
  <2>7. \A l \in DOMAIN r : r[l] = m \/ \E k \in DOMAIN u : r[l] = u[k]
    <3> TAKE l \in DOMAIN r
    <3>1. l = 1 \/ (l \in 2 .. Len(q) /\ l - 1 \in DOMAIN u /\ (l - 1) + 1 = l)
      BY <1>1, <1>2, <1>4, <2>1
    <3> QED
      BY <1>5, <2>1, <3>1
  <2>8. IsFiniteSet(Bytes(r)) /\ Cardinality(Bytes(r)) = Cardinality(Bytes(u)) + Rest(m)
    <3>1. Adds(u, r, m)
      BY <2>5, <2>6, <2>7 DEF Adds
    <3> QED
      BY <1>2, <1>6, <2>2, <3>1, Grows
  <2> QED
    BY <1>3, <1>7, <2>4, <2>8
<1> HIDE DEF o
<1> QED
  BY <1>3, <1>8, <1>9

\* One packet more is queued.
LEMMA QueuedBytes ==
    ASSUME NEW q \in Seq(WriteObject), NEW r \in Seq(WriteObject), NEW i, NEW p \in Packet,
           NEW o, o = [pkt |-> p, start |-> 0], Inserts(q, r, i, o),
           \A k \in DOMAIN q : q[k].pkt # p, IsFiniteSet(Bytes(q)), Once(q)
    PROVE  /\ IsFiniteSet(Bytes(r)) /\ Cardinality(Bytes(q)) \in Nat
           /\ Cardinality(Bytes(r)) = Cardinality(Bytes(q)) + PktLen[p] /\ Once(r)
           /\ \A k \in DOMAIN r : r[k].pkt = p \/ \E l \in DOMAIN q : r[k].pkt = q[l].pkt
<1>1. PktLen[p] \in Nat \ {0}
  BY ConnectionAssumption
<1>2. o \in WriteObject /\ o.pkt = p /\ Rest(o) = PktLen[p]
  BY <1>1 DEF WriteObject, Rest
<1>3. /\ i \in 0 .. Len(q) /\ Len(r) = Len(q) + 1 /\ r[i + 1] = o
      /\ \A k \in 1 .. i : r[k] = q[k]
      /\ \A k \in i + 1 .. Len(q) : r[k + 1] = q[k]
  BY DEF Inserts
<1>4. /\ DOMAIN q = 1 .. Len(q) /\ DOMAIN r = 1 .. Len(q) + 1 /\ Len(q) \in Nat /\ i \in Nat /\ i <= Len(q)
      /\ i + 1 \in DOMAIN r
  BY <1>3
<1>5. ASSUME NEW k \in DOMAIN q PROVE \E l \in DOMAIN r : r[l] = q[k]
  <2>1. (k \in 1 .. i /\ k \in DOMAIN r) \/ (k \in i + 1 .. Len(q) /\ k + 1 \in DOMAIN r)
    BY <1>4
  <2> QED
    BY <1>3, <2>1
<1>6. ASSUME NEW l \in DOMAIN r, l # i + 1
      PROVE  \E k \in DOMAIN q : k = (IF l <= i THEN l ELSE l - 1) /\ r[l] = q[k]
  <2>1. CASE l <= i
    BY <1>3, <1>4, <2>1
  <2>2. CASE ~(l <= i)
    <3>1. l - 1 \in i + 1 .. Len(q) /\ l - 1 \in DOMAIN q /\ (l - 1) + 1 = l
      BY <1>4, <1>6, <2>2
    <3>2. r[(l - 1) + 1] = q[l - 1]
      BY <1>3, <3>1
    <3> QED
      BY <2>2, <3>1, <3>2
  <2> QED
    BY <2>1, <2>2
<1>7. \A k \in DOMAIN q : q[k].pkt # o.pkt /\ \E l \in DOMAIN r : r[l] = q[k]
  BY <1>2, <1>5
<1>8. \E l \in DOMAIN r : r[l] = o
  BY <1>3, <1>4
<1>9. \A l \in DOMAIN r : r[l] = o \/ \E k \in DOMAIN q : r[l] = q[k]
  BY <1>3, <1>6
<1>10. /\ IsFiniteSet(Bytes(r)) /\ Cardinality(Bytes(q)) \in Nat
       /\ Cardinality(Bytes(r)) = Cardinality(Bytes(q)) + Rest(o)
  <2>1. Adds(q, r, o)
    BY <1>7, <1>8, <1>9 DEF Adds
  <2> QED
    BY <1>2, <2>1, Grows
<1>11. ASSUME NEW k \in DOMAIN r, NEW l \in DOMAIN r, r[k].pkt = r[l].pkt PROVE k = l
  <2>1. CASE k = i + 1
    BY <1>2, <1>3, <1>6, <1>11, <2>1
  <2>2. CASE l = i + 1
    BY <1>2, <1>3, <1>6, <1>11, <2>2
  <2>3. CASE k # i + 1 /\ l # i + 1
    <3>1. PICK a \in DOMAIN q : a = (IF k <= i THEN k ELSE k - 1) /\ r[k] = q[a]
      BY <1>6, <2>3
    <3>2. PICK b \in DOMAIN q : b = (IF l <= i THEN l ELSE l - 1) /\ r[l] = q[b]
      BY <1>6, <2>3
    <3>3. a = b
      BY <1>11, <3>1, <3>2 DEF Once
    <3> QED
      BY <1>4, <2>3, <3>1, <3>2, <3>3
  <2> QED
    BY <2>1, <2>2, <2>3
<1> QED
  BY <1>2, <1>9, <1>10, <1>11 DEF Once

-----------------------------------------------------------------------------
(* Types *)

\* The parts of TypeOK.
Scalars ==
    /\ fd \in {"none", "opening", "up", "failed", "closed"}
    /\ lock \in Thread \cup {NoThread}
    /\ epoll \in [in : BOOLEAN, out : BOOLEAN] /\ ev \in [in : BOOLEAN, out : BOOLEAN]
    /\ ready \in BOOLEAN /\ eof \in BOOLEAN
    /\ room \in 0 .. Room /\ received \in 0 .. MaxInput /\ input \in 0 .. received
    /\ closes \in 0 .. 2 /\ flips \in 0 .. MaxFlips
ConnT ==
    conn \in [managed : BOOLEAN, connecting : BOOLEAN, paused : BOOLEAN, readSize : 1 .. ReadMax]
WbT ==
    /\ wb \in [there : BOOLEAN, high : Seq(WriteObject), low : Seq(WriteObject), size : Nat, warn : Nat,
               closing : BOOLEAN]
    /\ wb.there \/ wb = NoBuffer
PcT == pc \in [Thread -> Place]
RegT == reg \in [Thread -> [pkt : Packet \cup {NoPacket}, out : BOOLEAN, paused : BOOLEAN, written : Nat]]
LogT == accepted \in Seq(Packet) /\ wire \in Seq(Pieces) /\ warned \in Seq(Nat)

\* TypeOK is their conjunction.
LEMMA TypeParts == TypeOK <=> Scalars /\ ConnT /\ WbT /\ PcT /\ RegT /\ LogT
  BY DEF TypeOK, Scalars, ConnT, WbT, PcT, RegT, LogT, Pieces

\* The same, one step later.
LEMMA TypePartsNext == TypeOK' <=> Scalars' /\ ConnT' /\ WbT' /\ PcT' /\ RegT' /\ LogT'
  BY DEF TypeOK, Scalars, ConnT, WbT, PcT, RegT, LogT, Pieces

\* Setting `out` or `paused` keeps the types of the registers.
LEMMA RegSet ==
    ASSUME RegT, NEW t \in Thread, NEW b \in BOOLEAN,
           reg' = [reg EXCEPT ![t].out = b] \/ reg' = [reg EXCEPT ![t].paused = b]
    PROVE  RegT'
  BY DEF RegT

\* CLOSE messages are counted up to two.
LEMMA PostsType ==
    ASSUME closes \in 0 .. 2, Posts(1)
    PROVE  closes' \in 0 .. 2
<1>1. closes' = IF closes + 1 > 2 THEN 2 ELSE closes + 1
  BY DEF Posts
<1> QED
  BY <1>1

\* The steps that leave the lists and the log alone keep the types.
LEMMA TypeRuns ==
    ASSUME TypeOK, NEW t \in Thread, ModifyEvent(t) \/ EpollCtl(t) \/ RemoveConn(t) \/ Close(t)
    PROVE  TypeOK'
<1>0. Scalars /\ ConnT /\ WbT /\ PcT /\ RegT /\ LogT
  BY TypeParts
<1> USE <1>0 DEF Goto, At, kernel, send, recv, poll, log, Place, Thread
<1>1. CASE ModifyEvent(t)
  <2>1. Scalars'
    BY <1>1, ConnectionAssumption DEF ModifyEvent, Scalars
  <2>2. ConnT'
    BY <1>1, ConnectionAssumption DEF ModifyEvent, ConnT
  <2>3. WbT'
    BY <1>1, ConnectionAssumption DEF ModifyEvent, WbT
  <2>4. PcT'
    BY <1>1, ConnectionAssumption DEF ModifyEvent, PcT
  <2>5. RegT'
    <3>1. (conn.managed /\ conn.paused) \in BOOLEAN
      OBVIOUS
    <3> QED
      BY <1>1, <3>1, RegSet DEF ModifyEvent
  <2>6. LogT'
    BY <1>1, ConnectionAssumption DEF ModifyEvent, LogT
  <2> QED
    BY <2>1, <2>2, <2>3, <2>4, <2>5, <2>6, TypePartsNext
<1>2. CASE EpollCtl(t)
  <2>1. Scalars'
    <3>1. lock' \in Thread \cup {NoThread}
      BY <1>2 DEF EpollCtl, Scalars
    <3>2. epoll' \in [in : BOOLEAN, out : BOOLEAN] /\ ready' \in BOOLEAN
      <4>1. reg[t].out \in BOOLEAN
        BY DEF RegT
      <4>2. CASE Open
        <5>1. epoll' = [in |-> ~reg[t].paused, out |-> reg[t].out]
          BY <1>2, <4>2 DEF EpollCtl
        <5>2. ready' \in BOOLEAN
          BY <1>2, <4>2 DEF EpollCtl
        <5>3. (~reg[t].paused) \in BOOLEAN
          OBVIOUS
        <5> QED
          BY <4>1, <5>1, <5>2, <5>3
      <4>3. CASE ~Open
        BY <1>2, <4>3 DEF EpollCtl, Scalars
      <4> QED
        BY <4>2, <4>3
    <3> QED
      BY <1>2, <3>1, <3>2 DEF EpollCtl, Scalars
  <2>2. ConnT'
    BY <1>2, ConnectionAssumption DEF EpollCtl, Readable, Writable, ConnT
  <2>3. WbT'
    BY <1>2, ConnectionAssumption DEF EpollCtl, Readable, Writable, WbT
  <2>4. PcT'
    BY <1>2, ConnectionAssumption DEF EpollCtl, Readable, Writable, PcT
  <2>5. RegT'
    BY <1>2, ConnectionAssumption DEF EpollCtl, Readable, Writable, RegT
  <2>6. LogT'
    BY <1>2, ConnectionAssumption DEF EpollCtl, Readable, Writable, LogT
  <2> QED
    BY <2>1, <2>2, <2>3, <2>4, <2>5, <2>6, TypePartsNext
<1>3. CASE RemoveConn(t)
  <2>1. Scalars'
    BY <1>3, ConnectionAssumption DEF RemoveConn, Scalars
  <2>2. ConnT'
    BY <1>3, ConnectionAssumption DEF RemoveConn, ConnT
  <2>3. WbT'
    BY <1>3, ConnectionAssumption DEF RemoveConn, WbT
  <2>4. PcT'
    BY <1>3, ConnectionAssumption DEF RemoveConn, PcT
  <2>5. RegT'
    BY <1>3, ConnectionAssumption DEF RemoveConn, RegT
  <2>6. LogT'
    BY <1>3, ConnectionAssumption DEF RemoveConn, LogT
  <2> QED
    BY <2>1, <2>2, <2>3, <2>4, <2>5, <2>6, TypePartsNext
<1>4. CASE Close(t)
  <2>1. Scalars'
    BY <1>4, ConnectionAssumption DEF Close, Scalars
  <2>2. ConnT'
    BY <1>4, ConnectionAssumption DEF Close, ConnT
  <2>3. WbT'
    BY <1>4, ConnectionAssumption DEF Close, WbT
  <2>4. PcT'
    BY <1>4, ConnectionAssumption DEF Close, PcT
  <2>5. RegT'
    BY <1>4, ConnectionAssumption DEF Close, RegT
  <2>6. LogT'
    BY <1>4, ConnectionAssumption DEF Close, LogT
  <2> QED
    BY <2>1, <2>2, <2>3, <2>4, <2>5, <2>6, TypePartsNext
<1> QED
  BY <1>1, <1>2, <1>3, <1>4

\* So do those of the socket thread,
LEMMA TypeSocket ==
    ASSUME TypeOK, \/ OnAccept \/ EpollWait \/ OnEvent \/ OnConnectFinish \/ Notify
                   \/ OnWriteable \/ LockBuffer
                   \/ SkipRead \/ ReadData \/ ReadNothing \/ NotifyClose
    PROVE  TypeOK'
<1>0. Scalars /\ ConnT /\ WbT /\ PcT /\ RegT /\ LogT
  BY TypeParts
<1> USE <1>0 DEF Goto, At, kernel, send, recv, poll, log, Place, Thread
<1>1. CASE OnAccept
  <2>1. Scalars'
    BY <1>1, ConnectionAssumption DEF OnAccept, Scalars
  <2>2. ConnT'
    BY <1>1, ConnectionAssumption DEF OnAccept, ConnT
  <2>3. WbT'
    BY <1>1, ConnectionAssumption DEF OnAccept, WbT
  <2>4. PcT'
    BY <1>1, ConnectionAssumption DEF OnAccept, PcT
  <2>5. RegT'
    BY <1>1, ConnectionAssumption DEF OnAccept, RegT
  <2>6. LogT'
    BY <1>1, ConnectionAssumption DEF OnAccept, LogT
  <2> QED
    BY <2>1, <2>2, <2>3, <2>4, <2>5, <2>6, TypePartsNext
<1>2. CASE EpollWait
  <2>1. Scalars'
    BY <1>2, ConnectionAssumption DEF EpollWait, Readable, Writable, Scalars
  <2>2. ConnT'
    BY <1>2, ConnectionAssumption DEF EpollWait, Readable, Writable, ConnT
  <2>3. WbT'
    BY <1>2, ConnectionAssumption DEF EpollWait, Readable, Writable, WbT
  <2>4. PcT'
    BY <1>2, ConnectionAssumption DEF EpollWait, Readable, Writable, PcT
  <2>5. RegT'
    BY <1>2, ConnectionAssumption DEF EpollWait, Readable, Writable, RegT
  <2>6. LogT'
    BY <1>2, ConnectionAssumption DEF EpollWait, Readable, Writable, LogT
  <2> QED
    BY <2>1, <2>2, <2>3, <2>4, <2>5, <2>6, TypePartsNext
<1>3. CASE OnEvent
  <2>1. Scalars'
    BY <1>3, ConnectionAssumption DEF OnEvent, Scalars
  <2>2. ConnT'
    BY <1>3, ConnectionAssumption DEF OnEvent, ConnT
  <2>3. WbT'
    BY <1>3, ConnectionAssumption DEF OnEvent, WbT
  <2>4. PcT'
    BY <1>3, ConnectionAssumption DEF OnEvent, PcT
  <2>5. RegT'
    BY <1>3, ConnectionAssumption DEF OnEvent, RegT
  <2>6. LogT'
    BY <1>3, ConnectionAssumption DEF OnEvent, LogT
  <2> QED
    BY <2>1, <2>2, <2>3, <2>4, <2>5, <2>6, TypePartsNext
<1>4. CASE OnConnectFinish
  <2>1. Scalars'
    BY <1>4, ConnectionAssumption DEF OnConnectFinish, Scalars
  <2>2. ConnT'
    BY <1>4, ConnectionAssumption DEF OnConnectFinish, ConnT
  <2>3. WbT'
    BY <1>4, ConnectionAssumption DEF OnConnectFinish, WbT
  <2>4. PcT'
    BY <1>4, ConnectionAssumption DEF OnConnectFinish, PcT
  <2>5. RegT'
    <3>1. CASE fd = "up"
      BY <1>4, <3>1, RegSet DEF OnConnectFinish
    <3>2. CASE fd # "up"
      BY <1>4, <3>2 DEF OnConnectFinish, RegT
    <3> QED
      BY <3>1, <3>2
  <2>6. LogT'
    BY <1>4, ConnectionAssumption DEF OnConnectFinish, LogT
  <2> QED
    BY <2>1, <2>2, <2>3, <2>4, <2>5, <2>6, TypePartsNext
<1>5. CASE Notify
  <2>1. Scalars'
    <3>1. closes' \in 0 .. 2
      BY <1>5, PostsType DEF Notify, Scalars
    <3>2. ready' \in BOOLEAN /\ eof' \in BOOLEAN
      BY <1>5 DEF Notify, Scalars
    <3> QED
      BY <1>5, <3>1, <3>2 DEF Notify, Scalars
  <2>2. ConnT'
    BY <1>5, ConnectionAssumption DEF Notify, Posts, ConnT
  <2>3. WbT'
    BY <1>5, ConnectionAssumption DEF Notify, Posts, WbT
  <2>4. PcT'
    BY <1>5, ConnectionAssumption DEF Notify, Posts, PcT
  <2>5. RegT'
    BY <1>5, ConnectionAssumption DEF Notify, Posts, RegT
  <2>6. LogT'
    BY <1>5, ConnectionAssumption DEF Notify, Posts, LogT
  <2> QED
    BY <2>1, <2>2, <2>3, <2>4, <2>5, <2>6, TypePartsNext
<1>6. CASE OnWriteable
  <2>1. Scalars'
    BY <1>6, ConnectionAssumption DEF OnWriteable, Scalars
  <2>2. ConnT'
    BY <1>6, ConnectionAssumption DEF OnWriteable, ConnT
  <2>3. WbT'
    BY <1>6, ConnectionAssumption DEF OnWriteable, WbT
  <2>4. PcT'
    BY <1>6, ConnectionAssumption DEF OnWriteable, PcT
  <2>5. RegT'
    BY <1>6, ConnectionAssumption DEF OnWriteable, RegT
  <2>6. LogT'
    BY <1>6, ConnectionAssumption DEF OnWriteable, LogT
  <2> QED
    BY <2>1, <2>2, <2>3, <2>4, <2>5, <2>6, TypePartsNext
<1>7. CASE LockBuffer
  <2>1. Scalars'
    BY <1>7, ConnectionAssumption DEF LockBuffer, Scalars
  <2>2. ConnT'
    BY <1>7, ConnectionAssumption DEF LockBuffer, ConnT
  <2>3. WbT'
    BY <1>7, ConnectionAssumption DEF LockBuffer, WbT
  <2>4. PcT'
    BY <1>7, ConnectionAssumption DEF LockBuffer, PcT
  <2>5. RegT'
    BY <1>7, ConnectionAssumption DEF LockBuffer, RegT
  <2>6. LogT'
    BY <1>7, ConnectionAssumption DEF LockBuffer, LogT
  <2> QED
    BY <2>1, <2>2, <2>3, <2>4, <2>5, <2>6, TypePartsNext
<1>8. CASE SkipRead
  <2>1. Scalars'
    BY <1>8, ConnectionAssumption DEF SkipRead, Scalars
  <2>2. ConnT'
    BY <1>8, ConnectionAssumption DEF SkipRead, ConnT
  <2>3. WbT'
    BY <1>8, ConnectionAssumption DEF SkipRead, WbT
  <2>4. PcT'
    BY <1>8, ConnectionAssumption DEF SkipRead, PcT
  <2>5. RegT'
    BY <1>8, ConnectionAssumption DEF SkipRead, RegT
  <2>6. LogT'
    BY <1>8, ConnectionAssumption DEF SkipRead, LogT
  <2> QED
    BY <2>1, <2>2, <2>3, <2>4, <2>5, <2>6, TypePartsNext
<1>9. CASE ReadData
  <2>1. Scalars'
    <3>1. input \in Nat /\ conn.readSize \in Nat /\ input \in 0 .. received /\ received \in Nat
      BY ConnectionAssumption DEF Scalars, ConnT
    <3>2. input' = IF input >= conn.readSize THEN input - conn.readSize ELSE 0
      BY <1>9 DEF ReadData
    <3>3. input' \in 0 .. received
      BY <3>1, <3>2
    <3> QED
      BY <1>9, <3>3 DEF ReadData, Scalars
  <2>2. ConnT'
    <3> DEFINE size == IF input >= conn.readSize
                       THEN (IF conn.readSize * 2 > ReadMax THEN ReadMax ELSE conn.readSize * 2)
                       ELSE IF conn.readSize > ReadMin /\ input * 2 < conn.readSize
                            THEN conn.readSize \div 2 ELSE conn.readSize
    <3>1. /\ input \in Nat /\ conn.readSize \in Nat /\ ReadMin \in Nat /\ ReadMax \in Nat
          /\ 1 <= conn.readSize /\ conn.readSize <= ReadMax /\ 1 <= ReadMin /\ ReadMin <= ReadMax
      BY ConnectionAssumption DEF Scalars, ConnT
    <3>4. conn.readSize > 1 => conn.readSize \div 2 \in 1 .. conn.readSize
      BY <3>1
    <3>2. size \in 1 .. ReadMax
      BY <3>1, <3>4
    <3>3. conn' = [conn EXCEPT !.readSize = size]
      BY <1>9 DEF ReadData
    <3> HIDE DEF size
    <3> QED
      BY <3>2, <3>3 DEF ConnT
  <2>3. WbT'
    BY <1>9, ConnectionAssumption DEF ReadData, AfterRead, WbT
  <2>4. PcT'
    BY <1>9, ConnectionAssumption DEF ReadData, AfterRead, PcT
  <2>5. RegT'
    BY <1>9, ConnectionAssumption DEF ReadData, AfterRead, RegT
  <2>6. LogT'
    BY <1>9, ConnectionAssumption DEF ReadData, AfterRead, LogT
  <2> QED
    BY <2>1, <2>2, <2>3, <2>4, <2>5, <2>6, TypePartsNext
<1>10. CASE ReadNothing
  <2>1. Scalars'
    BY <1>10, ConnectionAssumption DEF ReadNothing, Scalars
  <2>2. ConnT'
    BY <1>10, ConnectionAssumption DEF ReadNothing, ConnT
  <2>3. WbT'
    BY <1>10, ConnectionAssumption DEF ReadNothing, WbT
  <2>4. PcT'
    BY <1>10, ConnectionAssumption DEF ReadNothing, PcT
  <2>5. RegT'
    BY <1>10, ConnectionAssumption DEF ReadNothing, RegT
  <2>6. LogT'
    BY <1>10, ConnectionAssumption DEF ReadNothing, LogT
  <2> QED
    BY <2>1, <2>2, <2>3, <2>4, <2>5, <2>6, TypePartsNext
<1>11. CASE NotifyClose
  <2>1. Scalars'
    BY <1>11, ConnectionAssumption DEF NotifyClose, Posts, Scalars
  <2>2. ConnT'
    BY <1>11, ConnectionAssumption DEF NotifyClose, Posts, ConnT
  <2>3. WbT'
    BY <1>11, ConnectionAssumption DEF NotifyClose, Posts, WbT
  <2>4. PcT'
    BY <1>11, ConnectionAssumption DEF NotifyClose, Posts, PcT
  <2>5. RegT'
    BY <1>11, ConnectionAssumption DEF NotifyClose, Posts, RegT
  <2>6. LogT'
    BY <1>11, ConnectionAssumption DEF NotifyClose, Posts, LogT
  <2> QED
    BY <2>1, <2>2, <2>3, <2>4, <2>5, <2>6, TypePartsNext
<1> QED
  BY <1>1, <1>2, <1>3, <1>4, <1>5, <1>6, <1>7, <1>8, <1>9, <1>10, <1>11

\* of the peer
LEMMA TypePeer ==
    ASSUME TypeOK, PeerReads \/ PeerSends \/ PeerAnswers
    PROVE  TypeOK'
<1>0. Scalars /\ ConnT /\ WbT /\ PcT /\ RegT /\ LogT
  BY TypeParts
<1> USE <1>0 DEF Goto, At, kernel, send, recv, poll, log, Place, Thread
<1>1. CASE PeerReads
  <2>1. Scalars'
    BY <1>1, ConnectionAssumption DEF PeerReads, Scalars
  <2>2. ConnT'
    BY <1>1, ConnectionAssumption DEF PeerReads, ConnT
  <2>3. WbT'
    BY <1>1, ConnectionAssumption DEF PeerReads, WbT
  <2>4. PcT'
    BY <1>1, ConnectionAssumption DEF PeerReads, PcT
  <2>5. RegT'
    BY <1>1, ConnectionAssumption DEF PeerReads, RegT
  <2>6. LogT'
    BY <1>1, ConnectionAssumption DEF PeerReads, LogT
  <2> QED
    BY <2>1, <2>2, <2>3, <2>4, <2>5, <2>6, TypePartsNext
<1>2. CASE PeerSends
  <2>1. Scalars'
    <3>1. ready' \in BOOLEAN /\ eof' \in BOOLEAN
      BY <1>2 DEF PeerSends, Scalars
    <3>2. input' \in 0 .. received' /\ received' \in 0 .. MaxInput
      BY <1>2, ConnectionAssumption DEF PeerSends, Scalars
    <3> QED
      BY <1>2, <3>1, <3>2 DEF PeerSends, Scalars
  <2>2. ConnT'
    BY <1>2, ConnectionAssumption DEF PeerSends, ConnT
  <2>3. WbT'
    BY <1>2, ConnectionAssumption DEF PeerSends, WbT
  <2>4. PcT'
    BY <1>2, ConnectionAssumption DEF PeerSends, PcT
  <2>5. RegT'
    BY <1>2, ConnectionAssumption DEF PeerSends, RegT
  <2>6. LogT'
    BY <1>2, ConnectionAssumption DEF PeerSends, LogT
  <2> QED
    BY <2>1, <2>2, <2>3, <2>4, <2>5, <2>6, TypePartsNext
<1>3. CASE PeerAnswers
  <2>1. Scalars'
    BY <1>3, ConnectionAssumption DEF PeerAnswers, Scalars
  <2>2. ConnT'
    BY <1>3, ConnectionAssumption DEF PeerAnswers, ConnT
  <2>3. WbT'
    BY <1>3, ConnectionAssumption DEF PeerAnswers, WbT
  <2>4. PcT'
    BY <1>3, ConnectionAssumption DEF PeerAnswers, PcT
  <2>5. RegT'
    BY <1>3, ConnectionAssumption DEF PeerAnswers, RegT
  <2>6. LogT'
    BY <1>3, ConnectionAssumption DEF PeerAnswers, LogT
  <2> QED
    BY <2>1, <2>2, <2>3, <2>4, <2>5, <2>6, TypePartsNext
<1> QED
  BY <1>1, <1>2, <1>3

\* and of the services.
LEMMA TypeWorker ==
    ASSUME TypeOK, NEW w \in Worker,
           \/ Connect(w) \/ Write(w) \/ PauseRead(w) \/ ResumeRead(w) \/ LingerClose(w) \/ CloseConn(w)
           \/ HasData(w) \/ SendRefused(w) \/ SendFails(w)
    PROVE  TypeOK'
<1>0. Scalars /\ ConnT /\ WbT /\ PcT /\ RegT /\ LogT
  BY TypeParts
<1> USE <1>0 DEF Goto, At, kernel, send, recv, poll, log, Place, Thread
<1>1. CASE Connect(w)
  <2>1. Scalars'
    BY <1>1, ConnectionAssumption DEF Connect, Scalars
  <2>2. ConnT'
    BY <1>1, ConnectionAssumption DEF Connect, ConnT
  <2>3. WbT'
    BY <1>1, ConnectionAssumption DEF Connect, WbT
  <2>4. PcT'
    BY <1>1, ConnectionAssumption DEF Connect, PcT
  <2>5. RegT'
    BY <1>1, ConnectionAssumption DEF Connect, RegT
  <2>6. LogT'
    BY <1>1, ConnectionAssumption DEF Connect, LogT
  <2> QED
    BY <2>1, <2>2, <2>3, <2>4, <2>5, <2>6, TypePartsNext
<1>2. CASE Write(w)
  <2>1. Scalars'
    BY <1>2, ConnectionAssumption DEF Write, Scalars
  <2>2. ConnT'
    BY <1>2, ConnectionAssumption DEF Write, ConnT
  <2>3. WbT'
    BY <1>2, ConnectionAssumption DEF Write, WbT
  <2>4. PcT'
    BY <1>2, ConnectionAssumption DEF Write, PcT
  <2>5. RegT'
    BY <1>2, ConnectionAssumption DEF Write, RegT
  <2>6. LogT'
    BY <1>2, ConnectionAssumption DEF Write, LogT
  <2> QED
    BY <2>1, <2>2, <2>3, <2>4, <2>5, <2>6, TypePartsNext
<1>3. CASE PauseRead(w) \/ ResumeRead(w)
  <2>1. Scalars'
    BY <1>3, ConnectionAssumption DEF PauseRead, ResumeRead, FlipRead, Scalars
  <2>2. ConnT'
    BY <1>3, ConnectionAssumption DEF PauseRead, ResumeRead, FlipRead, ConnT
  <2>3. WbT'
    BY <1>3, ConnectionAssumption DEF PauseRead, ResumeRead, FlipRead, WbT
  <2>4. PcT'
    BY <1>3, ConnectionAssumption DEF PauseRead, ResumeRead, FlipRead, PcT
  <2>5. RegT'
    BY <1>3, ConnectionAssumption DEF PauseRead, ResumeRead, FlipRead, RegT
  <2>6. LogT'
    BY <1>3, ConnectionAssumption DEF PauseRead, ResumeRead, FlipRead, LogT
  <2> QED
    BY <2>1, <2>2, <2>3, <2>4, <2>5, <2>6, TypePartsNext
<1>4. CASE LingerClose(w)
  <2>1. Scalars'
    BY <1>4, ConnectionAssumption DEF LingerClose, NoBuffer, EmptyBuffer, Scalars
  <2>2. ConnT'
    BY <1>4, ConnectionAssumption DEF LingerClose, NoBuffer, EmptyBuffer, ConnT
  <2>3. WbT'
    BY <1>4, ConnectionAssumption DEF LingerClose, NoBuffer, EmptyBuffer, WbT
  <2>4. PcT'
    BY <1>4, ConnectionAssumption DEF LingerClose, NoBuffer, EmptyBuffer, PcT
  <2>5. RegT'
    BY <1>4, ConnectionAssumption DEF LingerClose, NoBuffer, EmptyBuffer, RegT
  <2>6. LogT'
    BY <1>4, ConnectionAssumption DEF LingerClose, NoBuffer, EmptyBuffer, LogT
  <2> QED
    BY <2>1, <2>2, <2>3, <2>4, <2>5, <2>6, TypePartsNext
<1>5. CASE CloseConn(w)
  <2>1. Scalars'
    BY <1>5, ConnectionAssumption DEF CloseConn, Scalars
  <2>2. ConnT'
    BY <1>5, ConnectionAssumption DEF CloseConn, ConnT
  <2>3. WbT'
    BY <1>5, ConnectionAssumption DEF CloseConn, WbT
  <2>4. PcT'
    BY <1>5, ConnectionAssumption DEF CloseConn, PcT
  <2>5. RegT'
    BY <1>5, ConnectionAssumption DEF CloseConn, RegT
  <2>6. LogT'
    BY <1>5, ConnectionAssumption DEF CloseConn, LogT
  <2> QED
    BY <2>1, <2>2, <2>3, <2>4, <2>5, <2>6, TypePartsNext
<1>6. CASE HasData(w)
  <2>1. Scalars'
    BY <1>6, ConnectionAssumption DEF HasData, Queued, Scalars
  <2>2. ConnT'
    BY <1>6, ConnectionAssumption DEF HasData, Queued, ConnT
  <2>3. WbT'
    BY <1>6, ConnectionAssumption DEF HasData, Queued, WbT
  <2>4. PcT'
    BY <1>6, ConnectionAssumption DEF HasData, Queued, PcT
  <2>5. RegT'
    <3>1. Queued \in BOOLEAN /\ w \in Thread
      BY DEF Queued
    <3> QED
      BY <1>6, <3>1, RegSet DEF HasData
  <2>6. LogT'
    BY <1>6, ConnectionAssumption DEF HasData, Queued, LogT
  <2> QED
    BY <2>1, <2>2, <2>3, <2>4, <2>5, <2>6, TypePartsNext
<1>7. CASE SendRefused(w)
  <2>1. Scalars'
    BY <1>7, ConnectionAssumption DEF SendRefused, Sending, Scalars
  <2>2. ConnT'
    BY <1>7, ConnectionAssumption DEF SendRefused, Sending, ConnT
  <2>3. WbT'
    BY <1>7, ConnectionAssumption DEF SendRefused, Sending, WbT
  <2>4. PcT'
    BY <1>7, ConnectionAssumption DEF SendRefused, Sending, PcT
  <2>5. RegT'
    BY <1>7, ConnectionAssumption DEF SendRefused, Sending, RegT
  <2>6. LogT'
    BY <1>7, ConnectionAssumption DEF SendRefused, Sending, LogT
  <2> QED
    BY <2>1, <2>2, <2>3, <2>4, <2>5, <2>6, TypePartsNext
<1>8. CASE SendFails(w)
  <2>1. Scalars'
    BY <1>8, ConnectionAssumption DEF SendFails, Sending, Buffer, EmptyBuffer, Scalars
  <2>2. ConnT'
    BY <1>8, ConnectionAssumption DEF SendFails, Sending, Buffer, EmptyBuffer, ConnT
  <2>3. WbT'
    BY <1>8, ConnectionAssumption DEF SendFails, Sending, Buffer, EmptyBuffer, WbT
  <2>4. PcT'
    BY <1>8, ConnectionAssumption DEF SendFails, Sending, Buffer, EmptyBuffer, PcT
  <2>5. RegT'
    BY <1>8, ConnectionAssumption DEF SendFails, Sending, Buffer, EmptyBuffer, RegT
  <2>6. LogT'
    BY <1>8, ConnectionAssumption DEF SendFails, Sending, Buffer, EmptyBuffer, LogT
  <2> QED
    BY <2>1, <2>2, <2>3, <2>4, <2>5, <2>6, TypePartsNext
<1> QED
  BY <1>1, <1>2, <1>3, <1>4, <1>5, <1>6, <1>7, <1>8

-----------------------------------------------------------------------------
(* The beginning, and the steps that leave the lists alone *)

\* The stream and the backlog, by the names the lemmas above use.
LEMMA StreamIs == Stream = StreamOf(wire, Line) /\ Unwritten = Bytes(Line)
  BY DEF Stream, StreamOf, Unwritten, Bytes

\* The same, one step later.
LEMMA StreamIsNext == Stream' = StreamOf(wire', Line') /\ Unwritten' = Bytes(Line')
  BY DEF Stream, StreamOf, Unwritten, Bytes

\* The lists in a row.
LEMMA LineIs ==
    ASSUME WbT
    PROVE  /\ wb.high \in Seq(WriteObject) /\ wb.low \in Seq(WriteObject) /\ Line \in Seq(WriteObject)
           /\ Len(wb.high) \in Nat /\ Len(wb.low) \in Nat
           /\ Len(Line) = Len(wb.high) + Len(wb.low)
           /\ \A k \in 1 .. Len(wb.high) : Line[k] = wb.high[k]
           /\ \A k \in 1 .. Len(wb.low) : Line[Len(wb.high) + k] = wb.low[k]
<1>1. wb.high \in Seq(WriteObject) /\ wb.low \in Seq(WriteObject)
  BY DEF WbT
<1>2. \A a, b \in Seq(WriteObject) :
        /\ a \o b \in Seq(WriteObject) /\ Len(a \o b) = Len(a) + Len(b)
        /\ \A k \in 1 .. Len(a) : (a \o b)[k] = a[k]
        /\ \A k \in 1 .. Len(b) : (a \o b)[Len(a) + k] = b[k]
  BY JoinAt
<1>3. \A a \in Seq(WriteObject) : Len(a) \in Nat
  OBVIOUS
<1> QED
  BY <1>1, <1>2, <1>3 DEF Line

\* The same, one step later.
LEMMA LineIsNext ==
    ASSUME WbT'
    PROVE  /\ wb'.high \in Seq(WriteObject) /\ wb'.low \in Seq(WriteObject) /\ Line' \in Seq(WriteObject)
           /\ Len(wb'.high) \in Nat /\ Len(wb'.low) \in Nat
           /\ Len(Line') = Len(wb'.high) + Len(wb'.low)
           /\ \A k \in 1 .. Len(wb'.high) : Line'[k] = wb'.high[k]
           /\ \A k \in 1 .. Len(wb'.low) : Line'[Len(wb'.high) + k] = wb'.low[k]
<1>1. wb'.high \in Seq(WriteObject) /\ wb'.low \in Seq(WriteObject)
  BY DEF WbT
<1>2. \A a, b \in Seq(WriteObject) :
        /\ a \o b \in Seq(WriteObject) /\ Len(a \o b) = Len(a) + Len(b)
        /\ \A k \in 1 .. Len(a) : (a \o b)[k] = a[k]
        /\ \A k \in 1 .. Len(b) : (a \o b)[Len(a) + k] = b[k]
  BY JoinAt
<1>3. \A a \in Seq(WriteObject) : Len(a) \in Nat
  OBVIOUS
<1>4. Line' = wb'.high \o wb'.low
  BY DEF Line
<1> QED
  BY <1>1, <1>2, <1>3, <1>4

\* Nothing is queued in a new buffer.
LEMMA NoBytes ==
    ASSUME NEW q, q = <<>>
    PROVE  IsFiniteSet(Bytes(q)) /\ Cardinality(Bytes(q)) = 0
<1>1. Bytes(q) = {}
  BY DEF Bytes
<1> QED
  BY <1>1, FS_EmptySet

\* Nothing has been written to a new connection.
LEMMA WholeEmpty ==
    ASSUME NEW w, NEW q, NEW acc, w = <<>>, q = <<>>, acc = <<>>
    PROVE  Whole(StreamOf(w, q), acc)
<1> DEFINE s == StreamOf(w, q)
<1>1. w \in Seq(Pieces) /\ q \in Seq(WriteObject) /\ Len(w) = 0 /\ Len(q) = 0
  OBVIOUS
<1>2. s \in Seq(Pieces) /\ Len(s) = 0
  <2>1. ASSUME NEW a \in Seq(Pieces), NEW b \in Seq(WriteObject), Len(a) = 0, Len(b) = 0
        PROVE  StreamOf(a, b) \in Seq(Pieces) /\ Len(StreamOf(a, b)) = 0
    <3>1. StreamOf(a, b) \in Seq(Pieces) /\ Len(StreamOf(a, b)) = Len(a) + Len(b)
      BY StreamAt
    <3>2. Len(a) + Len(b) = 0
      BY <2>1
    <3> QED
      BY <3>1, <3>2
  <2> QED
    BY <1>1, <2>1, Zenon
<1> HIDE DEF s
<1>3. Whole(s, acc)
  BY <1>2 DEF Whole
<1> QED
  BY <1>3 DEF s

\* The initial state.
LEMMA ConnInit == Init => ConnInv
<1> SUFFICES ASSUME Init PROVE ConnInv
  OBVIOUS
<1> USE ConnectionAssumption DEF Init
<1>1. Scalars
  <2>1. room \in 0 .. Room /\ received \in 0 .. MaxInput /\ input \in 0 .. received
    OBVIOUS
  <2>2. closes \in 0 .. 2 /\ flips \in 0 .. MaxFlips
    OBVIOUS
  <2>3. epoll \in [in : BOOLEAN, out : BOOLEAN] /\ ev \in [in : BOOLEAN, out : BOOLEAN]
    OBVIOUS
  <2>4. /\ fd \in {"none", "opening", "up", "failed", "closed"} /\ lock \in Thread \cup {NoThread}
        /\ ready \in BOOLEAN /\ eof \in BOOLEAN
    OBVIOUS
  <2> QED
    BY <2>1, <2>2, <2>3, <2>4 DEF Scalars
<1>2. ConnT
  BY DEF ConnT
<1>3. WbT /\ wb.high = <<>> /\ wb.low = <<>> /\ wb.size = 0 /\ wb.warn = 0
  <2>1. wb = [there |-> FALSE, high |-> <<>>, low |-> <<>>, size |-> 0, warn |-> 0, closing |-> FALSE]
    BY DEF NoBuffer, EmptyBuffer
  <2>2. wb = NoBuffer /\ <<>> \in Seq(WriteObject)
    OBVIOUS
  <2> QED
    BY <2>1, <2>2 DEF WbT
<1>4. PcT
  BY DEF PcT, Place
<1>5. RegT
  BY DEF RegT
<1>6. LogT
  BY DEF LogT
<1>7. TypeOK
  BY <1>1, <1>2, <1>3, <1>4, <1>5, <1>6, TypeParts
<1>8. Held
  BY <1>3 DEF Held, Flushing, Thread
<1>9. Begun
  BY DEF Begun
<1>10. Sends
  BY DEF Sends, Thread
<1>11. Line = <<>>
  BY <1>3 DEF Line
<1>12. Lists
  BY <1>3, <1>11 DEF Lists
<1>13. Total
  BY <1>3, <1>11, NoBytes, StreamIs DEF Total, Thread
<1>14. Warns /\ InOrder
  BY DEF Warns, InOrder
<1> QED
  BY <1>7, <1>8, <1>9, <1>10, <1>12, <1>13, <1>14 DEF ConnInv

\* A step that leaves the lists and the log alone keeps what is said of them.
LEMMA Quiet ==
    ASSUME ConnInv, TypeOK', Held', Begun', Sends', wire' = wire, accepted' = accepted, warned' = warned,
           wb'.high = wb.high, wb'.low = wb.low, wb'.size = wb.size, wb'.warn = wb.warn,
           reg'[Socket].written = reg[Socket].written,
           conn'.managed => conn.managed \/ fd = "none"
    PROVE  ConnInv'
<1>1. Line' = Line
  BY DEF Line
<1>2. Stream' = Stream /\ Unwritten' = Unwritten
  BY <1>1, StreamIs, StreamIsNext
<1>3. Lists'
  BY <1>1 DEF ConnInv, Lists
<1>4. Total'
  BY <1>2 DEF ConnInv, Total
<1>5. ASSUME fd = "none"
      PROVE  warned = <<>> /\ wb.warn = 0 /\ wb.high = <<>> /\ wb.low = <<>> /\ wire = <<>> /\ accepted = <<>>
  BY <1>5 DEF ConnInv, Begun, NoBuffer, EmptyBuffer
<1>6. Warns'
  <2>1. CASE ~conn'.managed
    BY <2>1 DEF Warns
  <2>2. CASE conn.managed
    BY <2>2 DEF ConnInv, Warns
  <2>3. CASE fd = "none"
    BY <1>5, <2>3 DEF Warns
  <2> QED
    BY <2>1, <2>2, <2>3
<1>7. InOrder'
  <2>1. CASE ~conn'.managed
    BY <2>1 DEF InOrder
  <2>2. CASE conn.managed
    BY <1>2, <2>2 DEF ConnInv, InOrder
  <2>3. CASE fd = "none"
    <3>1. Line = <<>> /\ wire = <<>> /\ accepted = <<>>
      BY <1>5, <2>3 DEF Line
    <3>2. Whole(Stream, accepted)
      BY <3>1, StreamIs, WholeEmpty
    <3> QED
      BY <1>2, <3>2 DEF InOrder
  <2> QED
    BY <2>1, <2>2, <2>3
<1> QED
  BY <1>3, <1>4, <1>6, <1>7 DEF ConnInv

\* The lists, the wire and the log stay, and so does the lock of a flush.
Calm ==
    /\ wire' = wire /\ accepted' = accepted /\ warned' = warned
    /\ wb'.high = wb.high /\ wb'.low = wb.low /\ wb'.size = wb.size /\ wb'.warn = wb.warn
    /\ wb.there => wb'.there
    /\ fd # "none" /\ fd' # "none"
    /\ lock' = lock \/ (lock # Socket /\ lock' # Socket)
    /\ reg'[Socket].written = reg[Socket].written
    /\ \A w \in Worker : reg'[w].pkt = reg[w].pkt
    /\ conn'.managed => conn.managed

\* A thread goes from place to place outside of a flush.
LEMMA Moves ==
    ASSUME ConnInv, TypeOK', Calm, NEW t \in Thread, NEW place \in Place, Goto(t, place),
           pc[t] \notin Flushing, place \notin Flushing, place # "send",
           place \in {"erase", "close"} => ~conn'.managed
    PROVE  ConnInv'
<1>1. pc \in [Thread -> Place] /\ pc' = [pc EXCEPT ![t] = place] /\ Socket \in Thread /\ Worker \subseteq Thread
  BY DEF ConnInv, TypeOK, Goto, Thread
<1>2. Held'
  <2>1. Held
    BY DEF ConnInv
  <2>2. pc'[Socket] \in Flushing <=> pc[Socket] \in Flushing
    BY <1>1
  <2>3. pc'[Socket] = "flushed" => pc[Socket] = "flushed"
    BY <1>1 DEF Flushing
  <2>4. lock' = Socket <=> lock = Socket
    BY DEF Calm
  <2> QED
    BY <2>1, <2>2, <2>3, <2>4 DEF Held, Calm
<1>3. Begun'
  <2>1. ASSUME conn'.managed, NEW x \in Thread PROVE pc'[x] \notin {"erase", "close"}
    BY <1>1, <2>1 DEF ConnInv, Begun, Calm
  <2> QED
    BY <2>1 DEF Begun, Calm
<1>4. Sends'
  <2>1. Sends
    BY DEF ConnInv
  <2>2. \A x \in Thread : pc'[x] = "send" => pc[x] = "send"
    BY <1>1
  <2> QED
    BY <1>1, <2>1, <2>2 DEF Sends, Calm
<1> QED
  BY <1>2, <1>3, <1>4, Quiet DEF Calm

\* The peer takes a step.
LEMMA PeerSteps ==
    ASSUME ConnInv, PeerReads \/ PeerSends \/ PeerAnswers
    PROVE  ConnInv'
<1>0. TypeOK'
  BY TypePeer DEF ConnInv
<1>1. /\ pc' = pc /\ reg' = reg /\ lock' = lock /\ wb' = wb /\ conn' = conn
      /\ wire' = wire /\ accepted' = accepted /\ warned' = warned /\ fd # "none" /\ fd' # "none"
  BY DEF PeerReads, PeerSends, PeerAnswers, send, recv, log
<1>2. Held'
  BY <1>1 DEF ConnInv, Held
<1>3. Begun'
  BY <1>1 DEF ConnInv, Begun
<1>4. Sends'
  BY <1>1 DEF ConnInv, Sends
<1> QED
  BY <1>0, <1>1, <1>2, <1>3, <1>4, Quiet

\* The connection comes about.
LEMMA Opens ==
    ASSUME ConnInv, OnAccept \/ \E w \in Worker : Connect(w)
    PROVE  ConnInv'
<1>0. TypeOK'
  BY TypeSocket, TypeWorker DEF ConnInv
<1>1. /\ pc' = pc /\ reg' = reg /\ lock' = lock /\ wb' = wb
      /\ wire' = wire /\ accepted' = accepted /\ warned' = warned /\ fd = "none" /\ fd' # "none"
  BY DEF OnAccept, Connect, send, recv, log
<1>2. Held'
  BY <1>1 DEF ConnInv, Held
<1>3. Begun'
  BY <1>1 DEF ConnInv, Begun
<1>4. Sends'
  BY <1>1 DEF ConnInv, Sends
<1> QED
  BY <1>0, <1>1, <1>2, <1>3, <1>4, Quiet

\* A thread that does something, or knows of a connection, has a descriptor.
LEMMA HasFd ==
    ASSUME ConnInv, conn.managed \/ \E t \in Thread : pc[t] # "idle"
    PROVE  fd # "none"
  BY DEF ConnInv, Begun

\* ModifyEvent and RemoveConn, by any thread.
LEMMA RunSteps ==
    ASSUME ConnInv, NEW t \in Thread, ModifyEvent(t) \/ EpollCtl(t) \/ RemoveConn(t) \/ Close(t)
    PROVE  ConnInv'
<1>0. TypeOK'
  BY TypeRuns DEF ConnInv
<1>1. PcT /\ RegT /\ RegT' /\ ConnT /\ Held
  BY <1>0, TypeParts, TypePartsNext DEF ConnInv
<1>2. Socket \in Thread /\ Worker \subseteq Thread /\ NoThread # Socket
  BY ConnectionAssumption DEF Thread
<1>3. fd # "none" /\ pc[t] \notin Flushing
  BY HasFd DEF ModifyEvent, EpollCtl, RemoveConn, Close, At, Flushing
<1> USE DEF kernel, send, recv, poll, log
<1>4. CASE ModifyEvent(t)
  <2>1. \A x \in Thread : reg'[x].written = reg[x].written /\ reg'[x].pkt = reg[x].pkt
    BY <1>1, <1>4 DEF ModifyEvent, RegT
  <2>2. Calm
    BY <1>2, <1>3, <1>4, <2>1 DEF ModifyEvent, Calm
  <2>3. Goto(t, "ctl") /\ "ctl" \in Place
    BY <1>4 DEF ModifyEvent, Place
  <2> QED
    BY <1>0, <1>3, <2>2, <2>3, Moves DEF Flushing
<1>5. CASE EpollCtl(t)
  <2>1. lock' = lock \/ (lock # Socket /\ lock' # Socket)
    <3>1. lock = t => lock # Socket
      BY <1>1, <1>3 DEF Held
    <3> QED
      BY <1>2, <1>5, <3>1 DEF EpollCtl
  <2>2. Calm
    BY <1>2, <1>3, <1>5, <2>1 DEF EpollCtl, Calm
  <2>3. PICK place \in {"read", "idle"} : Goto(t, place)
    BY <1>5 DEF EpollCtl
  <2> QED
    BY <1>0, <1>3, <2>2, <2>3, Moves DEF Flushing, Place
<1>6. CASE RemoveConn(t)
  <2>1. ~conn'.managed
    BY <1>1, <1>6 DEF RemoveConn, ConnT
  <2>2. Calm
    BY <1>2, <1>3, <1>6, <2>1 DEF RemoveConn, Calm
  <2>3. Goto(t, "erase") /\ "erase" \in Place
    BY <1>6 DEF RemoveConn, Place
  <2> QED
    BY <1>0, <1>3, <2>1, <2>2, <2>3, Moves DEF Flushing
<1>7. CASE Close(t)
  <2>1. Calm
    BY <1>2, <1>3, <1>7 DEF Close, Calm
  <2>2. Goto(t, "idle") /\ "idle" \in Place
    BY <1>7 DEF Close, Place
  <2> QED
    BY <1>0, <1>3, <2>1, <2>2, Moves DEF Flushing
<1> QED
  BY <1>4, <1>5, <1>6, <1>7

\* The socket thread outside of a flush.
LEMMA SocketSteps ==
    ASSUME ConnInv,
           \/ EpollWait \/ OnEvent \/ OnConnectFinish \/ Notify \/ OnWriteable \/ (LockBuffer /\ ~wb.there)
           \/ SkipRead \/ ReadData \/ ReadNothing \/ NotifyClose
    PROVE  ConnInv'
<1>0. TypeOK'
  BY TypeSocket DEF ConnInv
<1>1. PcT /\ RegT /\ ConnT
  BY TypeParts DEF ConnInv
<1>2. Socket \in Thread /\ Worker \subseteq Thread /\ NoThread # Socket
  BY ConnectionAssumption DEF Thread
<1> USE DEF kernel, send, recv, poll, log, At
<1>3. pc[Socket] \notin Flushing
  BY DEF EpollWait, OnEvent, OnConnectFinish, Notify, OnWriteable, LockBuffer, SkipRead, ReadData, ReadNothing,
         NotifyClose, Reading, Flushing
<1>4. fd # "none"
  BY <1>2, HasFd DEF EpollWait, Open, OnEvent, OnConnectFinish, Notify, OnWriteable, LockBuffer, SkipRead, ReadData,
         ReadNothing, NotifyClose, Reading
<1>5. /\ fd' = fd /\ wire' = wire /\ accepted' = accepted /\ warned' = warned /\ wb' = wb /\ lock' = lock
      /\ \E place \in {"idle", "event", "read", "finish", "flush", "modify", "remove", "lock", "readmore"} :
           Goto(Socket, place)
  <2>1. CASE EpollWait
    BY <2>1 DEF EpollWait
  <2>2. CASE OnEvent
    BY <2>2 DEF OnEvent
  <2>3. CASE OnConnectFinish
    BY <2>3 DEF OnConnectFinish
  <2>4. CASE Notify
    BY <2>4 DEF Notify
  <2>5. CASE OnWriteable
    BY <2>5 DEF OnWriteable
  <2>6. CASE LockBuffer /\ ~wb.there
    BY <2>6 DEF LockBuffer
  <2>7. CASE SkipRead
    BY <2>7 DEF SkipRead
  <2>8. CASE ReadData
    BY <2>8 DEF ReadData, AfterRead
  <2>9. CASE ReadNothing
    BY <2>9 DEF ReadNothing
  <2>10. CASE NotifyClose
    BY <2>10 DEF NotifyClose
  <2> QED
    BY <2>1, <2>2, <2>3, <2>4, <2>5, <2>6, <2>7, <2>8, <2>9, <2>10
<1>6. conn'.managed = conn.managed
  <2>1. CASE OnConnectFinish
    BY <1>1, <2>1 DEF OnConnectFinish, ConnT
  <2>2. CASE ReadData
    BY <1>1, <2>2 DEF ReadData, ConnT
  <2>3. CASE ~OnConnectFinish /\ ~ReadData
    BY <2>3 DEF EpollWait, OnEvent, Notify, OnWriteable, LockBuffer, SkipRead, ReadNothing, NotifyClose
  <2> QED
    BY <2>1, <2>2, <2>3
<1>7. \A x \in Thread : reg'[x].written = reg[x].written /\ reg'[x].pkt = reg[x].pkt
  <2>1. CASE OnConnectFinish
    BY <1>1, <2>1 DEF OnConnectFinish, RegT
  <2>2. CASE ~OnConnectFinish
    BY <2>2 DEF EpollWait, OnEvent, Notify, OnWriteable, LockBuffer, SkipRead, ReadData, ReadNothing, NotifyClose
  <2> QED
    BY <2>1, <2>2
<1>8. Calm
  BY <1>2, <1>4, <1>5, <1>6, <1>7 DEF Calm
<1>9. PICK place \in {"idle", "event", "read", "finish", "flush", "modify", "remove", "lock", "readmore"} :
        Goto(Socket, place)
  BY <1>5
<1>10. place \in Place /\ place \notin Flushing /\ place # "send" /\ place \notin {"erase", "close"}
  BY DEF Place, Flushing
<1> QED
  BY <1>0, <1>2, <1>3, <1>8, <1>9, <1>10, Moves

\* The calls of the services that write nothing.
LEMMA WorkerSteps ==
    ASSUME ConnInv, NEW w \in Worker,
           \/ PauseRead(w) \/ ResumeRead(w) \/ LingerClose(w) \/ CloseConn(w)
           \/ HasData(w) \/ SendRefused(w) \/ SendFails(w)
    PROVE  ConnInv'
<1>0. TypeOK'
  BY TypeWorker DEF ConnInv
<1>1. PcT /\ RegT /\ ConnT /\ WbT
  BY TypeParts DEF ConnInv
<1>2. Socket \in Thread /\ Worker \subseteq Thread /\ NoThread # Socket /\ w \in Thread
  BY ConnectionAssumption DEF Thread
<1> USE DEF kernel, send, recv, poll, log, At
<1>3. pc[w] \notin Flushing
  BY DEF PauseRead, ResumeRead, FlipRead, LingerClose, CloseConn, HasData, SendRefused, SendFails, Sending, Flushing
<1>4. fd # "none"
  BY <1>2, HasFd DEF PauseRead, ResumeRead, FlipRead, LingerClose, CloseConn, HasData, SendRefused, SendFails, Sending
<1>5. /\ fd' = fd /\ wire' = wire /\ accepted' = accepted /\ warned' = warned /\ lock' = lock
      /\ \E place \in {"idle", "pending", "modify", "remove"} : Goto(w, place)
  <2>1. CASE PauseRead(w) \/ ResumeRead(w)
    BY <2>1 DEF PauseRead, ResumeRead, FlipRead
  <2>2. CASE LingerClose(w)
    BY <2>2 DEF LingerClose
  <2>3. CASE CloseConn(w)
    BY <2>3 DEF CloseConn
  <2>4. CASE HasData(w)
    BY <2>4 DEF HasData
  <2>5. CASE SendRefused(w)
    BY <2>5 DEF SendRefused
  <2>6. CASE SendFails(w)
    BY <2>6 DEF SendFails
  <2> QED
    BY <2>1, <2>2, <2>3, <2>4, <2>5, <2>6
<1>6. conn'.managed = conn.managed
  <2>1. CASE PauseRead(w) \/ ResumeRead(w)
    BY <1>1, <2>1 DEF PauseRead, ResumeRead, FlipRead, ConnT
  <2>2. CASE ~(PauseRead(w) \/ ResumeRead(w))
    BY <2>2 DEF LingerClose, CloseConn, HasData, SendRefused, SendFails
  <2> QED
    BY <2>1, <2>2
<1>7. \A x \in Thread : reg'[x].written = reg[x].written /\ reg'[x].pkt = reg[x].pkt
  <2>1. CASE HasData(w)
    BY <1>1, <2>1 DEF HasData, RegT
  <2>2. CASE ~HasData(w)
    BY <2>2 DEF PauseRead, ResumeRead, FlipRead, LingerClose, CloseConn, SendRefused, SendFails
  <2> QED
    BY <2>1, <2>2
<1>8. /\ wb'.high = wb.high /\ wb'.low = wb.low /\ wb'.size = wb.size /\ wb'.warn = wb.warn
      /\ wb.there => wb'.there
  <2>1. CASE LingerClose(w)
    <3>1. wb' = IF wb.there THEN [wb EXCEPT !.closing = TRUE] ELSE wb
      BY <2>1 DEF LingerClose
    <3> QED
      BY <1>1, <3>1 DEF WbT
  <2>2. CASE SendFails(w)
    <3>1. wb' = IF wb.there THEN wb ELSE EmptyBuffer
      BY <2>2 DEF SendFails, Buffer
    <3>2. wb.there \/ wb = NoBuffer
      BY <1>1 DEF WbT
    <3> QED
      BY <3>1, <3>2 DEF NoBuffer, EmptyBuffer
  <2>3. CASE ~LingerClose(w) /\ ~SendFails(w)
    BY <2>3 DEF PauseRead, ResumeRead, FlipRead, CloseConn, HasData, SendRefused
  <2> QED
    BY <2>1, <2>2, <2>3
<1>9. Calm
  BY <1>2, <1>4, <1>5, <1>6, <1>7, <1>8 DEF Calm
<1>10. PICK place \in {"idle", "pending", "modify", "remove"} : Goto(w, place)
  BY <1>5
<1>11. place \in Place /\ place \notin Flushing /\ place # "send" /\ place \notin {"erase", "close"}
  BY DEF Place, Flushing
<1> QED
  BY <1>0, <1>2, <1>3, <1>9, <1>10, <1>11, Moves

\* A service calls Write: the packet is one that nobody else writes.
LEMMA WriteStep ==
    ASSUME ConnInv, NEW w \in Worker, Write(w)
    PROVE  ConnInv'
<1>0. TypeOK'
  BY TypeWorker DEF ConnInv
<1>1. PcT /\ RegT
  BY TypeParts DEF ConnInv
<1>2. Socket \in Thread /\ Worker \subseteq Thread /\ NoThread # Socket /\ w \in Thread /\ w # Socket
  BY ConnectionAssumption DEF Thread
<1> USE DEF kernel, send, recv, poll, log, At
<1>3. PICK p \in Packet \ ToSet(accepted) :
        /\ \A t \in Worker : pc[t] = "send" => reg[t].pkt # p
        /\ reg' = [reg EXCEPT ![w].pkt = p]
  BY DEF Write
<1>4. /\ pc[w] = "idle" /\ pc' = [pc EXCEPT ![w] = "send"] /\ conn.managed
      /\ UNCHANGED <<fd, conn, wb, lock, wire, accepted, warned>>
  BY DEF Write, Goto
<1>5. fd # "none"
  BY <1>4, HasFd
<1>6. pc'[Socket] = pc[Socket] /\ pc'[w] = "send" /\ \A t \in Thread : t # w => pc'[t] = pc[t]
  BY <1>1, <1>2, <1>4 DEF PcT
<1>7. /\ reg'[w].pkt = p /\ \A t \in Thread : t # w => reg'[t] = reg[t]
      /\ reg'[Socket].written = reg[Socket].written
  BY <1>1, <1>2, <1>3 DEF RegT
<1>8. Held'
  BY <1>4, <1>6, <1>7 DEF ConnInv, Held
<1>9. Begun'
  BY <1>4, <1>5, <1>6 DEF ConnInv, Begun
<1>10. Sends'
  <2>1. Sends
    BY DEF ConnInv
  <2> QED
    BY <1>2, <1>3, <1>4, <1>6, <1>7, <2>1 DEF Sends
<1> QED
  BY <1>0, <1>4, <1>7, <1>8, <1>9, <1>10, Quiet

-----------------------------------------------------------------------------
(* The flush *)

\* The lock is taken, or there is no buffer to flush.
LEMMA LockStep ==
    ASSUME ConnInv, LockBuffer
    PROVE  ConnInv'
<1>1. CASE ~wb.there
  BY <1>1, SocketSteps
<1>2. CASE wb.there
  <2>0. TypeOK'
    BY TypeSocket DEF ConnInv
  <2>1. PcT
    BY TypeParts DEF ConnInv
  <2>2. Socket \in Thread /\ Worker \subseteq Thread /\ Socket \notin Worker
    BY ConnectionAssumption DEF Thread
  <2>3. /\ pc[Socket] = "lock" /\ pc' = [pc EXCEPT ![Socket] = "write"] /\ lock' = Socket
        /\ UNCHANGED <<fd, conn, wb, reg, wire, accepted, warned>>
    BY <1>2 DEF LockBuffer, At, Goto, kernel, send, log
  <2>4. pc'[Socket] = "write" /\ \A t \in Thread : t # Socket => pc'[t] = pc[t]
    BY <2>1, <2>2, <2>3 DEF PcT
  <2>5. fd # "none"
    BY <2>2, <2>3, HasFd
  <2>6. Held'
    BY <1>2, <2>3, <2>4 DEF ConnInv, Held, Flushing
  <2>7. Begun'
    BY <2>3, <2>4, <2>5 DEF ConnInv, Begun
  <2>8. Sends'
    BY <2>2, <2>3, <2>4 DEF ConnInv, Sends
  <2> QED
    BY <2>0, <2>3, <2>6, <2>7, <2>8, Quiet
<1> QED
  BY <1>1, <1>2

\* RemoveConn erases the buffer.
LEMMA EraseStep ==
    ASSUME ConnInv, NEW t \in Thread, EraseBuffer(t)
    PROVE  ConnInv'
<1>1. Scalars /\ ConnT /\ PcT /\ RegT /\ LogT
  BY TypeParts DEF ConnInv
<1>2. Socket \in Thread /\ Worker \subseteq Thread /\ NoThread # Socket
  BY ConnectionAssumption DEF Thread
<1>3. /\ pc[t] = "erase" /\ pc' = [pc EXCEPT ![t] = "close"] /\ lock = NoThread /\ wb' = NoBuffer
      /\ UNCHANGED <<fd, room, wire, input, eof, received, conn, lock, epoll, ready, ev, reg,
                     accepted, warned, closes, flips>>
  BY DEF EraseBuffer, At, Goto, kernel, send, recv, poll, log
<1>4. pc'[t] = "close" /\ \A x \in Thread : x # t => pc'[x] = pc[x]
  BY <1>1, <1>3 DEF PcT
<1>5. /\ wb'.high = <<>> /\ wb'.low = <<>> /\ wb'.size = 0 /\ wb'.warn = 0
      /\ wb' = [there |-> FALSE, high |-> <<>>, low |-> <<>>, size |-> 0, warn |-> 0, closing |-> FALSE]
  BY <1>3 DEF NoBuffer, EmptyBuffer
<1>6. TypeOK'
  <2>1. Scalars'
    BY <1>1, <1>3 DEF Scalars
  <2>2. ConnT' /\ RegT'
    BY <1>1, <1>3 DEF ConnT, RegT
  <2>3. LogT'
    BY <1>1, <1>3 DEF LogT
  <2>4. PcT'
    BY <1>1, <1>3 DEF PcT, Place
  <2>5. WbT'
    <3>1. <<>> \in Seq(WriteObject)
      OBVIOUS
    <3>2. wb' = NoBuffer
      BY <1>3
    <3>3. NoBuffer' = NoBuffer
      BY DEF NoBuffer, EmptyBuffer
    <3> QED
      BY <1>5, <3>1, <3>2, <3>3 DEF WbT
  <2> QED
    BY <2>1, <2>2, <2>3, <2>4, <2>5, TypePartsNext
<1>7. ~conn.managed /\ fd # "none"
  BY <1>3, HasFd DEF ConnInv, Begun
<1>8. Held'
  BY <1>2, <1>3, <1>4, <1>5 DEF ConnInv, Held, Flushing
<1>9. Begun'
  BY <1>3, <1>7 DEF Begun
<1>10. Sends'
  BY <1>2, <1>3, <1>4 DEF ConnInv, Sends
<1>11. Line' = <<>>
  BY <1>5 DEF Line
<1>12. Lists'
  BY <1>5, <1>11 DEF Lists
<1>13. Total'
  <2>1. Unwritten' = Bytes(Line')
    BY StreamIsNext
  <2>2. IsFiniteSet(Unwritten') /\ Cardinality(Unwritten') = 0
    BY <1>11, <2>1, NoBytes
  <2>3. reg'[Socket].written = 0
    BY <1>2, <1>3 DEF ConnInv, Held
  <2> QED
    BY <1>5, <2>2, <2>3 DEF Total
<1>14. Warns' /\ InOrder'
  BY <1>3, <1>7 DEF Warns, InOrder
<1> QED
  BY <1>6, <1>8, <1>9, <1>10, <1>12, <1>13, <1>14 DEF ConnInv

\* The end of the flush: wbSize is what is left.
LEMMA FlushedStep ==
    ASSUME ConnInv, Flushed
    PROVE  ConnInv'
<1>1. Scalars /\ ConnT /\ WbT /\ PcT /\ RegT /\ LogT
  BY TypeParts DEF ConnInv
<1>2. Socket \in Thread /\ Worker \subseteq Thread /\ NoThread # Socket /\ Socket \notin Worker
  BY ConnectionAssumption DEF Thread
<1>3. /\ pc[Socket] = "flushed" \/ (pc[Socket] = "write" /\ ~Queued)
      /\ wb' = [wb EXCEPT !.size = Shrink(wb.size, reg[Socket].written)]
      /\ reg' = [reg EXCEPT ![Socket].out = FALSE, ![Socket].written = 0]
      /\ lock' = NoThread
      /\ UNCHANGED <<fd, room, wire, input, eof, received, conn, epoll, ready, ev,
                     accepted, warned, closes, flips>>
  BY DEF Flushed, At, kernel, send, recv, poll, log
<1>4. PICK place \in {"read", "notify", "modify"} : pc' = [pc EXCEPT ![Socket] = place]
  BY DEF Flushed, Goto
<1>5. pc'[Socket] = place /\ \A x \in Thread : x # Socket => pc'[x] = pc[x]
  BY <1>1, <1>2, <1>4 DEF PcT
<1>6. lock = Socket /\ wb.there /\ fd # "none"
  BY <1>2, <1>3, HasFd DEF ConnInv, Held, Flushing
<1> DEFINE n == reg[Socket].written
           size == Shrink(wb.size, n)
<1>7. n \in Nat /\ wb.size = Cardinality(Unwritten) + n /\ IsFiniteSet(Unwritten) /\ Cardinality(Unwritten) \in Nat
  BY <1>1, <1>2, FS_CardinalityType DEF ConnInv, Total, RegT
<1>8. size = Cardinality(Unwritten)
  BY <1>7 DEF Shrink
<1>9. /\ wb'.there = wb.there /\ wb'.high = wb.high /\ wb'.low = wb.low /\ wb'.size = size
      /\ wb'.warn = wb.warn
  BY <1>1, <1>3 DEF WbT
<1>10. reg'[Socket].written = 0 /\ \A x \in Thread : x # Socket => reg'[x] = reg[x]
  BY <1>1, <1>2, <1>3 DEF RegT
<1> HIDE DEF n, size
<1>11. TypeOK'
  <2>1. Scalars'
    BY <1>1, <1>3 DEF Scalars
  <2>2. ConnT' /\ LogT'
    BY <1>1, <1>3 DEF ConnT, LogT
  <2>3. RegT'
    BY <1>1, <1>2, <1>3 DEF RegT
  <2>4. PcT'
    BY <1>1, <1>4 DEF PcT, Place
  <2>5. WbT'
    <3>1. wb' = [wb EXCEPT !.size = size] /\ size \in Nat
      BY <1>3, <1>7, <1>8 DEF size, n
    <3> QED
      BY <1>1, <1>6, <1>9, <3>1 DEF WbT
  <2> QED
    BY <2>1, <2>2, <2>3, <2>4, <2>5, TypePartsNext
<1>12. Held'
  <2>1. wb.high = <<>> => wb.low = <<>>
    BY <1>3 DEF ConnInv, Held, Queued
  <2> QED
    BY <1>2, <1>3, <1>5, <1>9, <1>10, <2>1 DEF Held, Flushing
<1>13. Begun'
  BY <1>3, <1>5, <1>6 DEF ConnInv, Begun
<1>14. Sends'
  BY <1>2, <1>3, <1>5, <1>10 DEF ConnInv, Sends
<1>15. Line' = Line
  BY <1>9 DEF Line
<1>16. Stream' = Stream /\ Unwritten' = Unwritten
  BY <1>3, <1>15, StreamIs, StreamIsNext
<1>17. Lists'
  BY <1>3, <1>9, <1>15 DEF ConnInv, Lists
<1>18. Total'
  BY <1>7, <1>8, <1>9, <1>10, <1>16 DEF Total
<1>19. Warns'
  BY <1>3, <1>9 DEF ConnInv, Warns
<1>20. InOrder'
  BY <1>3, <1>16 DEF ConnInv, InOrder
<1> QED
  BY <1>11, <1>12, <1>13, <1>14, <1>17, <1>18, <1>19, <1>20 DEF ConnInv

\* What write() takes is at most the object, and the room there is.
LEMMA WritesIs ==
    ASSUME Scalars, NEW o \in WriteObject
    PROVE  Writes(o) \in 0 .. Rest(o) /\ Writes(o) \in Nat /\ room - Writes(o) \in 0 .. Room
<1>1. Rest(o) \in Nat
  BY ObjectIs
<1>2. room \in Nat /\ room <= Room /\ Room \in Nat
  BY ConnectionAssumption DEF Scalars
<1>3. Writes(o) = IF fd # "up" THEN 0 ELSE IF room < Rest(o) THEN room ELSE Rest(o)
  BY DEF Writes
<1> QED
  BY <1>1, <1>2, <1>3

\* A list after a write().
LEMMA AfterWriteIs ==
    ASSUME NEW q \in Seq(WriteObject), q # <<>>, NEW n \in 0 .. Rest(Head(q))
    PROVE  /\ AfterWrite(q, n) \in Seq(WriteObject) /\ Written(q, AfterWrite(q, n), n)
           /\ Tail(q) \in Seq(WriteObject) /\ Len(Tail(q)) = Len(q) - 1
           /\ \A k \in 1 .. Len(q) - 1 : Tail(q)[k] = q[k + 1]
           /\ n # Rest(q[1]) =>
                AfterWrite(q, n) # <<>> /\ AfterWrite(q, n) = <<Head(AfterWrite(q, n))>> \o Tail(q)
<1> DEFINE o == q[1]
           u == Tail(q)
           r == AfterWrite(q, n)
           x == [pkt |-> o.pkt, start |-> o.start + n]
<1>1. Len(q) \in Nat \ {0} /\ o \in WriteObject /\ Head(q) = o
  OBVIOUS
<1>2. u \in Seq(WriteObject) /\ Len(u) = Len(q) - 1 /\ \A k \in 1 .. Len(q) - 1 : u[k] = q[k + 1]
  OBVIOUS
<1>3. r = IF n = Rest(o) THEN u ELSE <<x>> \o u
  BY <1>1 DEF AfterWrite
<1>4. o.pkt \in Packet /\ o.start \in Nat /\ PktLen[o.pkt] \in Nat /\ Rest(o) \in Nat \ {0} /\ Rest(o) = PktLen[o.pkt] - o.start
  <2> HIDE DEF o
  <2> QED
    BY <1>1, ObjectIs DEF Rest
<1>5. n \in Nat /\ n <= Rest(o)
  BY <1>1, <1>4
<1>6. CASE n = Rest(o)
  <2>1. r = u
    BY <1>3, <1>6
  <2>2. Written(q, r, n)
    <3>1. Len(q) > 0 /\ n \in 0 .. Rest(q[1]) /\ ~(n < Rest(q[1]))
      BY <1>1, <1>4, <1>6
    <3>2. Len(u) = Len(q) - 1 /\ \A k \in 1 .. Len(u) : u[k] = q[k + 1]
      BY <1>2
    <3> HIDE DEF u, r
    <3> QED
      BY <2>1, <3>1, <3>2 DEF Written
  <2> QED
    BY <1>2, <1>6, <2>1, <2>2
<1>7. CASE n # Rest(o)
  <2>1. r = <<x>> \o u
    BY <1>3, <1>7
  <2>2. x \in WriteObject
    BY <1>4, <1>5, <1>7 DEF WriteObject
  <2> HIDE DEF u, r, x
  <2>3. r \in Seq(WriteObject) /\ Len(r) = Len(u) + 1 /\ r[1] = x /\ \A k \in 1 .. Len(u) : r[1 + k] = u[k]
    <3>1. <<x>> \in Seq(WriteObject) /\ Len(<<x>>) = 1 /\ <<x>>[1] = x
      BY <2>2
    <3>2. \A a, b \in Seq(WriteObject) :
            /\ a \o b \in Seq(WriteObject) /\ Len(a \o b) = Len(a) + Len(b)
            /\ \A k \in 1 .. Len(a) : (a \o b)[k] = a[k]
            /\ \A k \in 1 .. Len(b) : (a \o b)[Len(a) + k] = b[k]
      BY JoinAt
    <3> QED
      BY <1>2, <2>1, <3>1, <3>2
  <2>4. Len(r) = Len(q) /\ n < Rest(o) /\ r # <<>> /\ Head(r) = x
    BY <1>1, <1>2, <1>4, <1>5, <1>7, <2>3
  <2>5. ASSUME NEW k \in 2 .. Len(q) PROVE r[k] = q[k]
    <3>1. k - 1 \in 1 .. Len(u) /\ k - 1 \in 1 .. Len(q) - 1 /\ 1 + (k - 1) = k /\ (k - 1) + 1 = k
      BY <1>1, <1>2
    <3>2. r[1 + (k - 1)] = u[k - 1] /\ u[k - 1] = q[(k - 1) + 1]
      BY <1>2, <2>3, <3>1
    <3> QED
      BY <3>1, <3>2
  <2>6. Written(q, r, n)
    BY <1>1, <1>4, <1>5, <1>7, <2>3, <2>4, <2>5 DEF Written, x
  <2> QED
    BY <1>2, <2>1, <2>3, <2>4, <2>6 DEF r, u
<1> QED
  BY <1>6, <1>7

\* What follows the list stays.
LEMMA WrittenJoin ==
    ASSUME NEW a \in Seq(WriteObject), NEW b \in Seq(WriteObject), NEW c \in Seq(WriteObject), NEW n,
           Written(a, b, n), NEW q, NEW r, q = a \o c, r = b \o c
    PROVE  Written(q, r, n)
<1>1. /\ Len(q) = Len(a) + Len(c)
      /\ \A k \in 1 .. Len(a) : q[k] = a[k]
      /\ \A k \in 1 .. Len(c) : q[Len(a) + k] = c[k]
  BY JoinAt
<1>2. /\ Len(r) = Len(b) + Len(c)
      /\ \A k \in 1 .. Len(b) : r[k] = b[k]
      /\ \A k \in 1 .. Len(c) : r[Len(b) + k] = c[k]
  BY JoinAt
<1>3. Len(a) \in Nat \ {0} /\ Len(c) \in Nat /\ Len(b) \in Nat
  BY DEF Written
<1>4. q[1] = a[1] /\ Len(q) > 0 /\ n \in 0 .. Rest(q[1])
  BY <1>1, <1>3 DEF Written
<1>5. ASSUME n = Rest(q[1])
      PROVE  Len(r) = Len(q) - 1 /\ \A k \in 1 .. Len(r) : r[k] = q[k + 1]
  <2>1. Len(b) = Len(a) - 1 /\ \A k \in 1 .. Len(b) : b[k] = a[k + 1]
    BY <1>4, <1>5 DEF Written
  <2>2. Len(r) = Len(q) - 1
    BY <1>1, <1>2, <1>3, <2>1
  <2>3. ASSUME NEW k \in 1 .. Len(r) PROVE r[k] = q[k + 1]
    <3>1. CASE k <= Len(b)
      <4>1. k \in 1 .. Len(b) /\ k + 1 \in 1 .. Len(a)
        BY <1>3, <2>1, <3>1
      <4> QED
        BY <1>1, <1>2, <2>1, <4>1
    <3>2. CASE k > Len(b)
      <4> DEFINE l == k - Len(b)
      <4>1. l \in 1 .. Len(c) /\ Len(b) + l = k /\ Len(a) + l = k + 1
        BY <1>2, <1>3, <2>1, <3>2
      <4> HIDE DEF l
      <4>2. r[Len(b) + l] = c[l] /\ q[Len(a) + l] = c[l]
        BY <1>1, <1>2, <4>1
      <4> QED
        BY <4>1, <4>2
    <3>3. k <= Len(b) \/ k > Len(b)
      BY <1>3
    <3> QED
      BY <3>1, <3>2, <3>3
  <2> QED
    BY <2>2, <2>3
<1>6. ASSUME n < Rest(q[1])
      PROVE  /\ Len(r) = Len(q) /\ r[1] = [pkt |-> q[1].pkt, start |-> q[1].start + n]
             /\ \A k \in 2 .. Len(q) : r[k] = q[k]
  <2>1. Len(b) = Len(a) /\ b[1] = [pkt |-> a[1].pkt, start |-> a[1].start + n] /\ \A k \in 2 .. Len(a) : b[k] = a[k]
    BY <1>4, <1>6 DEF Written
  <2>2. Len(r) = Len(q) /\ r[1] = b[1]
    BY <1>1, <1>2, <1>3, <2>1
  <2>3. ASSUME NEW k \in 2 .. Len(q) PROVE r[k] = q[k]
    <3>1. CASE k <= Len(b)
      <4>1. k \in 1 .. Len(b) /\ k \in 1 .. Len(a) /\ k \in 2 .. Len(a)
        BY <1>3, <2>1, <3>1
      <4> QED
        BY <1>1, <1>2, <2>1, <4>1
    <3>2. CASE k > Len(b)
      <4> DEFINE l == k - Len(b)
      <4>1. l \in 1 .. Len(c) /\ Len(b) + l = k /\ Len(a) + l = k
        BY <1>1, <1>3, <2>1, <3>2
      <4> HIDE DEF l
      <4>2. r[Len(b) + l] = c[l] /\ q[Len(a) + l] = c[l]
        BY <1>1, <1>2, <4>1
      <4> QED
        BY <4>1, <4>2
    <3>3. k <= Len(b) \/ k > Len(b)
      BY <1>3
    <3> QED
      BY <3>1, <3>2, <3>3
  <2> QED
    BY <1>4, <2>1, <2>2, <2>3
<1> QED
  BY <1>4, <1>5, <1>6 DEF Written

\* A write() brings no packet into a list.
LEMMA WrittenOnce ==
    ASSUME NEW q \in Seq(WriteObject), NEW r \in Seq(WriteObject), NEW n, Written(q, r, n), Once(q)
    PROVE  /\ Once(r)
           /\ \A k \in DOMAIN r : \E l \in DOMAIN q : r[k].pkt = q[l].pkt
<1>1. DOMAIN q = 1 .. Len(q) /\ DOMAIN r = 1 .. Len(r) /\ Len(q) \in Nat \ {0} /\ Len(r) \in Nat
  BY DEF Written
<1>2. q[1] \in WriteObject
  BY <1>1
<1>3. Rest(q[1]) \in Nat
  BY <1>2, ObjectIs
<1>4. CASE n = Rest(q[1])
  <2>1. Len(r) = Len(q) - 1 /\ \A k \in 1 .. Len(r) : r[k] = q[k + 1]
    BY <1>4 DEF Written
  <2>2. \A k \in DOMAIN r : k + 1 \in DOMAIN q /\ r[k] = q[k + 1]
    BY <1>1, <2>1
  <2>3. ASSUME NEW k \in DOMAIN r, NEW l \in DOMAIN r, r[k].pkt = r[l].pkt PROVE k = l
    <3>1. k + 1 = l + 1
      BY <2>2, <2>3 DEF Once
    <3> QED
      BY <1>1, <3>1
  <2> QED
    BY <2>2, <2>3 DEF Once
<1>5. CASE n < Rest(q[1])
  <2>1. Len(r) = Len(q) /\ r[1] = [pkt |-> q[1].pkt, start |-> q[1].start + n] /\ \A k \in 2 .. Len(q) : r[k] = q[k]
    BY <1>5 DEF Written
  <2>2. ASSUME NEW k \in DOMAIN r PROVE k \in DOMAIN q /\ r[k].pkt = q[k].pkt
    <3>1. k = 1 \/ k \in 2 .. Len(q)
      BY <1>1, <2>1
    <3> QED
      BY <1>1, <2>1, <3>1
  <2> QED
    BY <2>2 DEF Once
<1>6. n = Rest(q[1]) \/ n < Rest(q[1])
  BY <1>3 DEF Written
<1> QED
  BY <1>4, <1>5, <1>6

\* A list is its head and its tail.
LEMMA HeadTail ==
    ASSUME NEW S, NEW a \in Seq(S), a # <<>>
    PROVE  /\ a = <<Head(a)>> \o Tail(a) /\ Head(a) \in S /\ Head(a) = a[1] /\ <<Head(a)>> \in Seq(S)
           /\ Tail(a) \in Seq(S) /\ Len(Tail(a)) = Len(a) - 1 /\ \A k \in 1 .. Len(a) - 1 : Tail(a)[k] = a[k + 1]
  OBVIOUS

\* What a write() of the flush leaves of the lists.
LEMMA FrontLists ==
    ASSUME WbT, Scalars, Lists, WriteFrontFromList
    PROVE  LET n == Writes(Line[1]) IN
           /\ Line # <<>> /\ Line[1] \in WriteObject /\ Written(Line, Line', n)
           /\ wb' = [wb EXCEPT !.high = wb'.high, !.low = wb'.low]
           /\ wb'.high \in Seq(WriteObject) /\ wb'.low \in Seq(WriteObject)
           /\ \A k \in DOMAIN wb'.high : k > 1 => wb'.high[k].start = 0
           /\ \A k \in DOMAIN wb'.low : wb'.low[k].start = 0 /\ wb'.low[k].pkt \in Low
           /\ room' = room - n /\ wire' = Wired(wire, Line[1], n)
           /\ reg' = [reg EXCEPT ![Socket].written = reg[Socket].written + n]
           /\ Goto(Socket, IF n = Rest(Line[1]) THEN "write" ELSE "flushed")
           /\ n # Rest(Line[1]) => wb'.high # <<>>
<1> DEFINE q == IF wb.high # <<>> THEN wb.high ELSE wb.low
           o == Head(q)
           n == Writes(o)
           left == AfterWrite(q, n)
           lists == IF wb.high # <<>> THEN [high |-> left, low |-> wb.low]
                    ELSE IF n = Rest(o) THEN [high |-> <<>>, low |-> left] ELSE Raise(left)
<1>1. /\ wb.high \in Seq(WriteObject) /\ wb.low \in Seq(WriteObject) /\ q \in Seq(WriteObject) /\ q # <<>>
      /\ wb.high = <<>> => wb.low # <<>>
  BY DEF WbT, WriteFrontFromList, Queued
<1>2. /\ Puts(o, n) /\ wb' = [wb EXCEPT !.high = lists.high, !.low = lists.low]
      /\ reg' = [reg EXCEPT ![Socket].written = @ + n]
      /\ Goto(Socket, IF n = Rest(o) THEN "write" ELSE "flushed")
  BY DEF WriteFrontFromList
<1>3. o \in WriteObject /\ o = q[1]
  BY <1>1
<1>4. n \in 0 .. Rest(o)
  <2> HIDE DEF o
  <2> QED
    BY <1>3, WritesIs
<1>5. /\ left \in Seq(WriteObject) /\ Written(q, left, n)
      /\ Tail(q) \in Seq(WriteObject) /\ Len(Tail(q)) = Len(q) - 1
      /\ \A k \in 1 .. Len(q) - 1 : Tail(q)[k] = q[k + 1]
      /\ n # Rest(o) => left # <<>> /\ left = <<Head(left)>> \o Tail(q)
  <2> HIDE DEF n, q
  <2> QED
    BY <1>1, <1>3, <1>4, AfterWriteIs
<1>6. wb'.high = lists.high /\ wb'.low = lists.low
  BY <1>2 DEF WbT
<1>7. /\ \A k \in DOMAIN wb.high : k > 1 => wb.high[k].start = 0
      /\ \A k \in DOMAIN wb.low : wb.low[k].start = 0 /\ wb.low[k].pkt \in Low
  BY DEF Lists
<1>8. Line = wb.high \o wb.low /\ Line' = wb'.high \o wb'.low
  BY DEF Line
<1>9. Len(q) \in Nat \ {0} /\ DOMAIN q = 1 .. Len(q) /\ DOMAIN left = 1 .. Len(left) /\ Len(left) \in Nat
  BY <1>1, <1>5
<1>10. CASE wb.high # <<>>
  <2>1. q = wb.high /\ wb'.high = left /\ wb'.low = wb.low
    BY <1>6, <1>10
  <2>2. Written(Line, Line', n)
    <3> HIDE DEF n, q, left
    <3> QED
      BY <1>1, <1>5, <1>8, <2>1, WrittenJoin
  <2>3. Line # <<>> /\ Line[1] = o
    <3>1. wb.high \in Seq(WriteObject) /\ wb.high # <<>> /\ o = wb.high[1]
      BY <1>1, <1>3, <1>10
    <3>2. 1 \in 1 .. Len(wb.high)
      BY <3>1
    <3> HIDE DEF q, o
    <3>3. Line[1] = wb.high[1] /\ Line \in Seq(WriteObject) /\ Len(Line) = Len(wb.high) + Len(wb.low)
          /\ Len(wb.low) \in Nat
      BY <3>2, LineIs
    <3>4. Len(wb.high) \in Nat \ {0}
      BY <3>1
    <3>5. Len(Line) # 0
      <4>1. \A a \in Nat \ {0}, b \in Nat : a + b # 0
        OBVIOUS
      <4> QED
        BY <3>3, <3>4, <4>1, Zenon
    <3>6. Len(<<>>) = 0
      OBVIOUS
    <3> QED
      BY <3>1, <3>3, <3>5, <3>6, Zenon
  <2>4. ASSUME NEW k \in DOMAIN left, k > 1 PROVE left[k].start = 0
    <3>1. CASE n = Rest(q[1])
      <4>1. Len(left) = Len(q) - 1 /\ left[k] = q[k + 1]
        BY <1>5, <1>9, <2>4, <3>1 DEF Written
      <4>2. k + 1 \in DOMAIN q /\ k + 1 > 1
        BY <1>9, <2>4, <4>1
      <4> QED
        BY <1>7, <2>1, <4>1, <4>2
    <3>2. CASE n < Rest(q[1])
      <4>1. Len(left) = Len(q) /\ \A l \in 2 .. Len(q) : left[l] = q[l]
        BY <1>5, <3>2 DEF Written
      <4>2. k \in 2 .. Len(q) /\ k \in DOMAIN q
        BY <1>9, <2>4, <4>1
      <4> QED
        BY <1>7, <2>1, <2>4, <4>1, <4>2
    <3>3. Rest(o) \in Nat
      <4> HIDE DEF o
      <4> QED
        BY <1>3, ObjectIs
    <3>4. n = Rest(q[1]) \/ n < Rest(q[1])
      BY <1>3, <1>4, <3>3
    <3> QED
      BY <3>1, <3>2, <3>4
  <2>5. n # Rest(o) => wb'.high # <<>>
    BY <1>5, <2>1
  <2> HIDE DEF n, left, lists, q, o
  <2>6. room' = room - n /\ wire' = Wired(wire, o, n)
    BY <1>2 DEF Puts, Wired
  <2>7. n = Writes(Line[1])
    BY <2>3 DEF n
  <2>8. wb' = [wb EXCEPT !.high = wb'.high, !.low = wb'.low]
    BY <1>2, <1>6
  <2> QED
    BY <1>1, <1>2, <1>3, <1>5, <1>7, <2>1, <2>2, <2>3, <2>4, <2>5, <2>6, <2>7, <2>8
<1>11. ASSUME wb.high = <<>>
       PROVE  /\ q = wb.low /\ Line = q /\ Line # <<>> /\ Line[1] = o
              /\ \A k \in DOMAIN Tail(q) : Tail(q)[k].start = 0 /\ Tail(q)[k].pkt \in Low
  <2>1. q = wb.low
    BY <1>11
  <2>2. Line = q
    BY <1>1, <1>8, <1>11, <2>1
  <2>3. \A k \in DOMAIN Tail(q) : k \in 1 .. Len(q) - 1 /\ k + 1 \in DOMAIN q
    BY <1>5, <1>9
  <2> HIDE DEF q
  <2> QED
    BY <1>1, <1>3, <1>5, <1>7, <2>1, <2>2, <2>3
<1>12. CASE wb.high = <<>> /\ n = Rest(o)
  <2>1. wb'.high = <<>> /\ wb'.low = left /\ left = Tail(q)
    BY <1>6, <1>12 DEF AfterWrite
  <2>2. Line' = left
    BY <1>5, <1>8, <2>1
  <2> HIDE DEF n, left, lists, q, o
  <2>3. Written(Line, Line', n)
    BY <1>5, <1>11, <1>12, <2>2
  <2>6. room' = room - n /\ wire' = Wired(wire, o, n)
    BY <1>2 DEF Puts, Wired
  <2>7. n = Writes(Line[1]) /\ Line # <<>> /\ Line[1] = o
    BY <1>11, <1>12 DEF n
  <2>8. wb' = [wb EXCEPT !.high = wb'.high, !.low = wb'.low]
    BY <1>2, <1>6
  <2>9. \A k \in DOMAIN wb'.low : wb'.low[k].start = 0 /\ wb'.low[k].pkt \in Low
    BY <1>11, <1>12, <2>1
  <2>10. \A k \in DOMAIN wb'.high : k > 1 => wb'.high[k].start = 0
    BY <2>1
  <2>11. wb'.high \in Seq(WriteObject) /\ wb'.low \in Seq(WriteObject)
    <3>1. <<>> \in Seq(WriteObject)
      OBVIOUS
    <3> QED
      BY <1>5, <2>1, <3>1, Zenon
  <2> QED
    BY <1>2, <1>3, <1>12, <2>3, <2>6, <2>7, <2>8, <2>9, <2>10, <2>11
<1>13. CASE wb.high = <<>> /\ n # Rest(o)
  <2>0. left # <<>> /\ left = <<Head(left)>> \o Tail(q)
    BY <1>5, <1>13
  <2>1. wb'.high = <<Head(left)>> /\ wb'.low = Tail(left)
    BY <1>6, <1>13 DEF Raise
  <2> HIDE DEF n, left, lists, q, o
  <2>2. /\ left = <<Head(left)>> \o Tail(left) /\ <<Head(left)>> \in Seq(WriteObject)
        /\ Tail(left) \in Seq(WriteObject) /\ Len(Tail(left)) = Len(left) - 1
        /\ \A k \in 1 .. Len(left) - 1 : Tail(left)[k] = left[k + 1]
    BY <1>5, <2>0, HeadTail
  <2>3. Line' = left
    BY <1>8, <2>1, <2>2
  <2>4. Written(Line, Line', n)
    BY <1>5, <1>11, <1>13, <2>3
  <2>5. Tail(left) = Tail(q)
    <3>1. Rest(o) \in Nat
      BY <1>3, ObjectIs
    <3>2. n < Rest(q[1])
      BY <1>3, <1>4, <1>13, <3>1
    <3>3. Len(left) = Len(q) /\ \A k \in 2 .. Len(q) : left[k] = q[k]
      BY <1>5, <3>2 DEF Written
    <3>4. ASSUME NEW k \in 1 .. Len(Tail(left)) PROVE Tail(left)[k] = Tail(q)[k]
      <4>1. k \in 1 .. Len(left) - 1 /\ k \in 1 .. Len(q) - 1 /\ k + 1 \in 2 .. Len(q)
        BY <1>9, <2>2, <3>3
      <4> QED
        BY <1>5, <2>2, <3>3, <4>1
    <3>5. Len(Tail(left)) = Len(Tail(q))
      BY <1>5, <2>2, <3>3
    <3> QED
      BY <1>5, <2>2, <3>4, <3>5, SameSeq
  <2>6. room' = room - n /\ wire' = Wired(wire, o, n)
    BY <1>2 DEF Puts, Wired
  <2>7. n = Writes(Line[1]) /\ Line # <<>> /\ Line[1] = o
    BY <1>11, <1>13 DEF n
  <2>8. wb' = [wb EXCEPT !.high = wb'.high, !.low = wb'.low]
    BY <1>2, <1>6
  <2>9. \A k \in DOMAIN wb'.low : wb'.low[k].start = 0 /\ wb'.low[k].pkt \in Low
    BY <1>11, <1>13, <2>1, <2>5
  <2>10. (\A k \in DOMAIN wb'.high : k > 1 => wb'.high[k].start = 0) /\ wb'.high # <<>>
    BY <2>1
  <2>11. wb'.high \in Seq(WriteObject) /\ wb'.low \in Seq(WriteObject)
    BY <2>1, <2>2
  <2> QED
    BY <1>2, <1>3, <2>4, <2>6, <2>7, <2>8, <2>9, <2>10, <2>11
<1> QED
  BY <1>10, <1>12, <1>13

\* What is on the wire are pieces.
LEMMA WiredIs ==
    ASSUME NEW w \in Seq(Pieces), NEW o \in WriteObject, NEW n \in Nat
    PROVE  Wired(w, o, n) \in Seq(Pieces)
<1>1. o.pkt \in Packet /\ o.start \in Nat
  BY ObjectIs
<1>2. Piece(o.pkt, o.start, o.start + n) \in Pieces
  BY <1>1 DEF Piece, Pieces
<1>3. \A a \in Seq(Pieces), x \in Pieces : Append(a, x) \in Seq(Pieces)
  OBVIOUS
<1> QED
  BY <1>2, <1>3 DEF Wired

\* A write() of the flush.
LEMMA FrontStep ==
    ASSUME ConnInv, WriteFrontFromList
    PROVE  ConnInv'
<1>1. Scalars /\ ConnT /\ WbT /\ PcT /\ RegT /\ LogT /\ Lists /\ Held
  BY TypeParts DEF ConnInv
<1>2. Socket \in Thread /\ Worker \subseteq Thread /\ NoThread # Socket /\ Socket \notin Worker
  BY ConnectionAssumption DEF Thread
<1> DEFINE o == Line[1]
           n == Writes(o)
<1>3. /\ Line # <<>> /\ o \in WriteObject /\ Written(Line, Line', n)
      /\ wb' = [wb EXCEPT !.high = wb'.high, !.low = wb'.low]
      /\ wb'.high \in Seq(WriteObject) /\ wb'.low \in Seq(WriteObject)
      /\ \A k \in DOMAIN wb'.high : k > 1 => wb'.high[k].start = 0
      /\ \A k \in DOMAIN wb'.low : wb'.low[k].start = 0 /\ wb'.low[k].pkt \in Low
      /\ room' = room - n /\ wire' = Wired(wire, o, n)
      /\ reg' = [reg EXCEPT ![Socket].written = reg[Socket].written + n]
      /\ Goto(Socket, IF n = Rest(o) THEN "write" ELSE "flushed")
      /\ n # Rest(o) => wb'.high # <<>>
  BY <1>1, FrontLists
<1> HIDE DEF o
<1>4. n \in 0 .. Rest(o) /\ n \in Nat /\ room - n \in 0 .. Room
  BY <1>1, <1>3, WritesIs
<1> HIDE DEF n
<1>5. /\ pc[Socket] = "write"
      /\ UNCHANGED <<fd, input, eof, received, conn, lock, epoll, ready, ev, accepted, warned, closes, flips>>
  BY DEF WriteFrontFromList, At, recv, poll, log
<1>6. PICK place \in {"write", "flushed"} :
        pc' = [pc EXCEPT ![Socket] = place] /\ (place = "flushed" => wb'.high # <<>>)
  BY <1>3 DEF Goto
<1>7. pc'[Socket] = place /\ \A x \in Thread : x # Socket => pc'[x] = pc[x]
  BY <1>1, <1>2, <1>6 DEF PcT
<1>8. lock = Socket /\ wb.there /\ fd # "none"
  BY <1>1, <1>2, <1>5, HasFd DEF Held, Flushing
<1>9. wb'.there = wb.there /\ wb'.size = wb.size /\ wb'.warn = wb.warn /\ wb'.closing = wb.closing
  BY <1>1, <1>3 DEF WbT
<1>10. /\ reg'[Socket].written = reg[Socket].written + n /\ reg[Socket].written \in Nat
       /\ \A x \in Thread : x # Socket => reg'[x] = reg[x]
  BY <1>1, <1>2, <1>3 DEF RegT
<1>11. Scalars' /\ ConnT'
  <2>1. room' \in 0 .. Room
    BY <1>3, <1>4
  <2> QED
    BY <1>1, <1>5, <2>1 DEF Scalars, ConnT
<1>12. WbT'
  <2>1. wb.there /\ wb' = [wb EXCEPT !.high = wb'.high, !.low = wb'.low]
    BY <1>3, <1>8
  <2>2. wb'.there
    BY <1>8, <1>9
  <2> QED
    BY <1>1, <1>3, <2>1, <2>2 DEF WbT
<1>13. PcT' /\ RegT'
  <2>1. PcT'
    BY <1>1, <1>6 DEF PcT, Place
  <2>2. reg[Socket].written + n \in Nat
    BY <1>4, <1>10
  <2>3. RegT'
    BY <1>1, <1>2, <1>3, <2>2 DEF RegT
  <2> QED
    BY <2>1, <2>3
<1>14. Line \in Seq(WriteObject) /\ Line' \in Seq(WriteObject) /\ wire \in Seq(Pieces)
  BY <1>1, <1>12, LineIs, LineIsNext DEF LogT
<1>15. wire' \in Seq(Pieces)
  BY <1>3, <1>4, <1>14, WiredIs
<1>16. TypeOK'
  <2>1. LogT'
    BY <1>1, <1>5, <1>15 DEF LogT
  <2> QED
    BY <1>11, <1>12, <1>13, <2>1, TypePartsNext
<1>17. Held'
  BY <1>2, <1>5, <1>6, <1>7, <1>8, <1>9 DEF Held, Flushing
<1>18. Begun'
  BY <1>5, <1>7, <1>8 DEF ConnInv, Begun
<1>19. Sends'
  BY <1>2, <1>5, <1>7, <1>10 DEF ConnInv, Sends
<1>20. Once(Line)
  BY <1>1 DEF Lists, Once
<1>21. Lists'
  <2>1. Once(Line') /\ \A k \in DOMAIN Line' : \E l \in DOMAIN Line : Line'[k].pkt = Line[l].pkt
    BY <1>3, <1>14, <1>20, WrittenOnce
  <2>2. \A k \in DOMAIN Line' : Line'[k].pkt \in ToSet(accepted')
    BY <1>1, <1>5, <2>1 DEF Lists
  <2> QED
    BY <1>3, <2>1, <2>2 DEF Lists, Once
<1>22. Total'
  <2>1. IsFiniteSet(Bytes(Line)) /\ wb.size = Cardinality(Bytes(Line)) + reg[Socket].written
    BY StreamIs DEF ConnInv, Total
  <2>2. /\ IsFiniteSet(Bytes(Line')) /\ Cardinality(Bytes(Line')) \in Nat
        /\ Cardinality(Bytes(Line)) = Cardinality(Bytes(Line')) + n
    BY <1>3, <1>14, <1>20, <2>1, SentBytes
  <2>3. wb'.size = Cardinality(Bytes(Line')) + reg'[Socket].written
    BY <1>4, <1>9, <1>10, <2>1, <2>2
  <2> QED
    BY <2>2, <2>3, StreamIsNext DEF Total
<1>23. Warns'
  BY <1>5, <1>9 DEF ConnInv, Warns
<1>24. InOrder'
  <2> SUFFICES ASSUME conn.managed PROVE Whole(Stream', accepted)
    BY <1>5 DEF InOrder
  <2>1. Whole(StreamOf(wire, Line), accepted)
    BY StreamIs DEF ConnInv, InOrder
  <2>2. Whole(StreamOf(wire', Line'), accepted)
    BY <1>3, <1>14, <2>1, SentStream DEF o
  <2> QED
    BY <2>2, StreamIsNext
<1> QED
  BY <1>16, <1>17, <1>18, <1>19, <1>21, <1>22, <1>23, <1>24 DEF ConnInv

-----------------------------------------------------------------------------
(* SendBuffer *)

\* The warnings ws were raised at their thresholds, and x is the next one.
Raised(x, ws) ==
    /\ x = IF ws = <<>> THEN 0 ELSE 2 * Threshold[Len(ws) - 1]
    /\ \A k \in DOMAIN ws : ws[k] >= Threshold[k - 1]

\* The buffers.
BufferT == [there : BOOLEAN, high : Seq(WriteObject), low : Seq(WriteObject), size : Nat, warn : Nat, closing : BOOLEAN]

\* The warning SendBuffer ends with leaves the lists alone.
LEMMA WarnIs ==
    ASSUME NEW b \in BufferT, warned \in Seq(Nat), Warn(b)
    PROVE  /\ wb' \in BufferT /\ warned' \in Seq(Nat)
           /\ wb'.there = b.there /\ wb'.high = b.high /\ wb'.low = b.low /\ wb'.size = b.size
           /\ Raised(b.warn, warned) => Raised(wb'.warn, warned')
<1>0. WarningSize \in Nat \ {0}
  BY ConnectionAssumption
<1>1. b.size \in Nat /\ b.warn \in Nat
  BY DEF BufferT
<1>2. CASE ~(b.size >= WarningSize /\ b.size >= b.warn)
  BY <1>2 DEF Warn
<1>3. CASE b.size >= WarningSize /\ b.size >= b.warn
  <2> DEFINE x == IF b.warn = 0 THEN WarningSize * 2 ELSE b.warn * 2
             m == Len(warned)
  <2>1. wb' = [b EXCEPT !.warn = x] /\ warned' = Append(warned, b.size)
    BY <1>3 DEF Warn
  <2>2. x \in Nat
    BY <1>0, <1>1
  <2>3. /\ wb' \in BufferT /\ wb'.warn = x
        /\ wb'.there = b.there /\ wb'.high = b.high /\ wb'.low = b.low /\ wb'.size = b.size
    <3> HIDE DEF x
    <3> QED
      BY <2>1, <2>2 DEF BufferT
  <2>4. /\ warned' \in Seq(Nat) /\ Len(warned') = m + 1 /\ m \in Nat /\ warned'[m + 1] = b.size
        /\ \A k \in 1 .. m : warned'[k] = warned[k]
    BY <1>1, <2>1
  <2>5. ASSUME Raised(b.warn, warned) PROVE Raised(x, warned')
    <3> HIDE DEF m
    <3>0. m \in Nat /\ (warned = <<>> <=> m = 0)
      BY <2>4 DEF m
    <3>1. b.warn = (IF m = 0 THEN 0 ELSE 2 * Threshold[m - 1]) /\ \A k \in 1 .. m : warned[k] >= Threshold[k - 1]
      BY <2>5, <3>0 DEF Raised, m
    <3>2. x = 2 * Threshold[m] /\ b.size >= Threshold[m]
      <4>1. CASE m = 0
        BY <1>0, <1>1, <1>3, <3>1, <4>1, ThresholdIs
      <4>2. CASE m # 0
        <5>1. m - 1 \in Nat /\ (m - 1) + 1 = m
          BY <3>0, <4>2
        <5>2. Threshold[m - 1] \in Nat \ {0} /\ Threshold[m] = 2 * Threshold[m - 1]
          BY <5>1, ThresholdIs
        <5>3. b.warn = Threshold[m] /\ b.warn # 0
          BY <3>1, <4>2, <5>2
        <5> QED
          BY <1>1, <1>3, <5>2, <5>3
      <4> QED
        BY <4>1, <4>2
    <3>3. ASSUME NEW k \in 1 .. m + 1 PROVE warned'[k] >= Threshold[k - 1]
      <4>1. CASE k = m + 1
        <5>1. k - 1 = m
          BY <3>0, <4>1
        <5> QED
          BY <2>4, <3>2, <4>1, <5>1
      <4>2. CASE k \in 1 .. m
        BY <2>4, <3>1, <4>2
      <4> QED
        BY <3>0, <4>1, <4>2
    <3>4. Len(warned') - 1 = m /\ warned' # <<>> /\ DOMAIN warned' = 1 .. m + 1
      BY <2>4, <3>0
    <3> HIDE DEF x
    <3> QED
      BY <3>2, <3>3, <3>4 DEF Raised
  <2> HIDE DEF x
  <2> QED
    BY <2>3, <2>4, <2>5
<1> QED
  BY <1>2, <1>3

\* A buffer b with the lists a SendBuffer may leave: packet p is new, and size is exact.
Loaded(b, p) ==
    LET q == b.high \o b.low IN
    /\ b.there /\ b.warn = wb.warn /\ (b.high = <<>> => b.low = <<>>)
    /\ \A k \in DOMAIN b.high : k > 1 => b.high[k].start = 0
    /\ \A k \in DOMAIN b.low : b.low[k].start = 0 /\ b.low[k].pkt \in Low
    /\ Once(q) /\ \A k \in DOMAIN q : q[k].pkt = p \/ q[k].pkt \in ToSet(accepted)
    /\ IsFiniteSet(Bytes(q)) /\ b.size = Cardinality(Bytes(q))

\* The packets accepted, after one more.
LEMMA ToSetAppend ==
    ASSUME NEW a \in Seq(Packet), NEW p \in Packet
    PROVE  ToSet(Append(a, p)) = ToSet(a) \cup {p}
<1> DEFINE c == Append(a, p)
           m == Len(a)
<1>1. /\ DOMAIN c = 1 .. m + 1 /\ DOMAIN a = 1 .. m /\ m \in Nat /\ c[m + 1] = p
      /\ \A k \in 1 .. m : c[k] = a[k]
  OBVIOUS
<1> HIDE DEF c, m
<1>2. ASSUME NEW x \in ToSet(c) PROVE x \in ToSet(a) \/ x = p
  <2>1. PICK k \in 1 .. m + 1 : x = c[k]
    BY <1>1 DEF ToSet
  <2>2. k = m + 1 \/ k \in 1 .. m
    BY <1>1
  <2> QED
    BY <1>1, <2>1, <2>2 DEF ToSet
<1>3. ASSUME NEW x \in ToSet(a) PROVE x \in ToSet(c)
  <2>1. PICK k \in 1 .. m : x = a[k]
    BY <1>1 DEF ToSet
  <2>2. k \in 1 .. m + 1
    BY <1>1
  <2> QED
    BY <1>1, <2>1, <2>2 DEF ToSet
<1>4. p \in ToSet(c)
  <2>1. m + 1 \in 1 .. m + 1
    BY <1>1
  <2> QED
    BY <1>1, <2>1 DEF ToSet
<1>5. ToSet(c) = ToSet(a) \cup {p}
  BY <1>2, <1>3, <1>4
<1> QED
  BY <1>5 DEF c

\* SendBuffer takes a packet.
LEMMA SendStep ==
    ASSUME ConnInv, NEW w \in Worker, NEW p, p = reg[w].pkt, pc[w] = "send", lock = NoThread,
           NEW b \in BufferT, Loaded(b, p), Warn(b), accepted' = Append(accepted, p),
           Scalars', RegT', \A x \in Thread : reg'[x].pkt = reg[x].pkt /\ reg'[x].written = reg[x].written,
           fd' = fd, conn' = conn, lock' \in {NoThread, w},
           NEW place \in {"idle", "modify"}, Goto(w, place), wire' \in Seq(Pieces),
           conn.managed => Whole(StreamOf(wire', b.high \o b.low), accepted')
    PROVE  ConnInv'
<1>1. Scalars /\ ConnT /\ WbT /\ PcT /\ RegT /\ LogT /\ Held /\ Sends
  BY TypeParts DEF ConnInv
<1>2. /\ Socket \in Thread /\ Worker \subseteq Thread /\ NoThread # Socket /\ w # Socket /\ w \in Thread
      /\ Socket \notin Worker
  BY ConnectionAssumption DEF Thread
<1>3. p \in Packet \ ToSet(accepted)
  BY <1>1 DEF Sends
<1>4. pc' = [pc EXCEPT ![w] = place] /\ place \in Place
  BY DEF Goto, Place
<1>5. pc'[w] = place /\ \A x \in Thread : x # w => pc'[x] = pc[x]
  BY <1>1, <1>2, <1>4 DEF PcT
<1>6. warned \in Seq(Nat) /\ accepted \in Seq(Packet)
  BY <1>1 DEF LogT
<1>7. /\ wb' \in BufferT /\ warned' \in Seq(Nat)
      /\ wb'.there = b.there /\ wb'.high = b.high /\ wb'.low = b.low /\ wb'.size = b.size
      /\ Raised(b.warn, warned) => Raised(wb'.warn, warned')
  BY <1>6, WarnIs
<1>8. accepted' \in Seq(Packet) /\ ToSet(accepted') = ToSet(accepted) \cup {p}
  BY <1>3, <1>6, ToSetAppend
<1>9. fd # "none"
  BY <1>2, HasFd
<1>10. TypeOK'
  <2>1. WbT'
    BY <1>7 DEF WbT, BufferT, Loaded
  <2>2. ConnT' /\ PcT'
    BY <1>1, <1>4 DEF ConnT, PcT
  <2>3. LogT'
    BY <1>7, <1>8 DEF LogT
  <2> QED
    BY <2>1, <2>2, <2>3, TypePartsNext
<1>11. Held'
  <2>1. lock # Socket /\ lock' # Socket /\ pc'[Socket] = pc[Socket] /\ reg'[Socket].written = reg[Socket].written
    BY <1>2, <1>5
  <2>2. pc[Socket] \notin Flushing
    BY <1>1, <2>1 DEF Held
  <2> QED
    BY <1>1, <1>7, <2>1, <2>2 DEF Held, Loaded, Flushing
<1>12. Begun'
  BY <1>2, <1>5, <1>9 DEF ConnInv, Begun
<1>13. Sends'
  <2>1. ASSUME NEW v \in Worker, pc'[v] = "send" PROVE v # w /\ pc[v] = "send" /\ reg'[v].pkt = reg[v].pkt
    BY <1>2, <1>5, <2>1
  <2>2. ASSUME NEW v \in Worker, pc'[v] = "send" PROVE reg'[v].pkt \in Packet \ ToSet(accepted')
    BY <1>1, <1>8, <2>1, <2>2 DEF Sends
  <2>3. pc'[Socket] # "send"
    BY <1>1, <1>2, <1>5 DEF Sends
  <2> QED
    BY <1>1, <2>1, <2>2, <2>3 DEF Sends
<1> DEFINE q == b.high \o b.low
<1>14. Line' = q
  BY <1>7 DEF Line
<1>15. /\ Once(q) /\ \A k \in DOMAIN q : q[k].pkt = p \/ q[k].pkt \in ToSet(accepted)
       /\ IsFiniteSet(Bytes(q)) /\ b.size = Cardinality(Bytes(q))
       /\ \A k \in DOMAIN b.high : k > 1 => b.high[k].start = 0
       /\ \A k \in DOMAIN b.low : b.low[k].start = 0 /\ b.low[k].pkt \in Low
  BY DEF Loaded
<1>16. conn.managed => Whole(StreamOf(wire', q), accepted')
  OBVIOUS
<1> HIDE DEF q
<1>17. Lists'
  BY <1>7, <1>8, <1>14, <1>15 DEF Lists, Once
<1>18. Total'
  <2>1. reg'[Socket].written = 0
    BY <1>1, <1>2 DEF Held
  <2>2. Cardinality(Bytes(q)) \in Nat
    BY <1>15, FS_CardinalityType
  <2> QED
    BY <1>7, <1>14, <1>15, <2>1, <2>2, StreamIsNext DEF Total
<1>19. Warns'
  <2>1. conn.managed => Raised(wb.warn, warned)
    BY DEF ConnInv, Warns, Raised
  <2>2. conn.managed => Raised(wb'.warn, warned')
    BY <1>7, <2>1 DEF Loaded
  <2> QED
    BY <2>2 DEF Warns, Raised
<1>20. InOrder'
  BY <1>14, <1>16, StreamIsNext DEF InOrder
<1> QED
  BY <1>10, <1>11, <1>12, <1>13, <1>17, <1>18, <1>19, <1>20 DEF ConnInv

\* m is l with o at its end.
Extends(l, m, o) == Len(m) = Len(l) + 1 /\ m[Len(l) + 1] = o /\ \A k \in 1 .. Len(l) : m[k] = l[k]

\* The lists grow at their ends.
LEMMA ExtendsIs ==
    ASSUME NEW S, NEW l \in Seq(S), NEW o \in S, NEW a, NEW m, a = <<o>>, m = l \o a
    PROVE  m \in Seq(S) /\ Extends(l, m, o)
<1>0. \A x, y \in Seq(S) :
        /\ x \o y \in Seq(S) /\ Len(x \o y) = Len(x) + Len(y) /\ Len(x) \in Nat
        /\ \A k \in 1 .. Len(x) : (x \o y)[k] = x[k]
        /\ \A k \in 1 .. Len(y) : (x \o y)[Len(x) + k] = y[k]
  BY JoinAt
<1>1. a \in Seq(S) /\ Len(a) = 1 /\ a[1] = o /\ 1 \in 1 .. Len(a)
  OBVIOUS
<1>2. m \in Seq(S) /\ Len(m) = Len(l) + 1 /\ m[Len(l) + 1] = o /\ \A k \in 1 .. Len(l) : m[k] = l[k]
  BY <1>0, <1>1, Zenon
<1> QED
  BY <1>2 DEF Extends

\* An object at the end of the low list.
LEMMA AppendLow ==
    ASSUME NEW S, NEW h \in Seq(S), NEW l \in Seq(S), NEW o \in S, NEW q, NEW r, NEW m \in Seq(S),
           Extends(l, m, o), q = h \o l, r = h \o m
    PROVE  Inserts(q, r, Len(h) + Len(l), o)
<1>2. m \in Seq(S) /\ Len(m) = Len(l) + 1 /\ m[Len(l) + 1] = o /\ \A k \in 1 .. Len(l) : m[k] = l[k]
  BY DEF Extends
<1>3. /\ Len(q) = Len(h) + Len(l)
      /\ \A k \in 1 .. Len(h) : q[k] = h[k]
      /\ \A k \in 1 .. Len(l) : q[Len(h) + k] = l[k]
  BY JoinAt
<1>4. /\ Len(r) = Len(h) + Len(m)
      /\ \A k \in 1 .. Len(h) : r[k] = h[k]
      /\ \A k \in 1 .. Len(m) : r[Len(h) + k] = m[k]
  BY JoinAt
<1>5. Len(h) \in Nat /\ Len(l) \in Nat /\ Len(r) = Len(q) + 1
  BY <1>2, <1>3, <1>4
<1>6. r[(Len(h) + Len(l)) + 1] = o
  <2>1. Len(l) + 1 \in 1 .. Len(m) /\ Len(h) + (Len(l) + 1) = (Len(h) + Len(l)) + 1
    BY <1>2, <1>5
  <2>2. r[Len(h) + (Len(l) + 1)] = m[Len(l) + 1]
    BY <1>4, <2>1
  <2> QED
    BY <1>2, <2>1, <2>2
<1>7. ASSUME NEW k \in 1 .. Len(h) + Len(l) PROVE r[k] = q[k]
  <2>1. CASE k <= Len(h)
    <3>1. k \in 1 .. Len(h)
      BY <1>5, <2>1
    <3> QED
      BY <1>3, <1>4, <3>1
  <2>2. CASE k > Len(h)
    <3> DEFINE i == k - Len(h)
    <3>1. i \in 1 .. Len(l) /\ i \in 1 .. Len(m) /\ Len(h) + i = k
      BY <1>2, <1>5, <2>2
    <3> HIDE DEF i
    <3>2. r[Len(h) + i] = m[i] /\ q[Len(h) + i] = l[i] /\ m[i] = l[i]
      BY <1>2, <1>3, <1>4, <3>1
    <3> QED
      BY <3>1, <3>2
  <2>3. k <= Len(h) \/ k > Len(h)
    BY <1>5
  <2> QED
    BY <2>1, <2>2, <2>3
<1>8. \A k \in (Len(h) + Len(l)) + 1 .. Len(q) : r[k + 1] = q[k]
  BY <1>3, <1>5
<1>9. Len(h) + Len(l) \in 0 .. Len(q)
  BY <1>3, <1>5
<1> QED
  BY <1>2, <1>5, <1>6, <1>7, <1>8, <1>9 DEF Inserts

\* An object at the end of the high list.
LEMMA AppendHigh ==
    ASSUME NEW S, NEW h \in Seq(S), NEW l \in Seq(S), NEW o \in S, NEW q, NEW r, NEW m \in Seq(S),
           Extends(h, m, o), q = h \o l, r = m \o l
    PROVE  Inserts(q, r, Len(h), o)
<1>2. m \in Seq(S) /\ Len(m) = Len(h) + 1 /\ m[Len(h) + 1] = o /\ \A k \in 1 .. Len(h) : m[k] = h[k]
  BY DEF Extends
<1>3. /\ Len(q) = Len(h) + Len(l)
      /\ \A k \in 1 .. Len(h) : q[k] = h[k]
      /\ \A k \in 1 .. Len(l) : q[Len(h) + k] = l[k]
  BY JoinAt
<1>4. /\ Len(r) = Len(m) + Len(l)
      /\ \A k \in 1 .. Len(m) : r[k] = m[k]
      /\ \A k \in 1 .. Len(l) : r[Len(m) + k] = l[k]
  BY JoinAt
<1>5. Len(h) \in Nat /\ Len(l) \in Nat /\ Len(r) = Len(q) + 1 /\ Len(h) \in 0 .. Len(q)
  BY <1>2, <1>3, <1>4
<1>6. r[Len(h) + 1] = o
  <2>1. Len(h) + 1 \in 1 .. Len(m)
    BY <1>2, <1>5
  <2> QED
    BY <1>2, <1>4, <2>1
<1>7. ASSUME NEW k \in 1 .. Len(h) PROVE r[k] = q[k]
  <2>1. k \in 1 .. Len(m)
    BY <1>2, <1>5
  <2> QED
    BY <1>2, <1>3, <1>4, <2>1
<1>8. ASSUME NEW k \in Len(h) + 1 .. Len(q) PROVE r[k + 1] = q[k]
  <2> DEFINE i == k - Len(h)
  <2>1. i \in 1 .. Len(l) /\ Len(h) + i = k /\ Len(m) + i = k + 1
    BY <1>2, <1>3, <1>5
  <2> HIDE DEF i
  <2>2. r[Len(m) + i] = l[i] /\ q[Len(h) + i] = l[i]
    BY <1>3, <1>4, <2>1
  <2> QED
    BY <2>1, <2>2
<1> QED
  BY <1>2, <1>5, <1>6, <1>7, <1>8 DEF Inserts

\* A packet is queued behind others: SendBuffer with something in the lists.
LEMMA NotEmptyStep ==
    ASSUME ConnInv, NEW w \in Worker, EntireWriteWhenNotEmpty(w)
    PROVE  ConnInv'
<1>1. Scalars /\ ConnT /\ WbT /\ PcT /\ RegT /\ LogT /\ Held /\ Sends /\ Lists /\ Total
  BY TypeParts DEF ConnInv
<1>2. /\ Socket \in Thread /\ Worker \subseteq Thread /\ NoThread # Socket /\ w # Socket /\ w \in Thread
  BY ConnectionAssumption DEF Thread
<1> DEFINE p == reg[w].pkt
           o == [pkt |-> p, start |-> 0]
           b == [wb EXCEPT !.size = wb.size + PktLen[p]]
           c == IF p \in Low THEN [b EXCEPT !.low = wb.low \o <<o>>] ELSE [b EXCEPT !.high = wb.high \o <<o>>]
<1>3. /\ pc[w] = "send" /\ lock = NoThread /\ Queued /\ accepted' = Append(accepted, p) /\ Goto(w, "idle")
      /\ UNCHANGED <<fd, room, wire, input, eof, received, conn, lock, epoll, ready, ev, reg, closes, flips>>
  BY DEF EntireWriteWhenNotEmpty, Sending, At, kernel, send, recv, poll
<1>4. Warn(c)
  <2>1. wb.low = b.low /\ wb.high = b.high
    BY <1>1 DEF WbT
  <2> QED
    BY <2>1 DEF EntireWriteWhenNotEmpty
<1>5. /\ wb.high \in Seq(WriteObject) /\ wb.low \in Seq(WriteObject) /\ Line \in Seq(WriteObject)
      /\ Len(wb.high) \in Nat /\ Len(wb.low) \in Nat
      /\ Len(Line) = Len(wb.high) + Len(wb.low)
      /\ \A k \in 1 .. Len(wb.high) : Line[k] = wb.high[k]
      /\ \A k \in 1 .. Len(wb.low) : Line[Len(wb.high) + k] = wb.low[k]
  BY <1>1, LineIs
<1>6. wb.high # <<>> /\ wb.there
  <2>1. wb.high # <<>>
    BY <1>1, <1>2, <1>3 DEF Held, Queued
  <2>2. wb = NoBuffer => wb.high = <<>>
    BY DEF NoBuffer, EmptyBuffer
  <2> QED
    BY <1>1, <2>1, <2>2 DEF WbT
<1>7. p \in Packet /\ p \notin ToSet(accepted) /\ PktLen[p] \in Nat \ {0}
  BY <1>1, <1>3, ConnectionAssumption DEF Sends
<1>8. o \in WriteObject
  BY <1>7 DEF WriteObject
<1>9. New(accepted, p) /\ accepted \in Seq(Packet) /\ wire \in Seq(Pieces)
  BY <1>1, <1>7 DEF New, ToSet, LogT
<1>10. Once(Line) /\ \A k \in DOMAIN Line : Line[k].pkt \in ToSet(accepted) /\ Line[k].pkt # p
  BY <1>1, <1>7 DEF Lists, Once
<1>11. IsFiniteSet(Bytes(Line)) /\ wb.size = Cardinality(Bytes(Line)) /\ Cardinality(Bytes(Line)) \in Nat
  <2>1. reg[Socket].written = 0
    BY <1>1, <1>2, <1>3 DEF Held
  <2>2. IsFiniteSet(Bytes(Line)) /\ wb.size = Cardinality(Bytes(Line)) + 0
    BY <1>1, <2>1, StreamIs DEF Total
  <2> QED
    BY <2>2, FS_CardinalityType
<1>12. /\ \A k \in DOMAIN wb.high : k > 1 => wb.high[k].start = 0
       /\ \A k \in DOMAIN wb.low : wb.low[k].start = 0 /\ wb.low[k].pkt \in Low
  BY <1>1 DEF Lists
<1>13. conn.managed => Whole(StreamOf(wire, Line), accepted)
  BY StreamIs DEF ConnInv, InOrder
<1> DEFINE a == <<o>>
           high == c.high
           low == c.low
           q == high \o low
<1>14. /\ c \in BufferT /\ c.there /\ c.warn = wb.warn /\ c.size = wb.size + PktLen[p]
       /\ high = (IF p \in Low THEN wb.high ELSE wb.high \o a)
       /\ low = (IF p \in Low THEN wb.low \o a ELSE wb.low)
  <2>1. \A x \in Seq(WriteObject) : x \o a \in Seq(WriteObject)
    BY <1>8
  <2>2. wb \in BufferT /\ wb.size + PktLen[p] \in Nat
    BY <1>1, <1>7 DEF WbT, BufferT
  <2> HIDE DEF o, p, a
  <2> QED
    BY <1>5, <1>6, <2>1, <2>2 DEF BufferT, a
<1> HIDE DEF c, p, o, a
<1>15. \E i : /\ Inserts(Line, q, i, o) /\ i > 0 /\ high \in Seq(WriteObject) /\ low \in Seq(WriteObject)
              /\ \A k \in i + 1 .. Len(Line) : Line[k].start = 0 /\ Line[k].pkt \in Low /\ p \notin Low
              /\ high # <<>>
              /\ \A k \in DOMAIN high : k > 1 => high[k].start = 0
              /\ \A k \in DOMAIN low : low[k].start = 0 /\ low[k].pkt \in Low
  <2>0. Len(wb.high) > 0 /\ Line = wb.high \o wb.low /\ o.start = 0 /\ o.pkt = p
    BY <1>5, <1>6 DEF Line, o
  <2>1. CASE p \in Low
    <3>1. high = wb.high /\ low = wb.low \o a /\ a = <<o>>
      BY <1>14, <2>1 DEF a
    <3>2. low \in Seq(WriteObject) /\ Extends(wb.low, low, o)
      <4> HIDE DEF low
      <4> QED
        BY <1>5, <1>8, <3>1, ExtendsIs
    <3>3. Inserts(Line, q, Len(wb.high) + Len(wb.low), o)
      <4>1. q = wb.high \o low
        BY <3>1
      <4> HIDE DEF q, low, high
      <4> QED
        BY <1>5, <1>8, <2>0, <3>2, <4>1, AppendLow
    <3>4. \A k \in DOMAIN low : low[k].start = 0 /\ low[k].pkt \in Low
      <4> HIDE DEF low
      <4> TAKE k \in DOMAIN low
      <4>1. k = Len(wb.low) + 1 \/ k \in 1 .. Len(wb.low)
        BY <1>5, <3>2 DEF Extends
      <4>2. DOMAIN wb.low = 1 .. Len(wb.low)
        BY <1>5
      <4> QED
        BY <1>12, <2>0, <2>1, <3>2, <4>1, <4>2 DEF Extends
    <3>7. \A x, y \in Nat : (\A k \in (x + y) + 1 .. x + y : FALSE) /\ (x > 0 => x + y > 0)
      OBVIOUS
    <3>5. \A k \in (Len(wb.high) + Len(wb.low)) + 1 .. Len(Line) : FALSE
      BY <1>5, <3>7, Zenon
    <3>6. Len(wb.high) + Len(wb.low) > 0
      BY <1>5, <2>0, <3>7, Zenon
    <3> HIDE DEF q, low, high
    <3> QED
      BY <1>5, <1>6, <1>12, <3>1, <3>2, <3>3, <3>4, <3>5, <3>6
  <2>2. CASE p \notin Low
    <3>1. high = wb.high \o a /\ low = wb.low /\ a = <<o>>
      BY <1>14, <2>2 DEF a
    <3>2. high \in Seq(WriteObject) /\ Extends(wb.high, high, o)
      <4> HIDE DEF high
      <4> QED
        BY <1>5, <1>8, <3>1, ExtendsIs
    <3>3. Inserts(Line, q, Len(wb.high), o)
      <4>1. q = high \o wb.low
        BY <3>1
      <4> HIDE DEF q, low, high
      <4> QED
        BY <1>5, <1>8, <2>0, <3>2, <4>1, AppendHigh
    <3>4. \A k \in DOMAIN high : k > 1 => high[k].start = 0
      <4> HIDE DEF high
      <4> TAKE k \in DOMAIN high
      <4>1. k = Len(wb.high) + 1 \/ k \in 1 .. Len(wb.high)
        BY <1>5, <3>2 DEF Extends
      <4>2. DOMAIN wb.high = 1 .. Len(wb.high)
        BY <1>5
      <4> QED
        BY <1>12, <2>0, <3>2, <4>1, <4>2 DEF Extends
    <3>5. ASSUME NEW k \in Len(wb.high) + 1 .. Len(Line) PROVE Line[k].start = 0 /\ Line[k].pkt \in Low
      <4>3. \A x, y \in Nat : \A j \in x + 1 .. x + y : \E i \in 1 .. y : x + i = j
        <5> TAKE x, y \in Nat
        <5> TAKE j \in x + 1 .. x + y
        <5>1. j - x \in 1 .. y /\ x + (j - x) = j
          OBVIOUS
        <5> QED
          BY <5>1
      <4>1. PICK i \in 1 .. Len(wb.low) : Len(wb.high) + i = k
        BY <1>5, <4>3, Zenon
      <4>4. Line[Len(wb.high) + i] = wb.low[i]
        BY <1>5, Zenon
      <4>2. Line[Len(wb.high) + i] = wb.low[i] /\ DOMAIN wb.low = 1 .. Len(wb.low)
        BY <1>5, <4>4
      <4> QED
        BY <1>12, <4>1, <4>2
    <3>6. high # <<>>
      <4>1. Len(high) # 0
        BY <1>5, <3>2 DEF Extends
      <4>2. Len(<<>>) = 0
        OBVIOUS
      <4> QED
        BY <4>1, <4>2
    <3> HIDE DEF q, low, high
    <3> QED
      BY <1>5, <1>12, <2>0, <2>2, <3>1, <3>2, <3>3, <3>4, <3>5, <3>6
  <2> QED
    BY <2>1, <2>2
<1>16. PICK i : /\ Inserts(Line, q, i, o) /\ i > 0 /\ high \in Seq(WriteObject) /\ low \in Seq(WriteObject)
                /\ \A k \in i + 1 .. Len(Line) : Line[k].start = 0 /\ Line[k].pkt \in Low /\ p \notin Low
                /\ high # <<>>
                /\ \A k \in DOMAIN high : k > 1 => high[k].start = 0
                /\ \A k \in DOMAIN low : low[k].start = 0 /\ low[k].pkt \in Low
  BY <1>15
<1>17. q \in Seq(WriteObject)
  <2> HIDE DEF high, low
  <2>1. \A x, y \in Seq(WriteObject) : x \o y \in Seq(WriteObject)
    OBVIOUS
  <2> QED
    BY <1>16, <2>1
<1>18. /\ IsFiniteSet(Bytes(q)) /\ Cardinality(Bytes(q)) = Cardinality(Bytes(Line)) + PktLen[p] /\ Once(q)
       /\ \A k \in DOMAIN q : q[k].pkt = p \/ \E l \in DOMAIN Line : q[k].pkt = Line[l].pkt
  <2> HIDE DEF q
  <2>1. o = [pkt |-> p, start |-> 0] /\ \A k \in DOMAIN Line : Line[k].pkt # p
    BY <1>10 DEF o
  <2> QED
    <3>1. /\ Line \in Seq(WriteObject) /\ q \in Seq(WriteObject) /\ p \in Packet /\ Inserts(Line, q, i, o)
          /\ IsFiniteSet(Bytes(Line)) /\ Once(Line)
      BY <1>5, <1>7, <1>10, <1>11, <1>16, <1>17
    <3> QED
      BY <2>1, <3>1, QueuedBytes
<1>19. conn.managed => Whole(StreamOf(wire, q), Append(accepted, p))
  <2> HIDE DEF q
  <2>1. o = [pkt |-> p, start |-> 0]
    BY DEF o
  <2>2. \A k \in i + 1 .. Len(Line) : Line[k].start = 0 /\ Line[k].pkt \in Low /\ p \notin Low
    BY <1>16
  <2> QED
    BY <1>5, <1>7, <1>9, <1>13, <1>16, <1>17, <2>1, <2>2, Enqueued
<1>20. Loaded(c, p)
  <2>1. \A k \in DOMAIN q : q[k].pkt = p \/ q[k].pkt \in ToSet(accepted)
    BY <1>10, <1>18
  <2>2. q = c.high \o c.low
    OBVIOUS
  <2>3. c.size = Cardinality(Bytes(q))
    BY <1>11, <1>14, <1>18
  <2> HIDE DEF q
  <2> QED
    BY <1>14, <1>16, <1>18, <2>1, <2>2, <2>3 DEF Loaded
<1>21. Scalars' /\ RegT'
  BY <1>1, <1>3 DEF Scalars, RegT
<1>22. conn.managed => Whole(StreamOf(wire', c.high \o c.low), accepted')
  BY <1>3, <1>19
<1>23. p = reg[w].pkt /\ c \in BufferT /\ "idle" \in {"idle", "modify"} /\ lock' \in {NoThread, w}
  BY <1>3, <1>14 DEF p
<1>24. wire' \in Seq(Pieces) /\ \A x \in Thread : reg'[x].pkt = reg[x].pkt /\ reg'[x].written = reg[x].written
  BY <1>3, <1>9
<1> QED
  BY <1>3, <1>4, <1>20, <1>21, <1>22, <1>23, <1>24, SendStep

\* A packet is written directly: SendBuffer with nothing in the lists.
LEMMA EmptyStep ==
    ASSUME ConnInv, NEW w \in Worker, EntireWriteWhenEmpty(w)
    PROVE  ConnInv'
<1>1. Scalars /\ ConnT /\ WbT /\ PcT /\ RegT /\ LogT /\ Held /\ Sends /\ Lists /\ Total
  BY TypeParts DEF ConnInv
<1>2. /\ Socket \in Thread /\ Worker \subseteq Thread /\ NoThread # Socket /\ w # Socket /\ w \in Thread
  BY ConnectionAssumption DEF Thread
<1> DEFINE p == reg[w].pkt
           o == [pkt |-> p, start |-> 0]
           n == Writes(o)
           x == [o EXCEPT !.start = n]
           r == IF n = PktLen[p] THEN <<>> ELSE <<x>>
           a == <<o>>
           e == Line
           b == IF n = PktLen[p] THEN Buffer
                ELSE [Buffer EXCEPT !.high = <<x>>, !.size = Buffer.size + (PktLen[p] - n)]
<1>3. /\ pc[w] = "send" /\ lock = NoThread /\ ~Queued /\ accepted' = Append(accepted, p) /\ Puts(o, n)
      /\ UNCHANGED <<fd, input, eof, received, conn, epoll, ready, ev, closes, flips>>
      /\ lock' \in {NoThread, w} /\ (reg' = reg \/ reg' = [reg EXCEPT ![w].out = TRUE])
      /\ \E place \in {"idle", "modify"} : Goto(w, place)
  BY DEF EntireWriteWhenEmpty, Sending, At, recv, poll
<1>4. wb.high = <<>> /\ wb.low = <<>> /\ e = <<>>
  BY <1>3 DEF Queued, Line
<1>5. p \in Packet /\ p \notin ToSet(accepted) /\ PktLen[p] \in Nat \ {0}
  BY <1>1, <1>3, ConnectionAssumption DEF Sends
<1>6. o \in WriteObject /\ Rest(o) = PktLen[p] /\ o.pkt = p /\ o.start = 0
  BY <1>5 DEF WriteObject, Rest
<1>7. n \in 0 .. PktLen[p] /\ n \in Nat /\ room - n \in 0 .. Room /\ n <= PktLen[p]
  <2> HIDE DEF o
  <2>1. Writes(o) \in 0 .. Rest(o) /\ Writes(o) \in Nat /\ room - Writes(o) \in 0 .. Room
    BY <1>1, <1>6, WritesIs
  <2> HIDE DEF n
  <2> QED
    BY <1>5, <1>6, <2>1 DEF n
<1>8. New(accepted, p) /\ accepted \in Seq(Packet) /\ wire \in Seq(Pieces)
  BY <1>1, <1>5 DEF New, ToSet, LogT
<1>9. wb.size = 0
  <2>1. reg[Socket].written = 0
    BY <1>1, <1>2, <1>3 DEF Held
  <2>2. Cardinality(Bytes(Line)) = 0
    BY <1>4, NoBytes
  <2> QED
    BY <1>1, <2>1, <2>2, StreamIs DEF Total
<1>10. /\ Buffer \in BufferT /\ Buffer.there /\ Buffer.high = <<>> /\ Buffer.low = <<>> /\ Buffer.size = 0
       /\ Buffer.warn = wb.warn
  <2>1. CASE wb.there
    BY <1>1, <1>4, <1>9, <2>1 DEF Buffer, WbT, BufferT
  <2>2. CASE ~wb.there
    <3>1. /\ EmptyBuffer.there /\ EmptyBuffer.high = <<>> /\ EmptyBuffer.low = <<>> /\ EmptyBuffer.size = 0
          /\ EmptyBuffer.warn = 0
      BY DEF EmptyBuffer
    <3>2. wb = NoBuffer
      BY <1>1, <2>2 DEF WbT
    <3>3. wb.warn = 0
      BY <3>2 DEF NoBuffer, EmptyBuffer
    <3>4. EmptyBuffer \in BufferT
      <4>1. <<>> \in Seq(WriteObject)
        OBVIOUS
      <4> QED
        BY <4>1 DEF EmptyBuffer, BufferT
    <3> QED
      BY <2>2, <3>1, <3>3, <3>4 DEF Buffer
  <2> QED
    BY <2>1, <2>2
<1>11. Warn(b)
  <2>1. CASE n = PktLen[p]
    BY <2>1 DEF EntireWriteWhenEmpty
  <2>2. CASE n # PktLen[p]
    BY <2>2 DEF EntireWriteWhenEmpty
  <2> QED
    BY <2>1, <2>2
<1>12. a \in Seq(WriteObject) /\ Len(a) = 1 /\ a[1] = o /\ DOMAIN a = {1} /\ e \in Seq(WriteObject) /\ Len(e) = 0
  BY <1>4, <1>6
<1>13. x = [pkt |-> p, start |-> n] /\ (n # PktLen[p] => x \in WriteObject)
  <2>1. x = [pkt |-> p, start |-> n]
    OBVIOUS
  <2> HIDE DEF x, n, o
  <2> QED
    BY <1>5, <1>7, <2>1 DEF WriteObject
<1> HIDE DEF o, n, x
<1>14. /\ r \in Seq(WriteObject) /\ (n = PktLen[p] => Len(r) = 0)
       /\ (n # PktLen[p] => Len(r) = 1 /\ r[1] = x)
  BY <1>13
<1>15. Written(a, r, n)
  <2> HIDE DEF a, r
  <2>1. Len(a) > 0 /\ n \in 0 .. Rest(a[1])
    BY <1>6, <1>7, <1>12
  <2>2. n = Rest(a[1]) => Len(r) = Len(a) - 1 /\ \A k \in 1 .. Len(r) : r[k] = a[k + 1]
    BY <1>6, <1>12, <1>14
  <2>3. n < Rest(a[1]) => /\ Len(r) = Len(a) /\ r[1] = [pkt |-> a[1].pkt, start |-> a[1].start + n]
                          /\ \A k \in 2 .. Len(a) : r[k] = a[k]
    <3>1. SUFFICES ASSUME n < Rest(a[1]) PROVE /\ Len(r) = Len(a)
                          /\ r[1] = [pkt |-> a[1].pkt, start |-> a[1].start + n]
                          /\ \A k \in 2 .. Len(a) : r[k] = a[k]
      OBVIOUS
    <3>2. n # PktLen[p] /\ a[1].start + n = n /\ a[1].pkt = p
      BY <1>5, <1>6, <1>7, <1>12, <3>1
    <3> QED
      BY <1>12, <1>13, <1>14, <3>2
  <2> QED
    BY <2>1, <2>2, <2>3 DEF Written
<1>16. Inserts(e, a, 0, o)
  <2> HIDE DEF a, e
  <2> QED
    BY <1>12 DEF Inserts
<1>17. IsFiniteSet(Bytes(e)) /\ Cardinality(Bytes(e)) = 0 /\ Once(e)
  <2>1. Once(e)
    BY <1>4 DEF Once
  <2> QED
    BY <1>4, <2>1, NoBytes
<1> HIDE DEF a, e, r
<1>18. o = [pkt |-> p, start |-> 0]
  BY DEF o
<1>19. IsFiniteSet(Bytes(a)) /\ Cardinality(Bytes(a)) = PktLen[p] /\ Once(a)
  <2>1. \A k \in DOMAIN e : e[k].pkt # p
    BY <1>12
  <2>2. IsFiniteSet(Bytes(a)) /\ Cardinality(Bytes(a)) = Cardinality(Bytes(e)) + PktLen[p] /\ Once(a)
    <3> HIDE DEF p
    <3>1. /\ e \in Seq(WriteObject) /\ a \in Seq(WriteObject) /\ p \in Packet /\ Inserts(e, a, 0, o)
          /\ IsFiniteSet(Bytes(e)) /\ Once(e)
      BY <1>5, <1>12, <1>16, <1>17
    <3> QED
      BY <1>18, <2>1, <3>1, QueuedBytes
  <2> QED
    BY <1>5, <1>17, <2>2
<1>20. /\ IsFiniteSet(Bytes(r)) /\ Cardinality(Bytes(r)) \in Nat /\ PktLen[p] = Cardinality(Bytes(r)) + n
       /\ Once(r) /\ \A k \in DOMAIN r : r[k].pkt = p
  <2>1. IsFiniteSet(Bytes(r)) /\ Cardinality(Bytes(r)) \in Nat /\ Cardinality(Bytes(a)) = Cardinality(Bytes(r)) + n
    BY <1>12, <1>14, <1>15, <1>19, SentBytes
  <2>2. Once(r) /\ \A k \in DOMAIN r : \E l \in DOMAIN a : r[k].pkt = a[l].pkt
    BY <1>12, <1>14, <1>15, <1>19, WrittenOnce
  <2> QED
    BY <1>6, <1>12, <1>19, <2>1, <2>2
<1>21. wire' = Wired(wire, o, n) /\ room' = room - n
  BY <1>3 DEF Puts, Wired
<1>22. wire' \in Seq(Pieces)
  BY <1>6, <1>7, <1>8, <1>21, WiredIs
<1>23. ASSUME conn.managed PROVE Whole(StreamOf(wire', r), Append(accepted, p))
  <2>1. Whole(StreamOf(wire, e), accepted)
    BY <1>23, StreamIs DEF ConnInv, InOrder, e
  <2>2. \A k \in 0 + 1 .. Len(e) : e[k].start = 0 /\ e[k].pkt \in Low /\ p \notin Low
    BY <1>12
  <2>3. Whole(StreamOf(wire, a), Append(accepted, p))
    BY <1>5, <1>8, <1>12, <1>16, <1>18, <2>1, <2>2, Enqueued
  <2>4. wire' = Wired(wire, a[1], n)
    BY <1>12, <1>21
  <2> QED
    BY <1>8, <1>12, <1>14, <1>15, <2>3, <2>4, SentStream
<1>24. /\ b \in BufferT /\ b.there /\ b.warn = wb.warn /\ b.high = r /\ b.low = <<>>
       /\ b.size = Cardinality(Bytes(r))
  <2>1. CASE n = PktLen[p]
    <3>1. b = Buffer /\ r = <<>>
      BY <2>1 DEF r
    <3>2. Cardinality(Bytes(r)) = 0
      BY <3>1, NoBytes
    <3> HIDE DEF b
    <3> QED
      BY <1>10, <3>1, <3>2
  <2>2. CASE n # PktLen[p]
    <3>1. r = <<x>>
      BY <2>2 DEF r
    <3>2. b = [Buffer EXCEPT !.high = r, !.size = Buffer.size + (PktLen[p] - n)]
      BY <2>2, <3>1
    <3>3. Buffer.size + (PktLen[p] - n) = Cardinality(Bytes(r)) /\ Buffer.size + (PktLen[p] - n) \in Nat
      BY <1>5, <1>7, <1>10, <1>20
    <3> HIDE DEF b
    <3> QED
      BY <1>10, <1>14, <3>2, <3>3 DEF BufferT
  <2> QED
    BY <2>1, <2>2
<1> HIDE DEF b
<1>25. b.high \o b.low = r
  BY <1>14, <1>24
<1>26. Loaded(b, p)
  <2>1. \A k \in DOMAIN r : k > 1 => r[k].start = 0
    BY <1>14
  <2>2. \A k \in DOMAIN b.low : b.low[k].start = 0 /\ b.low[k].pkt \in Low
    BY <1>24
  <2> QED
    BY <1>20, <1>24, <1>25, <2>1, <2>2 DEF Loaded
<1>27. Scalars'
  <2>1. lock' \in Thread \cup {NoThread} /\ room' \in 0 .. Room
    BY <1>2, <1>3, <1>7, <1>21
  <2> QED
    BY <1>1, <1>3, <2>1 DEF Scalars
<1>28. RegT' /\ \A t \in Thread : reg'[t].pkt = reg[t].pkt /\ reg'[t].written = reg[t].written
  <2>1. CASE reg' = reg
    BY <1>1, <2>1 DEF RegT
  <2>2. CASE reg' = [reg EXCEPT ![w].out = TRUE]
    BY <1>1, <1>2, <2>2 DEF RegT
  <2> QED
    BY <1>3, <2>1, <2>2
<1>29. PICK place \in {"idle", "modify"} : Goto(w, place)
  BY <1>3
<1>30. conn.managed => Whole(StreamOf(wire', b.high \o b.low), accepted')
  BY <1>3, <1>23, <1>25
<1>31. p = reg[w].pkt /\ b \in BufferT
  BY <1>24
<1> QED
  BY <1>3, <1>11, <1>22, <1>26, <1>27, <1>28, <1>29, <1>30, <1>31, SendStep

-----------------------------------------------------------------------------
(* The invariant *)

\* Every step keeps the invariant.
LEMMA ConnNext == ConnInv /\ [Next]_vars => ConnInv'
<1> SUFFICES ASSUME ConnInv, [Next]_vars PROVE ConnInv'
  OBVIOUS
<1>1. CASE OnAccept \/ \E w \in Worker : Connect(w)
  BY <1>1, Opens
<1>2. ASSUME NEW t \in Thread, Runs(t) PROVE ConnInv'
  BY <1>2, RunSteps, EraseStep DEF Runs
<1>3. ASSUME NEW w \in Worker, WorkerStep(w) PROVE ConnInv'
  <2>1. w \in Thread
    BY DEF Thread
  <2> QED
    BY <1>2, <1>3, <2>1, WorkerSteps, EmptyStep, NotEmptyStep DEF WorkerStep
<1>4. ASSUME NEW w \in Worker, ServiceCalls(w) PROVE ConnInv'
  BY <1>1, <1>4, WorkerSteps, WriteStep DEF ServiceCalls
<1>5. CASE SocketStep
  <2>1. Socket \in Thread
    BY DEF Thread
  <2> QED
    BY <1>2, <1>5, <2>1, SocketSteps, LockStep, FrontStep, FlushedStep DEF SocketStep
<1>6. CASE PeerReads \/ PeerSends \/ PeerAnswers
  BY <1>6, PeerSteps
<1>7. CASE UNCHANGED vars
  <2> USE <1>7 DEF vars, kernel, send, recv, poll, log
  <2>1. TypeOK'
    BY DEF ConnInv, TypeOK
  <2>2. Held'
    BY DEF ConnInv, Held
  <2>3. Begun'
    BY DEF ConnInv, Begun
  <2>4. Sends'
    BY DEF ConnInv, Sends
  <2> QED
    BY <2>1, <2>2, <2>3, <2>4, Quiet
<1> QED
  BY <1>1, <1>3, <1>4, <1>5, <1>6, <1>7 DEF Next

\* So it always holds.
THEOREM ConnAlways == Spec => []ConnInv
  BY ConnInit, ConnNext, PTL DEF Spec

\* SendBuffer and OnWriteable hand every accepted packet to the kernel whole and once, and
\* those of one priority in the order they were accepted, for any number of workers and
\* packets, any room in the kernel and any split of the writes.
THEOREM ConnStreamIntact == Spec => []StreamIntact
<1>1. ConnInv => StreamIntact
  <2> SUFFICES ASSUME ConnInv, conn.managed PROVE StreamIntact
    BY DEF StreamIntact
  <2> DEFINE s == Stream
  <2>1. Whole(s, accepted) /\ accepted \in Seq(Packet)
    BY DEF ConnInv, InOrder, TypeOK
  <2> HIDE DEF s
  <2>2. s \in Seq(Pieces) /\ Len(s) \in Nat /\ DOMAIN s = 1 .. Len(s) /\ (s # <<>> => Len(s) > 0)
    <3>1. s \in Seq(Pieces)
      BY <2>1 DEF Whole
    <3> QED
      BY <3>1
  <2>3. {s[k].pkt : k \in DOMAIN s} = ToSet(accepted)
    <3>1. /\ \A k \in DOMAIN s : \E i \in DOMAIN accepted : accepted[i] = s[k].pkt
          /\ \A i \in DOMAIN accepted : \E k \in DOMAIN s : accepted[i] = s[k].pkt
      BY <2>1 DEF Whole
    <3> QED
      BY <3>1 DEF ToSet
  <2>4. s # <<>> => s[1].from = 0 /\ s[Len(s)].to = PktLen[s[Len(s)].pkt]
    BY <2>1, <2>2 DEF Whole
  <2>5. \A k \in 1 .. Len(s) - 1 : Follows(s[k], s[k + 1])
    <3>1. \A k \in 1 .. Len(s) - 1 : k \in DOMAIN s /\ k + 1 \in DOMAIN s
      BY <2>2
    <3> QED
      BY <2>1, <3>1 DEF Whole
  <2>6. ASSUME NEW k \in DOMAIN s, NEW l \in DOMAIN s, k < l
        PROVE  IF s[k].pkt = s[l].pkt THEN s[k].to <= s[l].from
               ELSE (s[k].pkt \in Low <=> s[l].pkt \in Low) => Before(s[k].pkt, s[l].pkt)
    BY <2>1, <2>6 DEF Whole, Before, Earlier
  <2> QED
    BY <2>3, <2>4, <2>5, <2>6 DEF StreamIntact, s
<1> QED
  BY <1>1, ConnAlways, PTL

\* wbSize is exactly what is queued whenever OnWriteable does not hold the lock, and a
\* connection warns only at a backlog of at least its threshold, which doubles each time.
THEOREM ConnBacklogExact == Spec => []BacklogExact
<1>1. ConnInv => BacklogExact
  <2> SUFFICES ASSUME ConnInv PROVE BacklogExact
    OBVIOUS
  <2>1. TypeOK /\ Held /\ Total /\ Warns
    BY DEF ConnInv
  <2>2. ASSUME lock # Socket PROVE wb.size = Cardinality(Unwritten)
    <3>1. reg[Socket].written = 0 /\ wb.size = Cardinality(Unwritten) + reg[Socket].written
      BY <2>1, <2>2 DEF Held, Total
    <3>2. IsFiniteSet(Unwritten) => Cardinality(Unwritten) \in Nat
      BY FS_CardinalityType
    <3> QED
      BY <2>1, <3>1, <3>2 DEF Total
  <2>3. conn.managed => \A k \in DOMAIN warned : warned[k] >= Threshold[k - 1]
    BY <2>1 DEF Warns
  <2> QED
    BY <2>1, <2>2, <2>3 DEF BacklogExact
<1> QED
  BY <1>1, ConnAlways, PTL

=============================================================================

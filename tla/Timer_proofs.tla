---------------------------- MODULE Timer_proofs ----------------------------
(***************************************************************************)
(* Proofs about Timer, for any sizes of the wheel and any delays: every    *)
(* timeout is in the slot its expiry belongs to, across the cascades and   *)
(* the wrap of the time, and the wheel implements Alarm.                   *)
(***************************************************************************)
EXTENDS Timer, TLAPS

-----------------------------------------------------------------------------
(* Division and remainder *)

\* Division with remainder.
LEMMA DivMod ==
    ASSUME NEW a \in Nat, NEW m \in Nat \ {0}
    PROVE  /\ a \div m \in Nat /\ a % m \in Nat /\ a % m < m
           /\ a = m * (a \div m) + (a % m)
  OBVIOUS

\* Quotient and remainder are unique.
LEMMA DivUnique ==
    ASSUME NEW m \in Nat \ {0}, NEW q \in Nat, NEW r \in Nat, r < m
    PROVE  (m * q + r) \div m = q /\ (m * q + r) % m = r
  OBVIOUS

\* Blocks do not overlap.
LEMMA MulLess ==
    ASSUME NEW m \in Nat \ {0}, NEW q \in Nat, NEW p \in Nat, q < p
    PROVE  m * q + m <= m * p
  OBVIOUS

\* Blocks of m times c ticks are made of blocks of m ticks.
LEMMA DivDiv ==
    ASSUME NEW a \in Nat, NEW m \in Nat \ {0}, NEW c \in Nat \ {0}
    PROVE  /\ a \div (m * c) = (a \div m) \div c
           /\ a % (m * c) = m * ((a \div m) % c) + (a % m)
<1>1. PICK q \in Nat, r \in Nat : r < m /\ a = m * q + r /\ q = a \div m /\ r = a % m
  BY DivMod
<1>2. PICK p \in Nat, s \in Nat : s < c /\ q = c * p + s /\ p = q \div c /\ s = q % c
  BY DivMod
<1>3. a = (m * c) * p + (m * s + r)
  <2>1. a = m * q + r /\ q = c * p + s
    BY <1>1, <1>2
  <2>2. m * (c * p + s) = (m * c) * p + m * s
    OBVIOUS
  <2>3. m * q = (m * c) * p + m * s
    BY <2>1, <2>2
  <2>4. (m * c) * p \in Nat /\ m * s \in Nat /\ m * q \in Nat
    BY <2>1
  <2> QED
    BY <2>1, <2>3, <2>4
<1>4. m * s + r < m * c /\ m * s + r \in Nat
  <2>1. s < c /\ r < m
    BY <1>1, <1>2
  <2>2. m * s + m <= m * c
    BY <2>1, MulLess
  <2>3. m * s \in Nat /\ m * c \in Nat
    OBVIOUS
  <2> QED
    BY <2>1, <2>2, <2>3
<1>5. m * c \in Nat \ {0}
  OBVIOUS
<1>6. /\ ((m * c) * p + (m * s + r)) \div (m * c) = p
      /\ ((m * c) * p + (m * s + r)) % (m * c) = m * s + r
  BY <1>4, <1>5, DivUnique
<1> QED
  BY <1>1, <1>2, <1>3, <1>6

\* Two numbers of a block are less than its length apart.
LEMMA BlockWidth ==
    ASSUME NEW a \in Nat, NEW b \in Nat, NEW m \in Nat \ {0}, a \div m = b \div m
    PROVE  a - b < m
  BY DivMod

\* A number and the next one are in one block unless the next one begins a block.
LEMMA NextBlock ==
    ASSUME NEW a \in Nat, NEW m \in Nat \ {0}
    PROVE  /\ (a + 1) % m # 0 => (a + 1) \div m = a \div m
           /\ (a + 1) % m = 0 => (a + 1) \div m = (a \div m) + 1
<1>1. PICK q \in Nat, r \in Nat : r < m /\ a = m * q + r /\ q = a \div m /\ r = a % m
  BY DivMod
<1>2. CASE r + 1 < m
  <2>1. (m * q + (r + 1)) \div m = q /\ (m * q + (r + 1)) % m = r + 1
    BY <1>2, DivUnique
  <2> QED
    BY <1>1, <2>1
<1>3. CASE r + 1 = m
  <2>0. m * (q + 1) = m * q + m
    OBVIOUS
  <2>1. (m * (q + 1) + 0) \div m = q + 1 /\ (m * (q + 1) + 0) % m = 0
    BY DivUnique
  <2> QED
    BY <1>1, <1>3, <2>0, <2>1
<1> QED
  BY <1>1, <1>2, <1>3

\* The number before the begin of a block is the last one of its block.
LEMMA LastOfBlock ==
    ASSUME NEW a \in Nat, NEW b \in Nat, NEW m \in Nat \ {0}, (a + 1) % m = 0, a \div m = b \div m
    PROVE  b <= a
<1>1. (a + 1) \div m = (a \div m) + 1 /\ (a + 1) % m = 0
  BY NextBlock
<1>2. a + 1 = m * ((a \div m) + 1)
  BY <1>1, DivMod
<1>3. b = m * (a \div m) + (b % m) /\ b % m < m /\ b % m \in Nat /\ a \div m \in Nat
  BY DivMod
<1>4. m * ((a \div m) + 1) = m * (a \div m) + m
  BY <1>3
<1> QED
  BY <1>2, <1>3, <1>4

-----------------------------------------------------------------------------
(* The levels of the wheel *)

\* The levels of t[][] and the values of the time word.
Level == 0 .. 3
Time == 0 .. Word - 1

\* A level spans TIME_LEVEL times what the one below it spans.
LEMMA Spans ==
    /\ Span(0) = TIME_NEAR /\ Span(4) = Word
    /\ \A k \in 0 .. 4 : Span(k) \in Nat \ {0}
    /\ \A k \in Level : Span(k + 1) = Span(k) * TIME_LEVEL
<1> DEFINE N == TIME_NEAR
           L == TIME_LEVEL
<1>1. N \in Nat \ {0} /\ L \in Nat \ {0}
  BY TimerAssumption
<1>2. /\ Span(0) = N /\ Span(1) = N * L /\ Span(2) = N * L * L
      /\ Span(3) = N * L * L * L /\ Span(4) = N * L * L * L * L
  BY DEF Span
<1> HIDE DEF N, L
<1>3. N * L \in Nat \ {0}
  BY <1>1
<1>4. N * L * L \in Nat \ {0}
  BY <1>1, <1>3
<1>5. N * L * L * L \in Nat \ {0}
  BY <1>1, <1>4
<1>6. N * L * L * L * L \in Nat \ {0}
  BY <1>1, <1>5
<1>7. \A k \in 0 .. 4 : Span(k) \in Nat \ {0}
  <2> SUFFICES ASSUME NEW k \in 0 .. 4 PROVE Span(k) \in Nat \ {0}
    OBVIOUS
  <2>1. k = 0 \/ k = 1 \/ k = 2 \/ k = 3 \/ k = 4
    OBVIOUS
  <2> QED
    BY <2>1, <1>1, <1>2, <1>3, <1>4, <1>5, <1>6
<1>8. \A k \in Level : Span(k + 1) = Span(k) * L
  <2> SUFFICES ASSUME NEW k \in Level PROVE Span(k + 1) = Span(k) * L
    OBVIOUS
  <2>1. k = 0 \/ k = 1 \/ k = 2 \/ k = 3
    BY DEF Level
  <2> QED
    BY <2>1, <1>2
<1> QED
  BY <1>2, <1>7, <1>8 DEF N, L, Word

\* The word is at least two blocks of the last level.
LEMMA HalfWord ==
    /\ Word \in Nat \ {0} /\ Word \div 2 \in Nat
    /\ \A k \in Level : Span(k) <= Word \div 2
<1>1. TIME_LEVEL \in Nat \ {0, 1}
  BY TimerAssumption
<1>2. \A k \in Level : /\ Span(k) \in Nat /\ Span(k + 1) \in Nat
                       /\ 2 * Span(k) <= Span(k + 1)
  <2> SUFFICES ASSUME NEW k \in Level
               PROVE  Span(k) \in Nat /\ Span(k + 1) \in Nat /\ 2 * Span(k) <= Span(k + 1)
    OBVIOUS
  <2>1. Span(k) \in Nat \ {0} /\ Span(k + 1) = Span(k) * TIME_LEVEL
    BY Spans DEF Level
  <2>2. PICK x \in Nat \ {0} : x = Span(k)
    BY <2>1
  <2>3. x * TIME_LEVEL \in Nat /\ 2 * x <= x * TIME_LEVEL
    BY <1>1
  <2> QED
    BY <2>1, <2>2, <2>3
<1>3. /\ 2 * Span(0) <= Span(1) /\ 2 * Span(1) <= Span(2) /\ 2 * Span(2) <= Span(3) /\ 2 * Span(3) <= Span(4)
      /\ {Span(0), Span(1), Span(2), Span(3), Span(4)} \subseteq Nat
  <2>1. 0 \in Level /\ 1 \in Level /\ 2 \in Level /\ 3 \in Level /\ 0 + 1 = 1 /\ 1 + 1 = 2 /\ 2 + 1 = 3 /\ 3 + 1 = 4
    BY DEF Level
  <2> QED
    BY <1>2, <2>1
<1>4. Word = Span(4) /\ Word \in Nat \ {0}
  BY Spans
<1>5. ASSUME NEW k \in Level PROVE Span(k) <= Word \div 2
  <2>1. k = 0 \/ k = 1 \/ k = 2 \/ k = 3
    BY DEF Level
  <2>2. Span(k) \in Nat /\ 2 * Span(k) <= Word
    BY <2>1, <1>3, <1>4
  <2> QED
    BY <2>2, <1>4
<1> QED
  BY <1>4, <1>5

\* Blocks are nested, and the whole word is one block.
LEMMA Nested ==
    ASSUME NEW a \in Nat, NEW b \in Nat, NEW j \in 0 .. 4, NEW k \in 0 .. 4, j <= k, SameBlock(a, b, j)
    PROVE  SameBlock(a, b, k)
<1>1. TIME_LEVEL \in Nat \ {0}
  BY TimerAssumption
<1>2. ASSUME NEW i \in Level, SameBlock(a, b, i) PROVE SameBlock(a, b, i + 1)
  <2>1. Span(i) \in Nat \ {0} /\ Span(i + 1) = Span(i) * TIME_LEVEL
    BY Spans DEF Level
  <2>2. PICK m \in Nat \ {0} : m = Span(i)
    BY <2>1
  <2>3. /\ a \div (m * TIME_LEVEL) = (a \div m) \div TIME_LEVEL
        /\ b \div (m * TIME_LEVEL) = (b \div m) \div TIME_LEVEL
    BY <1>1, DivDiv
  <2> QED
    BY <1>2, <2>1, <2>2, <2>3 DEF SameBlock
<1>3. /\ SameBlock(a, b, 0) => SameBlock(a, b, 1)
      /\ SameBlock(a, b, 1) => SameBlock(a, b, 2)
      /\ SameBlock(a, b, 2) => SameBlock(a, b, 3)
      /\ SameBlock(a, b, 3) => SameBlock(a, b, 4)
  <2>1. 0 \in Level /\ 1 \in Level /\ 2 \in Level /\ 3 \in Level /\ 0 + 1 = 1 /\ 1 + 1 = 2 /\ 2 + 1 = 3 /\ 3 + 1 = 4
    BY DEF Level
  <2> QED
    BY <1>2, <2>1
<1> QED
  BY <1>3

\* All times are in one block of the size of the word.
LEMMA OneWord ==
    ASSUME NEW a \in Time, NEW b \in Time
    PROVE  SameBlock(a, b, 4)
<1>1. Span(4) = Word /\ Word \in Nat \ {0}
  BY Spans
<1>2. a \div Word = 0 /\ b \div Word = 0
  BY <1>1 DEF Time
<1> QED
  BY <1>1, <1>2 DEF SameBlock

\* A node whose expiry shares a block of level l + 1 with the time, and none of
\* level l, goes to level l.
LEMMA PlaceLevel ==
    ASSUME NEW e \in Nat, NEW now \in Nat, NEW l \in Level, ~SameBlock(e, now, l), SameBlock(e, now, l + 1)
    PROVE  Place(e, now) = <<l, Digit(e, l)>>
<1> DEFINE P(i) == /\ i = 3 \/ SameBlock(e, now, i + 1)
                   /\ \A j \in 0 .. (i - 1) : ~SameBlock(e, now, j + 1)
<1>1. P(l)
  <2>1. ASSUME NEW j \in 0 .. (l - 1), SameBlock(e, now, j + 1) PROVE FALSE
    <3>1. j + 1 \in 0 .. 4 /\ l \in 0 .. 4 /\ j + 1 <= l
      BY DEF Level
    <3> QED
      BY <2>1, <3>1, Nested
  <2> QED
    BY <2>1
<1>2. ASSUME NEW i \in Level, P(i) PROVE i = l
  <2>1. CASE i < l
    <3>1. i + 1 \in 0 .. 4 /\ l \in 0 .. 4 /\ i + 1 <= l /\ i # 3
      BY <2>1 DEF Level
    <3>2. SameBlock(e, now, l)
      BY <1>2, <3>1, Nested
    <3> QED
      BY <3>2
  <2>2. CASE l < i
    <3>1. l \in 0 .. (i - 1)
      BY <2>2 DEF Level
    <3> QED
      BY <1>2, <3>1
  <2> QED
    BY <2>1, <2>2 DEF Level
<1> HIDE DEF P
<1>3. (CHOOSE i \in Level : P(i)) = l
  BY <1>1, <1>2
<1>4. ~SameBlock(e, now, 0)
  <2>1. 0 \in 0 .. 4 /\ l \in 0 .. 4 /\ 0 <= l
    BY DEF Level
  <2> QED
    BY <2>1, Nested
<1> QED
  BY <1>3, <1>4 DEF Place, P, Level

\* The time that follows a time.
After(t) == (t + 1) % Word

\* A node whose time is in the block of the current time goes to near[].
LEMMA PlaceNear ==
    ASSUME NEW e, NEW now, SameBlock(e, now, 0)
    PROVE  Place(e, now) = <<-1, e % TIME_NEAR>>
  BY DEF Place

\* add_node finds a slot for every node.
LEMMA Placing ==
    ASSUME NEW e \in Time, NEW now \in Time
    PROVE  /\ SameBlock(e, now, 0) \/ \E l \in Level : ~SameBlock(e, now, l) /\ SameBlock(e, now, l + 1)
           /\ Place(e, now) \in Slot
<1>1. e \in Nat /\ now \in Nat /\ SameBlock(e, now, 4)
  BY OneWord, HalfWord DEF Time
<1>2. SameBlock(e, now, 0) \/ \E l \in Level : ~SameBlock(e, now, l) /\ SameBlock(e, now, l + 1)
  <2>1. 0 \in Level /\ 1 \in Level /\ 2 \in Level /\ 3 \in Level /\ 0 + 1 = 1 /\ 1 + 1 = 2 /\ 2 + 1 = 3 /\ 3 + 1 = 4
    BY DEF Level
  <2> QED
    BY <1>1, <2>1
<1>3. CASE SameBlock(e, now, 0)
  <2>1. e % TIME_NEAR \in 0 .. (TIME_NEAR - 1)
    BY <1>1, DivMod, TimerAssumption
  <2> QED
    BY <1>2, <1>3, <2>1, PlaceNear DEF Slot, Near
<1>4. CASE \E l \in Level : ~SameBlock(e, now, l) /\ SameBlock(e, now, l + 1)
  <2>1. PICK l \in Level : ~SameBlock(e, now, l) /\ SameBlock(e, now, l + 1)
    BY <1>4
  <2>2. Span(l) \in Nat \ {0} /\ TIME_LEVEL \in Nat \ {0}
    BY Spans, TimerAssumption DEF Level
  <2>3. e \div Span(l) \in Nat
    BY <1>1, <2>2, DivMod
  <2>4. Digit(e, l) \in 0 .. (TIME_LEVEL - 1)
    BY <2>2, <2>3, DivMod DEF Digit
  <2>5. Place(e, now) = <<l, Digit(e, l)>>
    BY <1>1, <2>1, PlaceLevel
  <2> QED
    BY <1>2, <2>4, <2>5 DEF Slot, Level
<1> QED
  BY <1>2, <1>3, <1>4

\* What is left of a number below a level and above it.
LEMMA Digits ==
    ASSUME NEW n \in Nat, NEW k \in Level
    PROVE  /\ n % Span(k + 1) = Span(k) * Digit(n, k) + (n % Span(k))
           /\ Span(k) \in Nat \ {0} /\ Digit(n, k) \in Nat /\ n % Span(k) \in Nat
<1>1. Span(k) \in Nat \ {0} /\ Span(k + 1) = Span(k) * TIME_LEVEL /\ TIME_LEVEL \in Nat \ {0}
  BY Spans, TimerAssumption DEF Level
<1>2. PICK m \in Nat \ {0} : m = Span(k)
  BY <1>1
<1>3. n % (m * TIME_LEVEL) = m * ((n \div m) % TIME_LEVEL) + (n % m)
  BY <1>1, DivDiv
<1>4. n \div m \in Nat /\ n % m \in Nat
  BY DivMod
<1>5. (n \div m) % TIME_LEVEL \in Nat
  BY <1>1, <1>4, DivMod
<1> QED
  BY <1>1, <1>2, <1>3, <1>4, <1>5 DEF Digit

\* A number begins a block of level k + 1 when it begins one of level k and its
\* index there is 0.
LEMMA Begins ==
    ASSUME NEW n \in Nat, NEW k \in Level
    PROVE  n % Span(k + 1) = 0 <=> Digit(n, k) = 0 /\ n % Span(k) = 0
<1>1. PICK m \in Nat \ {0}, d \in Nat, r \in Nat :
        m = Span(k) /\ d = Digit(n, k) /\ r = n % Span(k)
  BY Digits
<1>2. m * d + r = 0 <=> d = 0 /\ r = 0
  <2>1. CASE d = 0
    BY <2>1
  <2>2. CASE d # 0
    <3>1. m * d \in Nat \ {0}
      BY <2>2
    <3> QED
      BY <2>2, <3>1
  <2> QED
    BY <2>1, <2>2
<1>3. n % Span(k + 1) = m * d + r
  BY <1>1, Digits
<1> QED
  BY <1>1, <1>2, <1>3

\* timer_shift picks the level whose block begins now while no larger one does.
LEMMA CascadeLevel ==
    ASSUME NEW ct \in Time, ct # 0, ct % TIME_NEAR = 0
    PROVE  \E l \in Level : /\ Cascading(ct) = <<l, Digit(ct, l)>>
                            /\ ct % Span(l) = 0 /\ ct % Span(l + 1) # 0
<1>0. ct \in Nat /\ Word \in Nat \ {0} /\ Span(4) = Word /\ Span(0) = TIME_NEAR
  BY HalfWord, Spans DEF Time
<1>1. ct % Span(4) # 0 /\ ct % Span(0) = 0
  BY <1>0 DEF Time
<1>2. 0 \in Level /\ 1 \in Level /\ 2 \in Level /\ 3 \in Level /\ 0 + 1 = 1 /\ 1 + 1 = 2 /\ 2 + 1 = 3 /\ 3 + 1 = 4
  BY DEF Level
<1>3. PICK l \in Level : ct % Span(l) = 0 /\ ct % Span(l + 1) # 0
  BY <1>1, <1>2
<1>4. Digit(ct, l) # 0
  BY <1>0, <1>3, Begins
<1>5. ASSUME NEW j \in Level, j < l PROVE Digit(ct, j) = 0
  <2>1. \A k \in Level : ct % Span(k + 1) = 0 => ct % Span(k) = 0
    BY <1>0, Begins
  <2>2. /\ ct % Span(2) = 0 => ct % Span(1) = 0
        /\ ct % Span(3) = 0 => ct % Span(2) = 0
    BY <2>1, <1>2
  <2>3. ct % Span(j + 1) = 0
    <3>1. \/ l = 1 /\ j + 1 = 1
          \/ l = 2 /\ j + 1 \in {1, 2}
          \/ l = 3 /\ j + 1 \in {1, 2, 3}
      BY <1>5 DEF Level
    <3>2. ct % Span(l) = 0
      BY <1>3
    <3> QED
      BY <3>1, <3>2, <2>2, <1>1
  <2> QED
    BY <1>0, <2>3, Begins
<1> DEFINE P(i) == /\ i = 3 \/ Digit(ct, i) # 0
                   /\ \A j \in 0 .. (i - 1) : Digit(ct, j) = 0
<1>6. P(l)
  <2>1. ASSUME NEW j \in 0 .. (l - 1) PROVE j \in Level /\ j < l
    BY DEF Level
  <2> QED
    BY <1>4, <1>5, <2>1
<1>7. ASSUME NEW i \in Level, P(i) PROVE i = l
  <2>1. CASE i < l
    <3>1. i # 3
      BY <2>1 DEF Level
    <3> QED
      BY <1>5, <1>7, <2>1, <3>1
  <2>2. CASE l < i
    <3>1. l \in 0 .. (i - 1)
      BY <2>2 DEF Level
    <3> QED
      BY <1>4, <1>7, <3>1
  <2> QED
    BY <2>1, <2>2 DEF Level
<1> HIDE DEF P
<1>8. (CHOOSE i \in Level : P(i)) = l
  BY <1>6, <1>7
<1>9. Cascading(ct) = <<l, Digit(ct, l)>>
  BY <1>8 DEF Cascading, P, Level
<1> QED
  BY <1>3, <1>9

\* (a - b) % Word for two times.
LEMMA Distance ==
    ASSUME NEW e \in Time, NEW t \in Time
    PROVE  /\ (e - t) % Word \in Time
           /\ t <= e => (e - t) % Word = e - t
           /\ e < t => (e - t) % Word = e - t + Word
           /\ (e - t) % Word = 0 <=> e = t
<1>1. Word \in Nat \ {0}
  BY HalfWord
<1>2. CASE t <= e
  <2>1. e - t \in Nat /\ e - t < Word
    BY <1>1, <1>2 DEF Time
  <2>2. (Word * 0 + (e - t)) % Word = e - t
    BY <1>1, <2>1, DivUnique
  <2>3. (e - t) % Word = e - t
    BY <1>1, <2>1, <2>2
  <2> QED
    BY <1>1, <1>2, <2>1, <2>3 DEF Time
<1>3. CASE e < t
  <2>1. (e - t) % Word = e - t + Word
    BY <1>1, <1>3 DEF Time
  <2> QED
    BY <1>1, <1>3, <2>1 DEF Time
<1> QED
  BY <1>2, <1>3 DEF Time

\* The time grows by one, or wraps to 0.
LEMMA AfterTime ==
    ASSUME NEW t \in Time
    PROVE  /\ After(t) \in Time
           /\ t + 1 < Word => After(t) = t + 1
           /\ t + 1 = Word => After(t) = 0
<1>1. Word \in Nat \ {0}
  BY HalfWord
<1> QED
  BY <1>1 DEF After, Time

\* A node that is not due yet is later than the time in every block both are in.
LEMMA Later ==
    ASSUME NEW e \in Time, NEW t \in Time, e # t, (e - t) % Word < Word \div 2,
           NEW k \in Level, SameBlock(e, t, k)
    PROVE  t < e
<1>1. Word \in Nat \ {0} /\ Word \div 2 \in Nat /\ Span(k) \in Nat \ {0} /\ Span(k) <= Word \div 2
  BY HalfWord, Spans DEF Level
<1>2. e \in Nat /\ t \in Nat
  BY DEF Time
<1>3. t - e < Span(k)
  BY <1>1, <1>2, BlockWidth DEF SameBlock
<1>4. e < t => (e - t) % Word = e - t + Word
  BY Distance
<1>5. 2 * (Word \div 2) <= Word
  BY <1>1
<1> QED
  BY <1>1, <1>2, <1>3, <1>4, <1>5

\* When a block of level k begins, no node that is not due yet is in the last one.
LEMMA NoneBehind ==
    ASSUME NEW e \in Time, NEW t \in Time, e # t, (e - t) % Word < Word \div 2,
           NEW k \in Level, (t + 1) % Span(k) = 0
    PROVE  ~SameBlock(e, t, k)
<1> SUFFICES ASSUME SameBlock(e, t, k) PROVE FALSE
  OBVIOUS
<1>1. t < e
  BY Later
<1>2. Span(k) \in Nat \ {0} /\ e \in Nat /\ t \in Nat
  BY Spans DEF Level, Time
<1>3. e <= t
  BY <1>2, LastOfBlock DEF SameBlock
<1> QED
  BY <1>1, <1>2, <1>3

\* The blocks that do not begin with t + 1 hold both t and t + 1.
LEMMA StaysIn ==
    ASSUME NEW e \in Nat, NEW t \in Nat, NEW k \in 0 .. 4, (t + 1) % Span(k) # 0
    PROVE  SameBlock(e, t + 1, k) <=> SameBlock(e, t, k)
<1>1. Span(k) \in Nat \ {0}
  BY Spans
<1> QED
  BY <1>1, NextBlock DEF SameBlock

\* The start of a block of level l + 1 starts one of level l too.
LEMMA StartsBelow ==
    ASSUME NEW n \in Nat, NEW j \in 0 .. 4, NEW k \in 0 .. 4, j <= k, n % Span(k) = 0
    PROVE  n % Span(j) = 0
<1>1. 0 \in Level /\ 1 \in Level /\ 2 \in Level /\ 3 \in Level /\ 0 + 1 = 1 /\ 1 + 1 = 2 /\ 2 + 1 = 3 /\ 3 + 1 = 4
  BY DEF Level
<1>2. /\ n % Span(1) = 0 => n % Span(0) = 0
      /\ n % Span(2) = 0 => n % Span(1) = 0
      /\ n % Span(3) = 0 => n % Span(2) = 0
      /\ n % Span(4) = 0 => n % Span(3) = 0
  BY <1>1, Begins
<1> QED
  BY <1>2

\* The slot that is moved down when the time wraps.
LEMMA CascadeWrap == Cascading(0) = <<3, Digit(0, 3)>>
<1>1. \A i \in Level : Digit(0, i) = 0
  <2> SUFFICES ASSUME NEW i \in Level PROVE Digit(0, i) = 0
    OBVIOUS
  <2>1. Span(i) \in Nat \ {0} /\ TIME_LEVEL \in Nat \ {0}
    BY Spans, TimerAssumption DEF Level
  <2> QED
    BY <2>1 DEF Digit
<1> DEFINE P(i) == /\ i = 3 \/ Digit(0, i) # 0
                   /\ \A j \in 0 .. (i - 1) : Digit(0, j) = 0
<1>2. P(3)
  BY <1>1 DEF Level
<1>3. ASSUME NEW i \in Level, P(i) PROVE i = 3
  BY <1>1, <1>3
<1> HIDE DEF P
<1>4. 3 \in Level
  BY DEF Level
<1>5. (CHOOSE i \in Level : P(i)) = 3
  BY <1>2, <1>3, <1>4
<1> QED
  BY <1>5 DEF Cascading, P, Level

\* A tick leaves every node that is not due and not moved where add_node would put it.
LEMMA SlotKept ==
    ASSUME NEW e \in Time, NEW t \in Time, e # t, (e - t) % Word < Word \div 2,
           Cascades(After(t)) => Place(e, t) # Cascading(After(t))
    PROVE  Place(e, After(t)) = Place(e, t)
<1>0. /\ Word \in Nat \ {0} /\ Span(0) = TIME_NEAR /\ Span(4) = Word
      /\ TIME_NEAR \in Nat \ {0} /\ e \in Nat /\ t \in Nat /\ t + 1 \in Nat
  BY HalfWord, Spans, TimerAssumption DEF Time
<1>1. CASE ~Cascades(After(t))
  <2>1. After(t) = t + 1 /\ (t + 1) % Span(0) # 0
    <3>1. 0 % TIME_NEAR = 0
      BY <1>0
    <3> QED
      BY <3>1, <1>0, <1>1, AfterTime DEF Cascades, Time
  <2>2. \A k \in 0 .. 4 : SameBlock(e, t + 1, k) <=> SameBlock(e, t, k)
    <3> SUFFICES ASSUME NEW k \in 0 .. 4 PROVE SameBlock(e, t + 1, k) <=> SameBlock(e, t, k)
      OBVIOUS
    <3>1. 0 \in 0 .. 4 /\ 0 <= k
      OBVIOUS
    <3>2. (t + 1) % Span(k) # 0
      BY <1>0, <2>1, <3>1, StartsBelow
    <3> QED
      BY <1>0, <3>2, StaysIn
  <2>3. CASE SameBlock(e, t, 0)
    <3>1. SameBlock(e, t + 1, 0)
      BY <2>2, <2>3
    <3> QED
      BY <2>1, <2>3, <3>1, PlaceNear
  <2>4. CASE \E l \in Level : ~SameBlock(e, t, l) /\ SameBlock(e, t, l + 1)
    <3>1. PICK l \in Level : ~SameBlock(e, t, l) /\ SameBlock(e, t, l + 1)
      BY <2>4
    <3>2. l \in 0 .. 4 /\ l + 1 \in 0 .. 4
      BY DEF Level
    <3>3. ~SameBlock(e, t + 1, l) /\ SameBlock(e, t + 1, l + 1)
      BY <2>2, <3>1, <3>2
    <3> QED
      BY <1>0, <2>1, <3>1, <3>3, PlaceLevel
  <2> QED
    BY <2>3, <2>4, Placing
<1>2. CASE Cascades(After(t)) /\ After(t) # 0
  <2>1. After(t) = t + 1 /\ t + 1 \in Time
    BY <1>0, <1>2, AfterTime DEF Time
  <2>2. PICK l \in Level : /\ Cascading(t + 1) = <<l, Digit(t + 1, l)>>
                           /\ (t + 1) % Span(l) = 0 /\ (t + 1) % Span(l + 1) # 0
    BY <1>2, <2>1, CascadeLevel DEF Cascades
  <2>3. ASSUME NEW k \in Level, k <= l PROVE ~SameBlock(e, t, k)
    <3>1. k \in 0 .. 4 /\ l \in 0 .. 4
      BY DEF Level
    <3>2. (t + 1) % Span(k) = 0
      BY <1>0, <2>2, <2>3, <3>1, StartsBelow
    <3> QED
      BY <3>2, NoneBehind
  <2>4. ASSUME NEW k \in 0 .. 4, l + 1 <= k PROVE SameBlock(e, t + 1, k) <=> SameBlock(e, t, k)
    <3>1. l + 1 \in 0 .. 4
      BY DEF Level
    <3>2. (t + 1) % Span(k) # 0
      BY <1>0, <2>2, <2>4, <3>1, StartsBelow
    <3> QED
      BY <1>0, <3>2, StaysIn
  <2>5. PICK m \in Level : ~SameBlock(e, t, m) /\ SameBlock(e, t, m + 1)
    <3>1. 0 \in Level /\ 0 <= l
      BY DEF Level
    <3> QED
      BY <2>3, <3>1, Placing
  <2>6. l <= m
    <3>1. CASE m < l
      <4>1. m + 1 \in Level /\ m + 1 <= l
        BY <3>1 DEF Level
      <4> QED
        BY <2>3, <2>5, <4>1
    <3> QED
      BY <3>1 DEF Level
  <2>7. Place(e, t) = <<m, Digit(e, m)>>
    BY <1>0, <2>5, PlaceLevel
  <2>8. SameBlock(e, t + 1, m + 1)
    <3>1. m + 1 \in 0 .. 4 /\ l + 1 <= m + 1
      BY <2>6 DEF Level
    <3> QED
      BY <2>4, <2>5, <3>1
  <2>9. ~SameBlock(e, t + 1, m)
    <3>1. CASE m = l
      <4>1. SameBlock(e, t + 1, l) => Digit(e, l) = Digit(t + 1, l)
        BY DEF SameBlock, Digit
      <4>2. Place(e, t) # Cascading(t + 1)
        BY <1>2, <2>1
      <4> QED
        BY <2>2, <2>7, <3>1, <4>1, <4>2
    <3>2. CASE l < m
      <4>1. m \in 0 .. 4 /\ l + 1 <= m
        BY <3>2 DEF Level
      <4> QED
        BY <2>4, <2>5, <4>1
    <3> QED
      BY <2>6, <3>1, <3>2 DEF Level
  <2>10. Place(e, t + 1) = <<m, Digit(e, m)>>
    BY <1>0, <2>8, <2>9, PlaceLevel
  <2> QED
    BY <2>1, <2>7, <2>10
<1>3. CASE Cascades(After(t)) /\ After(t) = 0
  <2>1. t + 1 = Word
    BY <1>0, <1>3, AfterTime DEF Time
  <2>2. (t + 1) % Span(4) = 0
    BY <1>0, <2>1
  <2>3. ASSUME NEW k \in Level PROVE ~SameBlock(e, t, k)
    <3>1. k \in 0 .. 4 /\ k <= 4 /\ 4 \in 0 .. 4
      BY DEF Level
    <3>2. (t + 1) % Span(k) = 0
      BY <1>0, <2>2, <3>1, StartsBelow
    <3> QED
      BY <3>2, NoneBehind
  <2>4. 3 \in Level /\ 3 + 1 = 4 /\ 0 \in Time
    BY <1>0 DEF Level, Time
  <2>5. Place(e, t) = <<3, Digit(e, 3)>>
    BY <1>0, <2>3, <2>4, OneWord, PlaceLevel
  <2>6. ~SameBlock(e, 0, 3)
    <3>1. SameBlock(e, 0, 3) => Digit(e, 3) = Digit(0, 3)
      BY DEF SameBlock, Digit
    <3> QED
      BY <1>3, <2>5, <3>1, CascadeWrap
  <2>7. Place(e, 0) = <<3, Digit(e, 3)>>
    BY <1>0, <2>4, <2>6, OneWord, PlaceLevel
  <2> QED
    BY <1>3, <2>5, <2>7
<1> QED
  BY <1>1, <1>2, <1>3

-----------------------------------------------------------------------------
(* The inductive invariant *)

\* The slot the timer thread looks at.
Current == <<-1, time % TIME_NEAR>>

\* The types, and the bound on what was set.
Types == TypeOK /\ count <= MaxTimers

\* Every node sits where add_node would put it.
Placed == \A s \in Slot : \A i \in DOMAIN wheel[s] : Place(wheel[s][i].expire, time) = s

\* No node is half a lap ahead, so a smaller expiry is one after the wrap.
Ahead ==
    /\ \A s \in Slot : \A i \in DOMAIN wheel[s] : Left(wheel[s][i]) < Word \div 2
    /\ \A i \in DOMAIN list : Left(list[i]) < Word \div 2

\* The thread has a list while it moves or dispatches one; what it dispatches is due,
\* and before it shifts nothing is due.
Phases ==
    /\ pc \in {"dispatch", "move"} <=> list # <<>>
    /\ pc = "dispatch" => \A i \in DOMAIN list : list[i].expire = time
    /\ pc = "shift" => wheel[Current] = <<>>

\* A session names one node, and none once it was sent.
Numbered ==
    /\ sent \subseteq 1 .. count
    /\ \A s \in Slot : \A i \in DOMAIN wheel[s] : wheel[s][i].session \in (1 .. count) \ sent
    /\ \A i \in DOMAIN list : list[i].session \in (1 .. count) \ sent
    /\ \A s, r \in Slot : \A i \in DOMAIN wheel[s], j \in DOMAIN wheel[r] :
         wheel[s][i].session = wheel[r][j].session => s = r /\ i = j
    /\ \A i, j \in DOMAIN list : list[i].session = list[j].session => i = j
    /\ \A s \in Slot : \A i \in DOMAIN wheel[s], j \in DOMAIN list : wheel[s][i].session # list[j].session

\* Nodes of one tick are in the order they were set: within a slot, within the list,
\* the list being dispatched before the wheel and the list being moved after it.
Ordered ==
    /\ \A s \in Slot : \A i, j \in DOMAIN wheel[s] :
         i < j /\ wheel[s][i].expire = wheel[s][j].expire => wheel[s][i].session < wheel[s][j].session
    /\ \A i, j \in DOMAIN list :
         i < j /\ list[i].expire = list[j].expire => list[i].session < list[j].session
    /\ \A s \in Slot : \A i \in DOMAIN wheel[s], j \in DOMAIN list :
         wheel[s][i].expire = list[j].expire =>
           /\ pc = "dispatch" => list[j].session < wheel[s][i].session
           /\ pc = "move" => wheel[s][i].session < list[j].session

TimerInv == Types /\ Placed /\ Ahead /\ Phases /\ Numbered /\ Ordered

\* A node is linked at the end of slot p, a slot p is cleared, the head of the list is
\* taken.
Adds(p, n) ==
    /\ wheel' \in [Slot -> Seq(Node)] /\ p \in Slot
    /\ \A s \in Slot : \A i \in DOMAIN wheel'[s] :
         \/ i \in DOMAIN wheel[s] /\ wheel'[s][i] = wheel[s][i]
         \/ s = p /\ i = Len(wheel[p]) + 1 /\ wheel'[s][i] = n
Clears(p) ==
    /\ wheel' \in [Slot -> Seq(Node)] /\ p \in Slot /\ wheel'[p] = <<>>
    /\ \A s \in Slot \ {p} : wheel'[s] = wheel[s]
Takes ==
    /\ list' \in Seq(Node) /\ 1 \in DOMAIN list /\ Head(list) = list[1]
    /\ \A i \in DOMAIN list' : i \in Nat \ {0} /\ i + 1 \in DOMAIN list /\ list'[i] = list[i + 1]
    /\ list' # <<>> <=> Len(list) > 1

\* What linking a node at the end of a slot does.
LEMMA AddsNode ==
    ASSUME wheel \in [Slot -> Seq(Node)], NEW p \in Slot, NEW n \in Node,
           wheel' = [wheel EXCEPT ![p] = Append(@, n)]
    PROVE  Adds(p, n)
<1>1. wheel[p] \in Seq(Node)
  OBVIOUS
<1>2. /\ Append(wheel[p], n) \in Seq(Node)
      /\ \A i \in DOMAIN Append(wheel[p], n) :
           \/ i \in DOMAIN wheel[p] /\ Append(wheel[p], n)[i] = wheel[p][i]
           \/ i = Len(wheel[p]) + 1 /\ Append(wheel[p], n)[i] = n
  BY <1>1
<1>3. \A s \in Slot : wheel'[s] = IF s = p THEN Append(wheel[p], n) ELSE wheel[s]
  OBVIOUS
<1>4. wheel' \in [Slot -> Seq(Node)]
  BY <1>1, <1>2
<1> QED
  BY <1>2, <1>3, <1>4 DEF Adds

\* What link_clear of a slot does.
LEMMA ClearsSlot ==
    ASSUME wheel \in [Slot -> Seq(Node)], NEW p \in Slot, wheel' = [wheel EXCEPT ![p] = <<>>]
    PROVE  Clears(p)
<1>1. <<>> \in Seq(Node)
  OBVIOUS
<1> QED
  BY <1>1 DEF Clears

\* What taking the first node of the list does.
LEMMA TakesHead ==
    ASSUME list \in Seq(Node), list # <<>>, list' = Tail(list)
    PROVE  Takes
<1>1. Len(list) \in Nat \ {0} /\ DOMAIN list = 1 .. Len(list)
  OBVIOUS
<1>2. Tail(list) \in Seq(Node) /\ Len(Tail(list)) = Len(list) - 1
  BY <1>1
<1>3. DOMAIN Tail(list) = 1 .. Len(list) - 1
  BY <1>1, <1>2
<1>4. \A i \in 1 .. Len(list) - 1 : Tail(list)[i] = list[i + 1]
  BY <1>1
<1>5. Tail(list) # <<>> <=> Len(list) > 1
  BY <1>1, <1>2
<1>6. 1 \in DOMAIN list /\ Head(list) = list[1]
  BY <1>1
<1>7. ASSUME NEW i \in DOMAIN list'
      PROVE  i \in Nat \ {0} /\ i + 1 \in DOMAIN list /\ list'[i] = list[i + 1]
  <2>1. i \in 1 .. Len(list) - 1
    BY <1>3
  <2> QED
    BY <1>1, <1>4, <2>1
<1> QED
  BY <1>2, <1>5, <1>6, <1>7 DEF Takes

\* The nodes of the slot the thread looks at are the ones that are due.
LEMMA DueSlot ==
    ASSUME NEW e \in Time, NEW t \in Time
    PROVE  Place(e, t) = <<-1, t % TIME_NEAR>> <=> e = t
<1>0. e \in Nat /\ t \in Nat /\ TIME_NEAR \in Nat \ {0} /\ Span(0) = TIME_NEAR
  BY HalfWord, Spans, TimerAssumption DEF Time
<1>1. ASSUME e = t PROVE Place(e, t) = <<-1, t % TIME_NEAR>>
  <2>1. SameBlock(e, t, 0)
    BY <1>1 DEF SameBlock
  <2> QED
    BY <1>1, <2>1, PlaceNear
<1>2. ASSUME Place(e, t) = <<-1, t % TIME_NEAR>> PROVE e = t
  <2>1. SameBlock(e, t, 0)
    <3> SUFFICES ASSUME ~SameBlock(e, t, 0) PROVE FALSE
      OBVIOUS
    <3>1. PICK l \in Level : ~SameBlock(e, t, l) /\ SameBlock(e, t, l + 1)
      BY Placing
    <3>2. Place(e, t) = <<l, Digit(e, l)>>
      BY <1>0, <3>1, PlaceLevel
    <3>3. l # -1
      BY DEF Level
    <3> QED
      BY <1>2, <3>2, <3>3
  <2>2. e % TIME_NEAR = t % TIME_NEAR
    BY <1>2, <2>1, PlaceNear
  <2>3. e \div TIME_NEAR = t \div TIME_NEAR
    BY <1>0, <2>1 DEF SameBlock
  <2> QED
    BY <1>0, <2>2, <2>3, DivMod
<1> QED
  BY <1>1, <1>2

\* The parts of the invariant as they are used.
LEMMA Known ==
    ASSUME Types
    PROVE  /\ Time \subseteq Nat /\ time \in Time /\ wheel \in [Slot -> Seq(Node)] /\ list \in Seq(Node)
           /\ count \in Nat /\ MaxTimers \in Nat /\ Current \in Slot
           /\ \A s \in Slot : wheel[s] \in Seq(Node) /\ DOMAIN wheel[s] = 1 .. Len(wheel[s]) /\ Len(wheel[s]) \in Nat
           /\ \A s \in Slot : \A i \in DOMAIN wheel[s] : wheel[s][i] \in Node /\ wheel[s][i].expire \in Time
           /\ \A i \in DOMAIN list : list[i] \in Node /\ list[i].expire \in Time
<1>0. Word \in Nat \ {0} /\ TIME_NEAR \in Nat \ {0} /\ MaxTimers \in Nat
  BY HalfWord, TimerAssumption
<1>1. \A n \in Node : n.expire \in Time
  BY DEF Node, Time
<1>2. /\ Time \subseteq Nat /\ time \in Time /\ wheel \in [Slot -> Seq(Node)] /\ list \in Seq(Node)
      /\ count \in Nat
  BY <1>0 DEF Types, TypeOK, Time
<1>3. Current \in Slot
  <2>1. time % TIME_NEAR \in 0 .. (TIME_NEAR - 1)
    BY <1>0, <1>2, DivMod
  <2> QED
    BY <2>1 DEF Current, Slot, Near
<1>4. \A s \in Slot : wheel[s] \in Seq(Node) /\ DOMAIN wheel[s] = 1 .. Len(wheel[s]) /\ Len(wheel[s]) \in Nat
  BY <1>2
<1>5. \A s \in Slot : \A i \in DOMAIN wheel[s] : wheel[s][i] \in Node /\ wheel[s][i].expire \in Time
  BY <1>1, <1>4
<1>6. \A i \in DOMAIN list : list[i] \in Node /\ list[i].expire \in Time
  BY <1>1, <1>2
<1> QED
  BY <1>0, <1>2, <1>3, <1>4, <1>5, <1>6

-----------------------------------------------------------------------------
(* Every step keeps the invariant *)

\* The invariant holds initially.
LEMMA TimerStart == Init => TimerInv
<1> SUFFICES ASSUME Init PROVE TimerInv
  OBVIOUS
<1>0. Word \in Nat \ {0} /\ MaxTimers \in Nat /\ <<>> \in Seq(Node) /\ DOMAIN (<<>>) = {}
  BY HalfWord, TimerAssumption
<1>1. Types
  <2>1. wheel \in [Slot -> Seq(Node)] /\ list \in Seq(Node)
    BY <1>0 DEF Init
  <2>2. time \in 0 .. (Word - 1) /\ {current, todo, count} \subseteq Nat /\ count <= MaxTimers
    BY <1>0 DEF Init
  <2>3. pc \in {"idle", "execute", "dispatch", "shift", "move"} /\ shifted \in BOOLEAN
    BY DEF Init
  <2>4. sent \subseteq 1 .. MaxTimers /\ early \subseteq 1 .. MaxTimers
    BY DEF Init
  <2> QED
    BY <2>1, <2>2, <2>3, <2>4 DEF Types, TypeOK
<1>2. Placed /\ Ahead /\ Phases /\ Numbered /\ Ordered
  BY <1>0 DEF Init, Placed, Ahead, Phases, Numbered, Ordered
<1> QED
  BY <1>1, <1>2 DEF TimerInv

\* What a new node has left is the delay it was set with.
LEMMA NewNode ==
    ASSUME NEW t \in Time, NEW n \in Nat, n < Word
    PROVE  (t + n) % Word \in Time /\ (((t + n) % Word) - t) % Word = n
<1>0. Word \in Nat \ {0} /\ t \in Nat /\ t < Word
  BY HalfWord DEF Time
<1>1. CASE t + n < Word
  <2>1. (t + n) % Word = t + n
    BY <1>0, <1>1
  <2>2. t + n \in Time
    BY <1>0, <1>1 DEF Time
  <2>3. t <= t + n
    BY <1>0
  <2>4. ((t + n) - t) % Word = (t + n) - t
    BY <2>2, <2>3, Distance
  <2> QED
    BY <1>0, <2>1, <2>2, <2>4
<1>2. CASE Word <= t + n
  <2>1. (t + n) % Word = t + n - Word
    BY <1>0, <1>2
  <2>2. t + n - Word \in Time /\ t + n - Word < t
    BY <1>0, <1>2 DEF Time
  <2>3. ((t + n - Word) - t) % Word = (t + n - Word) - t + Word
    BY <1>0, <2>2, Distance
  <2> QED
    BY <1>0, <2>1, <2>2, <2>3
<1> QED
  BY <1>0, <1>1, <1>2

\* Steps that leave wheel, list, time and what was sent alone.
LEMMA IdleStep ==
    ASSUME TimerInv, UNCHANGED <<wheel, time, list, count, sent, early>>, Types',
           pc = "idle", pc' \in {"idle", "execute"}
    PROVE  TimerInv'
<1>1. Placed' /\ Ahead' /\ Numbered'
  BY DEF TimerInv, Placed, Ahead, Numbered, Left
<1>2. list = <<>>
  BY DEF TimerInv, Phases
<1>3. Phases'
  BY <1>2 DEF Phases
<1>4. Ordered'
  BY <1>2 DEF TimerInv, Ordered
<1> QED
  BY <1>1, <1>3, <1>4 DEF TimerInv

\* starnet_updatetime keeps the invariant.
LEMMA UpdateTimeStep ==
    ASSUME TimerInv, NEW diff \in 1 .. MaxLag, starnet_updatetime(diff)
    PROVE  TimerInv'
<1>1. Types'
  BY TimerAssumption DEF TimerInv, Types, TypeOK, starnet_updatetime
<1> QED
  BY <1>1, IdleStep DEF starnet_updatetime

\* timer_update keeps the invariant.
LEMMA UpdateStep ==
    ASSUME TimerInv, timer_update
    PROVE  TimerInv'
<1>0. todo \in Nat
  BY DEF TimerInv, Types, TypeOK
<1>1. todo' \in Nat /\ shifted' = FALSE /\ pc' = "execute"
  BY <1>0 DEF timer_update
<1>2. Types'
  BY <1>1 DEF TimerInv, Types, TypeOK, timer_update
<1> QED
  BY <1>1, <1>2, IdleStep DEF timer_update

\* starnet_timeout with nothing to wait for: the message is sent at once.
LEMMA SendNowStep ==
    ASSUME TimerInv, count < MaxTimers, count' = count + 1, sent' = sent \cup {count + 1},
           UNCHANGED <<wheel, time, current, todo, pc, shifted, list, early>>
    PROVE  TimerInv'
<1>0. count \in Nat /\ MaxTimers \in Nat
  BY Known DEF TimerInv
<1>1. Types'
  BY <1>0 DEF TimerInv, Types, TypeOK
<1>2. Placed' /\ Ahead'
  BY DEF TimerInv, Placed, Ahead, Left
<1>4. Phases'
  BY DEF TimerInv, Phases, Current
<1>5. Ordered'
  BY DEF TimerInv, Ordered
<1>3. Numbered'
  <2>1. /\ 1 .. count \subseteq 1 .. count' /\ count + 1 \in 1 .. count' /\ count + 1 \notin 1 .. count
    BY <1>0
  <2>2. (1 .. count) \ sent \subseteq (1 .. count') \ sent'
    BY <2>1
  <2>3. sent' \subseteq 1 .. count'
    BY <2>1 DEF TimerInv, Numbered
  <2>4. \A s \in Slot : \A i \in DOMAIN wheel'[s] : wheel'[s][i].session \in (1 .. count') \ sent'
    BY <2>2 DEF TimerInv, Numbered
  <2>5. \A i \in DOMAIN list' : list'[i].session \in (1 .. count') \ sent'
    BY <2>2 DEF TimerInv, Numbered
  <2> QED
    BY <2>3, <2>4, <2>5 DEF TimerInv, Numbered
<1> QED
  BY <1>1, <1>2, <1>3, <1>4, <1>5 DEF TimerInv

\* starnet_timeout links a node.
LEMMA SetStep ==
    ASSUME TimerInv, count < MaxTimers, count' = count + 1, NEW n \in Delay, n > 0, ~Locked,
           add_node([session |-> count + 1, expire |-> (time + n) % Word, due |-> current + n]),
           UNCHANGED <<time, current, todo, pc, shifted, list, sent, early>>
    PROVE  TimerInv'
<1> DEFINE m == [session |-> count + 1, expire |-> (time + n) % Word, due |-> current + n]
           p == Place(m.expire, time)
<1>0. /\ count \in Nat /\ MaxTimers \in Nat /\ Word \in Nat \ {0} /\ Word \div 2 \in Nat /\ time \in Time
      /\ n \in Nat /\ n < Word \div 2 /\ Word \div 2 <= Word /\ current \in Nat
  BY Known, HalfWord, TimerAssumption DEF TimerInv, Types, TypeOK
<1>1. m.expire \in Time /\ Left(m) = n
  BY <1>0, NewNode DEF Left
<1>2. p \in Slot
  BY <1>0, <1>1, Placing
<1>3. m \in Node
  BY <1>0, <1>1 DEF Node, Time
<1>4. wheel \in [Slot -> Seq(Node)] /\ wheel' = [wheel EXCEPT ![p] = Append(@, m)]
  BY Known DEF add_node, TimerInv
<1> HIDE DEF p
<1>5. Adds(p, m)
  BY <1>2, <1>3, <1>4, AddsNode
<1>6. pc \in {"idle", "dispatch"}
  BY DEF Locked, TimerInv, Types, TypeOK
<1>7. p = Place(m.expire, time) /\ m.session = count + 1
  BY DEF p
<1> HIDE DEF m
<1>8. \A s \in Slot : wheel[s] \in Seq(Node) /\ DOMAIN wheel[s] = 1 .. Len(wheel[s]) /\ Len(wheel[s]) \in Nat
  BY Known DEF TimerInv
<1>9. Types'
  BY <1>0, <1>5 DEF TimerInv, Types, TypeOK, Adds
<1>10. Placed'
  BY <1>5, <1>7 DEF TimerInv, Placed, Adds
<1>11. Ahead'
  BY <1>0, <1>1, <1>5 DEF TimerInv, Ahead, Adds, Left
<1>12. Phases'
  BY <1>6 DEF TimerInv, Phases
<1>13. Numbered'
  <2>1. \A s \in Slot : \A i \in DOMAIN wheel[s] : wheel[s][i].session \in 1 .. count
    BY DEF TimerInv, Numbered
  <2>2. \A i \in DOMAIN list : list[i].session \in 1 .. count
    BY DEF TimerInv, Numbered
  <2>3. \A s \in Slot : \A i \in DOMAIN wheel'[s] : wheel'[s][i].session \in (1 .. count') \ sent'
    BY <1>0, <1>5, <1>7 DEF TimerInv, Numbered, Adds
  <2>4. ASSUME NEW s \in Slot, NEW r \in Slot, NEW i \in DOMAIN wheel'[s], NEW j \in DOMAIN wheel'[r],
               wheel'[s][i].session = wheel'[r][j].session
        PROVE  s = r /\ i = j
    <3>1. \/ i \in DOMAIN wheel[s] /\ wheel'[s][i] = wheel[s][i]
          \/ s = p /\ i = Len(wheel[p]) + 1 /\ wheel'[s][i] = m
      BY <1>5 DEF Adds
    <3>2. \/ j \in DOMAIN wheel[r] /\ wheel'[r][j] = wheel[r][j]
          \/ r = p /\ j = Len(wheel[p]) + 1 /\ wheel'[r][j] = m
      BY <1>5 DEF Adds
    <3>3. count + 1 \notin 1 .. count
      BY <1>0
    <3> QED
      BY <1>7, <2>1, <2>4, <3>1, <3>2, <3>3 DEF TimerInv, Numbered
  <2>5. \A s \in Slot : \A i \in DOMAIN wheel'[s], j \in DOMAIN list' : wheel'[s][i].session # list'[j].session
    <3>1. count + 1 \notin 1 .. count
      BY <1>0
    <3> QED
      BY <1>5, <1>7, <2>2, <3>1 DEF TimerInv, Numbered, Adds
  <2>6. sent' \subseteq 1 .. count' /\ \A i \in DOMAIN list' : list'[i].session \in (1 .. count') \ sent'
    BY <1>0 DEF TimerInv, Numbered
  <2> QED
    BY <2>3, <2>4, <2>5, <2>6 DEF TimerInv, Numbered
<1>14. Ordered'
  <2>1. \A s \in Slot : \A i \in DOMAIN wheel[s] : wheel[s][i].session \in Nat /\ wheel[s][i].session < count + 1
    BY <1>0 DEF TimerInv, Numbered
  <2>2. \A i \in DOMAIN list : list[i].session \in Nat /\ list[i].session < count + 1
    BY <1>0 DEF TimerInv, Numbered
  <2>3. ASSUME NEW s \in Slot, NEW i \in DOMAIN wheel'[s], NEW j \in DOMAIN wheel'[s],
               i < j, wheel'[s][i].expire = wheel'[s][j].expire
        PROVE  wheel'[s][i].session < wheel'[s][j].session
    <3>1. \/ i \in DOMAIN wheel[s] /\ wheel'[s][i] = wheel[s][i]
          \/ s = p /\ i = Len(wheel[p]) + 1 /\ wheel'[s][i] = m
      BY <1>5 DEF Adds
    <3>2. \/ j \in DOMAIN wheel[s] /\ wheel'[s][j] = wheel[s][j]
          \/ s = p /\ j = Len(wheel[p]) + 1 /\ wheel'[s][j] = m
      BY <1>5 DEF Adds
    <3>3. i \in DOMAIN wheel[s]
      BY <1>8, <2>3, <3>1, <3>2
    <3>4. wheel'[s][i] = wheel[s][i]
      BY <1>8, <3>1, <3>3
    <3> QED
      BY <1>7, <2>1, <2>3, <3>2, <3>3, <3>4 DEF TimerInv, Ordered
  <2>4. ASSUME NEW s \in Slot, NEW i \in DOMAIN wheel'[s], NEW j \in DOMAIN list',
               wheel'[s][i].expire = list'[j].expire
        PROVE  /\ pc' = "dispatch" => list'[j].session < wheel'[s][i].session
               /\ pc' = "move" => wheel'[s][i].session < list'[j].session
    <3>1. \/ i \in DOMAIN wheel[s] /\ wheel'[s][i] = wheel[s][i]
          \/ s = p /\ i = Len(wheel[p]) + 1 /\ wheel'[s][i] = m
      BY <1>5 DEF Adds
    <3> QED
      BY <1>6, <1>7, <2>2, <2>4, <3>1 DEF TimerInv, Ordered
  <2> QED
    BY <2>3, <2>4 DEF TimerInv, Ordered
<1> QED
  BY <1>9, <1>10, <1>11, <1>12, <1>13, <1>14 DEF TimerInv

\* A list that was empty takes the nodes of slot p.
LEMMA Emptied ==
    ASSUME TimerInv, list = <<>>, NEW p \in Slot, list' = wheel[p], Clears(p),
           UNCHANGED <<count, sent>>
    PROVE  /\ Numbered'
           /\ \A s \in Slot : \A i, j \in DOMAIN wheel'[s] :
                i < j /\ wheel'[s][i].expire = wheel'[s][j].expire => wheel'[s][i].session < wheel'[s][j].session
           /\ \A i, j \in DOMAIN list' :
                i < j /\ list'[i].expire = list'[j].expire => list'[i].session < list'[j].session
<1>1. \A s \in Slot : \A i \in DOMAIN wheel'[s] : s # p /\ i \in DOMAIN wheel[s] /\ wheel'[s][i] = wheel[s][i]
  BY DEF Clears
<1>2. Numbered'
  <2>1. \A i, j \in DOMAIN list' : list'[i].session = list'[j].session => i = j
    BY DEF TimerInv, Numbered
  <2>2. \A s \in Slot : \A i \in DOMAIN wheel'[s], j \in DOMAIN list' : wheel'[s][i].session # list'[j].session
    BY <1>1 DEF TimerInv, Numbered
  <2>3. \A s, r \in Slot : \A i \in DOMAIN wheel'[s], j \in DOMAIN wheel'[r] :
         wheel'[s][i].session = wheel'[r][j].session => s = r /\ i = j
    BY <1>1 DEF TimerInv, Numbered
  <2>4. /\ sent' \subseteq 1 .. count'
        /\ \A s \in Slot : \A i \in DOMAIN wheel'[s] : wheel'[s][i].session \in (1 .. count') \ sent'
        /\ \A i \in DOMAIN list' : list'[i].session \in (1 .. count') \ sent'
    BY <1>1 DEF TimerInv, Numbered
  <2> QED
    BY <2>1, <2>2, <2>3, <2>4 DEF Numbered
<1> QED
  BY <1>1, <1>2 DEF TimerInv, Ordered

\* timer_execute takes the nodes that are due.
LEMMA ExecuteStep ==
    ASSUME TimerInv, timer_execute
    PROVE  TimerInv'
<1>0. /\ pc = "execute" /\ list' = wheel[Current] /\ wheel' = [wheel EXCEPT ![Current] = <<>>]
      /\ pc' = IF wheel[Current] # <<>> THEN "dispatch" ELSE IF shifted THEN "idle" ELSE "shift"
      /\ UNCHANGED <<time, current, todo, shifted, count, sent, early>>
  BY DEF timer_execute, Current
<1>1. /\ Current \in Slot /\ wheel \in [Slot -> Seq(Node)] /\ time \in Time /\ wheel[Current] \in Seq(Node)
      /\ \A s \in Slot : \A i \in DOMAIN wheel[s] : wheel[s][i].expire \in Time
  BY Known DEF TimerInv
<1>2. Clears(Current)
  BY <1>0, <1>1, ClearsSlot
<1>3. list = <<>>
  BY <1>0 DEF TimerInv, Phases
<1>4. \A s \in Slot : \A i \in DOMAIN wheel[s] : wheel[s][i].expire = time <=> s = Current
  BY <1>1, DueSlot DEF TimerInv, Placed, Current
<1>5. \A s \in Slot : \A i \in DOMAIN wheel'[s] : s # Current /\ i \in DOMAIN wheel[s] /\ wheel'[s][i] = wheel[s][i]
  BY <1>2 DEF Clears
<1>6. Types'
  <2>1. pc' \in {"idle", "execute", "dispatch", "shift", "move"}
    BY <1>0
  <2> QED
    BY <1>0, <1>1, <1>2, <2>1 DEF TimerInv, Types, TypeOK, Clears
<1>7. Placed' /\ Ahead'
  BY <1>0, <1>1, <1>5 DEF TimerInv, Placed, Ahead, Left
<1>8. Phases'
  <2>1. Current' = Current
    BY <1>0 DEF Current
  <2> QED
    BY <1>0, <1>1, <1>2, <1>4, <2>1 DEF Phases, Clears
<1>9. Numbered' /\ Ordered'
  <2>1. \A s \in Slot : \A i \in DOMAIN wheel'[s], j \in DOMAIN list' : wheel'[s][i].expire # list'[j].expire
    BY <1>0, <1>1, <1>4, <1>5
  <2> QED
    BY <1>0, <1>1, <1>2, <1>3, <2>1, Emptied DEF Ordered
<1> QED
  BY <1>6, <1>7, <1>8, <1>9 DEF TimerInv

\* dispatch_list sends the first node of the list.
LEMMA DispatchStep ==
    ASSUME TimerInv, dispatch_list
    PROVE  TimerInv'
<1>0. /\ pc = "dispatch" /\ list # <<>> /\ list \in Seq(Node) /\ list' = Tail(list) /\ count \in Nat
      /\ pc' = IF Len(list) > 1 THEN "dispatch" ELSE "execute"
      /\ UNCHANGED <<wheel, time, current, todo, shifted, count>>
  BY Known DEF dispatch_list, TimerInv, Phases
<1>1. Takes
  BY <1>0, TakesHead
<1> DEFINE h == list[1].session
<1>2. 1 \in DOMAIN list /\ h \in 1 .. MaxTimers /\ h \in 1 .. count /\ h \notin sent
  <2>1. 1 \in DOMAIN list
    BY <1>1 DEF Takes
  <2>2. list[1] \in Node
    BY <1>0, <2>1
  <2> QED
    BY <2>1, <2>2 DEF Node, TimerInv, Numbered
<1>3. sent' = sent \cup {h} /\ early' \subseteq early \cup {h}
  BY <1>1 DEF dispatch_list, Takes
<1>4. \A i \in DOMAIN list' : i \in Nat \ {0} /\ i + 1 \in DOMAIN list /\ list'[i] = list[i + 1]
  BY <1>1 DEF Takes
<1>5. \A i \in DOMAIN list' : list'[i].session # h
  BY <1>2, <1>4 DEF TimerInv, Numbered
<1>6. Types'
  <2>1. pc' \in {"idle", "execute", "dispatch", "shift", "move"}
    BY <1>0
  <2>2. sent' \subseteq 1 .. MaxTimers /\ early' \subseteq 1 .. MaxTimers
    BY <1>2, <1>3 DEF TimerInv, Types, TypeOK
  <2> QED
    BY <1>0, <1>1, <2>1, <2>2 DEF TimerInv, Types, TypeOK, Takes
<1> HIDE DEF h
<1>7. Placed' /\ Ahead'
  BY <1>0, <1>4 DEF TimerInv, Placed, Ahead, Left
<1>8. Phases'
  BY <1>0, <1>1, <1>4 DEF TimerInv, Phases, Takes
<1>9. Numbered'
  <2>1. sent' \subseteq 1 .. count'
    BY <1>0, <1>2, <1>3 DEF TimerInv, Numbered
  <2>2. \A s \in Slot : \A i \in DOMAIN wheel'[s] : wheel'[s][i].session \in (1 .. count') \ sent'
    BY <1>0, <1>2, <1>3 DEF TimerInv, Numbered, h
  <2>3. \A i \in DOMAIN list' : list'[i].session \in (1 .. count') \ sent'
    BY <1>0, <1>3, <1>4, <1>5 DEF TimerInv, Numbered
  <2>4. \A i, j \in DOMAIN list' : list'[i].session = list'[j].session => i = j
    BY <1>4 DEF TimerInv, Numbered
  <2>5. \A s \in Slot : \A i \in DOMAIN wheel'[s], j \in DOMAIN list' : wheel'[s][i].session # list'[j].session
    BY <1>0, <1>4 DEF TimerInv, Numbered
  <2> QED
    BY <1>0, <2>1, <2>2, <2>3, <2>4, <2>5 DEF TimerInv, Numbered
<1>10. Ordered'
  <2>1. \A i, j \in DOMAIN list' :
         i < j /\ list'[i].expire = list'[j].expire => list'[i].session < list'[j].session
    <3>1. ASSUME NEW i \in DOMAIN list', NEW j \in DOMAIN list', i < j PROVE i + 1 < j + 1
      BY <1>4, <3>1
    <3> QED
      BY <1>4, <3>1 DEF TimerInv, Ordered
  <2>2. \A s \in Slot : \A i \in DOMAIN wheel[s], j \in DOMAIN list :
         wheel[s][i].expire = list[j].expire => list[j].session < wheel[s][i].session
    BY <1>0 DEF TimerInv, Ordered
  <2>3. pc' # "move"
    BY <1>0
  <2> QED
    BY <1>0, <1>4, <2>1, <2>2, <2>3 DEF TimerInv, Ordered
<1> QED
  BY <1>6, <1>7, <1>8, <1>9, <1>10 DEF TimerInv

\* A tick takes one from what a node that is not due has left.
LEMMA LeftLess ==
    ASSUME NEW e \in Time, NEW t \in Time, e # t
    PROVE  (e - After(t)) % Word = ((e - t) % Word) - 1
<1>0. Word \in Nat \ {0} /\ e \in Nat /\ t \in Nat /\ e < Word /\ t < Word /\ After(t) \in Time
  BY HalfWord, AfterTime DEF Time
<1>1. CASE t + 1 = Word
  <2>1. After(t) = 0 /\ 0 <= e /\ e < t
    BY <1>0, <1>1, AfterTime
  <2>2. (e - After(t)) % Word = e - After(t) /\ (e - t) % Word = e - t + Word
    BY <1>0, <2>1, Distance
  <2> QED
    BY <1>0, <1>1, <2>1, <2>2
<1>2. CASE t + 1 < Word
  <2>1. After(t) = t + 1
    BY <1>0, <1>2, AfterTime
  <2>2. CASE t < e
    <3>1. After(t) <= e /\ t <= e
      BY <1>0, <2>1, <2>2
    <3>2. (e - After(t)) % Word = e - After(t) /\ (e - t) % Word = e - t
      BY <1>0, <3>1, Distance
    <3> QED
      BY <1>0, <2>1, <3>2
  <2>3. CASE e < t
    <3>1. e < After(t)
      BY <1>0, <2>1, <2>3
    <3>2. (e - After(t)) % Word = e - After(t) + Word /\ (e - t) % Word = e - t + Word
      BY <1>0, <2>3, <3>1, Distance
    <3> QED
      BY <1>0, <2>1, <3>2
  <2> QED
    BY <1>0, <2>2, <2>3
<1> QED
  BY <1>0, <1>1, <1>2

\* The slot that is moved down is one of the wheel.
LEMMA CascadeSlot ==
    ASSUME NEW ct \in Time, Cascades(ct)
    PROVE  Cascading(ct) \in Slot
<1>0. ct \in Nat /\ 0 \in Nat /\ TIME_LEVEL \in Nat \ {0} /\ 3 \in Level
  BY HalfWord, TimerAssumption DEF Time, Level
<1>1. \A n \in Nat, l \in Level : <<l, Digit(n, l)>> \in Slot
  <2> SUFFICES ASSUME NEW n \in Nat, NEW l \in Level PROVE <<l, Digit(n, l)>> \in Slot
    OBVIOUS
  <2>1. Span(l) \in Nat \ {0}
    BY Spans DEF Level
  <2>2. n \div Span(l) \in Nat
    BY <2>1, DivMod
  <2>3. Digit(n, l) \in 0 .. (TIME_LEVEL - 1)
    BY <1>0, <2>2, DivMod DEF Digit
  <2> QED
    BY <2>3 DEF Slot, Level
<1>2. CASE ct = 0
  BY <1>0, <1>1, <1>2, CascadeWrap
<1>3. CASE ct # 0
  BY <1>0, <1>1, <1>3, CascadeLevel DEF Cascades
<1> QED
  BY <1>2, <1>3

\* Before timer_shift nothing is due.
LEMMA NothingDue ==
    ASSUME TimerInv, pc = "shift"
    PROVE  /\ list = <<>>
           /\ \A s \in Slot : \A i \in DOMAIN wheel[s] : wheel[s][i].expire \in Time /\ wheel[s][i].expire # time
<1>1. list = <<>> /\ wheel[Current] = <<>>
  BY DEF TimerInv, Phases
<1>2. time \in Time /\ \A s \in Slot : \A i \in DOMAIN wheel[s] : wheel[s][i].expire \in Time
  BY Known DEF TimerInv
<1>3. \A s \in Slot : \A i \in DOMAIN wheel[s] : wheel[s][i].expire = time => s = Current
  BY <1>2, DueSlot DEF TimerInv, Placed, Current
<1> QED
  BY <1>1, <1>2, <1>3

\* timer_shift moves the time on and empties the slot that begins.
LEMMA ShiftStep ==
    ASSUME TimerInv, timer_shift
    PROVE  TimerInv'
<1> DEFINE ct == After(time)
           p == Cascading(ct)
<1>0. /\ pc = "shift" /\ time' = ct /\ shifted' = TRUE
      /\ IF Cascades(ct)
           THEN /\ list' = wheel[p] /\ wheel' = [wheel EXCEPT ![p] = <<>>]
                /\ pc' = IF wheel[p] = <<>> THEN "execute" ELSE "move"
           ELSE pc' = "execute" /\ list' = list /\ wheel' = wheel
      /\ UNCHANGED <<current, todo, count, sent, early>>
  BY DEF timer_shift, After
<1>1. /\ time \in Time /\ ct \in Time /\ wheel \in [Slot -> Seq(Node)]
      /\ list = <<>> /\ \A s \in Slot : \A i \in DOMAIN wheel[s] : wheel[s][i].expire \in Time /\ wheel[s][i].expire # time
  BY <1>0, Known, NothingDue, AfterTime DEF TimerInv
<1>2. \A s \in Slot : \A i \in DOMAIN wheel[s] :
        /\ Place(wheel[s][i].expire, time) = s
        /\ (wheel[s][i].expire - time) % Word < Word \div 2
        /\ (wheel[s][i].expire - time) % Word \in Nat /\ Word \div 2 \in Nat
  <2>1. Word \in Nat \ {0} /\ Word \div 2 \in Nat /\ Time \subseteq Nat
    BY HalfWord DEF Time
  <2>2. \A s \in Slot : \A i \in DOMAIN wheel[s] : (wheel[s][i].expire - time) % Word \in Time
    BY <1>1, Distance
  <2>3. \A s \in Slot : \A i \in DOMAIN wheel[s] : (wheel[s][i].expire - time) % Word < Word \div 2
    BY DEF TimerInv, Ahead, Left
  <2>4. \A s \in Slot : \A i \in DOMAIN wheel[s] : Place(wheel[s][i].expire, time) = s
    BY DEF TimerInv, Placed
  <2> QED
    BY <2>1, <2>2, <2>3, <2>4
<1>3. \A s \in Slot : \A i \in DOMAIN wheel[s] : (wheel[s][i].expire - ct) % Word < Word \div 2
  <2> SUFFICES ASSUME NEW s \in Slot, NEW i \in DOMAIN wheel[s]
               PROVE  (wheel[s][i].expire - ct) % Word < Word \div 2
    OBVIOUS
  <2>1. (wheel[s][i].expire - ct) % Word = ((wheel[s][i].expire - time) % Word) - 1
    BY <1>1, LeftLess
  <2> QED
    BY <1>2, <2>1
<1>4. \A s \in Slot : \A i \in DOMAIN wheel[s] :
        (Cascades(ct) => s # p) => Place(wheel[s][i].expire, ct) = s
  BY <1>1, <1>2, SlotKept
<1>5. CASE Cascades(ct)
  <2>1. p \in Slot
    BY <1>1, <1>5, CascadeSlot
  <2> HIDE DEF ct, p
  <2>2. Clears(p) /\ list' = wheel[p] /\ wheel[p] \in Seq(Node)
    BY <1>0, <1>1, <1>5, <2>1, ClearsSlot
  <2>3. \A s \in Slot : \A i \in DOMAIN wheel'[s] : s # p /\ i \in DOMAIN wheel[s] /\ wheel'[s][i] = wheel[s][i]
    BY <2>2 DEF Clears
  <2>4. Types'
    <3>1. pc' \in {"idle", "execute", "dispatch", "shift", "move"}
      BY <1>0, <1>5
    <3>2. time' \in 0 .. (Word - 1)
      BY <1>0, <1>1 DEF Time
    <3>3. shifted' \in BOOLEAN
      BY <1>0
    <3> QED
      BY <1>0, <2>2, <3>1, <3>2, <3>3 DEF TimerInv, Types, TypeOK, Clears
  <2>5. Placed' /\ Ahead'
    BY <1>0, <1>3, <1>4, <2>1, <2>2, <2>3 DEF Placed, Ahead, Left
  <2>6. Phases'
    BY <1>0, <1>5 DEF Phases
  <2>7. Numbered' /\ Ordered'
    <3>1. \A s \in Slot : \A i \in DOMAIN wheel'[s], j \in DOMAIN list' : wheel'[s][i].expire # list'[j].expire
      BY <1>2, <2>1, <2>2, <2>3
    <3> QED
      BY <1>0, <1>1, <2>1, <2>2, <3>1, Emptied DEF Ordered
  <2> QED
    BY <2>4, <2>5, <2>6, <2>7 DEF TimerInv
<1>6. CASE ~Cascades(ct)
  <2> HIDE DEF ct, p
  <2>1. list' = <<>> /\ wheel' = wheel /\ pc' = "execute"
    BY <1>0, <1>1, <1>6
  <2>2. time' \in 0 .. (Word - 1) /\ shifted' = TRUE
    BY <1>0, <1>1 DEF Time
  <2>3. Types'
    BY <1>0, <1>1, <2>1, <2>2 DEF TimerInv, Types, TypeOK
  <2>4. Placed' /\ Ahead'
    BY <1>0, <1>3, <1>4, <1>6, <2>1 DEF Placed, Ahead, Left
  <2>5. Phases'
    BY <2>1 DEF Phases
  <2>6. Numbered'
    BY <1>0, <1>1, <2>1 DEF TimerInv, Numbered
  <2>7. Ordered'
    BY <1>1, <2>1 DEF TimerInv, Ordered
  <2> QED
    BY <2>3, <2>4, <2>5, <2>6, <2>7 DEF TimerInv
<1> QED
  BY <1>5, <1>6

\* move_list links the first node of the list again.
LEMMA MoveStep ==
    ASSUME TimerInv, move_list
    PROVE  TimerInv'
<1> DEFINE m == list[1]
           p == Place(m.expire, time)
<1>0. /\ pc = "move" /\ list # <<>> /\ list \in Seq(Node) /\ list' = Tail(list) /\ count \in Nat
      /\ pc' = IF Len(list) > 1 THEN "move" ELSE "execute"
      /\ time \in Time /\ wheel \in [Slot -> Seq(Node)]
      /\ UNCHANGED <<time, current, todo, shifted, count, sent, early>>
  BY Known DEF move_list, TimerInv, Phases
<1>1. Takes
  BY <1>0, TakesHead
<1>2. 1 \in DOMAIN list /\ m \in Node /\ m.expire \in Time
  BY <1>1, Known DEF Takes, TimerInv
<1>3. p \in Slot
  BY <1>0, <1>2, Placing
<1>4. wheel' = [wheel EXCEPT ![p] = Append(@, m)]
  BY <1>1 DEF move_list, add_node, Takes
<1>5. Adds(p, m)
  BY <1>0, <1>2, <1>3, <1>4, AddsNode
<1>6. p = Place(m.expire, time) /\ m = list[1]
  OBVIOUS
<1> HIDE DEF m, p
<1>7. \A i \in DOMAIN list' : i \in Nat \ {0} /\ i + 1 \in DOMAIN list /\ list'[i] = list[i + 1] /\ 1 < i + 1
  BY <1>1 DEF Takes
<1>8. \A s \in Slot : wheel[s] \in Seq(Node) /\ DOMAIN wheel[s] = 1 .. Len(wheel[s]) /\ Len(wheel[s]) \in Nat
  BY Known DEF TimerInv
<1>9. Types'
  <2>1. pc' \in {"idle", "execute", "dispatch", "shift", "move"}
    BY <1>0
  <2> QED
    BY <1>0, <1>1, <1>5, <2>1 DEF TimerInv, Types, TypeOK, Takes, Adds
<1>10. Placed'
  BY <1>0, <1>5, <1>6 DEF TimerInv, Placed, Adds
<1>11. Ahead'
  BY <1>0, <1>2, <1>5, <1>6, <1>7 DEF TimerInv, Ahead, Adds, Left
<1>12. Phases'
  BY <1>0, <1>1 DEF Phases, Takes
<1>13. Numbered'
  <2>1. \A s \in Slot : \A i \in DOMAIN wheel'[s] : wheel'[s][i].session \in (1 .. count') \ sent'
    BY <1>0, <1>2, <1>5, <1>6 DEF TimerInv, Numbered, Adds
  <2>2. \A i \in DOMAIN list' : list'[i].session \in (1 .. count') \ sent'
    BY <1>0, <1>7 DEF TimerInv, Numbered
  <2>3. ASSUME NEW s \in Slot, NEW r \in Slot, NEW i \in DOMAIN wheel'[s], NEW j \in DOMAIN wheel'[r],
               wheel'[s][i].session = wheel'[r][j].session
        PROVE  s = r /\ i = j
    <3>1. \/ i \in DOMAIN wheel[s] /\ wheel'[s][i] = wheel[s][i]
          \/ s = p /\ i = Len(wheel[p]) + 1 /\ wheel'[s][i] = m
      BY <1>5 DEF Adds
    <3>2. \/ j \in DOMAIN wheel[r] /\ wheel'[r][j] = wheel[r][j]
          \/ r = p /\ j = Len(wheel[p]) + 1 /\ wheel'[r][j] = m
      BY <1>5 DEF Adds
    <3> QED
      BY <1>2, <1>6, <2>3, <3>1, <3>2 DEF TimerInv, Numbered
  <2>4. \A i, j \in DOMAIN list' : list'[i].session = list'[j].session => i = j
    BY <1>7 DEF TimerInv, Numbered
  <2>5. \A i \in DOMAIN list' : list'[i].session # m.session
    BY <1>2, <1>6, <1>7 DEF TimerInv, Numbered
  <2>6. \A s \in Slot : \A i \in DOMAIN wheel'[s], j \in DOMAIN list' : wheel'[s][i].session # list'[j].session
    BY <1>5, <1>7, <2>5 DEF TimerInv, Numbered, Adds
  <2> QED
    BY <1>0, <2>1, <2>2, <2>3, <2>4, <2>6 DEF TimerInv, Numbered
<1>14. Ordered'
  <2>1. \A s \in Slot : \A i \in DOMAIN wheel[s], j \in DOMAIN list :
         wheel[s][i].expire = list[j].expire => wheel[s][i].session < list[j].session
    BY <1>0 DEF TimerInv, Ordered
  <2>2. \A i, j \in DOMAIN list' :
         i < j /\ list'[i].expire = list'[j].expire => list'[i].session < list'[j].session
    <3>1. ASSUME NEW i \in DOMAIN list', NEW j \in DOMAIN list', i < j PROVE i + 1 < j + 1
      BY <1>7, <3>1
    <3> QED
      BY <1>7, <3>1 DEF TimerInv, Ordered
  <2>3. \A j \in DOMAIN list' : m.expire = list'[j].expire => m.session < list'[j].session
    BY <1>2, <1>6, <1>7 DEF TimerInv, Ordered
  <2>4. ASSUME NEW s \in Slot, NEW i \in DOMAIN wheel'[s], NEW j \in DOMAIN wheel'[s],
               i < j, wheel'[s][i].expire = wheel'[s][j].expire
        PROVE  wheel'[s][i].session < wheel'[s][j].session
    <3>1. \/ i \in DOMAIN wheel[s] /\ wheel'[s][i] = wheel[s][i]
          \/ s = p /\ i = Len(wheel[p]) + 1 /\ wheel'[s][i] = m
      BY <1>5 DEF Adds
    <3>2. \/ j \in DOMAIN wheel[s] /\ wheel'[s][j] = wheel[s][j]
          \/ s = p /\ j = Len(wheel[p]) + 1 /\ wheel'[s][j] = m
      BY <1>5 DEF Adds
    <3>3. i \in DOMAIN wheel[s]
      BY <1>8, <2>4, <3>1, <3>2
    <3>4. wheel'[s][i] = wheel[s][i]
      BY <1>8, <3>1, <3>3
    <3>5. CASE j \in DOMAIN wheel[s] /\ wheel'[s][j] = wheel[s][j]
      BY <2>4, <3>3, <3>4, <3>5 DEF TimerInv, Ordered
    <3>6. CASE wheel'[s][j] = m
      BY <1>2, <1>6, <2>1, <2>4, <3>3, <3>4, <3>6
    <3> QED
      BY <3>2, <3>5, <3>6
  <2>5. ASSUME NEW s \in Slot, NEW i \in DOMAIN wheel'[s], NEW j \in DOMAIN list',
               wheel'[s][i].expire = list'[j].expire
        PROVE  wheel'[s][i].session < list'[j].session
    <3>1. \/ i \in DOMAIN wheel[s] /\ wheel'[s][i] = wheel[s][i]
          \/ s = p /\ i = Len(wheel[p]) + 1 /\ wheel'[s][i] = m
      BY <1>5 DEF Adds
    <3> QED
      BY <1>7, <2>1, <2>3, <2>5, <3>1
  <2>6. pc' # "dispatch"
    BY <1>0
  <2> QED
    BY <2>2, <2>4, <2>5, <2>6 DEF Ordered
<1> QED
  BY <1>9, <1>10, <1>11, <1>12, <1>13, <1>14 DEF TimerInv

\* Every step keeps the invariant.
LEMMA TimerNext == TimerInv /\ [Next]_vars => TimerInv'
<1> SUFFICES ASSUME TimerInv, [Next]_vars PROVE TimerInv'
  OBVIOUS
<1>1. CASE \E n \in Delay : starnet_timeout(n)
  <2>1. PICK n \in Delay : starnet_timeout(n)
    BY <1>1
  <2>2. CASE n = 0
    BY <2>1, <2>2, SendNowStep DEF starnet_timeout
  <2>3. CASE n > 0
    BY <2>1, <2>3, SetStep DEF starnet_timeout
  <2> QED
    BY <2>1, <2>2, <2>3 DEF starnet_timeout
<1>2. CASE \E diff \in 1 .. MaxLag : starnet_updatetime(diff)
  BY <1>2, UpdateTimeStep
<1>3. CASE timer_update
  BY <1>3, UpdateStep
<1>4. CASE timer_execute
  BY <1>4, ExecuteStep
<1>5. CASE dispatch_list
  BY <1>5, DispatchStep
<1>6. CASE timer_shift
  BY <1>6, ShiftStep
<1>7. CASE move_list
  BY <1>7, MoveStep
<1>8. CASE UNCHANGED vars
  BY <1>8 DEF vars, TimerInv, Types, TypeOK, Placed, Ahead, Left, Phases, Current, Numbered, Ordered
<1> QED
  BY <1>1, <1>2, <1>3, <1>4, <1>5, <1>6, <1>7, <1>8 DEF Next, TimerStep

\* The invariant holds in every state.
LEMMA TimerAlways == Spec => []TimerInv
<1>1. Init => TimerInv
  BY TimerStart
<1>2. TimerInv /\ [Next]_vars => TimerInv'
  BY TimerNext
<1> QED
  BY <1>1, <1>2, PTL DEF Spec

\* In every state each timeout is in the slot in which the timer thread will look for it.
THEOREM TimerWheelExact == Spec => []WheelExact
<1>1. TimerInv => WheelExact
  BY DEF TimerInv, Types, Placed, WheelExact
<1> QED
  BY <1>1, TimerAlways, PTL

-----------------------------------------------------------------------------
(* The wheel implements Alarm *)

\* Pending as a function of the nodes and the time.
View(N, t) == [s \in {n.session : n \in N} |-> ((CHOOSE n \in N : n.session = s).expire - t) % Word]

\* A session names one node.
Named(N) == \A n, m \in N : n.session = m.session => n = m

\* What a session has left is what its node has left.
LEMMA ViewAt ==
    ASSUME NEW N, Named(N), NEW t
    PROVE  /\ DOMAIN View(N, t) = {n.session : n \in N}
           /\ \A n \in N : View(N, t)[n.session] = (n.expire - t) % Word
<1>1. DOMAIN View(N, t) = {n.session : n \in N}
  BY DEF View
<1>2. ASSUME NEW n \in N PROVE View(N, t)[n.session] = (n.expire - t) % Word
  <2>1. (CHOOSE k \in N : k.session = n.session) = n
    BY DEF Named
  <2> QED
    BY <2>1 DEF View
<1> QED
  BY <1>1, <1>2

\* A tick.
LEMMA ViewTick ==
    ASSUME NEW N, Named(N), NEW t \in Time, \A n \in N : n.expire \in Time /\ n.expire # t
    PROVE  View(N, After(t)) = [r \in DOMAIN View(N, t) |-> View(N, t)[r] - 1]
<1> DEFINE f == [r \in DOMAIN View(N, t) |-> View(N, t)[r] - 1]
           g == View(N, After(t))
<1>1. DOMAIN g = {n.session : n \in N} /\ DOMAIN f = {n.session : n \in N}
  BY ViewAt
<1>2. DOMAIN g = DOMAIN f
  BY <1>1
<1>3. ASSUME NEW r \in DOMAIN g PROVE g[r] = f[r]
  <2>1. PICK n \in N : r = n.session
    BY <1>1
  <2>2. g[n.session] = (n.expire - After(t)) % Word /\ View(N, t)[n.session] = (n.expire - t) % Word
    BY ViewAt
  <2>3. (n.expire - After(t)) % Word = ((n.expire - t) % Word) - 1
    BY LeftLess
  <2> QED
    BY <1>2, <2>1, <2>2, <2>3
<1>4. g = [r \in DOMAIN g |-> g[r]] /\ f = [r \in DOMAIN f |-> f[r]]
  BY DEF View
<1> HIDE DEF f, g
<1>5. g = f
  BY <1>2, <1>3, <1>4
<1> QED
  BY <1>5 DEF f, g

\* Where a node is.
LEMMA NodeIn ==
    \A n : n \in Nodes <=> \/ \E s \in Slot : \E i \in DOMAIN wheel[s] : n = wheel[s][i]
                           \/ \E i \in DOMAIN list : n = list[i]
  BY DEF Nodes, ToSet

\* The nodes of a state of the wheel.
LEMMA NodesKnown ==
    ASSUME TimerInv
    PROVE  /\ Named(Nodes) /\ Pending = View(Nodes, time)
           /\ \A n \in Nodes : n.expire \in Time /\ n.session \in (1 .. count) \ sent
<1>1. Pending = View(Nodes, time)
  BY DEF Pending, View, Left
<1>2. Named(Nodes)
  BY NodeIn DEF Named, TimerInv, Numbered
<1>3. \A n \in Nodes : n.expire \in Time
  BY NodeIn, Known DEF TimerInv
<1>4. \A n \in Nodes : n.session \in (1 .. count) \ sent
  BY NodeIn DEF TimerInv, Numbered
<1> QED
  BY <1>1, <1>2, <1>3, <1>4

\* Linking a new node adds it.
LEMMA NodesAdd ==
    ASSUME wheel \in [Slot -> Seq(Node)], NEW p \in Slot, NEW m \in Node,
           wheel' = [wheel EXCEPT ![p] = Append(@, m)], list' = list
    PROVE  Nodes' = Nodes \cup {m}
<1>1. Adds(p, m)
  BY AddsNode
<1>2. wheel[p] \in Seq(Node) /\ wheel'[p] = Append(wheel[p], m) /\ \A s \in Slot \ {p} : wheel'[s] = wheel[s]
  OBVIOUS
<1>3. /\ Len(wheel[p]) + 1 \in DOMAIN wheel'[p] /\ wheel'[p][Len(wheel[p]) + 1] = m
      /\ \A i \in DOMAIN wheel[p] : i \in DOMAIN wheel'[p] /\ wheel'[p][i] = wheel[p][i]
  BY <1>2
<1>4. \A s \in Slot : \A i \in DOMAIN wheel[s] : i \in DOMAIN wheel'[s] /\ wheel'[s][i] = wheel[s][i]
  BY <1>2, <1>3
<1>5. \A n : n \in Nodes' <=> \/ \E s \in Slot : \E i \in DOMAIN wheel'[s] : n = wheel'[s][i]
                              \/ \E i \in DOMAIN list' : n = list'[i]
  BY DEF Nodes, ToSet
<1>6. ASSUME NEW n \in Nodes' PROVE n \in Nodes \cup {m}
  BY <1>1, <1>5, NodeIn DEF Adds
<1>7. m \in Nodes'
  BY <1>3, <1>5
<1>8. ASSUME NEW n \in Nodes PROVE n \in Nodes'
  BY <1>4, <1>5, NodeIn
<1> QED
  BY <1>6, <1>7, <1>8

\* Clearing a slot into an empty list keeps the nodes.
LEMMA NodesKept ==
    ASSUME list = <<>>, NEW p \in Slot, Clears(p), list' = wheel[p]
    PROVE  Nodes' = Nodes
<1>1. \A n : n \in Nodes' <=> \/ \E s \in Slot : \E i \in DOMAIN wheel'[s] : n = wheel'[s][i]
                              \/ \E i \in DOMAIN list' : n = list'[i]
  BY DEF Nodes, ToSet
<1>2. \A n \in Nodes : n \in Nodes'
  BY <1>1, NodeIn DEF Clears
<1>3. \A n \in Nodes' : n \in Nodes
  BY <1>1, NodeIn DEF Clears
<1> QED
  BY <1>2, <1>3

\* Taking the head of the list removes it.
LEMMA NodesTake ==
    ASSUME TimerInv, list # <<>>, list' = Tail(list), wheel' = wheel
    PROVE  list[1] \in Nodes /\ Nodes' = Nodes \ {list[1]}
<1>0. list \in Seq(Node)
  BY Known DEF TimerInv
<1>1. Takes
  BY <1>0, TakesHead
<1>2. \A n : n \in Nodes' <=> \/ \E s \in Slot : \E i \in DOMAIN wheel'[s] : n = wheel'[s][i]
                              \/ \E i \in DOMAIN list' : n = list'[i]
  BY DEF Nodes, ToSet
<1>3. \A i \in DOMAIN list : i = 1 \/ \E j \in DOMAIN list' : list[i] = list'[j]
  <2> SUFFICES ASSUME NEW i \in DOMAIN list, i # 1 PROVE \E j \in DOMAIN list' : list[i] = list'[j]
    OBVIOUS
  <2>1. i \in 1 .. Len(list) /\ Len(list) \in Nat
    BY <1>0
  <2>2. i - 1 \in DOMAIN list' /\ list'[i - 1] = list[i]
    BY <1>0, <2>1
  <2> QED
    BY <2>2
<1>4. 1 \in DOMAIN list /\ list[1] \in Nodes
  BY <1>1, NodeIn DEF Takes
<1>5. ASSUME NEW n \in Nodes' PROVE n \in Nodes \ {list[1]}
  <2>1. n \in Nodes
    BY <1>1, <1>2, NodeIn DEF Takes
  <2>2. n.session # list[1].session
    BY <1>1, <1>2, <1>4 DEF Takes, TimerInv, Numbered
  <2> QED
    BY <2>1, <2>2
<1>6. ASSUME NEW n \in Nodes, n # list[1] PROVE n \in Nodes'
  BY <1>2, <1>3, <1>6, NodeIn
<1> QED
  BY <1>4, <1>5, <1>6

\* Moving the head of the list into the wheel keeps the nodes.
LEMMA NodesMove ==
    ASSUME list \in Seq(Node), list # <<>>, list' = Tail(list), wheel \in [Slot -> Seq(Node)],
           NEW p \in Slot, wheel' = [wheel EXCEPT ![p] = Append(@, list[1])]
    PROVE  Nodes' = Nodes
<1>1. Takes
  BY TakesHead
<1>2. list[1] \in Node /\ 1 \in DOMAIN list
  BY <1>1 DEF Takes
<1>3. Adds(p, list[1])
  BY <1>2, AddsNode
<1>4. wheel[p] \in Seq(Node) /\ wheel'[p] = Append(wheel[p], list[1]) /\ \A s \in Slot \ {p} : wheel'[s] = wheel[s]
  OBVIOUS
<1>5. /\ Len(wheel[p]) + 1 \in DOMAIN wheel'[p] /\ wheel'[p][Len(wheel[p]) + 1] = list[1]
      /\ \A i \in DOMAIN wheel[p] : i \in DOMAIN wheel'[p] /\ wheel'[p][i] = wheel[p][i]
  BY <1>2, <1>4
<1>6. \A s \in Slot : \A i \in DOMAIN wheel[s] : i \in DOMAIN wheel'[s] /\ wheel'[s][i] = wheel[s][i]
  BY <1>4, <1>5
<1>7. \A n : n \in Nodes' <=> \/ \E s \in Slot : \E i \in DOMAIN wheel'[s] : n = wheel'[s][i]
                              \/ \E i \in DOMAIN list' : n = list'[i]
  BY DEF Nodes, ToSet
<1>8. \A i \in DOMAIN list : i = 1 \/ \E j \in DOMAIN list' : list[i] = list'[j]
  <2> SUFFICES ASSUME NEW i \in DOMAIN list, i # 1 PROVE \E j \in DOMAIN list' : list[i] = list'[j]
    OBVIOUS
  <2>1. i \in 1 .. Len(list) /\ Len(list) \in Nat
    OBVIOUS
  <2>2. i - 1 \in DOMAIN list' /\ list'[i - 1] = list[i]
    BY <2>1
  <2> QED
    BY <2>2
<1>9. ASSUME NEW n \in Nodes' PROVE n \in Nodes
  BY <1>1, <1>2, <1>3, <1>7, NodeIn DEF Takes, Adds
<1>10. list[1] \in Nodes'
  BY <1>5, <1>7
<1>11. ASSUME NEW n \in Nodes PROVE n \in Nodes'
  <2>1. CASE \E s \in Slot : \E i \in DOMAIN wheel[s] : n = wheel[s][i]
    BY <1>6, <1>7, <2>1
  <2>2. CASE \E i \in DOMAIN list : n = list[i]
    BY <1>7, <1>8, <1>10, <2>2
  <2> QED
    BY <2>1, <2>2, NodeIn
<1> QED
  BY <1>9, <1>11

\* The wheel starts with nothing pending.
LEMMA AlarmStart == Init => AlarmView!Init
<1> SUFFICES ASSUME Init PROVE AlarmView!Init
  OBVIOUS
<1>1. Nodes = {}
  BY NodeIn DEF Init
<1>2. DOMAIN Pending = {}
  BY <1>1 DEF Pending
<1>3. Pending = [s \in DOMAIN Pending |-> Pending[s]]
  BY DEF Pending
<1>4. Pending = <<>>
  BY <1>2, <1>3
<1> QED
  BY <1>4 DEF Init, AlarmView!Init

\* Steps that leave the nodes, the time and what was sent alone do not show.
LEMMA Hidden ==
    ASSUME Nodes' = Nodes, UNCHANGED <<time, sent>>
    PROVE  UNCHANGED AlarmView!vars
<1>1. Pending = View(Nodes, time) /\ Pending' = View(Nodes', time')
  BY DEF Pending, View, Left
<1> QED
  BY <1>1 DEF AlarmView!vars

\* starnet_timeout sets an alarm.
LEMMA SetShows ==
    ASSUME TimerInv, TimerInv', NEW n \in Delay, starnet_timeout(n)
    PROVE  AlarmView!Next
<1>0. /\ count \in Nat /\ MaxTimers \in Nat /\ count < MaxTimers /\ count + 1 \in 1 .. MaxTimers /\ time \in Time
      /\ Word \in Nat \ {0} /\ n \in Nat /\ n < Word /\ current \in Nat /\ wheel \in [Slot -> Seq(Node)]
  <2>1. count \in Nat /\ MaxTimers \in Nat /\ time \in Time /\ current \in Nat /\ wheel \in [Slot -> Seq(Node)]
    BY Known DEF TimerInv, Types, TypeOK
  <2>2. Word \in Nat \ {0} /\ Word \div 2 \in Nat /\ n \in Nat /\ n < Word \div 2 /\ Word \div 2 <= Word
    BY HalfWord, TimerAssumption
  <2>3. count < MaxTimers
    BY DEF starnet_timeout
  <2> QED
    BY <2>1, <2>2, <2>3
<1>1. /\ Named(Nodes) /\ Pending = View(Nodes, time) /\ Pending' = View(Nodes', time')
      /\ \A k \in Nodes : k.session \in (1 .. count) \ sent
      /\ Named(Nodes')
  <2>1. Pending' = View(Nodes', time')
    BY DEF Pending, View, Left
  <2>2. Named(Nodes')
    <3>1. \A k : k \in Nodes' <=> \/ \E s \in Slot : \E i \in DOMAIN wheel'[s] : k = wheel'[s][i]
                                  \/ \E i \in DOMAIN list' : k = list'[i]
      BY DEF Nodes, ToSet
    <3> QED
      BY <3>1 DEF Named, TimerInv, Numbered
  <2> QED
    BY <2>1, <2>2, NodesKnown
<1>2. \A r \in DOMAIN Pending \cup sent : r < count + 1
  <2>1. DOMAIN Pending = {k.session : k \in Nodes}
    BY <1>1, ViewAt
  <2>2. \A r \in DOMAIN Pending \cup sent : r \in 1 .. count
    <3>1. \A r \in DOMAIN Pending : r \in 1 .. count
      BY <1>1, <2>1
    <3>2. \A r \in sent : r \in 1 .. count
      BY DEF TimerInv, Numbered
    <3> QED
      BY <3>1, <3>2
  <2> QED
    BY <1>0, <2>2
<1>3. CASE n = 0
  <2>1. wheel' = wheel /\ list' = list /\ time' = time /\ sent' = sent \cup {count + 1}
    BY <1>0, <1>3 DEF starnet_timeout
  <2>2. Nodes' = Nodes
    BY <2>1 DEF Nodes
  <2>3. AlarmView!Set(count + 1, n)
    BY <1>1, <1>2, <1>3, <2>1, <2>2 DEF AlarmView!Set
  <2> QED
    BY <1>0, <2>3 DEF AlarmView!Next
<1>4. CASE n > 0
  <2> DEFINE m == [session |-> count + 1, expire |-> (time + n) % Word, due |-> current + n]
             p == Place(m.expire, time)
  <2>1. wheel' = [wheel EXCEPT ![p] = Append(@, m)] /\ list' = list /\ time' = time /\ sent' = sent
    BY <1>0, <1>4 DEF starnet_timeout, add_node
  <2>2. m.expire \in Time /\ (m.expire - time) % Word = n
    BY <1>0, NewNode
  <2>3. p \in Slot
    BY <1>0, <2>2, Placing
  <2>4. m \in Node /\ m.session = count + 1
    BY <1>0, <2>2 DEF Node, Time
  <2> HIDE DEF m, p
  <2>5. Nodes' = Nodes \cup {m}
    BY <1>0, <2>1, <2>3, <2>4, NodesAdd
  <2>6. m \notin Nodes
    BY <1>0, <1>1, <2>4
  <2>7. Pending' = [r \in DOMAIN Pending \cup {count + 1} |-> IF r = count + 1 THEN n ELSE Pending[r]]
    <3> DEFINE f == [r \in DOMAIN Pending \cup {count + 1} |-> IF r = count + 1 THEN n ELSE Pending[r]]
               g == Pending'
    <3>1. /\ DOMAIN Pending = {k.session : k \in Nodes}
          /\ \A k \in Nodes : Pending[k.session] = (k.expire - time) % Word
      BY <1>1, ViewAt
    <3>2. /\ DOMAIN g = {k.session : k \in Nodes'}
          /\ \A k \in Nodes' : g[k.session] = (k.expire - time) % Word
      BY <1>1, <2>1, ViewAt
    <3>3. g = [r \in DOMAIN g |-> g[r]] /\ f = [r \in DOMAIN f |-> f[r]]
      BY <1>1 DEF View
    <3>4. \A k \in Nodes : k.session \in DOMAIN f /\ f[k.session] = (k.expire - time) % Word
      BY <1>0, <1>1, <3>1
    <3>5. count + 1 \in DOMAIN f /\ f[count + 1] = n /\ DOMAIN f = DOMAIN Pending \cup {count + 1}
      OBVIOUS
    <3> HIDE DEF f, g
    <3>6. DOMAIN f = DOMAIN g
      BY <2>4, <2>5, <3>1, <3>2, <3>5
    <3>7. ASSUME NEW r \in DOMAIN g PROVE g[r] = f[r]
      <4>1. PICK k \in Nodes' : r = k.session
        BY <3>2
      <4>2. g[r] = (k.expire - time) % Word
        BY <3>2, <4>1
      <4>3. CASE k \in Nodes
        BY <3>4, <4>1, <4>2, <4>3
      <4>4. CASE k = m
        BY <2>2, <2>4, <3>5, <4>1, <4>2, <4>4
      <4> QED
        BY <2>5, <4>3, <4>4
    <3>8. g = f
      BY <3>3, <3>6, <3>7
    <3> QED
      BY <3>8 DEF f, g
  <2>8. AlarmView!Set(count + 1, n)
    BY <1>2, <1>4, <2>1, <2>2, <2>4, <2>7 DEF AlarmView!Set
  <2> QED
    BY <1>0, <2>8 DEF AlarmView!Next
<1> QED
  BY <1>3, <1>4 DEF starnet_timeout

\* dispatch_list fires the first alarm that is due.
LEMMA DispatchShows ==
    ASSUME TimerInv, dispatch_list
    PROVE  AlarmView!Next
<1>0. /\ pc = "dispatch" /\ list # <<>> /\ list \in Seq(Node) /\ list' = Tail(list) /\ wheel' = wheel /\ time' = time
      /\ time \in Time /\ \A i \in DOMAIN list : list[i].expire = time
  BY Known DEF dispatch_list, TimerInv, Phases
<1>1. Named(Nodes) /\ Pending = View(Nodes, time) /\ Pending' = View(Nodes', time')
      /\ \A k \in Nodes : k.expire \in Time /\ k.session \in (1 .. count) \ sent
  BY NodesKnown DEF Pending, View, Left
<1>2. Takes
  BY <1>0, TakesHead
<1> DEFINE m == list[1]
<1>3. m \in Nodes /\ Nodes' = Nodes \ {m}
  BY <1>0, NodesTake
<1>4. /\ DOMAIN Pending = {k.session : k \in Nodes}
      /\ \A k \in Nodes : Pending[k.session] = (k.expire - time) % Word
  BY <1>1, ViewAt
<1>5. 1 \in DOMAIN list /\ m.expire = time /\ sent' = sent \cup {m.session}
  BY <1>0, <1>2 DEF Takes, dispatch_list
<1>6. Pending[m.session] = 0
  BY <1>0, <1>1, <1>3, <1>4, <1>5, Distance
<1>7. ASSUME NEW k \in Nodes, Pending[k.session] = 0 PROVE m.session <= k.session
  <2>1. k.expire = time
    BY <1>0, <1>1, <1>4, <1>7, Distance
  <2>2. m.session \in Nat /\ k.session \in Nat
    BY <1>1, <1>3
  <2>3. CASE \E s \in Slot : \E i \in DOMAIN wheel[s] : k = wheel[s][i]
    BY <1>0, <1>5, <2>1, <2>2, <2>3 DEF TimerInv, Ordered
  <2>4. CASE \E i \in DOMAIN list : k = list[i]
    <3>1. PICK i \in DOMAIN list : k = list[i]
      BY <2>4
    <3>2. i = 1 \/ 1 < i
      BY <1>0
    <3> QED
      BY <1>5, <2>1, <2>2, <3>1, <3>2 DEF TimerInv, Ordered
  <2> QED
    BY <2>3, <2>4, NodeIn
<1>8. \A r \in DOMAIN Pending : Pending[r] = 0 => m.session <= r
  BY <1>4, <1>7
<1>9. Pending' = [r \in DOMAIN Pending \ {m.session} |-> Pending[r]]
  <2> DEFINE f == [r \in DOMAIN Pending \ {m.session} |-> Pending[r]]
             g == Pending'
  <2>1. Named(Nodes')
    BY <1>1, <1>3 DEF Named
  <2>2. /\ DOMAIN g = {k.session : k \in Nodes'}
        /\ \A k \in Nodes' : g[k.session] = (k.expire - time) % Word
    BY <1>0, <1>1, <2>1, ViewAt
  <2>3. g = [r \in DOMAIN g |-> g[r]] /\ f = [r \in DOMAIN f |-> f[r]] /\ DOMAIN f = DOMAIN Pending \ {m.session}
    BY <1>1 DEF View
  <2>4. \A r \in DOMAIN f : f[r] = Pending[r]
    OBVIOUS
  <2>5. \A k \in Nodes : k # m => k.session # m.session
    BY <1>1, <1>3 DEF Named
  <2> HIDE DEF f, g, m
  <2>6. DOMAIN f = DOMAIN g
    <3>1. ASSUME NEW r \in DOMAIN f PROVE r \in DOMAIN g
      BY <1>3, <1>4, <2>2, <2>3
    <3>2. ASSUME NEW r \in DOMAIN g PROVE r \in DOMAIN f
      BY <1>3, <1>4, <2>2, <2>3, <2>5
    <3> QED
      BY <3>1, <3>2
  <2>7. ASSUME NEW r \in DOMAIN g PROVE g[r] = f[r]
    <3>1. PICK k \in Nodes' : r = k.session
      BY <2>2
    <3> QED
      BY <1>3, <1>4, <2>2, <2>4, <2>6, <3>1
  <2>8. g = f
    BY <2>3, <2>6, <2>7
  <2> QED
    BY <2>8 DEF f, g
<1>10. m.session \in DOMAIN Pending
  BY <1>3, <1>4
<1> HIDE DEF m
<1>11. AlarmView!Fire(m.session)
  BY <1>5, <1>6, <1>8, <1>9 DEF AlarmView!Fire
<1> QED
  BY <1>10, <1>11 DEF AlarmView!Next

\* timer_shift is a tick: nothing that is due is passed over.
LEMMA ShiftShows ==
    ASSUME TimerInv, timer_shift
    PROVE  AlarmView!Next
<1>0. pc = "shift" /\ time' = After(time) /\ sent' = sent /\ time \in Time /\ wheel \in [Slot -> Seq(Node)]
  BY Known DEF timer_shift, After, TimerInv
<1>1. /\ list = <<>>
      /\ \A s \in Slot : \A i \in DOMAIN wheel[s] : wheel[s][i].expire \in Time /\ wheel[s][i].expire # time
  BY <1>0, NothingDue
<1>2. \A n \in Nodes : n.expire \in Time /\ n.expire # time
  BY <1>1, NodeIn
<1>3. Named(Nodes) /\ Pending = View(Nodes, time) /\ Pending' = View(Nodes', time')
  BY NodesKnown DEF Pending, View, Left
<1>4. Nodes' = Nodes
  <2>1. After(time) \in Time
    BY <1>0, AfterTime
  <2>2. CASE Cascades(After(time))
    <3>1. Cascading(After(time)) \in Slot
      BY <2>1, <2>2, CascadeSlot
    <3>2. /\ list' = wheel[Cascading(After(time))]
          /\ wheel' = [wheel EXCEPT ![Cascading(After(time))] = <<>>]
      BY <2>2 DEF timer_shift, After
    <3>3. Clears(Cascading(After(time)))
      BY <1>0, <3>1, <3>2, ClearsSlot
    <3> QED
      BY <1>1, <3>1, <3>2, <3>3, NodesKept
  <2>3. CASE ~Cascades(After(time))
    <3>1. wheel' = wheel /\ list' = list
      BY <2>3 DEF timer_shift, After
    <3> QED
      BY <3>1 DEF Nodes
  <2> QED
    BY <2>2, <2>3
<1>5. Pending' = [r \in DOMAIN Pending |-> Pending[r] - 1]
  BY <1>0, <1>2, <1>3, <1>4, ViewTick
<1>6. \A r \in DOMAIN Pending : Pending[r] # 0
  <2>1. /\ DOMAIN Pending = {k.session : k \in Nodes}
        /\ \A k \in Nodes : Pending[k.session] = (k.expire - time) % Word
    BY <1>3, ViewAt
  <2> QED
    BY <1>0, <1>2, <2>1, Distance
<1>7. AlarmView!Tick
  BY <1>0, <1>5, <1>6 DEF AlarmView!Tick
<1> QED
  BY <1>7 DEF AlarmView!Next

\* Every step of the wheel is a step of Alarm or does not show.
LEMMA AlarmStep == TimerInv /\ TimerInv' /\ [Next]_vars => [AlarmView!Next]_(AlarmView!vars)
<1> SUFFICES ASSUME TimerInv, TimerInv', [Next]_vars PROVE AlarmView!Next \/ UNCHANGED AlarmView!vars
  OBVIOUS
<1>1. CASE \E n \in Delay : starnet_timeout(n)
  BY <1>1, SetShows
<1>2. CASE \E diff \in 1 .. MaxLag : starnet_updatetime(diff)
  <2>1. UNCHANGED <<wheel, list, time, sent>>
    BY <1>2 DEF starnet_updatetime
  <2> QED
    BY <2>1, Hidden DEF Nodes
<1>3. CASE timer_update
  <2>1. UNCHANGED <<wheel, list, time, sent>>
    BY <1>3 DEF timer_update
  <2> QED
    BY <2>1, Hidden DEF Nodes
<1>4. CASE timer_execute
  <2>1. /\ list' = wheel[Current] /\ wheel' = [wheel EXCEPT ![Current] = <<>>] /\ UNCHANGED <<time, sent>>
        /\ pc = "execute"
    BY <1>4 DEF timer_execute, Current
  <2>2. list = <<>> /\ Current \in Slot /\ wheel \in [Slot -> Seq(Node)]
    BY <2>1, Known DEF TimerInv, Phases
  <2>3. Nodes' = Nodes
    BY <2>1, <2>2, ClearsSlot, NodesKept
  <2> QED
    BY <2>1, <2>3, Hidden
<1>5. CASE dispatch_list
  BY <1>5, DispatchShows
<1>6. CASE timer_shift
  BY <1>6, ShiftShows
<1>7. CASE move_list
  <2>1. list # <<>> /\ list \in Seq(Node) /\ wheel \in [Slot -> Seq(Node)] /\ time \in Time
    BY <1>7, Known DEF TimerInv, Phases, move_list
  <2>2. Head(list) = list[1] /\ 1 \in DOMAIN list
    BY <2>1
  <2>3. Place(list[1].expire, time) \in Slot
    <3>1. list[1].expire \in Time
      BY <2>2, Known DEF TimerInv
    <3> QED
      BY <2>1, <3>1, Placing
  <2>4. /\ wheel' = [wheel EXCEPT ![Place(list[1].expire, time)] = Append(@, list[1])]
        /\ list' = Tail(list) /\ UNCHANGED <<time, sent>>
    BY <1>7, <2>2 DEF move_list, add_node
  <2>5. Nodes' = Nodes
    BY <2>1, <2>3, <2>4, NodesMove
  <2> QED
    BY <2>4, <2>5, Hidden
<1>8. CASE UNCHANGED vars
  <2>1. UNCHANGED <<wheel, list, time, sent>>
    BY <1>8 DEF vars
  <2> QED
    BY <2>1, Hidden DEF Nodes
<1> QED
  BY <1>1, <1>2, <1>3, <1>4, <1>5, <1>6, <1>7, <1>8 DEF Next, TimerStep

\* The wheel, its cascades and its unlocked dispatch implement Alarm: each timeout is
\* delivered once, in its tick, in the order in which those of a tick were set.
THEOREM TimerImplementsAlarm == Spec => ImplementsAlarm
<1>1. Init => AlarmView!Init
  BY AlarmStart
<1>2. TimerInv /\ TimerInv' /\ [Next]_vars => [AlarmView!Next]_(AlarmView!vars)
  BY AlarmStep
<1> QED
  BY <1>1, <1>2, TimerAlways, PTL DEF Spec, ImplementsAlarm, AlarmView!Spec

=============================================================================

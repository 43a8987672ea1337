------------------------------- MODULE Timer -------------------------------
(***************************************************************************)
(* The hierarchical timing wheel of starnet_timer.cpp and the thread that  *)
(* drives it (StarnetStart::TimerLoop).                                    *)
(*                                                                         *)
(* The sizes of the wheel are constants here (256 and 64 in the source,    *)
(* powers of two, so that shifts and masks are divisions and remainders).  *)
(* The word in which T->time and expire wrap is what the wheel spans, 2^32 *)
(* in the source.  T->lock is held by the timer thread from the start of   *)
(* timer_update to its end, except while dispatch_list sends:              *)
(* starnet_timeout, called by a worker, gets in there or between two       *)
(* updates.                                                                *)
(***************************************************************************)
EXTENDS Integers, Sequences, FiniteSets, SequencesExt

CONSTANTS TIME_NEAR,    \* slots of near[]
          TIME_LEVEL,   \* slots of each of the four levels
          Delay,        \* arguments of starnet_timeout (0 stands for all <= 0)
          MaxTimers,    \* bound on the timeouts set
          MaxTicks,     \* bound on the ticks that pass
          MaxLag        \* bound on the ticks the timer thread may oversleep

\* The ticks from which a node goes to level k, and the word.
Span(k) == <<TIME_NEAR,
             TIME_NEAR * TIME_LEVEL,
             TIME_NEAR * TIME_LEVEL * TIME_LEVEL,
             TIME_NEAR * TIME_LEVEL * TIME_LEVEL * TIME_LEVEL,
             TIME_NEAR * TIME_LEVEL * TIME_LEVEL * TIME_LEVEL * TIME_LEVEL>>[k + 1]
Word == Span(4)

\* starnet_timeout takes an int, half of what the word can count.
ASSUME TimerAssumption ==
  /\ TIME_NEAR \in Nat \ {0}
  /\ TIME_LEVEL \in Nat \ {0, 1}
  /\ Delay \subseteq 0..(Word \div 2 - 1)
  /\ {MaxTimers, MaxTicks, MaxLag} \subseteq Nat

VARIABLES wheel,        \* near[] and t[][] of struct timer
          time,         \* T->time
          current,      \* T->current, what starnet_now returns
          todo,         \* iterations left in starnet_updatetime
          pc,           \* where the timer thread is in timer_update
          shifted,      \* timer_update has called timer_shift
          list,         \* what move_list or dispatch_list has still to do
          count,        \* timeouts set so far; their sessions are 1..count
          sent,         \* sessions of the RESPONSE messages sent
          early         \* sessions sent before their time by starnet_now

vars == <<wheel, time, current, todo, pc, shifted, list, count, sent,
          early>>

\* Slot <<-1, i>> is near[i], slot <<l, i>> is t[l][i].
Near == {<<-1, i>> : i \in 0..(TIME_NEAR - 1)}
Slot == Near \cup ((0..3) \X (0..(TIME_LEVEL - 1)))
\* due is the starnet_now the caller asked for; the code keeps no such field.
Node == [session : 1..MaxTimers, expire : 0..(Word - 1), due : Nat]

Init ==
  /\ wheel = [s \in Slot |-> <<>>]
  /\ time = 0
  /\ current = 0
  /\ todo = 0
  /\ pc = "idle"
  /\ shifted = FALSE
  /\ list = <<>>
  /\ count = 0
  /\ sent = {}
  /\ early = {}

Locked == pc \in {"execute", "shift", "move"}

-----------------------------------------------------------------------------
(* The wheel *)

\* a|(Span(k)-1) = b|(Span(k)-1)
SameBlock(a, b, k) == a \div Span(k) = b \div Span(k)

\* The index into level l
Digit(n, l) == (n \div Span(l)) % TIME_LEVEL

\* add_node: near if only the low bits differ, else the first level whose block
\* holds both times, the last level if none does
Place(e, now) ==
  IF SameBlock(e, now, 0)
    THEN <<-1, e % TIME_NEAR>>
    ELSE LET l == CHOOSE i \in 0..3 :
                    /\ i = 3 \/ SameBlock(e, now, i + 1)
                    /\ \A j \in 0..(i - 1) : ~ SameBlock(e, now, j + 1)
         IN  <<l, Digit(e, l)>>

add_node(node) ==
  wheel' = [wheel EXCEPT ![Place(node.expire, time)] = Append(@, node)]

\* Bug: nothing is moved down when the time wraps to 0.
Cascades_NoWrap(ct) == ct # 0 /\ ct % TIME_NEAR = 0

\* timer_shift moves a slot down when the low bits of the time are 0,
Cascades(ct) == ct % TIME_NEAR = 0

\* that of the lowest non-zero index; slot 0 of the last level when the time has
\* wrapped.
Cascading(ct) ==
  LET l == CHOOSE i \in 0..3 :
             /\ i = 3 \/ Digit(ct, i) # 0
             /\ \A j \in 0..(i - 1) : Digit(ct, j) = 0
  IN  <<l, Digit(ct, l)>>

-----------------------------------------------------------------------------
(* starnet_timeout, on a worker *)

\* Dispatched at once when n <= 0, else linked into the wheel under the lock
starnet_timeout(n) ==
  /\ count < MaxTimers
  /\ count' = count + 1
  /\ \/ /\ n = 0
        /\ sent' = sent \cup {count + 1}
        /\ UNCHANGED wheel
     \/ /\ n > 0
        /\ ~ Locked
        /\ add_node([session |-> count + 1, expire |-> (time + n) % Word, due |-> current + n])
        /\ UNCHANGED sent
  /\ UNCHANGED <<time, current, todo, pc, shifted, list, early>>

-----------------------------------------------------------------------------
(* The timer thread *)

\* diff = cp - current_point: the ticks since the last call, as many as the
\* thread has overslept.  (The code also handles a clock that goes back, but
\* CLOCK_MONOTONIC does not.)
starnet_updatetime(diff) ==
  /\ pc = "idle"
  /\ todo = 0
  /\ current + diff <= MaxTicks
  /\ todo' = diff
  /\ current' = current + diff
  /\ UNCHANGED <<wheel, time, pc, shifted, list, count, sent, early>>

\* timer_update takes the lock
timer_update ==
  /\ pc = "idle"
  /\ todo > 0
  /\ todo' = todo - 1
  /\ pc' = "execute"
  /\ shifted' = FALSE
  /\ UNCHANGED <<wheel, time, current, list, count, sent, early>>

\* while (near[idx] is not empty) { link_clear, unlock, dispatch_list, lock }
timer_execute ==
  LET slot == <<-1, time % TIME_NEAR>> IN
  /\ pc = "execute"
  /\ list' = wheel[slot]
  /\ wheel' = [wheel EXCEPT ![slot] = <<>>]
  /\ pc' = IF wheel[slot] # <<>> THEN "dispatch"
           ELSE IF shifted THEN "idle" ELSE "shift"
  /\ UNCHANGED <<time, current, todo, shifted, count, sent, early>>

\* Bug: the list is sent back to front.
dispatch_list_Reversed ==
  /\ pc = "dispatch"
  /\ sent' = sent \cup {Last(list).session}
  /\ list' = Front(list)
  /\ pc' = IF Len(list) > 1 THEN "dispatch" ELSE "execute"
  /\ UNCHANGED <<wheel, time, current, todo, shifted, count, early>>

\* One turn of dispatch_list, without the lock
dispatch_list ==
  /\ pc = "dispatch"
  /\ sent' = sent \cup {Head(list).session}
  /\ early' = IF current < Head(list).due
                THEN early \cup {Head(list).session} ELSE early
  /\ list' = Tail(list)
  /\ pc' = IF Len(list) > 1 THEN "dispatch" ELSE "execute"
  /\ UNCHANGED <<wheel, time, current, todo, shifted, count>>

\* ++T->time, which wraps; move_list empties a slot,
timer_shift ==
  LET ct == (time + 1) % Word
      slot == Cascading(ct)
  IN
  /\ pc = "shift"
  /\ time' = ct
  /\ shifted' = TRUE
  /\ IF Cascades(ct)
       THEN /\ list' = wheel[slot]
            /\ wheel' = [wheel EXCEPT ![slot] = <<>>]
            /\ pc' = IF wheel[slot] = <<>> THEN "execute" ELSE "move"
       ELSE pc' = "execute" /\ UNCHANGED <<list, wheel>>
  /\ UNCHANGED <<current, todo, count, sent, early>>

\* and adds its nodes again, in order.
move_list ==
  /\ pc = "move"
  /\ add_node(Head(list))
  /\ list' = Tail(list)
  /\ pc' = IF Len(list) > 1 THEN "move" ELSE "execute"
  /\ UNCHANGED <<time, current, todo, shifted, count, sent, early>>

TimerStep ==
  \/ \E diff \in 1..MaxLag : starnet_updatetime(diff)
  \/ timer_update \/ timer_execute \/ dispatch_list \/ timer_shift
  \/ move_list

Next ==
  \/ \E n \in Delay : starnet_timeout(n)
  \/ TimerStep

Spec == Init /\ [][Next]_vars


-----------------------------------------------------------------------------
(* Properties *)

\* The types of the wheel, and the range of the time word that timer_shift lets wrap.
TypeOK ==
  /\ wheel \in [Slot -> Seq(Node)]
  /\ time \in 0..(Word - 1)
  /\ {current, todo, count} \subseteq Nat
  /\ pc \in {"idle", "execute", "dispatch", "shift", "move"}
  /\ shifted \in BOOLEAN
  /\ list \in Seq(Node)
  /\ sent \subseteq 1..MaxTimers
  /\ early \subseteq 1..MaxTimers

\* Every timeout sits where add_node would put it now, so the thread need look
\* at no other slot than near[time]: the cascade of timer_shift forgets none, at
\* no boundary of a level and not when the time wraps.  (With the types.)
WheelExact ==
  /\ TypeOK
  /\ \A s \in Slot : \A i \in DOMAIN wheel[s] : Place(wheel[s][i].expire, time) = s

\* Ticks until the wheel delivers a node
Left(n) == (n.expire - time) % Word

Nodes == (UNION {ToSet(wheel[s]) : s \in Slot}) \cup ToSet(list)

\* Sessions grow, so their order is the order in which the timeouts were set.
Pending ==
  [s \in {n.session : n \in Nodes} |-> Left(CHOOSE n \in Nodes : n.session = s)]

AlarmView == INSTANCE Alarm WITH Session <- 1..MaxTimers, pending <- Pending

\* Every timeout is delivered in its own tick, timeouts of one tick in the
\* order in which they were set, each once, however setting them interleaves
\* with the unlocked dispatch.
ImplementsAlarm == AlarmView!Spec

\* starnet.lua, sleep and timeout: the coroutine is suspended for "the given
\* time", the function runs "after ti centiseconds".  So starnet_now has reached
\* the time that was asked for when a timeout is sent.
SleepsLongEnough == early = {}
=============================================================================

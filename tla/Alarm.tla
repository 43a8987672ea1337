------------------------------- MODULE Alarm -------------------------------
(***************************************************************************)
(* What the timer of starnet promises: a timeout of n ticks is delivered   *)
(* in the n-th tick after it was set, timeouts of one tick in the order in *)
(* which they were set, each once, and no tick passes over a timeout that  *)
(* is due.  The names of timeouts grow in the order they are set.          *)
(***************************************************************************)
EXTENDS Integers

CONSTANTS Session,      \* names of timeouts, a set of numbers
          Delay         \* ticks a timeout may ask for

VARIABLES pending,      \* the ticks left of each timeout not yet delivered
          sent          \* timeouts delivered

vars == <<pending, sent>>

Init == pending = <<>> /\ sent = {}

Set(s, n) ==
  /\ \A r \in DOMAIN pending \cup sent : r < s
  /\ \/ /\ n > 0
        /\ pending' = [r \in DOMAIN pending \cup {s} |-> IF r = s THEN n ELSE pending[r]]
        /\ UNCHANGED sent
     \/ /\ n = 0
        /\ sent' = sent \cup {s}
        /\ UNCHANGED pending

Tick ==
  /\ \A r \in DOMAIN pending : pending[r] # 0
  /\ pending' = [r \in DOMAIN pending |-> pending[r] - 1]
  /\ UNCHANGED sent

\* The first timeout that is due is delivered.
Fire(s) ==
  /\ pending[s] = 0
  /\ \A r \in DOMAIN pending : pending[r] = 0 => s <= r
  /\ sent' = sent \cup {s}
  /\ pending' = [r \in DOMAIN pending \ {s} |-> pending[r]]

Next ==
  \/ \E s \in Session, n \in Delay : Set(s, n)
  \/ Tick
  \/ \E s \in DOMAIN pending : Fire(s)

Spec == Init /\ [][Next]_vars
=============================================================================

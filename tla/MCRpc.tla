------------------------------- MODULE MCRpc -------------------------------
(* Small instances of Rpc for TLC *)
EXTENDS Rpc

CONSTANTS a, b

\* A client that may exit while its calls are under way, and a server that
\* answers at once, later, or from a coroutine it forked or set a timer for
Pair == {a, b}
PairScript ==
  (a :> {"call", "exit"}) @@ (b :> {"dispatch", "ret", "response", "timeout", "fork"})

\* One service whose handlers fork and whose forked functions fork again
One == {a}
ForkScript == (a :> {"dispatch", "fork", "sleep", "send", "exit"})
=============================================================================

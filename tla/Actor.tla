------------------------------- MODULE Actor -------------------------------
(***************************************************************************)
(* What the dispatch core promises a service author, with the queues,      *)
(* locks and threads left out.  A service is an actor: it has a FIFO       *)
(* mailbox, it handles one message at a time, and once it is closed its    *)
(* Lua state is never entered again; what is left in the mailbox is only   *)
(* thrown away.  Module Dispatch is shown to implement this specification. *)
(***************************************************************************)
EXTENDS Sequences

CONSTANTS Service,      \* service ids
          Message       \* what may be put in a mailbox

VARIABLES box,          \* [Service -> Seq(Message)]
          running,      \* services whose handler is executing
          closed        \* services whose Lua state has been closed

actorVars == <<box, running, closed>>

Init ==
  /\ box = [s \in Service |-> <<>>]
  /\ running = {}
  /\ closed = {}

\* A message arrives, also at a service that is already closed.
Deliver(s, m) ==
  /\ box' = [box EXCEPT ![s] = Append(@, m)]
  /\ UNCHANGED <<running, closed>>

\* The oldest message is handed to the handler.
Take(s) ==
  /\ s \notin running \cup closed
  /\ box[s] # <<>>
  /\ box' = [box EXCEPT ![s] = Tail(@)]
  /\ running' = running \cup {s}
  /\ UNCHANGED closed

\* The oldest message is removed without reaching the handler.
Discard(s) ==
  /\ s \notin running
  /\ box[s] # <<>>
  /\ box' = [box EXCEPT ![s] = Tail(@)]
  /\ UNCHANGED <<running, closed>>

Done(s) ==
  /\ s \in running
  /\ running' = running \ {s}
  /\ UNCHANGED <<box, closed>>

Close(s) ==
  /\ s \notin running \cup closed
  /\ closed' = closed \cup {s}
  /\ UNCHANGED <<box, running>>

Next ==
  \E s \in Service :
    \/ \E m \in Message : Deliver(s, m)
    \/ Take(s)
    \/ Discard(s)
    \/ Done(s)
    \/ Close(s)

Spec == Init /\ [][Next]_actorVars
=============================================================================

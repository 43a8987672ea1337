------------------------------- MODULE Lualib --------------------------------
(***************************************************************************)
(* The libraries of a service with a state of their own, side by side: the *)
(* parser of packets (Netpack) and the store of shared tables (Sharedata). *)
(* They share nothing.                                                     *)
(***************************************************************************)
EXTENDS Netpack

CONSTANTS Service, MaxGen, MaxDeletes   \* Sharedata

\* The bounds are numbers.
ASSUME ShareAssumption == {MaxGen, MaxDeletes} \subseteq Nat

VARIABLES map, gen, deletes, cache, pc, calls, last, shown, answer, window   \* Sharedata

D == INSTANCE Sharedata

\* Sharedata: a query returns a table the name had while it ran.
QueryIsCurrent == D!QueryIsCurrent
\* Sharedata: a subscriber ends up with the table that is there.
SubscribersCatchUp == D!SubscribersCatchUp
=============================================================================

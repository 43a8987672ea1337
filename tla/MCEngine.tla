------------------------------ MODULE MCEngine ------------------------------
\* The IO engine: its tables of descriptors (Engine), and one datagram socket (Udp),
\* each on a small instance.  In a behaviour one of them runs and the other stays as
\* it begins.
EXTENDS Engine, TLC

CONSTANTS w1, w2, Peer, Capacity, MaxArrivals

\* Udp: the addresses of the two families (AF_INET, AF_INET6).
Family == {2, 10}
Port == 0 .. 65535
ASSUME PeerAssumption == Peer \subseteq [family : Family, ip : Nat, port : Port, scope : Nat]

VARIABLES part,                                                \* the part that runs
          queue, edge, mask, paused, modify, reading, posted, accepted, arrivals,
          behind, udpAddr, sent                                \* Udp

Workers == Permutations({w1, w2})

\* An IPv4 peer and a link-local IPv6 one.
Peers == {[family |-> 2, ip |-> 1, port |-> 7, scope |-> 0], [family |-> 10, ip |-> 1, port |-> 7, scope |-> 3]}

U == INSTANCE Udp

udp == <<queue, edge, mask, paused, modify, reading, posted, accepted, arrivals, behind, udpAddr, sent>>

EngineInit ==
    /\ part \in {"engine", "udp"}
    /\ Init /\ U!Init

EngineNext ==
    \/ part = "engine" /\ Next /\ UNCHANGED <<part, udp>>
    \/ part = "udp" /\ U!Next /\ UNCHANGED <<part, vars>>

EngineSpec == EngineInit /\ [][EngineNext]_<<part, vars, udp>>

-----------------------------------------------------------------------------
(* The properties of the instance *)

\* Udp: datagrams are posted in order, once each, and go where they are meant to.
DatagramsExact == U!DatagramsExact
\* Udp: no datagram waits unnoticed.
NoneUnnoticed == U!NoneUnnoticed
=============================================================================

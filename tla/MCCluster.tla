----------------------------- MODULE MCCluster ------------------------------
\* Small instances of clusterd for TLC: calls and connections (Cluster), and the
\* names it publishes (ClusterNames).  In a behaviour one of them runs and the other
\* stays as it begins.
EXTENDS Cluster, TLC

CONSTANTS a, b, Name, Service

VARIABLES part, register_name, register_addr

N == INSTANCE ClusterNames

\* ClusterNames: nil is no name and no key.
ASSUME NamesAssumption == Nil \notin Name \cup N!Key

names == <<register_name, register_addr>>

\* A descriptor is a node and a number; the nodes know each other.
Fds == Node \X {1, 2}
Hosts == [f \in Fd |-> f[1]]
Known == [n \in Node |-> Node \ {n}]

\* One node calls more often.
Calls == a :> 2 @@ b :> 1

ClusterInit == part \in {"calls", "names"} /\ Init /\ N!Init

ClusterNext ==
    \/ part = "calls" /\ Next /\ UNCHANGED <<part, names>>
    \/ part = "names" /\ N!Next /\ UNCHANGED <<part, vars>>

ClusterSpec == ClusterInit /\ [][ClusterNext]_<<part, vars, names>> /\ Fairness
WorkingSpec == ClusterSpec /\ Working

\* ClusterNames: every published name leads back from its key.
NamesLeadBack == N!NamesLeadBack
=============================================================================

----------------------------- MODULE Sharedata ------------------------------
(***************************************************************************)
(* One name of the sharedata store (SharedataStore, behind lock_) and the  *)
(* services that share it through sharedata.lua: new and update replace    *)
(* the table, query keeps a box per service as long as the version says    *)
(* so, subscribe polls the version.  A service is one thread at a time and *)
(* none of these functions yields, but between two calls of the store      *)
(* other services, on other workers, change it.                            *)
(*                                                                         *)
(* A table is its generation, counted over all of them: what is inside it  *)
(* is module SharedTable's.                                                *)
(***************************************************************************)
EXTENDS Integers, FiniteSets

CONSTANTS Service,     \* services
          MaxGen,      \* bound: tables stored, a number
          MaxDeletes   \* bound: deletions, a number

VARIABLES map,      \* the TableState under the name: its generation and version
          gen,      \* tables stored so far
          deletes,  \* deletions so far
          cache,    \* the box each service's cache holds
          pc,       \* where a service is: "idle", after a subscription has seen a new
                    \* version ("poll"), or before sd.query ("query")
          calls,    \* whether the query in progress is the subscription's
          last,     \* the version the subscription has seen, -1 without one
          shown,    \* the generation the subscriber knows
          answer,   \* what the last query of a service returned
          window    \* the states the name was in during that query

vars == <<map, gen, deletes, cache, pc, calls, last, shown, answer, window>>
queryVars == <<cache, pc, calls, last, shown, answer>>

\* No TableState; Version gives 0 for it, which is also the first version.
Absent == [gen |-> 0, version |-> 0]

Init ==
    /\ map = Absent /\ gen = 0 /\ deletes = 0
    /\ cache = [s \in Service |-> Absent] /\ pc = [s \in Service |-> "idle"]
    /\ calls = [s \in Service |-> FALSE] /\ last = [s \in Service |-> -1]
    /\ shown = [s \in Service |-> 0]
    /\ answer = [s \in Service |-> Absent] /\ window = [s \in Service |-> {Absent}]

\* The name's new state is one a query in progress may have met.
Becomes(st) ==
    /\ map' = st
    /\ window' = [s \in Service |-> IF pc[s] = "query" THEN window[s] \cup {st} ELSE window[s]]

\* new and update: the first version of a name is 0, any other the last plus one.
Update(s) ==
    /\ pc[s] = "idle" /\ gen < MaxGen
    /\ gen' = gen + 1
    /\ Becomes([gen |-> gen + 1, version |-> IF map = Absent THEN 0 ELSE map.version + 1])
    /\ UNCHANGED <<deletes, queryVars>>

\* sharedata.delete: the deleting service forgets its own box, nobody else does.
Delete(s) ==
    /\ pc[s] = "idle" /\ deletes < MaxDeletes
    /\ deletes' = deletes + 1
    /\ cache' = [cache EXCEPT ![s] = Absent]
    /\ Becomes(Absent)
    /\ UNCHANGED <<gen, pc, calls, last, shown, answer>>

\* A query returns box, for the service itself or for its subscription's fn.
Returns(s, box, forSub) ==
    /\ answer' = [answer EXCEPT ![s] = box]
    /\ shown' = IF forSub /\ box # Absent THEN [shown EXCEPT ![s] = box.gen] ELSE shown

\* Mutant: the subscription's function is not called with a box of the cache.
QueryFrom_Silent(s, forSub) ==
    /\ window' = [window EXCEPT ![s] = {map}]
    /\ IF cache[s] # Absent /\ cache[s].version = map.version
         THEN Returns(s, cache[s], FALSE) /\ pc' = [pc EXCEPT ![s] = "idle"] /\ UNCHANGED calls
         ELSE /\ pc' = [pc EXCEPT ![s] = "query"]
              /\ calls' = [calls EXCEPT ![s] = forSub]
              /\ UNCHANGED <<answer, shown>>
    /\ UNCHANGED <<map, gen, deletes, cache>>

\* sharedata.query, up to the comparison of the versions: the cached box is
\* returned, or sd.query is next.
QueryFrom(s, forSub) ==
    /\ window' = [window EXCEPT ![s] = {map}]
    /\ IF cache[s] # Absent /\ cache[s].version = map.version
         THEN Returns(s, cache[s], forSub) /\ pc' = [pc EXCEPT ![s] = "idle"] /\ UNCHANGED calls
         ELSE /\ pc' = [pc EXCEPT ![s] = "query"]
              /\ calls' = [calls EXCEPT ![s] = forSub]
              /\ UNCHANGED <<answer, shown>>
    /\ UNCHANGED <<map, gen, deletes, cache>>

\* By the service, or by its subscription, once that has seen another version.
Query(s) ==
    /\ pc[s] \in {"idle", "poll"}
    /\ QueryFrom(s, pc[s] = "poll")
    /\ UNCHANGED last

\* Mutant: a box in the cache is returned although its version is another.
lquery_Cached(s) ==
    /\ pc[s] = "query"
    /\ pc' = [pc EXCEPT ![s] = "idle"] /\ calls' = [calls EXCEPT ![s] = FALSE]
    /\ Returns(s, IF cache[s] # Absent THEN cache[s] ELSE map, calls[s])
    /\ cache' = IF cache[s] # Absent THEN cache ELSE [cache EXCEPT ![s] = map]
    /\ UNCHANGED <<map, gen, deletes, last, window>>

\* sd.query: the table that is there now, or nil; the cache follows.
lquery(s) ==
    /\ pc[s] = "query"
    /\ pc' = [pc EXCEPT ![s] = "idle"] /\ calls' = [calls EXCEPT ![s] = FALSE]
    /\ cache' = [cache EXCEPT ![s] = map]
    /\ Returns(s, map, calls[s])
    /\ UNCHANGED <<map, gen, deletes, last, window>>

\* The cache is weak: a box the application has dropped can go at any moment.
Collect(s) ==
    /\ pc[s] = "idle" /\ cache[s] # Absent
    /\ cache' = [cache EXCEPT ![s] = Absent]
    /\ UNCHANGED <<map, gen, deletes, pc, calls, last, shown, answer, window>>

\* sharedata.subscribe, once per service.
Subscribe(s) ==
    /\ pc[s] = "idle" /\ last[s] = -1
    /\ last' = [last EXCEPT ![s] = map.version]
    /\ shown' = [shown EXCEPT ![s] = map.gen]
    /\ UNCHANGED <<map, gen, deletes, cache, pc, calls, answer, window>>

\* The subscription wakes from its sleep; nothing happens while the version is
\* the one it has seen.
Poll(s) ==
    /\ pc[s] = "idle" /\ last[s] >= 0 /\ map.version # last[s]
    /\ last' = [last EXCEPT ![s] = map.version]
    /\ pc' = [pc EXCEPT ![s] = "poll"]
    /\ UNCHANGED <<map, gen, deletes, cache, calls, shown, answer, window>>

Next ==
    \E s \in Service :
      Update(s) \/ Delete(s) \/ Query(s) \/ lquery(s) \/ Collect(s) \/ Subscribe(s) \/ Poll(s)

Spec == Init /\ [][Next]_vars

\* A query that has begun returns, and the subscription's wake-up, a message like
\* any other, is not overtaken for ever by those that make the service query (SF: a
\* query under way disables Poll for a moment).
QueryEnds(s) == (pc[s] = "poll" /\ Query(s)) \/ lquery(s)
LiveSpec == Spec /\ \A s \in Service : WF_vars(QueryEnds(s)) /\ SF_vars(Poll(s))

-----------------------------------------------------------------------------
(* Properties *)

State == [gen : 0 .. MaxGen, version : 0 .. MaxGen]

\* The types of the store, the caches and the subscriptions.
TypeOK ==
    /\ map \in State /\ gen \in 0 .. MaxGen /\ deletes \in 0 .. MaxDeletes
    /\ cache \in [Service -> State] /\ answer \in [Service -> State]
    /\ pc \in [Service -> {"idle", "poll", "query"}] /\ calls \in [Service -> BOOLEAN]
    /\ last \in [Service -> -1 .. MaxGen] /\ shown \in [Service -> 0 .. MaxGen]
    /\ window \in [Service -> SUBSET State]

\* While no name has been deleted the version says which table it is: the version
\* of the n-th table is n - 1 wherever a copy of it is kept, so a cache that
\* compares versions compares tables.
VersionsIdentify ==
    deletes = 0 =>
      /\ map.gen = gen /\ (map # Absent => map.version = map.gen - 1)
      /\ \A s \in Service : cache[s] # Absent => cache[s].gen <= gen /\ cache[s].version = cache[s].gen - 1

\* A query returns the table the name had at some moment between its call and its
\* return, although it asks the store twice and others update it in between.  After
\* a deletion it can return a table that was deleted and has that table's version.
\* (With the types, and the versions it rests on.)
QueryIsCurrent ==
    /\ TypeOK /\ VersionsIdentify
    /\ \A s \in Service : pc[s] = "idle" =>
         \E st \in window[s] : answer[s].version = st.version /\ (deletes = 0 => answer[s] = st)

\* A subscriber of a name that is not deleted ends up with the table that is
\* there, however updates and polls interleave; one that subscribed before the
\* first table was stored may miss that one, whose version is that of no table.
SubscribersCatchUp ==
    \A s \in Service :
      <>[](last[s] >= 0 /\ deletes = 0 /\ ~(map.gen = 1 /\ shown[s] = 0) => shown[s] = map.gen)
=============================================================================

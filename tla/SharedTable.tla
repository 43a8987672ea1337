---------------------------- MODULE SharedTable -----------------------------
(***************************************************************************)
(* The frozen tables of sharedata: starnet_sharedata.cpp builds from a Lua *)
(* table an array and a hash part of exactly as many slots as keys, each   *)
(* key in its main slot or, when another key has that one, in an empty     *)
(* slot on the main slot's chain.  Boxes (lua-sharedata.cpp) look keys up  *)
(* and iterate; deepcopy turns the frozen table into a Lua table again.    *)
(*                                                                         *)
(* Keys and values are tagged tuples, a Lua table a function, a frozen one *)
(* [array, hash] with slots from 0.  conv_table is a set: rawlen gives any *)
(* border, lua_next any order; no element is an error raised.              *)
(***************************************************************************)
EXTENDS Integers, Sequences, FiniteSets, FiniteSetsExt, SequencesExt

CONSTANTS Sources,   \* the Lua tables that are shared
          Probes,    \* keys looked up besides those of the table
          Width,     \* the number of values of a uint32_t
          StrHash,   \* calchash of each string: any function
          Methods    \* the fields of the box's metatable, found before any key

Nil == <<"nil">>
Integer(v) == <<"integer", v>>

\* SharedKey.hash.
HashOf(key) == IF key[1] = "string" THEN StrHash[key[2]] ELSE key[2] % Width

Empty == [key |-> Integer(0), value |-> Nil, next |-> -1, nocolliding |-> FALSE]

\* The keys that find their main slot free.
FillNoColliding(items) ==
    FoldLeft(LAMBDA hash, kv :
        LET main == HashOf(kv[1]) % Len(items)
        IN  IF hash[main].value # Nil THEN hash
            ELSE [hash EXCEPT ![main] =
                    [key |-> kv[1], value |-> kv[2], next |-> -1, nocolliding |-> TRUE]],
      [i \in 0 .. Len(items) - 1 |-> Empty], items)

\* Mutant: the new node ends the chain, and cuts off what was on it.
Chained_Cut(hash, main, slot, kv) ==
    [hash EXCEPT ![slot] = [key |-> kv[1], value |-> kv[2], next |-> -1, nocolliding |-> FALSE],
                 ![main].next = slot, ![main].nocolliding = FALSE]

\* kv in an empty slot, at the front of the main slot's chain.
Chained(hash, main, slot, kv) ==
    [hash EXCEPT ![slot] = [key |-> kv[1], value |-> kv[2], next |-> hash[main].next, nocolliding |-> FALSE],
                 ![main].next = slot, ![main].nocolliding = FALSE]

\* The other keys, each in the first empty slot not yet passed.
FillColliding(hash0, items) ==
    LET put(st, kv) ==
          LET main == HashOf(kv[1]) % Len(items)
              free == {i \in st.emptyslot .. Len(items) - 1 : st.hash[i].value = Nil}
          IN  IF st.hash[main].key = kv[1] \/ free = {} THEN st
              ELSE [hash |-> Chained(st.hash, main, Min(free), kv), emptyslot |-> Min(free) + 1]
    IN  FoldLeft(put, [hash |-> hash0, emptyslot |-> 0], items).hash

Finish(items) == IF items = <<>> THEN <<>> ELSE FillColliding(FillNoColliding(items), items)

Borders(f) == {n \in {0} \cup {k[2] : k \in {x \in DOMAIN f : x[1] = "integer"}} :
                 n >= 0 /\ (n = 0 \/ Integer(n) \in DOMAIN f) /\ Integer(n + 1) \notin DOMAIN f}

RECURSIVE conv_table(_)
conv_value(v) ==
    CASE v[1] \in {"integer", "real", "string", "boolean"} -> {v}
      [] v[1] = "table" -> {<<"table", t>> : t \in conv_table(v[2])}
      [] OTHER -> {}

\* Every way to choose one frozen value for each entry of f.
ConvAll(f) == {g \in [DOMAIN f -> UNION {conv_value(f[k]) : k \in DOMAIN f}] :
                 \A k \in DOMAIN f : g[k] \in conv_value(f[k])}

conv_table(f) ==
    IF \E k \in DOMAIN f : k[1] \notin {"integer", "string"} THEN {}
    ELSE UNION {UNION {{[array |-> [i \in 1 .. n |-> IF Integer(i) \in DOMAIN f THEN g[Integer(i)] ELSE Nil],
                         hash |-> Finish([i \in DOMAIN ks |-> <<ks[i], g[ks[i]]>>])] :
                          ks \in SetToSeqs(DOMAIN f \ {Integer(i) : i \in 1 .. n})} :
                   g \in ConvAll(f)} : n \in Borders(f)}

-----------------------------------------------------------------------------
(* Reading *)

RECURSIVE Chase(_, _, _)
Chase(t, key, i) ==
    IF t.hash[i].key = key THEN i
    ELSE IF t.hash[i].next < 0 THEN -1 ELSE Chase(t, key, t.hash[i].next)

\* The slot of a key, -1 when there is none.
LookupHash(t, key) ==
    LET size == Cardinality(DOMAIN t.hash)
        main == HashOf(key) % size
    IN  IF size = 0 THEN -1
        ELSE IF HashOf(key) # HashOf(t.hash[main].key) /\ t.hash[main].nocolliding THEN -1
        ELSE Chase(t, key, main)

InArray(t, key) == key[1] = "integer" /\ key[2] > 0 /\ key[2] <= Len(t.array)

Lookup(t, key) ==
    IF InArray(t, key) THEN t.array[key[2]]
    ELSE LET i == LookupHash(t, key) IN IF i < 0 THEN Nil ELSE t.hash[i].value

\* __index of a box: the methods first; a value that is a table becomes a box.
lindex(t, key) == IF key \in Methods THEN <<"method", key[2]>> ELSE Lookup(t, key)

\* The first key from a slot on, Nil at the end; the first from an index of the
\* array on, and then from the hash part.
NextHashSlot(t, start) ==
    LET rest == {i \in DOMAIN t.hash : i >= start /\ t.hash[i].value # Nil}
    IN  IF rest = {} THEN Nil ELSE t.hash[Min(rest)].key
FromArray(t, start) ==
    LET rest == {i \in start .. Len(t.array) : t.array[i] # Nil}
    IN  IF rest = {} THEN NextHashSlot(t, 0) ELSE Integer(Min(rest))

\* Integer 0 stands for "from the beginning".
NextKey(t, prev) ==
    IF prev = Integer(0) THEN FromArray(t, 1)
    ELSE IF InArray(t, prev) THEN FromArray(t, prev[2] + 1)
    ELSE NextHashSlot(t, LookupHash(t, prev) + 1)

RECURSIVE Walk(_, _, _), push_table(_)
\* The keys behind prev, at most n of them.
Walk(t, prev, n) ==
    LET k == NextKey(t, prev)
    IN  IF k = Nil \/ n = 0 THEN <<>> ELSE <<k>> \o Walk(t, k, n - 1)

\* deepcopy.
push_table(t) ==
    LET keys == ToSet(Walk(t, Integer(0), Len(t.array) + Cardinality(DOMAIN t.hash)))
        val(k) == Lookup(t, k)
    IN  [k \in keys |-> IF val(k)[1] = "table" THEN <<"table", push_table(val(k)[2])>> ELSE val(k)]

-----------------------------------------------------------------------------
VARIABLES src,    \* a Lua table
          tbl,    \* a frozen table made of it
          prev,   \* the key the iteration has reached, Nil when it has ended
          seen    \* the keys it has gone over

vars == <<src, tbl, prev, seen>>

\* sharedata.new or update: conv_table returns.
Init ==
    /\ src \in Sources
    /\ tbl \in conv_table(src)
    /\ prev = Integer(0) /\ seen = <<>>

\* One call of lnextkey by a pairs loop.  Bound: a loop that does not end is
\* followed until it has gone over one key more than there are.
lnextkey ==
    /\ prev # Nil /\ Len(seen) <= Cardinality(DOMAIN src)
    /\ prev' = NextKey(tbl, prev)
    /\ seen' = IF prev' = Nil THEN seen ELSE Append(seen, prev')
    /\ UNCHANGED <<src, tbl>>

Next == lnextkey

Spec == Init /\ [][Next]_vars

-----------------------------------------------------------------------------
(* Properties *)

\* What a box answers for a frozen value.
Thawed(v) == IF v[1] = "table" THEN <<"table", push_table(v[2])>> ELSE v

\* A frozen table is its Lua table: each key, present or not, in the array or
\* anywhere on a chain, finds the value it had, except the names of the box's
\* methods, which hide keys of that name.
LookupExact ==
    \A k \in (DOMAIN src \cup Probes) \ Methods :
      Thawed(lindex(tbl, k)) = IF k \in DOMAIN src THEN src[k] ELSE Nil

\* pairs goes over each key once and ends, holes, collisions and negative keys
\* included.  (With a key 0, which NextKey takes for the beginning, it does not end.)
IterationExact ==
    Integer(0) \notin DOMAIN src =>
      /\ Len(seen) = Cardinality(ToSet(seen)) /\ ToSet(seen) \subseteq DOMAIN src
      /\ prev = Nil => ToSet(seen) = DOMAIN src

\* A frozen table reads like the Lua table it was made from, key by key and in an
\* iteration, however its keys collide.
ReadsAsTable == LookupExact /\ IterationExact
=============================================================================

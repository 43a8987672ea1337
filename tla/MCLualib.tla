------------------------------ MODULE MCLualib ------------------------------
\* The libraries a service is linked with, each on a small instance of its own:
\* packets (Netpack), values to bytes (Seri), the inside of a shared table
\* (SharedTable) and the store of such tables (Sharedata).  They share no state; in
\* a behaviour one of them runs and the others stay as they begin.
EXTENDS Lualib

CONSTANTS SeriBase, MaxCookie, MaxDepth, Width   \* Seri, SharedTable

VARIABLES lib,                                           \* the library that runs
          args, framed, kept, stage, from, buf, result,  \* Seri
          src, tbl, prev, seen                           \* SharedTable

\* Packets of length 0 to 3 (a byte is a bit), enough of them for a ring of two
\* places to wrap around and to grow; descriptors 1 and 3 hash to one list.
Streams == 1 :> << <<0>>, <<1>>, <<>>, <<0, 1, 1>>, <<1>> >> @@ 3 :> << <<1>> >>

-----------------------------------------------------------------------------
(* Lua values: every width of a number and its neighbours, strings and      *)
(* arrays around the length a header holds, tables with holes, with a       *)
(* __pairs metamethod, and nested around the depth that is refused.         *)

Integer(v) == <<"integer", v>>
Table(f) == <<"table", f>>
Nil == <<"nil">>
Chars(n) == <<"string", [k \in 1 .. n |-> k % SeriBase]>>
Array(s) == Table([k \in {Integer(i) : i \in {j \in DOMAIN s : s[j] # Nil}} |-> s[k[2]]])
One(k, v) == Table([x \in {k} |-> v])
Leaf == One(Chars(1), Integer(-1))
Nested(n, v) == FoldLeft(LAMBDA acc, k : Array(<<acc>>), v, [k \in 1 .. n |-> k])
half == SeriBase ^ 4 \div 2
Numbers == {Integer(v) : v \in
    {0, 1, -1, SeriBase - 1, SeriBase, SeriBase ^ 2 - 1, SeriBase ^ 2, half - 1, half, -half, -half - 1,
     SeriBase ^ 8 \div 2 - 1, -(SeriBase ^ 8 \div 2)}}
Values ==
    {Nil, <<"boolean", TRUE>>, <<"boolean", FALSE>>, <<"real", 2>>, <<"userdata", 9>>, <<"function">>}
      \cup Numbers \cup {Chars(n) : n \in {0, MaxCookie - 1, MaxCookie, SeriBase ^ 2 - 1, SeriBase ^ 2}}
Tables ==
    {Array([i \in 1 .. n |-> Integer(i)]) : n \in {0, MaxCookie - 2, MaxCookie - 1, MaxCookie + 2}}
      \cup {Table([k \in {Integer(i) : i \in {-1, 0, 1, 2, 4}} |-> Chars(1)]),
            Table([k \in {Integer(1), Chars(2), <<"real", 3>>, <<"boolean", FALSE>>} |-> Leaf]),
            <<"pairs", << <<Chars(1), Integer(3)>>, <<Integer(2), Nil>>, <<Chars(1), Array(<<Integer(1)>>)>> >> >>,
            One(Chars(0), <<"function">>), Nested(MaxDepth, Leaf)}
      \cup {Nested(n, v) : n \in MaxDepth - 1 .. MaxDepth + 1, v \in {Table(<<>>), Integer(1)}}
Arguments ==
    {<<v>> : v \in Values \cup Tables} \cup {<<>>}
      \cup {<<v, Chars(2), Nil>> : v \in {Nil, Integer(-1), Leaf, Array(<<Leaf, Nil, Leaf>>)}}

-----------------------------------------------------------------------------
(* Tables to share: every choice of up to four keys out of ten, of which    *)
(* several fall into one slot, and some larger, nested or refused ones.     *)

Text(x) == <<"string", x>>
TextHash == "a" :> 1 @@ "b" :> 5 @@ "c" :> 1 @@ "version" :> 2
Shared(ks) == [k \in ks |-> <<"boolean", k[1] = "integer">>]
Keys == {Integer(i) : i \in {-1, 0, 1, 2, 3, 9}} \cup {Text(x) : x \in DOMAIN TextHash}
Shareable ==
    {Shared(ks) : ks \in {x \in SUBSET Keys : Cardinality(x) <= 4}}
      \cup {Shared({Integer(i) : i \in {1, 2, 4, 5, 9}} \cup {Text("a"), Text("b")}),
            [k \in {Integer(1), <<"real", 2>>} |-> Integer(3)],
            [k \in {Integer(1), Integer(3), Text("a")} |->
               IF k = Integer(3) THEN Text("c") ELSE Table(Shared({Integer(1), Integer(-1), Text("b"), Text("c")}))],
            [k \in {Text("a")} |-> <<"function">>]}

S == INSTANCE Seri WITH Base <- SeriBase, Inputs <- Arguments
T == INSTANCE SharedTable WITH
       Sources <- Shareable, Probes <- {Integer(-9), Integer(0), Integer(4), Integer(17), Text("b"), Text("c")},
       StrHash <- TextHash, Methods <- {Text("version"), Text("isdirty")}

-----------------------------------------------------------------------------
LibInit ==
    /\ lib \in {"netpack", "seri", "sharedtable", "sharedata"}
    /\ Init /\ D!Init
    /\ lib # "seri" => args = <<>> /\ framed = FALSE /\ kept = FALSE
    /\ lib # "sharedtable" => src = <<>>
    /\ S!Init /\ T!Init

seri == <<args, framed, kept, stage, from, buf, result>>
table == <<src, tbl, prev, seen>>
store == <<map, gen, deletes, cache, pc, calls, last, shown, answer, window>>
LibVars == <<lib, vars, seri, table, store>>

LibNext ==
    \/ lib = "netpack" /\ Next /\ UNCHANGED <<lib, seri, table, store>>
    \/ lib = "seri" /\ S!Next /\ UNCHANGED <<lib, vars, table, store>>
    \/ lib = "sharedtable" /\ T!Next /\ UNCHANGED <<lib, vars, seri, store>>
    \/ lib = "sharedata" /\ D!Next /\ UNCHANGED <<lib, vars, seri, table>>

\* The fairness of Sharedata!LiveSpec; without a table stored nothing of it is
\* enabled, so it asks nothing of the other libraries.
LibSpec ==
    /\ LibInit /\ [][LibNext]_LibVars
    /\ \A s \in Service : WF_store(D!QueryEnds(s)) /\ SF_store(D!Poll(s))

-----------------------------------------------------------------------------
(* The properties of the instances *)

\* Seri: what the reader gives is what was packed, and what can not be is refused.
RoundTrip == S!RoundTrip
\* Seri: a message that was cut off is noticed, except between two values.
CutIsSeen == S!CutIsSeen
\* SharedTable: a lookup finds the value of the Lua table, an iteration every key.
ReadsAsTable == T!ReadsAsTable
=============================================================================

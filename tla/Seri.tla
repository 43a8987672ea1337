-------------------------------- MODULE Seri --------------------------------
(***************************************************************************)
(* lua-seri.cpp: Lua values to bytes and back, bare (Serialize,            *)
(* Unserialize) or behind their length (PackString, UnpackString).         *)
(*                                                                         *)
(* A Lua value is a tagged tuple; a table is a function from keys to       *)
(* values, a table with a __pairs metamethod the pairs it yields.  The     *)
(* packer is a set of byte strings, since the length of a table with holes *)
(* is any border and the order of lua_next is any: the empty set is an     *)
(* error raised.  A byte has Base values, except that a header, type + 8 * *)
(* cookie, always fits in one.                                             *)
(***************************************************************************)
EXTENDS Integers, Sequences, FiniteSets, SequencesExt

CONSTANTS Base,       \* the values of a byte, 256 in the code
          MaxCookie,  \* MAX_COOKIE
          MaxDepth,   \* MAX_DEPTH
          Inputs      \* the argument lists tried

Nil == <<"nil">>
Integer(v) == <<"integer", v>>
Table(f) == <<"table", f>>

TNil == 0
TBoolean == 1
TNumber == 2
TUserdata == 3
TShortString == 4
TLongString == 5
TTable == 6

\* The cookies of a number and the bytes behind each; those of a real are 8.
Zero == 0
Byte1 == 1
Word == 2
Dword == 4
Qword == 6
Real == 8
SizeOf == Zero :> 0 @@ Byte1 :> 1 @@ Word :> 2 @@ Dword :> 4 @@ Qword :> 8

COMBINE_TYPE(t, v) == <<t + 8 * v>>
Take(s, n) == SubSeq(s, 1, n)
Drop(s, n) == SubSeq(s, n + 1, Len(s))

\* The n bytes of a number in the machine's (little-endian) order, two's complement.
Digits(v, n) == [k \in 1 .. n |-> (v \div Base ^ (k - 1)) % Base]
Unsigned(s) == FoldRight(LAMBDA d, acc : d + Base * acc, s, 0)
Signed(s) == LET u == Unsigned(s) IN IF 2 * u >= Base ^ Len(s) THEN u - Base ^ Len(s) ELSE u
Int32 == -(Base ^ 4 \div 2) .. (Base ^ 4 \div 2) - 1

-----------------------------------------------------------------------------
(* Writing *)

IntCookie(v) ==
    IF v = 0 THEN Zero ELSE IF v \notin Int32 THEN Qword
    ELSE IF v < 0 \/ v >= Base ^ 2 THEN Dword ELSE IF v < Base THEN Byte1 ELSE Word

wb_integer(v) == COMBINE_TYPE(TNumber, IntCookie(v)) \o Digits(v, SizeOf[IntCookie(v)])

wb_string(s) ==
    IF Len(s) < MaxCookie THEN COMBINE_TYPE(TShortString, Len(s)) \o s
    ELSE LET n == IF Len(s) < Base ^ 2 THEN 2 ELSE 4
         IN  COMBINE_TYPE(TLongString, n) \o Digits(Len(s), n) \o s

\* What appending one of A and then one of B can give.
Then(A, B) == {a \o b : a \in A, b \in B}

\* lua_rawlen: any border.  lua_next: the keys in any order.
Borders(f) == {n \in {0} \cup {k[2] : k \in {x \in DOMAIN f : x[1] = "integer"}} :
                 n >= 0 /\ (n = 0 \/ Integer(n) \in DOMAIN f) /\ Integer(n + 1) \notin DOMAIN f}
Rawget(f, k) == IF k \in DOMAIN f THEN f[k] ELSE Nil

\* Mutant: the largest cookie is also used for an array of that many elements.
ArrayHeader_Off(n) ==
    IF n > MaxCookie - 1 THEN COMBINE_TYPE(TTable, MaxCookie - 1) \o wb_integer(n)
    ELSE COMBINE_TYPE(TTable, n)

\* The largest cookie says that the length follows as a number.
ArrayHeader(n) ==
    IF n >= MaxCookie - 1 THEN COMBINE_TYPE(TTable, MaxCookie - 1) \o wb_integer(n)
    ELSE COMBINE_TYPE(TTable, n)

TooDeep(depth) == depth > MaxDepth

RECURSIVE pack_one(_, _), wb_pairs(_, _)

\* Pairs one after the other, and the nil that ends them.
wb_pairs(pairs, depth) ==
    IF pairs = <<>> THEN {<<TNil>>}
    ELSE Then(Then(pack_one(pairs[1][1], depth), pack_one(pairs[1][2], depth)),
              wb_pairs(Tail(pairs), depth))

\* The elements up to a border, then the other keys.
wb_array(f, n, depth) ==
    FoldLeft(Then, {ArrayHeader(n)}, [i \in 1 .. n |-> pack_one(Rawget(f, Integer(i)), depth)])
wb_hash(f, n, depth) ==
    UNION {wb_pairs([i \in DOMAIN keys |-> <<keys[i], f[keys[i]]>>], depth) :
             keys \in SetToSeqs(DOMAIN f \ {Integer(i) : i \in 1 .. n})}

wb_table(v, depth) ==
    IF v[1] = "pairs" THEN Then({COMBINE_TYPE(TTable, 0)}, wb_pairs(v[2], depth))
    ELSE UNION {Then(wb_array(v[2], n, depth), wb_hash(v[2], n, depth)) : n \in Borders(v[2])}

pack_one(v, depth) ==
    IF TooDeep(depth) THEN {}
    ELSE CASE v[1] = "nil" -> {<<TNil>>}
           [] v[1] = "boolean" -> {COMBINE_TYPE(TBoolean, IF v[2] THEN 1 ELSE 0)}
           [] v[1] = "integer" -> {wb_integer(v[2])}
           [] v[1] = "real" -> {COMBINE_TYPE(TNumber, Real) \o Digits(v[2], 8)}
           [] v[1] = "userdata" -> {<<TUserdata>> \o Digits(v[2], 8)}
           [] v[1] = "string" -> {wb_string(v[2])}
           [] v[1] \in {"table", "pairs"} -> wb_table(v, depth + 1)
           [] OTHER -> {}

PackAll(args) == FoldLeft(Then, {<<>>}, [k \in DOMAIN args |-> pack_one(args[k], 0)])

-----------------------------------------------------------------------------
(* Reading.  rb is what is left of the buffer; a reader gives a value and  *)
(* the rest, or raises an error.                                           *)

Invalid == [ok |-> FALSE, val |-> Nil, rb |-> <<>>]
Good(v, rb) == [ok |-> TRUE, val |-> v, rb |-> rb]
Bind(r, Reader(_, _)) == IF r.ok THEN Reader(r.val, r.rb) ELSE Invalid

\* Mutant: what is missing is read as zeros.
rb_read_Short(rb, n) == Good([k \in 1 .. n |-> IF k <= Len(rb) THEN rb[k] ELSE 0], Drop(rb, n))

rb_read(rb, n) == IF Len(rb) < n THEN Invalid ELSE Good(Take(rb, n), Drop(rb, n))

get_integer(rb, cookie) ==
    IF cookie \notin DOMAIN SizeOf THEN Invalid
    ELSE Bind(rb_read(rb, SizeOf[cookie]), LAMBDA s, r :
           Good(IF cookie \in {Dword, Qword} THEN Signed(s) ELSE Unsigned(s), r))

get_buffer(rb, n) == Bind(rb_read(rb, n), LAMBDA s, r : Good(<<"string", s>>, r))

\* lua_rawset: a nil value leaves no entry.
Rawset(f, k, v) == IF v = Nil THEN [x \in DOMAIN f \ {k} |-> f[x]]
                   ELSE [x \in DOMAIN f \cup {k} |-> IF x = k THEN v ELSE f[x]]

RECURSIVE unpack_one(_), unpack_array(_, _, _, _), unpack_hash(_, _)

unpack_array(rb, f, i, n) ==
    IF i > n THEN Good(f, rb)
    ELSE Bind(unpack_one(rb), LAMBDA v, r : unpack_array(r, Rawset(f, Integer(i), v), i + 1, n))

unpack_hash(rb, f) ==
    Bind(unpack_one(rb), LAMBDA k, r :
      IF k = Nil THEN Good(Table(f), r)
      ELSE Bind(unpack_one(r), LAMBDA v, r2 : unpack_hash(r2, Rawset(f, k, v))))

unpack_table(rb, cookie) ==
    LET size == IF cookie # MaxCookie - 1 THEN Good(cookie, rb)
                ELSE Bind(rb_read(rb, 1), LAMBDA h, r :
                       IF h[1] % 8 # TNumber THEN Invalid ELSE get_integer(r, h[1] \div 8))
    IN  Bind(size, LAMBDA n, r :
          Bind(unpack_array(r, <<>>, 1, n), LAMBDA f, r2 : unpack_hash(r2, f)))

push_value(rb, type, cookie) ==
    CASE type = TNil -> Good(Nil, rb)
      [] type = TBoolean -> Good(<<"boolean", cookie # 0>>, rb)
      [] type = TNumber /\ cookie = Real ->
           Bind(rb_read(rb, 8), LAMBDA s, r : Good(<<"real", Unsigned(s)>>, r))
      [] type = TNumber /\ cookie # Real ->
           Bind(get_integer(rb, cookie), LAMBDA v, r : Good(Integer(v), r))
      [] type = TUserdata -> Bind(rb_read(rb, 8), LAMBDA s, r : Good(<<"userdata", Unsigned(s)>>, r))
      [] type = TShortString -> get_buffer(rb, cookie)
      [] type = TLongString ->
           IF cookie \notin {2, 4} THEN Invalid
           ELSE Bind(rb_read(rb, cookie), LAMBDA s, r : get_buffer(r, Unsigned(s)))
      [] type = TTable -> unpack_table(rb, cookie)
      [] OTHER -> Invalid

unpack_one(rb) == Bind(rb_read(rb, 1), LAMBDA h, r : push_value(r, h[1] % 8, h[1] \div 8))

RECURSIVE unpack_buffer(_, _)
\* Values until the buffer is empty.
unpack_buffer(rb, vals) ==
    IF rb = <<>> THEN Good(vals, rb)
    ELSE Bind(unpack_one(rb), LAMBDA v, r : unpack_buffer(r, Append(vals, v)))

-----------------------------------------------------------------------------
(* The four entry points.  A frame begins with its length in four bytes,   *)
(* the first the highest; 4 + len is computed in 32 bits, and the reader   *)
(* takes the length as an int.                                             *)

Frame(out) == Reverse(Digits(Len(out), 4)) \o out

Unserialize(buf) == unpack_buffer(buf, <<>>)

UnpackString(buf) ==
    LET head == Reverse(Take(buf, 4))
    IN  IF Len(buf) < 4 THEN Invalid
        ELSE IF Len(buf) < (4 + Unsigned(head)) % Base ^ 4 THEN Invalid
        ELSE unpack_buffer(Take(Drop(buf, 4), Signed(head)), <<>>)

VARIABLES args,     \* the values packed
          framed,   \* PackString and UnpackString, not Serialize and Unserialize
          kept,     \* the caller of the reader keeps the string alive
          stage,    \* "pack", "refused", "packed", "cut", "joined" or "done"
          from,     \* the stage the bytes were read in
          buf,      \* the bytes
          result    \* what the reader gave

vars == <<args, framed, kept, stage, from, buf, result>>

Init ==
    /\ args \in Inputs /\ framed \in BOOLEAN /\ kept \in BOOLEAN
    /\ stage = "pack" /\ from = "pack" /\ buf = <<>> /\ result = Invalid

\* Serialize or PackString.
Pack ==
    /\ stage = "pack"
    /\ \/ PackAll(args) = {} /\ stage' = "refused" /\ UNCHANGED buf
       \/ \E out \in PackAll(args) : stage' = "packed" /\ buf' = IF framed THEN Frame(out) ELSE out
    /\ UNCHANGED <<args, framed, kept, from, result>>

\* The reader is given only the beginning of the bytes, ...
Cut ==
    /\ stage = "packed"
    /\ \E n \in 0 .. Len(buf) - 1 : buf' = Take(buf, n)
    /\ stage' = "cut"
    /\ UNCHANGED <<args, framed, kept, from, result>>

\* ... or a second string behind the first one.
Join ==
    /\ stage = "packed"
    /\ buf' = buf \o buf
    /\ stage' = "joined"
    /\ UNCHANGED <<args, framed, kept, from, result>>

\* Unserialize or UnpackString.  lua_settop(0) takes the string off the stack, so
\* when nobody else keeps it a collection, which a new table or string can start,
\* frees the bytes that are still to be read: any result.
Unpack ==
    /\ stage \in {"packed", "cut", "joined"}
    /\ \/ result' = IF framed THEN UnpackString(buf) ELSE Unserialize(buf)
       \/ /\ ~kept /\ \E k \in DOMAIN args : args[k][1] \in {"string", "table", "pairs"}
          /\ result' = [ok |-> TRUE, val |-> << <<"undefined">> >>, rb |-> <<>>]
    /\ stage' = "done" /\ from' = stage
    /\ UNCHANGED <<args, framed, kept, buf>>

Next == Pack \/ Cut \/ Join \/ Unpack

Spec == Init /\ [][Next]_vars

-----------------------------------------------------------------------------
(* Properties *)

RECURSIVE Plain(_), Reach(_), Supported(_)
\* What a value becomes: a table with __pairs is the table its pairs make.
Plain(v) ==
    CASE v[1] = "table" -> Table([k \in DOMAIN v[2] |-> Plain(v[2][k])])
      [] v[1] = "pairs" -> Table(FoldLeft(LAMBDA f, p : Rawset(f, p[1], Plain(p[2])), <<>>, v[2]))
      [] OTHER -> v

Children(v) ==
    CASE v[1] = "table" -> DOMAIN v[2] \cup {v[2][k] : k \in DOMAIN v[2]}
      [] v[1] = "pairs" -> UNION {{v[2][i][1], v[2][i][2]} : i \in DOMAIN v[2]}
      [] OTHER -> {}
\* The number of tables around the innermost value.
Reach(v) == IF Children(v) = {} THEN 0
            ELSE 1 + CHOOSE d \in {Reach(c) : c \in Children(v)} : \A c \in Children(v) : Reach(c) <= d
Supported(v) == v[1] # "function" /\ \A c \in Children(v) : Supported(c)

\* What comes back is what was packed, whatever border and key order the packer
\* met: numbers at the limits of each width, strings and arrays at the limit of
\* the cookie, holes, nested and __pairs tables; behind a length prefix also when
\* more bytes follow.  A value is refused exactly when a function is inside it or it
\* lies in more than MAX_DEPTH tables, wherever in the argument list and behind
\* whatever key.
RoundTrip ==
    /\ stage = "done" /\ kept /\ (from = "packed" \/ (from = "joined" /\ framed)) =>
         result.ok /\ result.val = [k \in DOMAIN args |-> Plain(args[k])]
    /\ stage # "pack" =>
         (stage = "refused" <=> \E k \in DOMAIN args : ~Supported(args[k]) \/ Reach(args[k]) > MaxDepth)

\* A string that was cut is refused or gives the first of the values, each one
\* whole; with a length prefix it is always refused.
CutIsSeen ==
    stage = "done" /\ kept /\ from = "cut" /\ result.ok =>
      ~framed /\ Len(result.val) < Len(args)
              /\ result.val = [k \in 1 .. Len(result.val) |-> Plain(args[k])]
=============================================================================

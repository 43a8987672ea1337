--------------------------- MODULE Engine_proofs ----------------------------
(***************************************************************************)
(* Proofs about Engine, for any number of workers, descriptor numbers and  *)
(* sockets, and about Udp, for any peers and any number of datagrams.      *)
(***************************************************************************)
EXTENDS MCEngine, TLAPS

-----------------------------------------------------------------------------
(* Engine: the inductive invariant *)

Kind == {"none", "listen", "client", "udp", "outside"}
Conn == [file : 1 .. MaxFiles, type : Kind, isBind : BOOLEAN]
Register == [fd : Fd \cup {0}, file : 0 .. MaxFiles, type : Kind, conn : 0 .. MaxConns, early : BOOLEAN,
             bind : BOOLEAN, found : 0 .. MaxFiles, after : {"idle", "del", "next"}]

Place == {"idle", "add", "mark", "event", "remove", "close", "del", "onevent", "accept", "read", "next", "gone"}

\* A thread may be at place p with local variables r.
Fits(t, p, r) ==
    /\ p \in Place /\ (t # Socket => p \notin {"onevent", "accept", "read", "next", "gone"})
    /\ r \in Register /\ r.file <= files /\ r.conn <= Len(conn) /\ r.found <= files
    /\ p \in {"add", "mark", "event"} => r.fd \in Fd /\ r.file # 0
    /\ p \in {"remove", "close", "del", "onevent", "read"} \/ r.conn # 0 => r.fd \in Fd
    /\ t # Socket => r.after # "next"

\* The types, in three parts: the kernel's, the engine's table, the threads.
KernelTypes ==
    /\ files \in 0 .. MaxFiles /\ file \in [Fd -> 0 .. files] /\ type \in [1 .. MaxFiles -> Kind]
    /\ epoll \subseteq {file[n] : n \in Fd} \ {0}
    /\ given \subseteq Fd \X (1 .. files) /\ closing \subseteq Fd /\ swept \subseteq 1 .. files
    /\ astray \in BOOLEAN
TableTypes ==
    /\ conn \in Seq(Conn) /\ Len(conn) <= MaxConns /\ conns \in [Fd -> 0 .. Len(conn)]
    /\ \A c \in DOMAIN conn : conn[c].file <= files
ThreadTypes ==
    /\ pc \in [Thread -> Place] /\ reg \in [Thread -> Register]
    /\ \A t \in Thread : Fits(t, pc[t], reg[t])
EngineTypes == KernelTypes /\ TableTypes /\ ThreadTypes

\* A number is behind one socket.
OneNumber == \A n, m \in Fd : file[n] = file[m] /\ file[n] # 0 => n = m

\* A thread about to add an entry has the number's socket in its hands.  If the engine
\* made it nobody else has ever heard of it.
Fresh ==
    \A t \in Thread :
      /\ pc[t] = "add" => file[reg[t].fd] = reg[t].file /\ type[reg[t].file] = reg[t].type
      /\ pc[t] = "add" /\ reg[t].type # "outside" =>
           /\ \A h \in given : h[2] # reg[t].file
           /\ \A c \in DOMAIN conn : conn[c].file # reg[t].file
           /\ \A u \in Thread \ {t} : reg[u].file # reg[t].file
      /\ pc[t] = "mark" => Outside(reg[t].file)

\* An entry stands for the socket behind its number; a closing thread has removed the
\* entry of the socket it is for.
Entries ==
    /\ \A n \in Fd : conns[n] # 0 => FileOf(conns[n]) = file[n]
    /\ \A t \in Thread : pc[t] = "close" /\ file[reg[t].fd] = reg[t].file /\ ~Outside(reg[t].file) =>
                           conns[reg[t].fd] = 0

\* A socket with an entry is registered, or its entry has just been added or is about
\* to be removed.
Registered ==
    \A n \in Fd : conns[n] # 0 /\ file[n] \notin epoll =>
      \E t \in Thread : reg[t].fd = n /\ pc[t] \in {"mark", "event", "remove"}

\* The mark is on entries of outside sockets only, and missing only while Bind is
\* about to set it.
Marked ==
    /\ \A c \in DOMAIN conn : conn[c].isBind => Outside(conn[c].file)
    /\ \A n \in Fd : conns[n] # 0 /\ Outside(file[n]) /\ ~conn[conns[n]].isBind =>
         \E t \in Thread : reg[t].fd = n /\ pc[t] = "mark"

\* What a closing thread remembers: an outside socket it found is still there, and if
\* the entry was marked, the thread knows.
Remembered ==
    \A t \in Thread :
      /\ reg[t].conn # 0 /\ Outside(FileOf(reg[t].conn)) => file[reg[t].fd] = FileOf(reg[t].conn)
      /\ reg[t].bind => reg[t].conn # 0 /\ conn[reg[t].conn].isBind
      /\ Outside(reg[t].found) => reg[t].bind

\* A socket of the engine's without an entry is about to get one or to be closed.
Kept ==
    \A n \in Fd : file[n] # 0 /\ ~Outside(file[n]) /\ file[n] \notin leaked /\ conns[n] = 0 =>
      \E t \in Thread : reg[t].fd = n /\ pc[t] \in {"add", "close"}

\* What CloseAll has found is on its list or being closed.
Sweeping ==
    /\ \A n \in Fd : file[n] \in swept /\ ~Outside(file[n]) =>
         n \in closing \/ (pc[Socket] \in {"remove", "close"} /\ reg[Socket].fd = n)
    /\ pc[Socket] = "gone" => closing = {}

Agree == Fresh /\ Entries /\ Registered /\ Marked /\ Remembered /\ Kept /\ Sweeping
EngineInv == EngineTypes /\ OneNumber /\ (~astray => Agree)

\* Tables with the types of the proof have those of the property.
LEMMA TypesHold == EngineTypes => TypeOK
  BY DEF EngineTypes, KernelTypes, TableTypes, ThreadTypes, TypeOK, Fits, Place

\* The local variables of a thread that has nothing to do.
LEMMA IdleFits ==
    ASSUME KernelTypes, TableTypes, NEW t \in Thread, NEW p, p \in {"idle", "next", "gone", "accept"},
           p # "idle" => t = Socket
    PROVE  Fits(t, p, Idle)
<1>1. Idle \in Register
  BY EngineAssumption DEF Idle, Register, Kind
<1>2. Idle.file = 0 /\ Idle.conn = 0 /\ Idle.found = 0 /\ Idle.after = "idle"
  BY DEF Idle
<1> QED
  BY <1>1, <1>2 DEF Fits, Place, KernelTypes, TableTypes

\* The local variables of a thread that begins to open a number, and to close one.
Opening(n, f, k) == [Idle EXCEPT !.fd = n, !.file = f, !.type = k]
Closing(f, a) == [Idle EXCEPT !.file = f, !.after = a]

IsOpening(r, n, f, k) ==
    /\ r \in Register /\ r.fd = n /\ r.file = f /\ r.type = k /\ r.conn = 0 /\ r.found = 0
    /\ r.bind = FALSE /\ r.after = "idle"
IsClosing(r, f, a) == r \in Register /\ r.file = f /\ r.after = a

\* The registers Opening and Closing give are what the two predicates say.
LEMMA OpeningTyped ==
    ASSUME NEW n \in Fd, NEW f \in 0 .. MaxFiles, NEW k \in Kind
    PROVE  IsOpening(Opening(n, f, k), n, f, k)
<1>1. Idle \in Register
  BY EngineAssumption DEF Idle, Register, Kind
<1>2. Idle.conn = 0 /\ Idle.found = 0 /\ Idle.bind = FALSE /\ Idle.after = "idle"
  BY DEF Idle
<1> QED
  BY <1>1, <1>2 DEF Register, Opening, IsOpening

\* And those of a thread that closes.
LEMMA ClosingTyped ==
    ASSUME NEW f \in 0 .. MaxFiles, NEW a \in {"idle", "del", "next"}
    PROVE  IsClosing(Closing(f, a), f, a)
<1>1. Idle \in Register
  BY EngineAssumption DEF Idle, Register, Kind
<1> QED
  BY <1>1 DEF Register, Closing, IsClosing

\* A thread that goes on as it may keeps the types of all threads, as long as no
\* socket and no Conn is forgotten.
LEMMA ThreadMoves ==
    ASSUME ThreadTypes, files \in Nat, files' \in Nat, files <= files', Len(conn) \in Nat, Len(conn') \in Nat,
           Len(conn) <= Len(conn'), NEW t \in Thread, NEW p, NEW r, Goto(t, p, r),
           p \in {"idle", "next", "gone"} => Fits(t, p, Idle)', p \notin {"idle", "next", "gone"} => Fits(t, p, r)'
    PROVE  ThreadTypes'
<1> DEFINE q == IF p \in {"idle", "next", "gone"} THEN Idle ELSE r
<1>1. /\ pc' = [pc EXCEPT ![t] = p] /\ reg' = [reg EXCEPT ![t] = q] /\ Fits(t, p, q)'
  BY DEF Goto
<1>2. p \in Place /\ q \in Register
  BY <1>1 DEF Fits
<1> HIDE DEF q
<1>3. pc' \in [Thread -> Place] /\ reg' \in [Thread -> Register]
  BY <1>1, <1>2 DEF ThreadTypes
<1>4. ASSUME NEW u \in Thread, u # t PROVE Fits(u, pc[u], reg[u])'
  <2>1. pc'[u] = pc[u] /\ reg'[u] = reg[u] /\ Fits(u, pc[u], reg[u]) /\ reg[u] \in Register
    BY <1>1, <1>4 DEF ThreadTypes
  <2> QED
    BY <2>1 DEF Fits, Register
<1>5. pc'[t] = p /\ reg'[t] = q
  BY <1>1 DEF ThreadTypes
<1> QED
  BY <1>1, <1>3, <1>4, <1>5 DEF ThreadTypes

\* At first there is nothing to disagree about.
LEMMA EngineInit0 == Init => EngineInv
<1> SUFFICES ASSUME Init PROVE EngineInv
  OBVIOUS
<1>0. /\ files \in 0 .. MaxFiles /\ file \in [Fd -> 0 .. files] /\ type \in [1 .. MaxFiles -> Kind]
      /\ conns \in [Fd -> 0 .. Len(conn)] /\ conn \in Seq(Conn) /\ DOMAIN conn = {} /\ Len(conn) = 0
  BY EngineAssumption DEF Init, Kind
<1>a. MaxConns \in Nat
  BY EngineAssumption
<1>b. KernelTypes
  BY <1>0 DEF Init, KernelTypes
<1>c. TableTypes
  BY <1>0, <1>a DEF Init, TableTypes
<1>1. KernelTypes /\ TableTypes
  BY <1>b, <1>c
<1>2. \A t \in Thread : Fits(t, "idle", Idle)
  BY <1>1, IdleFits
<1>3. \A t \in Thread : pc[t] = "idle" /\ reg[t] = Idle
  BY DEF Init
<1>4. ThreadTypes
  BY <1>2, <1>3 DEF Init, ThreadTypes, Fits, Place
<1>5. Idle.fd = 0 /\ Idle.conn = 0 /\ Idle.bind = FALSE /\ Idle.found = 0
  BY DEF Idle
<1>6. Socket \in Thread
  BY DEF Thread
<1>7. Agree
  BY <1>3, <1>5, <1>6 DEF Init, Agree, Fresh, Entries, Registered, Marked, Remembered, Kept, Sweeping, Outside
<1> QED
  BY <1>1, <1>4, <1>7 DEF Init, EngineInv, EngineTypes, OneNumber

\* What a thread may remember of the entry it found.
Recalls(r) ==
    /\ r.conn # 0 /\ Outside(FileOf(r.conn)) => file[r.fd] = FileOf(r.conn)
    /\ r.bind => r.conn # 0 /\ conn[r.conn].isBind
    /\ Outside(r.found) => r.bind

\* A step on which only one thread moves, to a place where it has a bound socket in
\* its hands or none, and from one where nothing depended on it.
LEMMA QuietStep ==
    ASSUME EngineTypes, Agree, NEW t \in Thread, NEW p, NEW r \in Register, Goto(t, p, r),
           UNCHANGED <<kernel, table, given>>,
           pc[t] \notin {"add", "mark", "event", "remove", "close"}, p \notin {"mark", "event", "close"},
           p = "add" => r.type = "outside" /\ file[r.fd] = r.file /\ Outside(r.file),
           \A n \in Fd : conns[n] # 0 /\ file[n] \in epoll => file[n] \in epoll' \/ (p = "remove" /\ r.fd = n),
           Recalls(r),
           \/ r.file = 0 \/ r.file = reg[t].file
           \/ \E h \in given : r.file = h[2]
           \/ \E c \in DOMAIN conn : r.file = conn[c].file
    PROVE  Fresh' /\ Entries' /\ Registered' /\ Marked' /\ Remembered' /\ Kept'
<1> DEFINE q == IF p \in {"idle", "next", "gone"} THEN Idle ELSE r
<1>1. /\ pc' = [pc EXCEPT ![t] = p] /\ reg' = [reg EXCEPT ![t] = q]
  BY DEF Goto
<1>2. /\ pc'[t] = p /\ reg'[t] = q /\ \A u \in Thread : u # t => pc'[u] = pc[u] /\ reg'[u] = reg[u]
  BY <1>1 DEF EngineTypes, ThreadTypes
<1>3. Idle.file = 0 /\ Idle.conn = 0 /\ Idle.bind = FALSE /\ Idle.found = 0
  BY DEF Idle
<1>4. /\ file' = file /\ files' = files /\ type' = type /\ leaked' = leaked /\ conn' = conn /\ conns' = conns
      /\ given' = given
  BY DEF kernel, table
<1>5. \A f : Outside(f)' <=> Outside(f)
  BY <1>4 DEF Outside
<1>6. \A c : FileOf(c)' = FileOf(c)
  BY <1>4 DEF FileOf
<1>7. p \in {"add", "remove"} => q = r
  OBVIOUS
<1>8. q.file = 0 \/ q.file = r.file
  BY <1>3
<1>9. \A u \in Thread : pc[u] = "add" => reg[u].file # 0
  BY DEF EngineTypes, ThreadTypes, Fits
<1>10. Recalls(q)
  BY <1>3 DEF Recalls, Outside
<1> HIDE DEF q
<1>11. Fresh'
  <2>1. ASSUME NEW u \in Thread, pc'[u] = "add"
        PROVE file'[reg'[u].fd] = reg'[u].file /\ type'[reg'[u].file] = reg'[u].type
    BY <2>1, <1>2, <1>4, <1>7 DEF Agree, Fresh, Outside
  <2>2. ASSUME NEW u \in Thread, pc'[u] = "add", reg'[u].type # "outside"
        PROVE  /\ \A h \in given : h[2] # reg'[u].file
               /\ \A c \in DOMAIN conn : conn[c].file # reg'[u].file
               /\ \A v \in Thread \ {u} : reg'[v].file # reg'[u].file
    <3>1. u # t
      BY <2>2, <1>2, <1>7
    <3>2. /\ reg'[u] = reg[u] /\ pc[u] = "add" /\ reg[u].file # 0
          /\ \A h \in given : h[2] # reg[u].file
          /\ \A c \in DOMAIN conn : conn[c].file # reg[u].file
          /\ \A v \in Thread \ {u} : reg[v].file # reg[u].file
      BY <2>2, <3>1, <1>2, <1>9 DEF Agree, Fresh
    <3>3. q.file # reg[u].file
      BY <3>1, <3>2, <1>8
    <3> QED
      BY <3>1, <3>2, <3>3, <1>2
  <2>3. ASSUME NEW u \in Thread, pc'[u] = "mark" PROVE Outside(reg'[u].file)
    BY <2>3, <1>2 DEF Agree, Fresh
  <2> QED
    BY <2>1, <2>2, <2>3, <1>4, <1>5 DEF Fresh
<1>12. Entries'
  BY <1>2, <1>4, <1>5, <1>6 DEF Agree, Entries
<1>13. Registered'
  BY <1>2, <1>4, <1>7 DEF Agree, Registered
<1>14. Marked'
  BY <1>2, <1>4, <1>5 DEF Agree, Marked
<1>15. Remembered'
  BY <1>2, <1>4, <1>5, <1>6, <1>10 DEF Agree, Remembered, Recalls
<1>16. Kept'
  BY <1>2, <1>4, <1>5 DEF Agree, Kept
<1> QED
  BY <1>11, <1>12, <1>13, <1>14, <1>15, <1>16

\* GetConn returns what may be remembered.
Got(g, r, n) ==
    /\ g \in Register /\ Recalls(g) /\ g.fd = n /\ g.file = r.file /\ g.after = r.after
    /\ g.conn <= Len(conn) /\ g.found <= files
\* Whether the number is free, is being marked or has its entry.
LEMMA GetConnRecalls ==
    ASSUME EngineTypes, Agree, NEW r \in Register, NEW n \in Fd, NEW early \in BOOLEAN, r.file <= files
    PROVE  Got(GetConn(r, n, early), r, n)
<1> DEFINE g == GetConn(r, n, early)
           c == conns[n]
           marking == \E u \in Thread : pc[u] = "mark" /\ reg[u].fd = n
<1>1. c \in 0 .. Len(conn) /\ Len(conn) \in Nat /\ Len(conn) <= MaxConns /\ files \in Nat /\ files <= MaxFiles
      /\ MaxConns \in Nat /\ MaxFiles \in Nat
  BY EngineAssumption DEF EngineTypes, TableTypes, KernelTypes
<1>2. c # 0 => c \in DOMAIN conn /\ conn[c] \in Conn /\ conn[c].file <= files
  BY <1>1 DEF EngineTypes, TableTypes
<1>3. FileOf(c) \in 0 .. files /\ (c # 0 => FileOf(c) = conn[c].file)
  BY <1>1, <1>2 DEF FileOf, Conn
<1>4. g = [r EXCEPT !.fd = n, !.conn = c, !.early = early, !.bind = (c # 0 /\ conn[c].isBind),
                    !.found = IF marking THEN 0 ELSE FileOf(c)]
  BY DEF GetConn
<1>5. (c # 0 /\ conn[c].isBind) \in BOOLEAN
  <2>1. (c # 0 /\ conn[c].isBind) = TRUE \/ (c # 0 /\ conn[c].isBind) = FALSE
    OBVIOUS
  <2> QED
    BY <2>1
<1> HIDE DEF g
<1>6. /\ g.fd = n /\ g.conn = c /\ (g.bind <=> c # 0 /\ conn[c].isBind) /\ g.file = r.file /\ g.after = r.after
      /\ g.found = IF marking THEN 0 ELSE FileOf(c)
  BY <1>4 DEF Register
<1>7. g \in Register
  <2> DEFINE b == c # 0 /\ conn[c].isBind
             f == IF marking THEN 0 ELSE FileOf(c)
  <2>1. c \in 0 .. MaxConns /\ b \in BOOLEAN /\ f \in 0 .. MaxFiles
    BY <1>1, <1>3, <1>5
  <2>2. g = [r EXCEPT !.fd = n, !.conn = c, !.early = early, !.bind = b, !.found = f]
    BY <1>4
  <2> HIDE DEF c, b, f
  <2> QED
    BY <2>1, <2>2 DEF Register
<1>8. c # 0 => FileOf(c) = file[n]
  BY DEF Agree, Entries
<1>9. Recalls(g)
  <2>1. ASSUME Outside(g.found) PROVE g.bind
    <3>1. ~marking /\ Outside(FileOf(c)) /\ c # 0
      BY <2>1, <1>6 DEF Outside, FileOf
    <3> QED
      BY <3>1, <1>6, <1>8 DEF Agree, Marked
  <2> QED
    BY <2>1, <1>6, <1>8 DEF Recalls
<1> QED
  BY <1>1, <1>3, <1>6, <1>7, <1>9 DEF Got, g

\* Such a step keeps the invariant, if it does not upset what CloseAll goes through.
LEMMA QuietKeeps ==
    ASSUME EngineInv, ~astray, NEW t \in Thread, NEW p, NEW r \in Register, Goto(t, p, r), Fits(t, p, r),
           UNCHANGED <<kernel, table, given>>,
           epoll' \subseteq epoll, closing' \subseteq Fd, swept' \subseteq 1 .. files, astray' \in BOOLEAN,
           pc[t] \notin {"add", "mark", "event", "remove", "close"}, p \notin {"mark", "event", "close"},
           p = "add" => r.type = "outside" /\ file[r.fd] = r.file /\ Outside(r.file),
           \A n \in Fd : conns[n] # 0 /\ file[n] \in epoll => file[n] \in epoll' \/ (p = "remove" /\ r.fd = n),
           Recalls(r),
           \/ r.file = 0 \/ r.file = reg[t].file
           \/ \E h \in given : r.file = h[2]
           \/ \E c \in DOMAIN conn : r.file = conn[c].file,
           ~astray' => Sweeping'
    PROVE  EngineInv'
<1>1. EngineTypes /\ Agree /\ OneNumber
  BY DEF EngineInv
<1>2. /\ file' = file /\ files' = files /\ type' = type /\ leaked' = leaked /\ conn' = conn /\ conns' = conns
      /\ given' = given
  BY DEF kernel, table
<1>3. KernelTypes' /\ TableTypes'
  BY <1>1, <1>2 DEF EngineTypes, KernelTypes, TableTypes
<1>4. Fits(t, p, r)'
  BY <1>2 DEF Fits
<1>5. p \in {"idle", "next", "gone"} => Fits(t, p, Idle)'
  <2>1. p # "idle" /\ p \in {"next", "gone"} => t = Socket
    BY DEF Fits
  <2>2. p \in {"idle", "next", "gone"} => Fits(t, p, Idle)
    BY <2>1, <1>1, IdleFits DEF EngineTypes
  <2> QED
    BY <2>2, <1>2 DEF Fits
<1>6. files \in Nat /\ Len(conn) \in Nat
  BY <1>1 DEF EngineTypes, KernelTypes, TableTypes
<1>7. ThreadTypes'
  BY <1>1, <1>2, <1>4, <1>5, <1>6, ThreadMoves DEF EngineTypes
<1>8. Fresh' /\ Entries' /\ Registered' /\ Marked' /\ Remembered' /\ Kept'
  BY <1>1, QuietStep
<1>9. OneNumber'
  BY <1>1, <1>2 DEF OneNumber
<1> QED
  BY <1>3, <1>7, <1>8, <1>9 DEF EngineInv, EngineTypes, Agree

\* CloseAll's list is not upset by a thread that was not closing.
LEMMA SweepingKept ==
    ASSUME EngineTypes, Agree, NEW t \in Thread, NEW p, NEW r, Goto(t, p, r), UNCHANGED <<file, type, exit>>,
           pc[t] \notin {"remove", "close"}, p = "gone" => closing = {}
    PROVE  Sweeping'
<1>1. /\ pc'[t] = p /\ \A u \in Thread : u # t => pc'[u] = pc[u] /\ reg'[u] = reg[u]
  BY DEF Goto, EngineTypes, ThreadTypes
<1>2. Socket \in Thread
  BY DEF Thread
<1>3. closing' = closing /\ swept' = swept
  BY DEF exit
<1>4. \A f : Outside(f)' <=> Outside(f)
  BY DEF Outside
<1>5. Socket = t => \A n \in Fd : file[n] \in swept /\ ~Outside(file[n]) => n \in closing
  BY DEF Agree, Sweeping
<1> QED
  BY <1>1, <1>2, <1>3, <1>4, <1>5 DEF Agree, Sweeping

\* Bind, with a socket that was made outside in its hands.
LEMMA BindKeeps ==
    ASSUME EngineInv, ~astray, NEW t \in Worker, NEW h \in given, Bind(t, h)
    PROVE  EngineInv'
<1> DEFINE r == Opening(h[1], h[2], "outside")
<1>1. EngineTypes /\ Agree /\ t \in Thread
  BY DEF EngineInv, Thread
<1>2. h[1] \in Fd /\ h[2] \in 1 .. files /\ files \in 0 .. MaxFiles /\ MaxFiles \in Nat
  BY <1>1, EngineAssumption DEF EngineTypes, KernelTypes
<1>3. h[2] \in 0 .. MaxFiles /\ "outside" \in Kind
  BY <1>2 DEF Kind
<1>4. IsOpening(r, h[1], h[2], "outside")
  BY <1>2, <1>3, OpeningTyped, Zenon
<1>5. /\ pc[t] = "idle" /\ Outside(h[2]) /\ file[h[1]] = h[2] /\ Goto(t, "add", r)
      /\ UNCHANGED <<kernel, epoll, table, given, closing, swept, astray>>
  BY DEF Bind, Opening, rest, exit
<1> HIDE DEF r
<1>6. Fits(t, "add", r) /\ Recalls(r) /\ r \in Register /\ r.type = "outside" /\ r.fd = h[1] /\ r.file = h[2]
  BY <1>1, <1>2, <1>4, EngineAssumption DEF IsOpening, Fits, Recalls, Outside, Place, EngineTypes, TableTypes
<1>7. Sweeping'
  BY <1>1, <1>5, SweepingKept DEF kernel, exit
<1>8. closing \subseteq Fd /\ swept \subseteq 1 .. files /\ astray \in BOOLEAN
  BY <1>1 DEF EngineTypes, KernelTypes
<1> QED
  BY <1>1, <1>5, <1>6, <1>7, <1>8, QuietKeeps

\* CloseConn and LingerClose, with what GetConn returned.
LEMMA CloseConnKeeps ==
    ASSUME EngineInv, ~astray, NEW t \in Worker, NEW h \in given, NEW linger \in BOOLEAN, CloseConn(t, h, linger)
    PROVE  EngineInv'
<1> DEFINE r == Closing(h[2], IF linger THEN "del" ELSE "idle")
           g == GetConn(r, h[1], ~linger)
<1>1. EngineTypes /\ Agree /\ t \in Thread /\ (~linger) \in BOOLEAN
  BY DEF EngineInv, Thread
<1>2. h[1] \in Fd /\ h[2] \in 1 .. files /\ files \in 0 .. MaxFiles /\ MaxFiles \in Nat
  BY <1>1, EngineAssumption DEF EngineTypes, KernelTypes
<1>3. r \in Register /\ r.file = h[2] /\ r.after \in {"del", "idle"}
  <2> DEFINE a == IF linger THEN "del" ELSE "idle"
  <2>1. h[2] \in 0 .. MaxFiles /\ a \in {"idle", "del", "next"} /\ a # "next"
    BY <1>2
  <2>2. IsClosing(r, h[2], a)
    BY <2>1, ClosingTyped, Zenon
  <2> HIDE DEF r, a
  <2> QED
    BY <2>1, <2>2 DEF IsClosing
<1>4. /\ pc[t] = "idle" /\ Goto(t, "remove", g)
      /\ UNCHANGED <<kernel, epoll, table, given, closing, swept, astray>>
  BY DEF CloseConn, Closing, rest, exit
<1> HIDE DEF r
<1>5. Got(g, r, h[1])
  <2>1. r.file <= files
    BY <1>2, <1>3
  <2> QED
    BY <2>1, <1>1, <1>2, <1>3, GetConnRecalls, Zenon
<1> HIDE DEF g
<1>6. Fits(t, "remove", g)
  BY <1>2, <1>3, <1>5 DEF Got, Fits, Place
<1>7. Sweeping'
  BY <1>1, <1>4, SweepingKept DEF kernel, exit
<1>8. closing \subseteq Fd /\ swept \subseteq 1 .. files /\ astray \in BOOLEAN
  BY <1>1 DEF EngineTypes, KernelTypes
<1> QED
  BY <1>1, <1>3, <1>4, <1>5, <1>6, <1>7, <1>8, QuietKeeps DEF Got

\* An entry stands for a socket that was made.
LEMMA FileOfTyped ==
    ASSUME EngineTypes, NEW n \in Fd
    PROVE  /\ FileOf(conns[n]) \in 0 .. files /\ FileOf(conns[n]) \in 0 .. MaxFiles
           /\ conns[n] # 0 => conns[n] \in DOMAIN conn /\ FileOf(conns[n]) = conn[conns[n]].file
                              /\ FileOf(conns[n]) # 0
           /\ conns[n] = 0 => FileOf(conns[n]) = 0
<1>1. /\ conns[n] \in 0 .. Len(conn) /\ Len(conn) \in Nat /\ files \in Nat /\ files <= MaxFiles /\ MaxFiles \in Nat
      /\ conn \in Seq(Conn)
  BY EngineAssumption DEF EngineTypes, TableTypes, KernelTypes
<1>2. conns[n] # 0 => conns[n] \in DOMAIN conn /\ conn[conns[n]] \in Conn /\ conn[conns[n]].file <= files
  BY <1>1 DEF EngineTypes, TableTypes
<1> QED
  BY <1>1, <1>2 DEF FileOf, Conn

\* The socket thread's steps that close nothing.
LEMMA SocketWaitKeeps ==
    ASSUME EngineInv, ~astray, NEW n \in Fd, EpollWait(n)
    PROVE  EngineInv'
<1> DEFINE r == [Idle EXCEPT !.fd = n]
<1>1. EngineTypes /\ Agree /\ Socket \in Thread
  BY DEF EngineInv, Thread
<1>2. Idle \in Register
  BY EngineAssumption DEF Idle, Register, Kind
<1>3. Idle.file = 0 /\ Idle.conn = 0 /\ Idle.found = 0 /\ Idle.bind = FALSE /\ Idle.after = "idle"
  BY DEF Idle
<1>4. /\ r \in Register /\ r.file = 0 /\ r.conn = 0 /\ r.found = 0 /\ r.bind = FALSE /\ r.fd = n
      /\ r.after = "idle"
  BY <1>2, <1>3 DEF Register
<1>5. /\ pc[Socket] = "idle" /\ Goto(Socket, "onevent", r)
      /\ UNCHANGED <<kernel, epoll, table, given, closing, swept, astray>>
  BY DEF EpollWait, rest, exit
<1> HIDE DEF r
<1>6. Fits(Socket, "onevent", r) /\ Recalls(r)
  BY <1>1, <1>4 DEF Fits, Recalls, Outside, Place, EngineTypes, TableTypes, KernelTypes
<1>7. Sweeping'
  BY <1>1, <1>5, SweepingKept DEF kernel, exit
<1>8. closing \subseteq Fd /\ swept \subseteq 1 .. files /\ astray \in BOOLEAN
  BY <1>1 DEF EngineTypes, KernelTypes
<1> QED
  BY <1>1, <1>4, <1>5, <1>6, <1>7, <1>8, QuietKeeps

\* OnEvent: what it remembers of the connection is what it found.
LEMMA OnEventKeeps ==
    ASSUME EngineInv, ~astray, OnEvent
    PROVE  EngineInv'
<1> DEFINE n == reg[Socket].fd
           r == [Idle EXCEPT !.file = FileOf(conns[n])]
           g == GetConn(r, n, FALSE)
<1>1. EngineTypes /\ Agree /\ Socket \in Thread
  BY DEF EngineInv, Thread
<1>2. n \in Fd
  BY <1>1 DEF OnEvent, EngineTypes, ThreadTypes, Fits
<1>3. /\ FileOf(conns[n]) \in 0 .. MaxFiles /\ FileOf(conns[n]) <= files
      /\ FileOf(conns[n]) = 0 \/ \E c \in DOMAIN conn : FileOf(conns[n]) = conn[c].file
  BY <1>1, <1>2, FileOfTyped DEF EngineTypes, KernelTypes
<1>4. Idle \in Register /\ Idle.after = "idle"
  BY EngineAssumption DEF Idle, Register, Kind
<1>5. r \in Register /\ r.file = FileOf(conns[n]) /\ r.after = "idle"
  BY <1>3, <1>4 DEF Register
<1>6. PICK p \in {"idle", "accept", "read"} :
        /\ pc[Socket] = "onevent" /\ Goto(Socket, p, g)
        /\ UNCHANGED <<kernel, epoll, table, given, closing, swept, astray>>
  BY DEF OnEvent, rest, exit
<1> HIDE DEF r
<1>7. Got(g, r, n)
  <2>1. r.file <= files /\ FALSE \in BOOLEAN
    BY <1>3, <1>5
  <2> QED
    BY <2>1, <1>1, <1>2, <1>5, GetConnRecalls, Zenon
<1> HIDE DEF n, g
<1>8. Fits(Socket, p, g)
  BY <1>2, <1>3, <1>5, <1>7 DEF Got, Fits, Place
<1>9. Sweeping'
  BY <1>1, <1>6, SweepingKept DEF kernel, exit
<1>10. closing \subseteq Fd /\ swept \subseteq 1 .. files /\ astray \in BOOLEAN
  BY <1>1 DEF EngineTypes, KernelTypes
<1> QED
  BY <1>1, <1>3, <1>5, <1>6, <1>7, <1>8, <1>9, <1>10, QuietKeeps DEF Got

\* The socket thread ends what it was doing, or has left.
LEMMA SocketIdleKeeps ==
    ASSUME EngineInv, ~astray, NEW p \in {"idle", "gone"}, Goto(Socket, p, Idle),
           pc[Socket] \in {"accept", "read", "next"}, p = "gone" => closing = {}, astray' \in BOOLEAN,
           UNCHANGED <<kernel, epoll, table, rest>>
    PROVE  EngineInv'
<1>1. EngineTypes /\ Agree /\ Socket \in Thread
  BY DEF EngineInv, Thread
<1>2. /\ Idle \in Register /\ Idle.file = 0 /\ Idle.conn = 0 /\ Idle.found = 0 /\ Idle.bind = FALSE
  BY EngineAssumption DEF Idle, Register, Kind
<1>3. Fits(Socket, p, Idle)
  BY <1>1, IdleFits DEF EngineTypes
<1>4. Recalls(Idle)
  BY <1>2 DEF Recalls, Outside
<1>5. Sweeping'
  BY <1>1, SweepingKept DEF kernel, exit, rest
<1>6. /\ closing' \subseteq Fd /\ swept' \subseteq 1 .. files /\ UNCHANGED <<kernel, epoll, table, given>>
  BY <1>1 DEF EngineTypes, KernelTypes, rest, exit
<1> QED
  BY <1>1, <1>2, <1>3, <1>4, <1>5, <1>6, QuietKeeps

\* ReadData: goes back to wait, or on to remove the connection it read.
LEMMA ReadDataKeeps ==
    ASSUME EngineInv, ~astray, ReadData
    PROVE  EngineInv'
<1> DEFINE r == [reg[Socket] EXCEPT !.after = "del"]
<1>1. EngineTypes /\ Agree /\ Socket \in Thread
  BY DEF EngineInv, Thread
<1>2. /\ pc[Socket] = "read" /\ astray' \in BOOLEAN /\ UNCHANGED <<kernel, epoll, table, rest>>
  BY DEF ReadData, Meets
<1>3. CASE Goto(Socket, "idle", Idle)
  BY <1>2, <1>3, SocketIdleKeeps
<1>4. CASE Goto(Socket, "remove", r)
  <2>1. reg[Socket] \in Register /\ Fits(Socket, "read", reg[Socket]) /\ Recalls(reg[Socket])
    BY <1>1, <1>2 DEF EngineTypes, ThreadTypes, Agree, Remembered, Recalls
  <2>2. /\ r \in Register /\ r.fd = reg[Socket].fd /\ r.file = reg[Socket].file /\ r.conn = reg[Socket].conn
        /\ r.bind = reg[Socket].bind /\ r.found = reg[Socket].found /\ r.after = "del"
    BY <2>1 DEF Register
  <2> HIDE DEF r
  <2>3. Fits(Socket, "remove", r) /\ Recalls(r)
    BY <2>1, <2>2 DEF Fits, Place, Recalls
  <2>4. Sweeping'
    BY <1>1, <1>2, <1>4, SweepingKept DEF kernel, exit, rest
  <2>5. /\ closing' \subseteq Fd /\ swept' \subseteq 1 .. files /\ UNCHANGED <<kernel, epoll, table, given>>
    BY <1>1, <1>2 DEF EngineTypes, KernelTypes, rest, exit
  <2> QED
    BY <1>1, <1>2, <1>4, <2>2, <2>3, <2>4, <2>5, QuietKeeps
<1> QED
  BY <1>3, <1>4 DEF ReadData

\* CloseAll's list has every number with an entry, and the sockets behind them.
LEMMA CloseAllKeeps ==
    ASSUME EngineInv, ~astray, CloseAll
    PROVE  EngineInv'
<1>1. EngineTypes /\ Agree /\ OneNumber /\ Socket \in Thread
  BY DEF EngineInv, Thread
<1>2. /\ pc[Socket] = "idle" /\ closing' = {n \in Fd : conns[n] # 0}
      /\ swept' = {FileOf(conns[n]) : n \in closing'} /\ Goto(Socket, "next", Idle)
      /\ UNCHANGED <<kernel, epoll, table, given, astray>>
  BY DEF CloseAll
<1>3. /\ Idle \in Register /\ Idle.file = 0 /\ Idle.conn = 0 /\ Idle.found = 0 /\ Idle.bind = FALSE
  BY EngineAssumption DEF Idle, Register, Kind
<1>4. Fits(Socket, "next", Idle)
  BY <1>1, IdleFits DEF EngineTypes
<1>5. Recalls(Idle)
  BY <1>3 DEF Recalls, Outside
<1>6. \A n \in closing' : n \in Fd /\ FileOf(conns[n]) = file[n] /\ file[n] # 0 /\ file[n] \in 1 .. files
  <2> SUFFICES ASSUME NEW n \in Fd, conns[n] # 0
               PROVE  FileOf(conns[n]) = file[n] /\ file[n] # 0 /\ file[n] \in 1 .. files
    BY <1>2
  <2>1. FileOf(conns[n]) = file[n] /\ FileOf(conns[n]) # 0 /\ FileOf(conns[n]) \in 0 .. files /\ files \in Nat
    BY <1>1, FileOfTyped DEF Agree, Entries, EngineTypes, KernelTypes
  <2> QED
    BY <2>1
<1>7. swept' \subseteq 1 .. files /\ closing' \subseteq Fd
  BY <1>2, <1>6
<1>8. \A n \in Fd : file[n] \in swept' => n \in closing'
  <2> SUFFICES ASSUME NEW n \in Fd, file[n] \in swept' PROVE n \in closing'
    OBVIOUS
  <2>1. PICK m \in closing' : file[n] = FileOf(conns[m])
    BY <1>2
  <2>2. file[n] = file[m] /\ file[n] # 0 /\ m \in Fd
    BY <2>1, <1>6
  <2>3. n = m
    BY <2>2, <1>1 DEF OneNumber
  <2> QED
    BY <2>3
<1>9. pc'[Socket] = "next"
  BY <1>1, <1>2 DEF Goto, EngineTypes, ThreadTypes
<1>10. Sweeping'
  BY <1>2, <1>8, <1>9 DEF Sweeping, kernel
<1>11. astray' \in BOOLEAN
  BY <1>1, <1>2 DEF EngineTypes, KernelTypes
<1> QED
  BY <1>1, <1>2, <1>3, <1>4, <1>5, <1>7, <1>10, <1>11, QuietKeeps

\* The number CloseAll goes on with is being closed when it is off the list.
LEMMA CloseNextKeeps ==
    ASSUME EngineInv, ~astray, NEW n \in Fd, CloseNext(n)
    PROVE  EngineInv'
<1> DEFINE f == FileOf(conns[n])
           r == Closing(f, "next")
           g == GetConn(r, n, TRUE)
<1>1. EngineTypes /\ Agree /\ OneNumber /\ Socket \in Thread
  BY DEF EngineInv, Thread
<1>2. /\ f \in 0 .. MaxFiles /\ f <= files /\ "next" \in {"idle", "del", "next"} /\ TRUE \in BOOLEAN
      /\ f = 0 \/ \E c \in DOMAIN conn : f = conn[c].file
  BY <1>1, FileOfTyped DEF EngineTypes, KernelTypes
<1>3. /\ pc[Socket] = "next" /\ n \in closing /\ closing' = closing \ {n} /\ epoll' = epoll \ {file[n]}
      /\ Goto(Socket, "remove", g) /\ UNCHANGED <<kernel, table, given, swept, astray>>
  BY DEF CloseNext, Closing
<1> HIDE DEF f
<1>4. IsClosing(r, f, "next")
  BY <1>2, ClosingTyped, Zenon
<1> HIDE DEF r
<1>5. r \in Register /\ r.file = f /\ r.file <= files /\ r.after = "next"
  BY <1>2, <1>4 DEF IsClosing
<1>6. Got(g, r, n)
  BY <1>1, <1>2, <1>5, GetConnRecalls, Zenon
<1> HIDE DEF g
<1>7. Fits(Socket, "remove", g)
  BY <1>2, <1>5, <1>6 DEF Got, Fits, Place
<1>8. pc'[Socket] = "remove" /\ reg'[Socket] = g /\ g.fd = n
  BY <1>1, <1>3, <1>6 DEF Goto, EngineTypes, ThreadTypes, Got
<1>9. \A m \in Fd : file[m] \in swept /\ ~Outside(file[m]) => m \in closing
  BY <1>1, <1>3 DEF Agree, Sweeping
<1>10. Sweeping'
  BY <1>3, <1>8, <1>9 DEF Sweeping, kernel, Outside
<1>11. \A m \in Fd : file[m] \in epoll => file[m] \in epoll' \/ n = m
  BY <1>1, <1>3 DEF OneNumber, EngineTypes, KernelTypes
<1>12. closing' \subseteq Fd /\ swept' \subseteq 1 .. files /\ astray' \in BOOLEAN /\ epoll' \subseteq epoll
  BY <1>1, <1>3 DEF EngineTypes, KernelTypes
<1> QED
  BY <1>1, <1>2, <1>3, <1>5, <1>6, <1>7, <1>10, <1>11, <1>12, QuietKeeps DEF Got

-----------------------------------------------------------------------------
(* Engine: the steps that make a socket *)

\* A new socket disturbs nobody: its number was free and had no entry, and no thread,
\* service or list has heard of it.
LEMMA NewSocketTypes ==
    ASSUME EngineTypes, OneNumber, NEW n \in Fd, NEW kind \in Kind, NewSocket(n, kind)
    PROVE  /\ files' = files + 1 /\ files + 1 \in 1 .. MaxFiles /\ files \in Nat
           /\ file'[n] = files + 1 /\ \A m \in Fd : m # n => file'[m] = file[m]
           /\ file' \in [Fd -> 0 .. files'] /\ type' \in [1 .. MaxFiles -> Kind] /\ type'[files + 1] = kind
           /\ \A f \in 0 .. files : Outside(f)' <=> Outside(f)
           /\ \A f : f = files + 1 => (Outside(f)' <=> kind = "outside")
           /\ \A f \in 0 .. files : f # 0 => type'[f] = type[f]
           /\ epoll \subseteq {file'[m] : m \in Fd} \ {0}
           /\ OneNumber'
<1>1. /\ files < MaxFiles /\ file[n] = 0 /\ files' = files + 1
      /\ file' = [file EXCEPT ![n] = files + 1] /\ type' = [type EXCEPT ![files + 1] = kind]
  BY DEF NewSocket
<1>2. /\ files \in Nat /\ MaxFiles \in Nat /\ file \in [Fd -> 0 .. files] /\ type \in [1 .. MaxFiles -> Kind]
      /\ epoll \subseteq {file[m] : m \in Fd} \ {0}
  BY EngineAssumption DEF EngineTypes, KernelTypes
<1>3. files + 1 \in 1 .. MaxFiles
  BY <1>1, <1>2
<1>4. file'[n] = files + 1 /\ \A m \in Fd : m # n => file'[m] = file[m]
  BY <1>1, <1>2
<1>5. file' \in [Fd -> 0 .. files'] /\ type' \in [1 .. MaxFiles -> Kind] /\ type'[files + 1] = kind
  BY <1>1, <1>2, <1>3
<1>6. \A f \in 0 .. files : f # 0 => type'[f] = type[f]
  BY <1>1, <1>2
<1>7. \A f \in 0 .. files : Outside(f)' <=> Outside(f)
  BY <1>6 DEF Outside
<1>8. \A f : f = files + 1 => (Outside(f)' <=> kind = "outside")
  BY <1>2, <1>5 DEF Outside
<1>9. epoll \subseteq {file'[m] : m \in Fd} \ {0}
  <2> SUFFICES ASSUME NEW e \in epoll PROVE e # 0 /\ \E m \in Fd : e = file'[m]
    OBVIOUS
  <2>1. PICK m \in Fd : e = file[m] /\ e # 0
    BY <1>2
  <2> QED
    BY <2>1, <1>1, <1>4
<1>10. OneNumber'
  <2> SUFFICES ASSUME NEW m \in Fd, NEW k \in Fd, file'[m] = file'[k], file'[m] # 0 PROVE m = k
    BY DEF OneNumber
  <2>1. \A j \in Fd : file[j] # files + 1
    BY <1>2
  <2> QED
    BY <2>1, <1>4 DEF OneNumber
<1> QED
  BY <1>1, <1>2, <1>3, <1>4, <1>5, <1>6, <1>7, <1>8, <1>9, <1>10

\* The sockets of the threads, the entries and the services are older than a new one.
LEMMA Older ==
    ASSUME EngineTypes
    PROVE  /\ \A m \in Fd : file[m] \in 0 .. files
           /\ \A h \in given : h[2] \in 0 .. files
           /\ \A c \in DOMAIN conn : conn[c].file \in 0 .. files
           /\ \A t \in Thread : /\ reg[t].file \in 0 .. files /\ reg[t].found \in 0 .. files
                                /\ FileOf(reg[t].conn) \in 0 .. files
                                /\ reg[t].conn # 0 => reg[t].conn \in DOMAIN conn
           /\ \A f \in swept : f \in 0 .. files
           /\ 0 \in 0 .. files /\ files + 1 \notin 0 .. files
<1>1. files \in Nat /\ Len(conn) \in Nat /\ conn \in Seq(Conn) /\ \A c \in DOMAIN conn : conn[c].file <= files
  BY DEF EngineTypes, KernelTypes, TableTypes
<1>2. \A c \in DOMAIN conn : conn[c].file \in 0 .. files
  <2>1. \A c \in DOMAIN conn : conn[c] \in Conn
    BY <1>1
  <2> QED
    BY <2>1, <1>1 DEF Conn
<1>3. ASSUME NEW t \in Thread
      PROVE  /\ reg[t].file \in 0 .. files /\ reg[t].found \in 0 .. files
             /\ FileOf(reg[t].conn) \in 0 .. files /\ (reg[t].conn # 0 => reg[t].conn \in DOMAIN conn)
  <2>1. /\ reg[t].file \in Nat /\ reg[t].file <= files /\ reg[t].found \in Nat /\ reg[t].found <= files
        /\ reg[t].conn \in Nat /\ reg[t].conn <= Len(conn)
    BY <1>1, EngineAssumption DEF EngineTypes, ThreadTypes, Fits, Register
  <2>2. reg[t].conn # 0 => reg[t].conn \in DOMAIN conn
    BY <2>1, <1>1
  <2> QED
    BY <2>1, <2>2, <1>1, <1>2 DEF FileOf
<1>4. /\ \A m \in Fd : file[m] \in 0 .. files
      /\ \A h \in given : h[2] \in 0 .. files
      /\ \A f \in swept : f \in 0 .. files
  BY <1>1 DEF EngineTypes, KernelTypes
<1> QED
  BY <1>1, <1>2, <1>3, <1>4

\* The tables agree about a new socket: the thread that begins to open it (T has one
\* or none) has it in its hands, or it is leaked, or somebody else's.
LEMMA NewSocketAgrees ==
    ASSUME EngineTypes, Agree, OneNumber, NEW n \in Fd, NEW kind \in Kind, NewSocket(n, kind),
           UNCHANGED <<epoll, table, exit>>, leaked \subseteq leaked',
           \A h \in given' : h \in given \/ h[2] = files + 1,
           NEW T \in SUBSET Thread, \A u, v \in T : u = v,
           \A u \in Thread : u \notin T => pc'[u] = pc[u] /\ reg'[u] = reg[u],
           \A u \in T : pc[u] \in {"idle", "accept"} /\ pc'[u] = "add" /\ IsOpening(reg'[u], n, files + 1, kind),
           T # {} => given' = given /\ kind # "outside",
           kind = "outside" \/ files + 1 \in leaked' \/ T # {}
    PROVE  Agree'
<1>1. /\ files' = files + 1 /\ files + 1 \in 1 .. MaxFiles /\ files \in Nat
      /\ file'[n] = files + 1 /\ \A m \in Fd : m # n => file'[m] = file[m]
      /\ type'[files + 1] = kind
      /\ \A f \in 0 .. files : Outside(f)' <=> Outside(f)
      /\ \A f : f = files + 1 => (Outside(f)' <=> kind = "outside")
      /\ \A f \in 0 .. files : f # 0 => type'[f] = type[f]
  BY NewSocketTypes
<1>2. /\ epoll' = epoll /\ conn' = conn /\ conns' = conns /\ closing' = closing /\ swept' = swept
      /\ \A c : FileOf(c)' = FileOf(c)
  BY DEF table, exit, FileOf
<1>3. conns[n] = 0 /\ file[n] = 0
  BY FileOfTyped DEF Agree, Entries, NewSocket
<1>4. /\ \A m \in Fd : file[m] \in 0 .. files
      /\ \A h \in given : h[2] \in 0 .. files
      /\ \A c \in DOMAIN conn : conn[c].file \in 0 .. files
      /\ \A t \in Thread : /\ reg[t].file \in 0 .. files /\ reg[t].found \in 0 .. files
                           /\ FileOf(reg[t].conn) \in 0 .. files
                           /\ reg[t].conn # 0 => reg[t].conn \in DOMAIN conn
      /\ \A f \in swept : f \in 0 .. files
      /\ 0 \in 0 .. files /\ files + 1 \notin 0 .. files
  BY Older
<1>5. \A t \in T : /\ reg'[t].fd = n /\ reg'[t].file = files + 1 /\ reg'[t].type = kind
                   /\ reg'[t].conn = 0 /\ reg'[t].found = 0 /\ reg'[t].bind = FALSE
  BY DEF IsOpening
<1>6. Fresh'
  <2>1. ASSUME NEW t \in Thread, pc'[t] = "add"
        PROVE  file'[reg'[t].fd] = reg'[t].file /\ type'[reg'[t].file] = reg'[t].type
    <3>1. CASE t \in T
      BY <3>1, <1>1, <1>5
    <3>2. CASE t \notin T
      <4>1. /\ pc[t] = "add" /\ reg'[t] = reg[t] /\ reg[t].fd \in Fd /\ reg[t].file # 0
            /\ file[reg[t].fd] = reg[t].file /\ type[reg[t].file] = reg[t].type
        BY <2>1, <3>2 DEF EngineTypes, ThreadTypes, Fits, Agree, Fresh
      <4> QED
        BY <4>1, <1>1, <1>3, <1>4
    <3> QED
      BY <3>1, <3>2
  <2>2. ASSUME NEW t \in Thread, pc'[t] = "add", reg'[t].type # "outside"
        PROVE  /\ \A h \in given' : h[2] # reg'[t].file
               /\ \A c \in DOMAIN conn' : conn'[c].file # reg'[t].file
               /\ \A u \in Thread \ {t} : reg'[u].file # reg'[t].file
    <3>1. CASE t \in T
      <4>1. reg'[t].file = files + 1 /\ given' = given
        BY <3>1, <1>5
      <4>2. \A u \in Thread \ {t} : reg'[u] = reg[u]
        BY <3>1
      <4> QED
        BY <4>1, <4>2, <1>2, <1>4
    <3>2. CASE t \notin T
      <4>1. /\ reg'[t] = reg[t]
            /\ \A h \in given : h[2] # reg[t].file
            /\ \A c \in DOMAIN conn : conn[c].file # reg[t].file
            /\ \A u \in Thread \ {t} : reg[u].file # reg[t].file
        BY <2>2, <3>2 DEF Agree, Fresh
      <4>2. reg[t].file # files + 1
        BY <1>4
      <4>3. \A u \in Thread \ {t} : reg'[u].file = reg[u].file \/ reg'[u].file = files + 1
        BY <1>5
      <4> QED
        BY <4>1, <4>2, <4>3, <1>2
    <3> QED
      BY <3>1, <3>2
  <2>3. ASSUME NEW t \in Thread, pc'[t] = "mark" PROVE Outside(reg[t].file)' /\ reg'[t] = reg[t]
    <3>1. t \notin T /\ pc[t] = "mark" /\ reg'[t] = reg[t] /\ Outside(reg[t].file)
      BY <2>3 DEF Agree, Fresh
    <3> QED
      BY <3>1, <1>1, <1>4
  <2> QED
    BY <2>1, <2>2, <2>3 DEF Fresh
<1>7. Entries'
  <2>1. ASSUME NEW m \in Fd, conns'[m] # 0 PROVE FileOf(conns[m])' = file'[m]
    BY <2>1, <1>1, <1>2, <1>3 DEF Agree, Entries
  <2>2. ASSUME NEW t \in Thread, pc'[t] = "close", file'[reg'[t].fd] = reg'[t].file, ~Outside(reg[t].file)'
        PROVE  conns'[reg'[t].fd] = 0
    <3>1. t \notin T /\ pc[t] = "close" /\ reg'[t] = reg[t] /\ reg[t].fd \in Fd
      BY <2>2 DEF EngineTypes, ThreadTypes, Fits
    <3>2. CASE reg[t].fd = n
      BY <3>1, <3>2, <2>2, <1>1, <1>4
    <3>3. CASE reg[t].fd # n
      BY <3>1, <3>3, <2>2, <1>1, <1>2, <1>4 DEF Agree, Entries
    <3> QED
      BY <3>2, <3>3
  <2> QED
    BY <2>1, <2>2, <1>2 DEF Entries
<1>8. Registered'
  <2> SUFFICES ASSUME NEW m \in Fd, conns[m] # 0, file'[m] \notin epoll
               PROVE  \E t \in Thread : reg'[t].fd = m /\ pc'[t] \in {"mark", "event", "remove"}
    BY <1>2 DEF Registered
  <2>1. PICK t \in Thread : reg[t].fd = m /\ pc[t] \in {"mark", "event", "remove"}
    BY <1>1, <1>3 DEF Agree, Registered
  <2> QED
    BY <2>1
<1>9. Marked'
  <2>1. ASSUME NEW c \in DOMAIN conn, conn[c].isBind PROVE Outside(conn[c].file)'
    <3>1. Outside(conn[c].file)
      BY <2>1 DEF Agree, Marked
    <3> QED
      BY <3>1, <1>1, <1>2, <1>4
  <2>2. ASSUME NEW m \in Fd, conns[m] # 0, Outside(file[m])', ~conn[conns[m]].isBind
        PROVE  \E t \in Thread : reg'[t].fd = m /\ pc'[t] = "mark"
    <3>1. m # n /\ Outside(file[m])
      BY <2>2, <1>1, <1>3, <1>4
    <3>2. PICK t \in Thread : reg[t].fd = m /\ pc[t] = "mark"
      BY <2>2, <3>1 DEF Agree, Marked
    <3> QED
      BY <3>2
  <2> QED
    BY <2>1, <2>2, <1>2 DEF Marked
<1>10. Remembered'
  <2>1. \A t \in T : (Recalls(reg[t]))'
    BY <1>5 DEF Recalls, Outside
  <2>2. ASSUME NEW t \in Thread, t \notin T PROVE Recalls(reg[t])'
    <3>1. reg'[t] = reg[t] /\ Recalls(reg[t])
      BY <2>2 DEF Agree, Remembered, Recalls
    <3>2. reg[t].conn # 0 /\ Outside(FileOf(reg[t].conn))' => file'[reg[t].fd] = FileOf(reg[t].conn)
      <4>1. ASSUME reg[t].conn # 0, Outside(FileOf(reg[t].conn))' PROVE file'[reg[t].fd] = FileOf(reg[t].conn)
        <5>1. Outside(FileOf(reg[t].conn)) /\ FileOf(reg[t].conn) # 0
          BY <4>1, <3>1, <1>1, <1>2, <1>4 DEF Outside
        <5>2. file[reg[t].fd] = FileOf(reg[t].conn)
          BY <4>1, <5>1, <3>1 DEF Recalls
        <5>3. reg[t].fd \in Fd
          BY <4>1, <3>1 DEF EngineTypes, ThreadTypes, Fits
        <5> QED
          BY <5>1, <5>2, <5>3, <1>1, <1>3
      <4> QED
        BY <4>1
    <3>3. Outside(reg[t].found)' => Outside(reg[t].found)
      BY <3>1, <1>1, <1>4
    <3> QED
      BY <3>1, <3>2, <3>3, <1>2 DEF Recalls
  <2> QED
    BY <2>1, <2>2 DEF Remembered, Recalls
<1>11. Kept'
  <2> SUFFICES ASSUME NEW m \in Fd, file'[m] # 0, ~Outside(file[m])', file'[m] \notin leaked', conns[m] = 0
               PROVE  \E t \in Thread : reg'[t].fd = m /\ pc'[t] \in {"add", "close"}
    BY <1>2 DEF Kept
  <2>1. CASE m = n
    <3>1. T # {}
      BY <2>1, <1>1
    <3> QED
      BY <3>1, <2>1, <1>5
  <2>2. CASE m # n
    <3>1. PICK t \in Thread : reg[t].fd = m /\ pc[t] \in {"add", "close"}
      BY <2>2, <1>1, <1>4 DEF Agree, Kept
    <3> QED
      BY <3>1
  <2> QED
    BY <2>1, <2>2
<1>12. Sweeping'
  <2>1. Socket \in Thread
    BY DEF Thread
  <2>2. ASSUME NEW m \in Fd, file'[m] \in swept, ~Outside(file[m])'
        PROVE  m \in closing \/ (pc'[Socket] \in {"remove", "close"} /\ reg'[Socket].fd = m)
    <3>1. m # n /\ file'[m] = file[m] /\ ~Outside(file[m])
      BY <2>2, <1>1, <1>4
    <3> QED
      BY <2>1, <2>2, <3>1 DEF Agree, Sweeping
  <2> QED
    BY <2>1, <2>2, <1>2 DEF Agree, Sweeping
<1> QED
  BY <1>6, <1>7, <1>8, <1>9, <1>10, <1>11, <1>12 DEF Agree

\* The types after a new socket.
LEMMA MadeTypes ==
    ASSUME EngineTypes, OneNumber, NEW n \in Fd, NEW kind \in Kind, NewSocket(n, kind),
           UNCHANGED <<epoll, table, exit, astray>>, given' \subseteq given \cup {<<n, files + 1>>}
    PROVE  KernelTypes' /\ TableTypes'
<1>1. /\ files' = files + 1 /\ files + 1 \in 1 .. MaxFiles /\ files \in Nat
      /\ file' \in [Fd -> 0 .. files'] /\ type' \in [1 .. MaxFiles -> Kind]
      /\ epoll \subseteq {file'[m] : m \in Fd} \ {0}
  BY NewSocketTypes
<1>2. /\ epoll' = epoll /\ conn' = conn /\ conns' = conns /\ closing' = closing /\ swept' = swept /\ astray' = astray
  BY DEF table, exit
<1>3. given' \subseteq Fd \X (1 .. files') /\ swept' \subseteq 1 .. files'
  BY <1>1, <1>2 DEF EngineTypes, KernelTypes
<1>4. KernelTypes'
  BY <1>1, <1>2, <1>3 DEF EngineTypes, KernelTypes
<1>5. \A c \in DOMAIN conn : conn[c].file \in 0 .. files
  BY Older
<1>6. TableTypes'
  BY <1>1, <1>2, <1>5 DEF EngineTypes, TableTypes
<1> QED
  BY <1>4, <1>6

\* Listen fails, or code outside the engine makes a socket.
LEMMA MadeKeeps ==
    ASSUME EngineInv, ~astray, NEW n \in Fd, ListenFails(n) \/ MadeOutside(n)
    PROVE  EngineInv'
<1>1. EngineTypes /\ Agree /\ OneNumber
  BY DEF EngineInv
<1>2. PICK kind \in Kind :
        /\ NewSocket(n, kind) /\ UNCHANGED <<epoll, table, exit, pc, reg, astray>>
        /\ given' \subseteq given \cup {<<n, files + 1>>} /\ leaked \subseteq leaked'
        /\ kind = "outside" \/ files + 1 \in leaked'
  <2>1. "listen" \in Kind /\ "outside" \in Kind
    BY DEF Kind
  <2>2. CASE ListenFails(n)
    BY <2>1, <2>2 DEF ListenFails, rest, exit
  <2>3. CASE MadeOutside(n)
    BY <2>1, <2>3 DEF MadeOutside
  <2> QED
    BY <2>2, <2>3
<1>3. KernelTypes' /\ TableTypes'
  BY <1>1, <1>2, MadeTypes
<1>4. files' = files + 1 /\ files \in Nat /\ OneNumber'
  BY <1>1, <1>2, NewSocketTypes
<1>5. \A t \in Thread : reg[t].file \in 0 .. files /\ reg[t].found \in 0 .. files
  BY <1>1, Older
<1>6. ThreadTypes'
  BY <1>1, <1>2, <1>4, <1>5 DEF EngineTypes, ThreadTypes, Fits, table
<1>7. \A h \in given' : h \in given \/ h[2] = files + 1
  BY <1>2
<1>8. Agree'
  <2> DEFINE T == {}
  <2>1. /\ T \in SUBSET Thread /\ \A u, v \in T : u = v
        /\ \A u \in Thread : u \notin T => pc'[u] = pc[u] /\ reg'[u] = reg[u]
        /\ \A u \in T : pc[u] \in {"idle", "accept"} /\ pc'[u] = "add" /\ IsOpening(reg'[u], n, files + 1, kind)
        /\ T # {} => given' = given /\ kind # "outside"
    BY <1>2
  <2> HIDE DEF T
  <2> QED
    BY <1>1, <1>2, <1>7, <2>1, NewSocketAgrees
<1> QED
  BY <1>3, <1>4, <1>6, <1>8 DEF EngineInv, EngineTypes

\* A thread makes a socket and goes on to add it.
LEMMA OpensKeeps ==
    ASSUME EngineInv, ~astray, NEW t \in Thread, NEW n \in Fd, NEW kind \in {"listen", "client", "udp"},
           Opens(t, n, kind), pc[t] \in {"idle", "accept"}, UNCHANGED <<epoll, table, rest, leaked, astray>>
    PROVE  EngineInv'
<1> DEFINE r == Opening(n, files + 1, kind)
<1>1. EngineTypes /\ Agree /\ OneNumber
  BY DEF EngineInv
<1>2. /\ NewSocket(n, kind) /\ Goto(t, "add", r) /\ kind \in Kind /\ kind # "outside"
      /\ UNCHANGED <<epoll, table, exit, astray>> /\ given' = given /\ leaked' = leaked
  BY DEF Opens, Opening, rest, Kind
<1>3. KernelTypes' /\ TableTypes'
  BY <1>1, <1>2, MadeTypes
<1>4. files' = files + 1 /\ files \in Nat /\ files + 1 \in 1 .. MaxFiles /\ OneNumber'
  BY <1>1, <1>2, NewSocketTypes
<1>5. IsOpening(r, n, files + 1, kind)
  <2>1. files + 1 \in 0 .. MaxFiles
    BY <1>4, EngineAssumption
  <2> QED
    BY <2>1, <1>2, OpeningTyped, Zenon
<1> HIDE DEF r
<1>0. PICK q : q = r
  OBVIOUS
<1>6. Fits(t, "add", q)'
  BY <1>0, <1>3, <1>4, <1>5 DEF IsOpening, Fits, Place, TableTypes, KernelTypes
<1>7. ThreadTypes'
  <2>1. conn' = conn /\ Len(conn) \in Nat
    BY <1>1, <1>2 DEF table, EngineTypes, TableTypes
  <2> QED
    BY <2>1, <1>0, <1>1, <1>2, <1>4, <1>6, ThreadMoves DEF EngineTypes
<1>8. Agree'
  <2> DEFINE T == {t}
  <2>1. pc'[t] = "add" /\ reg'[t] = r /\ \A u \in Thread : u # t => pc'[u] = pc[u] /\ reg'[u] = reg[u]
    BY <1>1, <1>2 DEF Goto, EngineTypes, ThreadTypes
  <2>2. /\ T \in SUBSET Thread /\ \A u, v \in T : u = v
        /\ \A u \in Thread : u \notin T => pc'[u] = pc[u] /\ reg'[u] = reg[u]
        /\ \A u \in T : pc[u] \in {"idle", "accept"} /\ pc'[u] = "add" /\ IsOpening(reg'[u], n, files + 1, kind)
        /\ T # {}
    BY <2>1, <1>5
  <2> HIDE DEF T
  <2> QED
    BY <1>1, <1>2, <2>2, NewSocketAgrees
<1> QED
  BY <1>3, <1>4, <1>7, <1>8 DEF EngineInv, EngineTypes

\* OnAccept makes a socket, or has no more to accept.
LEMMA OnAcceptKeeps ==
    ASSUME EngineInv, ~astray, OnAccept
    PROVE  EngineInv'
<1>1. Socket \in Thread /\ pc[Socket] = "accept" /\ UNCHANGED <<epoll, table, rest, astray>> /\ astray' \in BOOLEAN
  BY DEF OnAccept, Thread, EngineInv, EngineTypes, KernelTypes
<1>2. CASE Goto(Socket, "idle", Idle) /\ UNCHANGED kernel
  BY <1>1, <1>2, SocketIdleKeeps
<1>3. CASE \E n \in Fd : Opens(Socket, n, "client") /\ UNCHANGED leaked
  BY <1>1, <1>3, OpensKeeps
<1> QED
  BY <1>2, <1>3 DEF OnAccept

-----------------------------------------------------------------------------
(* Engine: the steps that add a number *)

\* What the steps that add have in common: only thread t moves, with the same
\* variables, and the kernel's descriptors stay.
Adding(t, p) ==
    /\ pc'[t] = p /\ reg'[t] = reg[t]
    /\ \A u \in Thread : u # t => pc'[u] = pc[u] /\ reg'[u] = reg[u]

\* An entry that is there stays: it is of the same socket, so that one was made
\* outside, and bound before.
LEMMA AddOldKeeps ==
    ASSUME EngineTypes, Agree, NEW t \in Thread, pc[t] = "add", conns[reg[t].fd] # 0, NEW p,
           p = IF reg[t].type = "outside" THEN "mark" ELSE "event", Adding(t, p),
           UNCHANGED <<kernel, epoll, table, rest>>
    PROVE  Agree'
<1>1. /\ file' = file /\ files' = files /\ type' = type /\ leaked' = leaked /\ conn' = conn /\ conns' = conns
      /\ epoll' = epoll /\ given' = given /\ closing' = closing /\ swept' = swept
      /\ \A f : (Outside(f)' <=> Outside(f)) /\ FileOf(f)' = FileOf(f)
  BY DEF kernel, table, rest, exit, Outside, FileOf
<1>2. /\ reg[t].fd \in Fd /\ file[reg[t].fd] = reg[t].file /\ type[reg[t].file] = reg[t].type /\ reg[t].file # 0
  BY DEF EngineTypes, ThreadTypes, Fits, Agree, Fresh
<1>3. reg[t].type = "outside"
  <2>1. conns[reg[t].fd] \in DOMAIN conn /\ conn[conns[reg[t].fd]].file = reg[t].file
    BY <1>2, FileOfTyped DEF Agree, Entries
  <2> QED
    BY <2>1 DEF Agree, Fresh
<1>4. p = "mark" /\ Outside(reg[t].file)
  BY <1>2, <1>3 DEF Outside
<1> USE DEF Adding
<1>5. Fresh'
  BY <1>1, <1>4 DEF Agree, Fresh
<1>6. Entries'
  BY <1>1, <1>4 DEF Agree, Entries
<1>7. Registered'
  BY <1>1, <1>4 DEF Agree, Registered
<1>8. Marked'
  BY <1>1, <1>4 DEF Agree, Marked
<1>9. Remembered'
  BY <1>1 DEF Agree, Remembered
<1>10. Kept'
  BY <1>1 DEF Agree, Kept
<1>11. Sweeping'
  BY <1>1, <1>4 DEF Agree, Sweeping, Thread
<1> QED
  BY <1>5, <1>6, <1>7, <1>8, <1>9, <1>10, <1>11 DEF Agree

\* A new entry is of the socket behind its number, and of nobody else's.
LEMMA AddNewKeeps ==
    ASSUME EngineTypes, Agree, NEW t \in Thread, pc[t] = "add", conns[reg[t].fd] = 0, NEW p,
           p = IF reg[t].type = "outside" THEN "mark" ELSE "event", Adding(t, p),
           NEW c, c = Len(conn) + 1,
           conn' = Append(conn, [file |-> reg[t].file, type |-> reg[t].type, isBind |-> FALSE]),
           conns' = [conns EXCEPT ![reg[t].fd] = c],
           UNCHANGED <<kernel, epoll, rest>>
    PROVE  Agree'
<1> DEFINE n == reg[t].fd
           f == reg[t].file
<1>1. /\ file' = file /\ files' = files /\ type' = type /\ leaked' = leaked
      /\ epoll' = epoll /\ given' = given /\ closing' = closing /\ swept' = swept
      /\ \A g : Outside(g)' <=> Outside(g)
  BY DEF kernel, rest, exit, Outside
<1>2. /\ n \in Fd /\ file[n] = f /\ type[f] = reg[t].type /\ f # 0
      /\ conn \in Seq(Conn) /\ Len(conn) \in Nat /\ conns \in [Fd -> 0 .. Len(conn)]
  BY DEF EngineTypes, ThreadTypes, TableTypes, Fits, Agree, Fresh
<1>3. /\ c # 0 /\ DOMAIN conn' = DOMAIN conn \cup {c} /\ c \notin DOMAIN conn
      /\ \A d \in DOMAIN conn : conn'[d] = conn[d]
      /\ conn'[c].file = f /\ conn'[c].isBind = FALSE
  BY <1>2
<1>4. conns'[n] = c /\ \A m \in Fd : m # n => conns'[m] = conns[m]
  BY <1>2
<1>5. \A m \in Fd : m # n /\ conns[m] # 0 => conns[m] \in DOMAIN conn
  BY <1>2
<1>6. \A d : d = 0 \/ d \in DOMAIN conn => FileOf(d)' = FileOf(d)
  BY <1>3 DEF FileOf
<1>7. \A u \in Thread : reg[u].conn = 0 \/ reg[u].conn \in DOMAIN conn
  BY Older
<1>8. (reg[t].type = "outside" <=> Outside(f)) /\ (Outside(f) => p = "mark") /\ p \in {"mark", "event"}
  BY <1>2 DEF Outside
<1>9. reg[t].type # "outside" => \A u \in Thread \ {t} : reg[u].file # f
  BY DEF Agree, Fresh
<1>10. \A u \in Thread : pc[u] = "close" => reg[u].fd \in Fd
  BY DEF EngineTypes, ThreadTypes, Fits
<1> HIDE DEF n, f
<1>0. n = reg[t].fd /\ f = reg[t].file
  BY DEF n, f
<1> USE DEF Adding
<1>11. Fresh'
  <2>1. ASSUME NEW u \in Thread, pc'[u] = "add"
        PROVE  u # t /\ pc[u] = "add" /\ reg'[u] = reg[u]
    BY <2>1, <1>8
  <2>2. ASSUME NEW u \in Thread, pc'[u] = "add", reg[u].type # "outside"
        PROVE  \A d \in DOMAIN conn' : conn'[d].file # reg[u].file
    BY <2>1, <2>2, <1>0, <1>3 DEF Agree, Fresh
  <2>3. ASSUME NEW u \in Thread, pc'[u] = "mark" PROVE Outside(reg[u].file)
    BY <2>3, <1>0, <1>8 DEF Agree, Fresh
  <2>4. \A u \in Thread : reg'[u] = reg[u]
    OBVIOUS
  <2> QED
    BY <2>1, <2>2, <2>3, <2>4, <1>1 DEF Agree, Fresh
<1>12. Entries'
  <2>1. ASSUME NEW m \in Fd, conns'[m] # 0 PROVE FileOf(conns[m])' = file[m]
    <3>1. CASE m = n
      BY <3>1, <1>2, <1>3, <1>4 DEF FileOf
    <3>2. CASE m # n
      BY <3>2, <2>1, <1>4, <1>5, <1>6 DEF Agree, Entries
    <3> QED
      BY <3>1, <3>2
  <2>2. ASSUME NEW u \in Thread, pc'[u] = "close", file[reg[u].fd] = reg[u].file, ~Outside(reg[u].file)
        PROVE  conns'[reg[u].fd] = 0
    <3>1. u # t /\ pc[u] = "close" /\ conns[reg[u].fd] = 0
      BY <2>2, <1>8 DEF Agree, Entries
    <3>2. reg[u].fd # n
      BY <3>1, <2>2, <1>2, <1>8, <1>9
    <3> QED
      BY <3>1, <3>2, <1>4, <1>10
  <2> QED
    BY <2>1, <2>2, <1>1, <1>8 DEF Entries
<1>13. Registered'
  <2> SUFFICES ASSUME NEW m \in Fd, conns'[m] # 0, file[m] \notin epoll
               PROVE  \E u \in Thread : reg'[u].fd = m /\ pc'[u] \in {"mark", "event", "remove"}
    BY <1>1 DEF Registered
  <2>1. CASE m = n
    BY <2>1, <1>0, <1>8
  <2>2. CASE m # n
    BY <2>2, <1>0, <1>4 DEF Agree, Registered
  <2> QED
    BY <2>1, <2>2
<1>14. Marked'
  <2>1. ASSUME NEW d \in DOMAIN conn', conn'[d].isBind PROVE Outside(conn'[d].file)
    BY <2>1, <1>3 DEF Agree, Marked
  <2>2. ASSUME NEW m \in Fd, conns'[m] # 0, Outside(file[m]), ~conn'[conns'[m]].isBind
        PROVE  \E u \in Thread : reg'[u].fd = m /\ pc'[u] = "mark"
    <3>1. CASE m = n
      BY <3>1, <2>2, <1>0, <1>2, <1>8
    <3>2. CASE m # n
      <4>1. PICK u \in Thread : reg[u].fd = m /\ pc[u] = "mark"
        BY <3>2, <2>2, <1>3, <1>4, <1>5 DEF Agree, Marked
      <4> QED
        BY <4>1
    <3> QED
      BY <3>1, <3>2
  <2> QED
    BY <2>1, <2>2, <1>1 DEF Marked
<1>15. Remembered'
  <2> SUFFICES ASSUME NEW u \in Thread PROVE Recalls(reg[u])'
    BY DEF Remembered, Recalls
  <2>1. reg'[u] = reg[u] /\ Recalls(reg[u])
    BY DEF Agree, Remembered, Recalls
  <2>2. FileOf(reg[u].conn)' = FileOf(reg[u].conn) /\ (reg[u].conn # 0 => conn'[reg[u].conn] = conn[reg[u].conn])
    BY <2>1, <1>3, <1>6, <1>7
  <2>3. /\ Outside(FileOf(reg[u].conn))' <=> Outside(FileOf(reg[u].conn))
        /\ Outside(reg[u].found)' <=> Outside(reg[u].found)
    BY <2>1, <2>2, <1>1 DEF Outside
  <2>4. /\ reg'[u].conn # 0 /\ Outside(FileOf(reg[u].conn))' => file'[reg'[u].fd] = FileOf(reg[u].conn)'
        /\ Outside(reg[u].found)' => reg'[u].bind
    BY <2>1, <2>2, <2>3, <1>1 DEF Recalls
  <2>5. reg'[u].bind => reg'[u].conn # 0 /\ conn'[reg'[u].conn].isBind
    BY <2>1, <2>2 DEF Recalls
  <2> QED
    BY <2>4, <2>5 DEF Recalls
<1>16. Kept'
  <2> SUFFICES ASSUME NEW m \in Fd, file[m] # 0, ~Outside(file[m]), file[m] \notin leaked, conns'[m] = 0
               PROVE  \E u \in Thread : reg'[u].fd = m /\ pc'[u] \in {"add", "close"}
    BY <1>1 DEF Kept
  <2>1. m # n /\ conns[m] = 0
    BY <1>3, <1>4
  <2>2. PICK u \in Thread : reg[u].fd = m /\ pc[u] \in {"add", "close"}
    BY <2>1 DEF Agree, Kept
  <2> QED
    BY <2>1, <2>2, <1>0
<1>17. Sweeping'
  BY <1>1, <1>8 DEF Agree, Sweeping, Thread
<1> QED
  BY <1>11, <1>12, <1>13, <1>14, <1>15, <1>16, <1>17 DEF Agree

\* AddConn: the new entry is for the socket the thread holds.
LEMMA AddConnKeeps ==
    ASSUME EngineInv, ~astray, NEW t \in Thread, AddConn(t)
    PROVE  EngineInv'
<1> DEFINE p == IF reg[t].type = "outside" THEN "mark" ELSE "event"
<1>1. EngineTypes /\ Agree /\ OneNumber
  BY DEF EngineInv
<1>2. /\ pc[t] = "add" /\ Len(conn) < MaxConns /\ Goto(t, p, reg[t])
      /\ UNCHANGED <<kernel, epoll, rest, astray>> /\ p \in {"mark", "event"}
  BY DEF AddConn
<1> HIDE DEF p
<1>3. /\ pc' = [pc EXCEPT ![t] = p] /\ reg' = [reg EXCEPT ![t] = reg[t]]
  BY <1>2 DEF Goto
<1>4. Adding(t, p)
  BY <1>1, <1>3 DEF Adding, EngineTypes, ThreadTypes
<1>5. /\ file' = file /\ files' = files /\ type' = type /\ leaked' = leaked
      /\ epoll' = epoll /\ given' = given /\ closing' = closing /\ swept' = swept /\ astray' = astray
  BY <1>2 DEF kernel, rest, exit
<1>6. /\ KernelTypes' /\ OneNumber'
  BY <1>1, <1>5 DEF EngineTypes, KernelTypes, OneNumber
<1>7. /\ reg[t] \in Register /\ reg[t].fd \in Fd /\ reg[t].file \in 1 .. files /\ reg[t].type \in Kind
      /\ files \in Nat /\ files <= MaxFiles /\ MaxFiles \in Nat /\ Fits(t, "add", reg[t])
  <2>1. reg[t] \in Register /\ Fits(t, "add", reg[t]) /\ files \in Nat /\ files <= MaxFiles /\ MaxFiles \in Nat
    BY <1>1, <1>2, EngineAssumption DEF EngineTypes, ThreadTypes, KernelTypes
  <2> QED
    BY <2>1 DEF Fits, Register
<1>8. Len(conn) \in Nat /\ conn \in Seq(Conn) /\ conns \in [Fd -> 0 .. Len(conn)] /\ MaxConns \in Nat
      /\ \A c \in DOMAIN conn : conn[c].file <= files
  BY <1>1, EngineAssumption DEF EngineTypes, TableTypes
<1>9. ASSUME TableTypes', Len(conn) <= Len(conn') PROVE ThreadTypes'
  <2>0. PICK q : q = reg[t]
    OBVIOUS
  <2>1. Len(conn') \in Nat
    BY <1>9 DEF TableTypes
  <2>3. PICK k : k = p
    OBVIOUS
  <2>4. Fits(t, k, q)'
    BY <2>0, <2>1, <2>3, <1>2, <1>5, <1>7, <1>8, <1>9 DEF Fits, Place, Register
  <2> QED
    BY <2>0, <2>1, <2>3, <2>4, <1>1, <1>2, <1>5, <1>7, <1>8, <1>9, ThreadMoves DEF EngineTypes
<1>10. CASE conns[reg[t].fd] # 0
  <2>1. conn' = conn /\ conns' = conns /\ UNCHANGED table
    BY <1>10 DEF AddConn, table
  <2>2. TableTypes'
    BY <2>1, <1>1, <1>5 DEF EngineTypes, TableTypes
  <2>3. ThreadTypes'
    BY <2>1, <2>2, <1>8, <1>9
  <2>4. Agree'
    BY <2>1, <1>1, <1>2, <1>4, <1>10, AddOldKeeps DEF p
  <2> QED
    BY <2>2, <2>3, <2>4, <1>6 DEF EngineInv, EngineTypes
<1>11. CASE conns[reg[t].fd] = 0
  <2> DEFINE e == [file |-> reg[t].file, type |-> reg[t].type, isBind |-> FALSE]
  <2>1. conn' = Append(conn, e) /\ conns' = [conns EXCEPT ![reg[t].fd] = Len(conn) + 1]
    BY <1>11 DEF AddConn
  <2>2. e \in Conn /\ e.file <= files
    BY <1>7 DEF Conn
  <2>3. Agree'
    BY <2>1, <1>1, <1>2, <1>4, <1>11, AddNewKeeps DEF p
  <2> HIDE DEF e
  <2>4. /\ Len(conn') = Len(conn) + 1 /\ conn' \in Seq(Conn) /\ conn'[Len(conn) + 1] = e
        /\ \A c \in 1 .. Len(conn) : conn'[c] = conn[c]
    BY <2>1, <2>2, <1>8
  <2>5. TableTypes'
    <3>1. \A c \in DOMAIN conn' : (c \in DOMAIN conn /\ conn'[c] = conn[c]) \/ c = Len(conn) + 1
      BY <2>4, <1>8
    <3>2. conns' \in [Fd -> 0 .. Len(conn')] /\ Len(conn') <= MaxConns
      <4>1. Len(conn) + 1 \in 0 .. Len(conn') /\ \A c \in 0 .. Len(conn) : c \in 0 .. Len(conn')
        BY <2>4, <1>8
      <4>2. \A m \in Fd : conns'[m] \in 0 .. Len(conn')
        BY <4>1, <2>1, <1>7, <1>8
      <4>3. Len(conn') <= MaxConns
        BY <2>4, <1>2, <1>8
      <4> QED
        BY <4>2, <4>3, <2>1, <1>8
    <3> QED
      BY <3>1, <3>2, <2>2, <2>4, <1>5, <1>8 DEF TableTypes
  <2>6. ThreadTypes'
    BY <2>4, <2>5, <1>8, <1>9
  <2> QED
    BY <2>3, <2>5, <2>6, <1>6 DEF EngineInv, EngineTypes
<1> QED
  BY <1>10, <1>11

\* A thread that goes on with the same variables.
LEMMA GoesOn ==
    ASSUME EngineTypes, NEW t \in Thread, NEW p, p \notin {"idle", "next", "gone"}, Goto(t, p, reg[t]), Fits(t, p, reg[t]),
           UNCHANGED files, Len(conn') = Len(conn)
    PROVE  ThreadTypes' /\ Adding(t, p)
<1>1. pc' = [pc EXCEPT ![t] = p] /\ reg' = [reg EXCEPT ![t] = reg[t]]
  BY DEF Goto
<1>2. Adding(t, p)
  BY <1>1 DEF Adding, EngineTypes, ThreadTypes
<1>3. PICK q : q = reg[t]
  OBVIOUS
<1>4. Fits(t, p, q)'
  BY <1>3 DEF Fits
<1>5. files \in Nat /\ Len(conn) \in Nat
  BY DEF EngineTypes, KernelTypes, TableTypes
<1> QED
  BY <1>2, <1>3, <1>4, <1>5, ThreadMoves DEF EngineTypes

\* Bind marks the entry of the number, which is its own unless it goes astray.
LEMMA MarkBindKeeps ==
    ASSUME EngineInv, ~astray, NEW t \in Thread, MarkBind(t)
    PROVE  EngineInv'
<1> DEFINE n == reg[t].fd
           c == conns[n]
<1>1. EngineTypes /\ Agree /\ OneNumber
  BY DEF EngineInv
<1>2. /\ pc[t] = "mark" /\ Goto(t, "event", reg[t]) /\ UNCHANGED <<kernel, epoll, conns, rest>>
      /\ conn' = (IF c = 0 THEN conn ELSE [conn EXCEPT ![c].isBind = TRUE]) /\ Meets(t, FileOf(c))
  BY DEF MarkBind
<1>3. n \in Fd
  BY <1>1, <1>2 DEF EngineTypes, ThreadTypes, Fits
<1>4. /\ file' = file /\ files' = files /\ type' = type /\ leaked' = leaked /\ conns' = conns
      /\ epoll' = epoll /\ given' = given /\ closing' = closing /\ swept' = swept
      /\ \A f : Outside(f)' <=> Outside(f)
  BY <1>2 DEF kernel, rest, exit, Outside
<1>5. /\ conn \in Seq(Conn) /\ Len(conn) \in Nat /\ (c # 0 => c \in DOMAIN conn /\ FileOf(c) = conn[c].file)
      /\ FileOf(c) \in 0 .. files /\ files \in Nat /\ (c # 0 => FileOf(c) # 0)
      /\ \A m \in Fd : conns[m] # 0 => conns[m] \in DOMAIN conn
  BY <1>1, <1>3, FileOfTyped DEF EngineTypes, KernelTypes, TableTypes
<1>6. ~astray' => c = 0 \/ FileOf(c) = reg[t].file
  BY <1>2, <1>5 DEF Meets
<1> HIDE DEF c
<1>7. /\ Len(conn') = Len(conn) /\ DOMAIN conn' = DOMAIN conn /\ conn' \in Seq(Conn)
      /\ \A d \in DOMAIN conn : /\ conn'[d].file = conn[d].file /\ (conn[d].isBind => conn'[d].isBind)
                                /\ d # c => conn'[d] = conn[d]
      /\ c # 0 => conn'[c].isBind
  <2>1. CASE c = 0
    BY <2>1, <1>2, <1>5
  <2>2. CASE c # 0
    <3>1. conn[c] \in Conn
      BY <2>2, <1>5
    <3> DEFINE e == [conn[c] EXCEPT !.isBind = TRUE]
    <3>2. e \in Conn /\ e.file = conn[c].file /\ e.isBind
      BY <3>1 DEF Conn
    <3>3. conn' = [conn EXCEPT ![c] = e]
      BY <2>2, <1>2
    <3> HIDE DEF e
    <3>4. Len(conn') = Len(conn) /\ DOMAIN conn' = DOMAIN conn /\ conn' \in Seq(Conn)
      BY <2>2, <3>2, <3>3, <1>5
    <3>5. conn'[c] = e /\ \A d \in DOMAIN conn : d # c => conn'[d] = conn[d]
      BY <2>2, <3>3, <1>5
    <3> QED
      BY <2>2, <3>2, <3>4, <3>5, <1>5
  <2> QED
    BY <2>1, <2>2
<1>8. \A d : d = 0 \/ d \in DOMAIN conn => FileOf(d)' = FileOf(d)
  BY <1>7 DEF FileOf
<1>9. ThreadTypes' /\ Adding(t, "event")
  <2>1. EngineTypes /\ UNCHANGED files /\ Len(conn') = Len(conn) /\ "event" \notin {"idle", "next", "gone"}
    BY <1>1, <1>4, <1>7
  <2>2. Fits(t, "event", reg[t])
    BY <1>1, <1>2 DEF EngineTypes, ThreadTypes, Fits, Place
  <2> QED
    BY <2>1, <2>2, <1>2, GoesOn
<1>10. KernelTypes' /\ OneNumber'
  BY <1>1, <1>2, <1>4 DEF EngineTypes, KernelTypes, OneNumber, Meets
<1>11. TableTypes'
  BY <1>1, <1>4, <1>7 DEF EngineTypes, TableTypes
<1>12. ASSUME ~astray' PROVE Agree'
  <2>1. /\ \A u \in Thread : reg'[u] = reg[u]
        /\ \A u \in Thread : u # t => pc'[u] = pc[u]
        /\ pc'[t] = "event"
    BY <1>9 DEF Adding
  <2>2. Fresh'
    <3>1. ASSUME NEW u \in Thread, pc'[u] = "add", reg[u].type # "outside"
          PROVE  \A d \in DOMAIN conn' : conn'[d].file # reg[u].file
      BY <3>1, <2>1, <1>1, <1>7 DEF Agree, Fresh
    <3> QED
      BY <3>1, <2>1, <1>1, <1>4 DEF Agree, Fresh
  <2>3. Entries'
    <3>1. \A m \in Fd : conns[m] # 0 => FileOf(conns[m])' = file[m]
      BY <1>1, <1>4, <1>5, <1>8 DEF Agree, Entries
    <3> QED
      BY <3>1, <2>1, <1>1, <1>4 DEF Agree, Entries
  <2>4. Registered'
    BY <2>1, <1>1, <1>2, <1>4 DEF Agree, Registered
  <2>5. Marked'
    <3>1. ASSUME NEW d \in DOMAIN conn, conn'[d].isBind PROVE Outside(conn'[d].file)
      <4>1. CASE d = c /\ c # 0
        <5>1. Outside(reg[t].file)
          BY <1>1, <1>2 DEF Agree, Fresh
        <5>2. conn'[d].file = reg[t].file
          BY <4>1, <1>5, <1>6, <1>7, <1>12
        <5> QED
          BY <5>1, <5>2
      <4>2. CASE ~(d = c /\ c # 0)
        BY <4>2, <3>1, <1>1, <1>2, <1>7, <1>5 DEF Agree, Marked
      <4> QED
        BY <4>1, <4>2
    <3>2. ASSUME NEW m \in Fd, conns[m] # 0, Outside(file[m]), ~conn'[conns[m]].isBind
          PROVE  \E u \in Thread : reg[u].fd = m /\ pc'[u] = "mark"
      <4>1. PICK u \in Thread : reg[u].fd = m /\ pc[u] = "mark"
        BY <3>2, <1>1, <1>5, <1>7 DEF Agree, Marked
      <4>2. u # t
        BY <3>2, <4>1, <1>7 DEF c
      <4> QED
        BY <4>1, <4>2, <2>1
    <3> QED
      BY <3>1, <3>2, <2>1, <1>4, <1>7 DEF Marked
  <2>6. Remembered'
    <3> SUFFICES ASSUME NEW u \in Thread PROVE Recalls(reg[u])'
      BY DEF Remembered, Recalls
    <3>1. reg'[u] = reg[u] /\ Recalls(reg[u]) /\ (reg[u].conn # 0 => reg[u].conn \in DOMAIN conn)
      BY <2>1, <1>1, Older DEF Agree, Remembered, Recalls
    <3>2. FileOf(reg[u].conn)' = FileOf(reg[u].conn)
      BY <3>1, <1>8
    <3>3. /\ Outside(FileOf(reg[u].conn))' <=> Outside(FileOf(reg[u].conn))
          /\ Outside(reg[u].found)' <=> Outside(reg[u].found)
      BY <3>1, <3>2, <1>4 DEF Outside
    <3>4. /\ reg'[u].conn # 0 /\ Outside(FileOf(reg[u].conn))' => file'[reg'[u].fd] = FileOf(reg[u].conn)'
          /\ Outside(reg[u].found)' => reg'[u].bind
      BY <3>1, <3>2, <3>3, <1>4 DEF Recalls
    <3>5. reg'[u].bind => reg'[u].conn # 0 /\ conn'[reg'[u].conn].isBind
      BY <3>1, <1>7 DEF Recalls
    <3> QED
      BY <3>4, <3>5 DEF Recalls
  <2>7. Kept'
    BY <2>1, <1>1, <1>2, <1>4 DEF Agree, Kept
  <2>8. Sweeping'
    BY <2>1, <1>1, <1>2, <1>4 DEF Agree, Sweeping, Thread
  <2> QED
    BY <2>2, <2>3, <2>4, <2>5, <2>6, <2>7, <2>8 DEF Agree
<1> QED
  BY <1>9, <1>10, <1>11, <1>12 DEF EngineInv, EngineTypes

\* The socket is registered, and the number handed out.
LEMMA AddEventKeeps ==
    ASSUME EngineInv, ~astray, NEW t \in Thread, AddEvent(t)
    PROVE  EngineInv'
<1> DEFINE n == reg[t].fd
           p == IF t = Socket THEN "accept" ELSE "idle"
<1>1. EngineTypes /\ Agree /\ OneNumber
  BY DEF EngineInv
<1>2. /\ pc[t] = "event" /\ Goto(t, p, Idle) /\ UNCHANGED <<kernel, table, exit>>
      /\ epoll' = (IF file[n] = 0 THEN epoll ELSE epoll \cup {file[n]}) /\ astray' = (astray \/ file[n] # reg[t].file)
      /\ given' = given \cup {<<n, reg[t].file>>}
      /\ p \in {"idle", "accept"} /\ (p # "idle" => t = Socket)
  BY DEF AddEvent
<1>3. n \in Fd /\ reg[t].file \in 1 .. files
  <2>1. reg[t] \in Register /\ Fits(t, "event", reg[t]) /\ files \in Nat
    BY <1>1, <1>2 DEF EngineTypes, ThreadTypes, KernelTypes
  <2> QED
    BY <2>1 DEF Fits, Register
<1>4. /\ file' = file /\ files' = files /\ type' = type /\ leaked' = leaked /\ conn' = conn /\ conns' = conns
      /\ closing' = closing /\ swept' = swept
      /\ \A f : (Outside(f)' <=> Outside(f)) /\ FileOf(f)' = FileOf(f)
  BY <1>2 DEF kernel, table, exit, Outside, FileOf
<1> HIDE DEF n, p
<1>5. KernelTypes' /\ TableTypes' /\ OneNumber'
  <2>1. epoll' \subseteq {file[m] : m \in Fd} \ {0}
    BY <1>1, <1>2, <1>3 DEF EngineTypes, KernelTypes
  <2>2. given' \subseteq Fd \X (1 .. files)
    BY <1>1, <1>2, <1>3 DEF EngineTypes, KernelTypes
  <2>3. TableTypes' /\ OneNumber'
    BY <1>1, <1>4 DEF EngineTypes, TableTypes, OneNumber
  <2> QED
    BY <2>1, <2>2, <2>3, <1>1, <1>2, <1>4 DEF EngineTypes, KernelTypes
<1>6. ThreadTypes'
  <2>1. PICK k : k = p
    OBVIOUS
  <2>2. Fits(t, k, Idle)
    BY <2>1, <1>1, <1>2, IdleFits DEF EngineTypes
  <2>3. Fits(t, k, Idle)' /\ files \in Nat /\ Len(conn) \in Nat
    BY <2>2, <1>1, <1>4 DEF Fits, EngineTypes, KernelTypes, TableTypes
  <2> QED
    BY <2>1, <2>3, <1>1, <1>2, <1>4, ThreadMoves DEF EngineTypes
<1>7. /\ pc'[t] = p /\ reg'[t] = Idle /\ \A u \in Thread : u # t => pc'[u] = pc[u] /\ reg'[u] = reg[u]
  BY <1>1, <1>2 DEF Goto, EngineTypes, ThreadTypes
<1>8. Idle.file = 0 /\ Idle.conn = 0 /\ Idle.bind = FALSE /\ Idle.found = 0
  BY DEF Idle
<1>9. ASSUME ~astray' PROVE Agree'
  <2>0. file[n] = reg[t].file
    BY <1>2, <1>9
  <2>1. file[n] = reg[t].file /\ file[n] # 0 /\ n = reg[t].fd
    BY <2>0, <1>3 DEF n
  <2>2. Fresh'
    <3>1. ASSUME NEW u \in Thread, pc'[u] = "add"
          PROVE  u # t /\ pc[u] = "add" /\ reg'[u] = reg[u] /\ reg[u].file # 0
      BY <3>1, <1>1, <1>2, <1>7 DEF EngineTypes, ThreadTypes, Fits
    <3>2. ASSUME NEW u \in Thread, pc'[u] = "add", reg[u].type # "outside"
          PROVE  \A h \in given' : h[2] # reg[u].file
      BY <3>1, <3>2, <1>1, <1>2 DEF Agree, Fresh
    <3>3. ASSUME NEW u \in Thread, pc'[u] = "add", reg[u].type # "outside"
          PROVE  \A v \in Thread \ {u} : reg'[v].file # reg[u].file
      BY <3>1, <3>3, <1>1, <1>7, <1>8 DEF Agree, Fresh
    <3>4. ASSUME NEW u \in Thread, pc'[u] = "mark" PROVE reg'[u] = reg[u] /\ Outside(reg[u].file)
      BY <3>4, <1>1, <1>2, <1>7 DEF Agree, Fresh
    <3> QED
      BY <3>1, <3>2, <3>3, <3>4, <1>1, <1>4 DEF Agree, Fresh
  <2>3. Entries'
    BY <1>1, <1>2, <1>4, <1>7 DEF Agree, Entries
  <2>4. Registered'
    BY <2>1, <1>1, <1>2, <1>4, <1>7 DEF Agree, Registered
  <2>5. Marked'
    BY <1>1, <1>2, <1>4, <1>7 DEF Agree, Marked
  <2>6. Remembered'
    BY <1>1, <1>4, <1>7, <1>8 DEF Agree, Remembered, Outside
  <2>7. Kept'
    BY <1>1, <1>2, <1>4, <1>7 DEF Agree, Kept
  <2>8. Sweeping'
    BY <1>1, <1>2, <1>4, <1>7 DEF Agree, Sweeping, Thread
  <2> QED
    BY <2>2, <2>3, <2>4, <2>5, <2>6, <2>7, <2>8 DEF Agree
<1> QED
  BY <1>5, <1>6, <1>9 DEF EngineInv, EngineTypes

-----------------------------------------------------------------------------
(* Engine: the steps that close a number *)

\* The entry goes, and the thread is now the one that closes the socket.
LEMMA RemoveConnKeeps ==
    ASSUME EngineInv, ~astray, NEW t \in Thread, RemoveConn(t)
    PROVE  EngineInv'
<1> DEFINE n == reg[t].fd
           a == IF reg[t].after = "idle" /\ conns[n] # 0 THEN "del" ELSE reg[t].after
           r == [reg[t] EXCEPT !.after = a]
<1>1. EngineTypes /\ Agree /\ OneNumber
  BY DEF EngineInv
<1>2. /\ pc[t] = "remove" /\ conns' = [conns EXCEPT ![n] = 0] /\ Goto(t, "close", r) /\ Meets(t, FileOf(conns[n]))
      /\ UNCHANGED <<kernel, epoll, conn, rest>>
  BY DEF RemoveConn
<1>3. reg[t] \in Register /\ Fits(t, "remove", reg[t]) /\ n \in Fd /\ a \in {"idle", "del", "next"}
      /\ (t # Socket => a # "next")
  <2>1. reg[t] \in Register /\ Fits(t, "remove", reg[t])
    BY <1>1, <1>2 DEF EngineTypes, ThreadTypes
  <2> QED
    BY <2>1 DEF Fits, Register
<1> HIDE DEF n, a
<1>4. /\ r \in Register /\ r.fd = reg[t].fd /\ r.file = reg[t].file /\ r.conn = reg[t].conn /\ r.early = reg[t].early
      /\ r.bind = reg[t].bind /\ r.found = reg[t].found /\ r.type = reg[t].type /\ r.after = a
  BY <1>3 DEF Register
<1> HIDE DEF r
<1>5. Fits(t, "close", r)
  BY <1>3, <1>4 DEF Fits, Place, n
<1>6. /\ file' = file /\ files' = files /\ type' = type /\ leaked' = leaked /\ conn' = conn
      /\ epoll' = epoll /\ given' = given /\ closing' = closing /\ swept' = swept
      /\ \A f : (Outside(f)' <=> Outside(f)) /\ FileOf(f)' = FileOf(f)
  BY <1>2 DEF kernel, rest, exit, Outside, FileOf
<1>7. ThreadTypes'
  <2>1. PICK q : q = r
    OBVIOUS
  <2>2. Fits(t, "close", q)' /\ files \in Nat /\ Len(conn) \in Nat
    BY <2>1, <1>1, <1>5, <1>6 DEF Fits, EngineTypes, KernelTypes, TableTypes
  <2> QED
    BY <2>1, <2>2, <1>1, <1>2, <1>6, ThreadMoves DEF EngineTypes
<1>8. KernelTypes' /\ OneNumber'
  BY <1>1, <1>2, <1>6 DEF EngineTypes, KernelTypes, OneNumber, Meets
<1>9. conns'[n] = 0 /\ (\A m \in Fd : m # n => conns'[m] = conns[m]) /\ \A m \in Fd : conns'[m] # 0 => conns'[m] = conns[m]
  BY <1>1, <1>2, <1>3 DEF EngineTypes, TableTypes
<1>10. TableTypes'
  BY <1>1, <1>2, <1>3, <1>6 DEF EngineTypes, TableTypes
<1>11. /\ pc'[t] = "close" /\ reg'[t] = r /\ \A u \in Thread : u # t => pc'[u] = pc[u] /\ reg'[u] = reg[u]
  BY <1>1, <1>2 DEF Goto, EngineTypes, ThreadTypes
<1>12. \A u \in Thread : /\ reg'[u].fd = reg[u].fd /\ reg'[u].file = reg[u].file /\ reg'[u].conn = reg[u].conn
                         /\ reg'[u].bind = reg[u].bind /\ reg'[u].found = reg[u].found /\ reg'[u].type = reg[u].type
  BY <1>4, <1>11
<1>13. reg[t].fd = n
  BY DEF n
<1>14. Agree'
  <2>1. Fresh'
    BY <1>1, <1>6, <1>11, <1>12 DEF Agree, Fresh
  <2>2. Entries'
    <3>1. \A m \in Fd : conns'[m] # 0 => FileOf(conns[m])' = file[m]
      BY <1>1, <1>6, <1>9 DEF Agree, Entries
    <3>2. ASSUME NEW u \in Thread, pc'[u] = "close", file[reg[u].fd] = reg[u].file, ~Outside(reg[u].file)
          PROVE  conns'[reg[u].fd] = 0
      <4>1. CASE u = t
        BY <4>1, <1>9, <1>13
      <4>2. CASE u # t
        <5>1. conns[reg[u].fd] = 0 /\ reg[u].fd \in Fd
          BY <4>2, <3>2, <1>1, <1>11 DEF Agree, Entries, EngineTypes, ThreadTypes, Fits
        <5> QED
          BY <5>1, <1>9
      <4> QED
        BY <4>1, <4>2
    <3> QED
      BY <3>1, <3>2, <1>6, <1>12 DEF Entries
  <2>3. Registered'
    <3> SUFFICES ASSUME NEW m \in Fd, conns'[m] # 0, file[m] \notin epoll
                 PROVE  \E u \in Thread : reg'[u].fd = m /\ pc'[u] \in {"mark", "event", "remove"}
      BY <1>6 DEF Registered
    <3>1. PICK u \in Thread : reg[u].fd = m /\ pc[u] \in {"mark", "event", "remove"}
      BY <1>1, <1>9 DEF Agree, Registered
    <3>2. u # t
      BY <3>1, <1>9, <1>13
    <3> QED
      BY <3>1, <3>2, <1>11
  <2>4. Marked'
    <3>1. ASSUME NEW m \in Fd, conns'[m] # 0, Outside(file[m]), ~conn[conns'[m]].isBind
          PROVE  \E u \in Thread : reg'[u].fd = m /\ pc'[u] = "mark"
      <4>1. PICK u \in Thread : reg[u].fd = m /\ pc[u] = "mark"
        BY <3>1, <1>1, <1>9 DEF Agree, Marked
      <4> QED
        BY <4>1, <1>2, <1>11
    <3> QED
      BY <3>1, <1>1, <1>6 DEF Agree, Marked
  <2>5. Remembered'
    <3> SUFFICES ASSUME NEW u \in Thread PROVE Recalls(reg[u])'
      BY DEF Remembered, Recalls
    <3>1. Recalls(reg[u])
      BY <1>1 DEF Agree, Remembered, Recalls
    <3>2. FileOf(reg[u].conn)' = FileOf(reg[u].conn)
      BY <1>6, <1>12 DEF FileOf
    <3>3. /\ Outside(FileOf(reg[u].conn))' <=> Outside(FileOf(reg[u].conn))
          /\ Outside(reg[u].found)' <=> Outside(reg[u].found)
      BY <3>2, <1>6, <1>12 DEF Outside
    <3> QED
      BY <3>1, <3>2, <3>3, <1>6, <1>12 DEF Recalls
  <2>6. Kept'
    <3> SUFFICES ASSUME NEW m \in Fd, file[m] # 0, ~Outside(file[m]), file[m] \notin leaked, conns'[m] = 0
                 PROVE  \E u \in Thread : reg'[u].fd = m /\ pc'[u] \in {"add", "close"}
      BY <1>6 DEF Kept
    <3>1. CASE m = n
      BY <3>1, <1>11, <1>12, <1>13
    <3>2. CASE m # n
      <4>1. PICK u \in Thread : reg[u].fd = m /\ pc[u] \in {"add", "close"}
        BY <3>2, <1>1, <1>9 DEF Agree, Kept
      <4> QED
        BY <4>1, <1>2, <1>11
    <3> QED
      BY <3>1, <3>2
  <2>7. Sweeping'
    BY <1>1, <1>6, <1>11, <1>12 DEF Agree, Sweeping, Thread
  <2> QED
    BY <2>1, <2>2, <2>3, <2>4, <2>5, <2>6, <2>7 DEF Agree
<1> QED
  BY <1>7, <1>8, <1>10, <1>14 DEF EngineInv, EngineTypes

\* The registration goes, of a number that has no entry.
LEMMA RemoveEventKeeps ==
    ASSUME EngineInv, ~astray, NEW t \in Thread, RemoveEvent(t)
    PROVE  EngineInv'
<1> DEFINE n == reg[t].fd
<1>1. EngineTypes /\ Agree /\ OneNumber
  BY DEF EngineInv
<1>2. /\ pc[t] = "del" /\ epoll' = epoll \ {file[n]} /\ Goto(t, "idle", Idle) /\ UNCHANGED <<kernel, table, rest>>
      /\ astray' = (astray \/ (file[n] \in epoll /\ (file[n] # reg[t].file \/ conns[n] # 0)))
  BY DEF RemoveEvent
<1>3. n \in Fd
  BY <1>1, <1>2 DEF EngineTypes, ThreadTypes, Fits
<1>4. /\ file' = file /\ files' = files /\ type' = type /\ leaked' = leaked /\ conn' = conn /\ conns' = conns
      /\ given' = given /\ closing' = closing /\ swept' = swept
      /\ \A f : (Outside(f)' <=> Outside(f)) /\ FileOf(f)' = FileOf(f)
  BY <1>2 DEF kernel, table, rest, exit, Outside, FileOf
<1> HIDE DEF n
<1>5. KernelTypes' /\ TableTypes' /\ OneNumber'
  BY <1>1, <1>2, <1>4 DEF EngineTypes, KernelTypes, TableTypes, OneNumber
<1>6. Fits(t, "idle", Idle) /\ files \in Nat /\ Len(conn) \in Nat
  BY <1>1, IdleFits DEF EngineTypes, KernelTypes, TableTypes
<1>7. Fits(t, "idle", Idle)'
  BY <1>4, <1>6 DEF Fits
<1>8. ThreadTypes'
  BY <1>1, <1>2, <1>4, <1>6, <1>7, ThreadMoves DEF EngineTypes
<1>9. ASSUME ~astray' PROVE Agree'
  <2>1. file[n] \in epoll => conns[n] = 0
    BY <1>2, <1>9
  <2>2. \A m \in Fd : conns[m] # 0 /\ file[m] \in epoll => file[m] \in epoll'
    BY <2>1, <1>1, <1>2, <1>3 DEF OneNumber, EngineTypes, KernelTypes
  <2>3. /\ Idle \in Register /\ Idle.file = 0 /\ Idle.conn = 0 /\ Idle.found = 0 /\ Idle.bind = FALSE
    BY EngineAssumption DEF Idle, Register, Kind
  <2>4. Recalls(Idle)
    BY <2>3 DEF Recalls, Outside
  <2>5. UNCHANGED <<kernel, table, given>> /\ UNCHANGED exit
    BY <1>2 DEF rest
  <2>6. Fresh' /\ Entries' /\ Registered' /\ Marked' /\ Remembered' /\ Kept'
    BY <2>2, <2>3, <2>4, <2>5, <1>1, <1>2, QuietStep
  <2>7. Sweeping'
    BY <2>5, <1>1, <1>2, <1>4, SweepingKept
  <2> QED
    BY <2>6, <2>7 DEF Agree
<1> QED
  BY <1>5, <1>8, <1>9 DEF EngineInv, EngineTypes

\* A thread that finds its Conn marked has a bound socket before it, which stays.
LEMMA KnownBound ==
    ASSUME EngineTypes, Agree, NEW t \in Thread,
           IF reg[t].early THEN reg[t].bind ELSE reg[t].conn # 0 /\ conn[reg[t].conn].isBind
    PROVE  Outside(file[reg[t].fd])
<1>1. reg[t].conn # 0 /\ conn[reg[t].conn].isBind
  BY DEF Agree, Remembered
<1>2. reg[t].conn \in DOMAIN conn
  BY <1>1, Older
<1>3. Outside(FileOf(reg[t].conn))
  BY <1>1, <1>2 DEF Agree, Marked, FileOf
<1> QED
  BY <1>1, <1>3 DEF Agree, Remembered

\* The socket that is closed has no entry, and nobody else counts on it.
LEMMA CloseFileAgrees ==
    ASSUME EngineTypes, Agree, OneNumber, NEW t \in Thread, pc[t] = "close", NEW p \in {"idle", "del", "next"},
           NEW r, r = reg[t] \/ (r = Idle /\ p # "del"), pc' = [pc EXCEPT ![t] = p], reg' = [reg EXCEPT ![t] = r],
           file' = [file EXCEPT ![reg[t].fd] = 0], epoll' = epoll \ {file[reg[t].fd]},
           ~Outside(file[reg[t].fd]), file[reg[t].fd] = 0 \/ file[reg[t].fd] = reg[t].file,
           UNCHANGED <<files, type, leaked, table, rest>>
    PROVE  Agree'
<1> DEFINE n == reg[t].fd
<1>1. /\ type' = type /\ leaked' = leaked /\ conn' = conn /\ conns' = conns
      /\ given' = given /\ closing' = closing /\ swept' = swept
      /\ \A f : (Outside(f)' <=> Outside(f)) /\ FileOf(f)' = FileOf(f)
  BY DEF table, rest, exit, Outside, FileOf
<1>2. n \in Fd /\ file \in [Fd -> 0 .. files] /\ \A u \in Thread : pc[u] = "add" => reg[u].fd \in Fd /\ reg[u].file # 0
  BY DEF EngineTypes, ThreadTypes, KernelTypes, Fits
<1>3. file'[n] = 0 /\ \A m \in Fd : m # n => file'[m] = file[m]
  BY <1>2
<1>4. /\ pc'[t] = p /\ reg'[t] = r /\ \A u \in Thread : u # t => pc'[u] = pc[u] /\ reg'[u] = reg[u]
  BY DEF EngineTypes, ThreadTypes
<1>5. conns[n] = 0
  BY <1>2, FileOfTyped DEF Agree, Entries
<1>6. Idle.file = 0 /\ Idle.conn = 0 /\ Idle.bind = FALSE /\ Idle.found = 0
  BY DEF Idle
<1>7. ASSUME NEW u \in Thread, pc[u] = "add" PROVE reg[u].fd # n
  <2>1. /\ u # t /\ file[reg[u].fd] = reg[u].file /\ type[reg[u].file] = reg[u].type /\ reg[u].file # 0
        /\ reg[u].type # "outside" => reg[t].file # reg[u].file
    BY <1>2, <1>7 DEF Agree, Fresh
  <2> QED
    BY <2>1 DEF Outside
<1>8. \A u \in Thread : reg[u].conn # 0 => reg[u].fd \in Fd
  BY DEF EngineTypes, ThreadTypes, Fits
<1>9. n = reg[t].fd /\ ~Outside(file[n]) /\ (file[n] = 0 \/ file[n] = reg[t].file) /\ epoll' = epoll \ {file[n]}
  OBVIOUS
<1> HIDE DEF n
<1>10. Fresh'
  <2>1. ASSUME NEW u \in Thread, pc'[u] = "add"
        PROVE  /\ u # t /\ pc[u] = "add" /\ reg'[u] = reg[u]
               /\ file'[reg[u].fd] = reg[u].file /\ type[reg[u].file] = reg[u].type
    BY <2>1, <1>2, <1>3, <1>4, <1>7 DEF Agree, Fresh
  <2>2. ASSUME NEW u \in Thread, pc'[u] = "add", reg[u].type # "outside"
        PROVE  \A v \in Thread \ {u} : reg'[v].file # reg[u].file
    <3>1. reg[u].file # 0 /\ \A v \in Thread \ {u} : reg[v].file # reg[u].file
      BY <2>1, <2>2, <1>2 DEF Agree, Fresh
    <3> QED
      BY <3>1, <1>4, <1>6
  <2>3. ASSUME NEW u \in Thread, pc'[u] = "mark" PROVE reg'[u] = reg[u] /\ Outside(reg[u].file)
    BY <2>3, <1>4 DEF Agree, Fresh
  <2> QED
    BY <2>1, <2>2, <2>3, <1>1 DEF Agree, Fresh
<1>11. Entries'
  <2>1. \A m \in Fd : conns[m] # 0 => FileOf(conns[m]) = file'[m]
    BY <1>3, <1>5 DEF Agree, Entries
  <2>2. ASSUME NEW u \in Thread, pc'[u] = "close", file'[reg[u].fd] = reg[u].file, ~Outside(reg[u].file)
        PROVE  reg'[u] = reg[u] /\ conns[reg[u].fd] = 0
    <3>1. u # t /\ pc[u] = "close" /\ reg'[u] = reg[u] /\ reg[u].fd \in Fd
      BY <2>2, <1>4 DEF EngineTypes, ThreadTypes, Fits
    <3> QED
      BY <3>1, <2>2, <1>3, <1>5 DEF Agree, Entries
  <2>3. \A u \in Thread : pc'[u] = "close" => reg'[u] = reg[u]
    BY <1>4
  <2> QED
    BY <2>1, <2>2, <2>3, <1>1 DEF Entries
<1>12. Registered'
  <2> SUFFICES ASSUME NEW m \in Fd, conns[m] # 0, file'[m] \notin epoll'
               PROVE  \E u \in Thread : reg'[u].fd = m /\ pc'[u] \in {"mark", "event", "remove"}
    BY <1>1 DEF Registered
  <2>1. m # n /\ file'[m] = file[m]
    BY <1>3, <1>5
  <2>2. file[m] \notin epoll
    BY <2>1, <1>2, <1>9 DEF OneNumber, EngineTypes, KernelTypes
  <2>3. PICK u \in Thread : reg[u].fd = m /\ pc[u] \in {"mark", "event", "remove"}
    BY <2>2 DEF Agree, Registered
  <2> QED
    BY <2>3, <1>4
<1>13. Marked'
  <2>1. ASSUME NEW m \in Fd, conns[m] # 0, Outside(file[m])', ~conn[conns[m]].isBind
        PROVE  \E u \in Thread : reg'[u].fd = m /\ pc'[u] = "mark"
    <3>1. Outside(file[m])
      BY <2>1, <1>1, <1>3, <1>5
    <3>2. PICK u \in Thread : reg[u].fd = m /\ pc[u] = "mark"
      BY <2>1, <3>1 DEF Agree, Marked
    <3> QED
      BY <3>2, <1>4
  <2> QED
    BY <2>1, <1>1 DEF Agree, Marked
<1>14. Remembered'
  <2> SUFFICES ASSUME NEW u \in Thread PROVE Recalls(reg[u])'
    BY DEF Remembered, Recalls
  <2>1. CASE reg'[u] = Idle
    BY <2>1, <1>6 DEF Recalls, Outside
  <2>2. CASE reg'[u] = reg[u]
    <3>1. Recalls(reg[u])
      BY DEF Agree, Remembered, Recalls
    <3>2. FileOf(reg[u].conn)' = FileOf(reg[u].conn)
      BY <2>2, <1>1 DEF FileOf
    <3>3. /\ Outside(FileOf(reg[u].conn))' <=> Outside(FileOf(reg[u].conn))
          /\ Outside(reg[u].found)' <=> Outside(reg[u].found)
      BY <2>2, <3>2, <1>1 DEF Outside
    <3>4. ASSUME reg[u].conn # 0, Outside(FileOf(reg[u].conn)) PROVE file'[reg[u].fd] = FileOf(reg[u].conn)
      <4>1. file[reg[u].fd] = FileOf(reg[u].conn) /\ reg[u].fd \in Fd /\ reg[u].fd # n
        BY <3>1, <3>4, <1>8, <1>9 DEF Recalls
      <4> QED
        BY <4>1, <1>3
    <3> QED
      BY <2>2, <3>1, <3>2, <3>3, <3>4, <1>1 DEF Recalls
  <2> QED
    BY <2>1, <2>2, <1>4
<1>15. Kept'
  <2> SUFFICES ASSUME NEW m \in Fd, file'[m] # 0, ~Outside(file[m])', file'[m] \notin leaked, conns[m] = 0
               PROVE  \E u \in Thread : reg'[u].fd = m /\ pc'[u] \in {"add", "close"}
    BY <1>1 DEF Kept
  <2>1. m # n /\ file'[m] = file[m] /\ ~Outside(file[m])
    BY <1>1, <1>3
  <2>2. PICK u \in Thread : reg[u].fd = m /\ pc[u] \in {"add", "close"}
    BY <2>1 DEF Agree, Kept
  <2> QED
    BY <2>1, <2>2, <1>4, <1>9
<1>16. Sweeping'
  <2>1. Socket \in Thread /\ (pc'[Socket] # "gone" \/ Socket # t)
    BY <1>4 DEF Thread
  <2>2. ASSUME NEW m \in Fd, file'[m] \in swept, ~Outside(file[m])'
        PROVE  m \in closing \/ (pc'[Socket] \in {"remove", "close"} /\ reg'[Socket].fd = m)
    <3>1. m # n /\ file'[m] = file[m] /\ ~Outside(file[m])
      BY <2>2, <1>1, <1>3 DEF EngineTypes, KernelTypes
    <3> QED
      BY <2>2, <3>1, <1>4, <1>9 DEF Agree, Sweeping, Thread
  <2>3. pc'[Socket] = "gone" => closing = {}
    BY <1>4 DEF Agree, Sweeping, Thread
  <2> QED
    BY <2>2, <2>3, <1>1 DEF Sweeping
<1> QED
  BY <1>10, <1>11, <1>12, <1>13, <1>14, <1>15, <1>16 DEF Agree

\* A bound socket stays, with nothing else to wait for the thread.
LEMMA CloseBoundAgrees ==
    ASSUME EngineTypes, Agree, NEW t \in Thread, pc[t] = "close", NEW p \in {"idle", "del", "next"},
           NEW r, r = reg[t] \/ (r = Idle /\ p # "del"), pc' = [pc EXCEPT ![t] = p], reg' = [reg EXCEPT ![t] = r],
           Outside(file[reg[t].fd]), UNCHANGED <<file, epoll, files, type, leaked, table, rest>>
    PROVE  Agree'
<1>1. /\ file' = file /\ epoll' = epoll /\ type' = type /\ leaked' = leaked /\ conn' = conn /\ conns' = conns
      /\ given' = given /\ closing' = closing /\ swept' = swept
      /\ \A f : (Outside(f)' <=> Outside(f)) /\ FileOf(f)' = FileOf(f)
  BY DEF table, rest, exit, Outside, FileOf
<1>2. /\ pc'[t] = p /\ reg'[t] = r /\ \A u \in Thread : u # t => pc'[u] = pc[u] /\ reg'[u] = reg[u]
  BY DEF EngineTypes, ThreadTypes
<1>3. Idle.file = 0 /\ Idle.conn = 0 /\ Idle.bind = FALSE /\ Idle.found = 0
  BY DEF Idle
<1>4. \A u \in Thread : pc[u] = "add" => reg[u].file # 0
  BY DEF EngineTypes, ThreadTypes, Fits
<1>5. Fresh'
  <2>1. ASSUME NEW u \in Thread, pc'[u] \in {"add", "mark"} PROVE u # t /\ pc[u] = pc'[u] /\ reg'[u] = reg[u]
    BY <2>1, <1>2
  <2>2. ASSUME NEW u \in Thread, pc'[u] = "add", reg[u].type # "outside"
        PROVE  \A v \in Thread \ {u} : reg'[v].file # reg[u].file
    <3>1. reg[u].file # 0 /\ \A v \in Thread \ {u} : reg[v].file # reg[u].file
      BY <2>1, <2>2, <1>4 DEF Agree, Fresh
    <3> QED
      BY <3>1, <1>2, <1>3
  <2> QED
    BY <2>1, <2>2, <1>1 DEF Agree, Fresh
<1>6. Entries'
  BY <1>1, <1>2 DEF Agree, Entries
<1>7. Registered'
  BY <1>1, <1>2 DEF Agree, Registered
<1>8. Marked'
  BY <1>1, <1>2 DEF Agree, Marked
<1>9. Remembered'
  <2>1. Recalls(r) /\ \A u \in Thread : Recalls(reg[u])
    BY <1>3 DEF Agree, Remembered, Recalls, Outside
  <2> QED
    BY <2>1, <1>1, <1>2 DEF Remembered, Recalls
<1>10. Kept'
  BY <1>1, <1>2 DEF Agree, Kept
<1>11. Sweeping'
  BY <1>1, <1>2 DEF Agree, Sweeping, Thread
<1> QED
  BY <1>5, <1>6, <1>7, <1>8, <1>9, <1>10, <1>11 DEF Agree

\* Close: the number goes back to the kernel with no entry left for it.
LEMMA CloseKeeps ==
    ASSUME EngineInv, ~astray, NEW t \in Thread, Close(t)
    PROVE  EngineInv'
<1> DEFINE n == reg[t].fd
           p == reg[t].after
           r == IF p \in {"idle", "next", "gone"} THEN Idle ELSE reg[t]
           isBind == IF reg[t].early THEN reg[t].bind ELSE reg[t].conn # 0 /\ conn[reg[t].conn].isBind
<1>1. EngineTypes /\ Agree /\ OneNumber
  BY DEF EngineInv
<1>2. /\ pc[t] = "close" /\ Goto(t, p, reg[t]) /\ UNCHANGED <<files, type, leaked, table, rest>>
      /\ IF isBind THEN UNCHANGED <<file, epoll, astray>> ELSE CloseFile(t, n)
  BY DEF Close
<1>3. /\ reg[t] \in Register /\ Fits(t, "close", reg[t]) /\ n \in Fd /\ p \in {"idle", "del", "next"}
      /\ (t # Socket => p # "next") /\ files \in Nat /\ Len(conn) \in Nat
  <2>1. reg[t] \in Register /\ Fits(t, "close", reg[t]) /\ files \in Nat /\ Len(conn) \in Nat
    BY <1>1, <1>2 DEF EngineTypes, ThreadTypes, KernelTypes, TableTypes
  <2> QED
    BY <2>1 DEF Fits, Register
<1>4. pc' = [pc EXCEPT ![t] = p] /\ reg' = [reg EXCEPT ![t] = r] /\ (r = reg[t] \/ (r = Idle /\ p # "del"))
  BY <1>2 DEF Goto
<1>5. files' = files /\ conn' = conn
  BY <1>2 DEF table
<1> HIDE DEF isBind, r
<1>6. ThreadTypes'
  <2>1. PICK k, q : k = p /\ q = reg[t]
    OBVIOUS
  <2>2. k = "del" => Fits(t, k, q)
    BY <2>1, <1>3 DEF Fits, Place
  <2>3. k # "del" => Fits(t, k, Idle)
    BY <2>1, <1>1, <1>3, IdleFits DEF EngineTypes
  <2>4. (k = "del" => Fits(t, k, q)') /\ (k # "del" => Fits(t, k, Idle)')
    BY <2>2, <2>3, <1>5 DEF Fits
  <2> QED
    BY <2>1, <2>4, <1>1, <1>2, <1>3, <1>5, ThreadMoves DEF EngineTypes
<1>7. TableTypes'
  BY <1>1, <1>2 DEF EngineTypes, TableTypes, table
<1>8. CASE isBind
  <2>1. Outside(file[n])
    BY <1>1, <1>8, KnownBound DEF isBind
  <2>2. Agree'
    BY <2>1, <1>1, <1>2, <1>3, <1>4, <1>8, CloseBoundAgrees
  <2>3. KernelTypes' /\ OneNumber'
    BY <1>1, <1>2, <1>8 DEF EngineTypes, KernelTypes, OneNumber, rest, exit
  <2> QED
    BY <2>2, <2>3, <1>6, <1>7 DEF EngineInv, EngineTypes
<1>9. CASE ~isBind
  <2>1. /\ file' = [file EXCEPT ![n] = 0] /\ epoll' = epoll \ {file[n]}
        /\ Meets(t, IF Outside(file[n]) THEN -1 ELSE file[n])
    BY <1>2, <1>9 DEF CloseFile
  <2>2. file \in [Fd -> 0 .. files] /\ file'[n] = 0 /\ \A m \in Fd : m # n => file'[m] = file[m]
    BY <2>1, <1>1, <1>3 DEF EngineTypes, KernelTypes
  <2>3. KernelTypes' /\ OneNumber'
    <3>1. ASSUME NEW e \in epoll' PROVE e # 0 /\ \E m \in Fd : e = file'[m]
      <4>1. PICK m \in Fd : e = file[m] /\ e # 0 /\ e # file[n]
        BY <2>1, <3>1, <1>1 DEF EngineTypes, KernelTypes
      <4> QED
        BY <4>1, <2>2
    <3>2. file' \in [Fd -> 0 .. files] /\ astray' \in BOOLEAN
      BY <2>1, <2>2, <1>3 DEF Meets
    <3>3. OneNumber'
      BY <2>2, <1>1 DEF OneNumber
    <3> QED
      BY <3>1, <3>2, <3>3, <1>1, <1>2 DEF EngineTypes, KernelTypes, rest, exit
  <2>4. ASSUME ~astray' PROVE Agree'
    <3>1. ~Outside(file[n]) /\ (file[n] = 0 \/ file[n] = reg[t].file)
      <4>1. reg[t].file \in Nat
        BY <1>1, Older
      <4>2. CASE Outside(file[n])
        <5>1. PICK f : f = -1 /\ f # 0 /\ f # reg[t].file
          BY <4>1
        <5>2. Meets(t, f)
          BY <5>1, <4>2, <2>1
        <5> QED
          BY <5>1, <5>2, <2>4 DEF Meets
      <4>3. CASE ~Outside(file[n])
        BY <4>3, <2>1, <2>4 DEF Meets
      <4> QED
        BY <4>2, <4>3
    <3> QED
      BY <3>1, <2>1, <1>1, <1>2, <1>3, <1>4, CloseFileAgrees
  <2> QED
    BY <2>3, <2>4, <1>6, <1>7 DEF EngineInv, EngineTypes
<1> QED
  BY <1>8, <1>9

-----------------------------------------------------------------------------
(* Engine: the theorems *)

\* The invariant is inductive.
LEMMA EngineStep == EngineInv /\ [Next]_vars => EngineInv'
<1> SUFFICES ASSUME EngineInv, [Next]_vars PROVE EngineInv'
  OBVIOUS
<1>1. CASE UNCHANGED vars
  BY <1>1 DEF vars, EngineInv, EngineTypes, KernelTypes, TableTypes, ThreadTypes, Fits, OneNumber, Agree, Fresh, Entries,
     Registered, Marked, Remembered, Kept, Sweeping, Outside, FileOf
<1>2. CASE Next
  <2>1. ~astray
    BY <1>2 DEF Next
  <2>2. ASSUME NEW t \in Thread, Steps(t) PROVE EngineInv'
    BY <2>1, <2>2, AddConnKeeps, MarkBindKeeps, AddEventKeeps, RemoveConnKeeps, CloseKeeps, RemoveEventKeeps
       DEF Steps
  <2>3. ASSUME NEW t \in Worker, NEW n \in Fd, NEW kind \in {"listen", "client", "udp"}, Open(t, n, kind)
        PROVE  EngineInv'
    <3>1. /\ t \in Thread /\ Opens(t, n, kind) /\ pc[t] \in {"idle", "accept"}
          /\ UNCHANGED <<epoll, table, rest, leaked, astray>>
      BY <2>3 DEF Open, Thread
    <3> QED
      BY <2>1, <3>1, OpensKeeps
  <2>4. ASSUME NEW t \in Worker, NEW h \in given, Bind(t, h) \/ \E linger \in BOOLEAN : CloseConn(t, h, linger)
        PROVE  EngineInv'
    BY <2>1, <2>4, BindKeeps, CloseConnKeeps
  <2>5. ASSUME NEW n \in Fd, ListenFails(n) \/ MadeOutside(n) \/ EpollWait(n) \/ CloseNext(n) PROVE EngineInv'
    BY <2>1, <2>5, MadeKeeps, SocketWaitKeeps, CloseNextKeeps
  <2>6. CASE OnEvent \/ OnAccept \/ ReadData \/ CloseAll
    BY <2>1, <2>6, OnEventKeeps, OnAcceptKeeps, ReadDataKeeps, CloseAllKeeps
  <2>7. CASE CloseEnd
    <3>1. /\ pc[Socket] = "next" /\ closing = {} /\ Goto(Socket, "gone", Idle) /\ astray' \in BOOLEAN
          /\ UNCHANGED <<kernel, epoll, table, rest>> /\ "gone" \in {"idle", "gone"}
      BY <2>7 DEF CloseEnd, EngineInv, EngineTypes, KernelTypes
    <3> QED
      BY <2>1, <3>1, SocketIdleKeeps
  <2> QED
    BY <1>2, <2>2, <2>3, <2>4, <2>5, <2>6, <2>7 DEF Next
<1> QED
  BY <1>1, <1>2

\* The invariant holds throughout.
LEMMA EngineAlways == Spec => []EngineInv
  BY EngineInit0, EngineStep, PTL DEF Spec

\* As long as no call has met a socket it was not meant for, the engine's table, the
\* kernel's descriptors and the epoll set agree about every number nobody is at work
\* on, and no socket of the engine's is forgotten.
THEOREM EngineTablesAgree == Spec => []TablesAgree
<1>1. EngineInv => TablesAgree
  <2> SUFFICES ASSUME EngineInv PROVE TablesAgree
    OBVIOUS
  <2>1. TypeOK
    BY TypesHold DEF EngineInv
  <2>2. ASSUME ~astray, NEW n \in Fd, ~Busy(n)
        PROVE  /\ conns[n] # 0 => /\ file[n] = FileOf(conns[n]) /\ file[n] \in epoll
                                  /\ conn[conns[n]].isBind <=> Outside(file[n])
               /\ file[n] # 0 /\ ~Outside(file[n]) /\ file[n] \notin leaked => FileOf(conns[n]) = file[n]
    <3>1. EngineTypes /\ Agree
      BY <2>2 DEF EngineInv
    <3>2. \A t \in Thread : reg[t].fd = n => pc[t] \notin {"add", "mark", "event", "remove", "close", "del"}
      BY <2>2 DEF Busy
    <3>3. conns[n] # 0 => conns[n] \in DOMAIN conn /\ FileOf(conns[n]) = conn[conns[n]].file /\ FileOf(conns[n]) = file[n]
      BY <3>1, FileOfTyped DEF Agree, Entries
    <3>4. conns[n] # 0 => file[n] \in epoll
      BY <3>1, <3>2 DEF Agree, Registered
    <3>5. conns[n] # 0 => (conn[conns[n]].isBind <=> Outside(file[n]))
      BY <3>1, <3>2, <3>3 DEF Agree, Marked
    <3>6. file[n] # 0 /\ ~Outside(file[n]) /\ file[n] \notin leaked => conns[n] # 0
      BY <3>1, <3>2 DEF Agree, Kept
    <3> QED
      BY <3>3, <3>4, <3>5, <3>6
  <2> QED
    BY <2>1, <2>2 DEF TablesAgree
<1> QED
  BY <1>1, EngineAlways, PTL

\* When the socket thread has left, every socket that was in the table when it began
\* to leave is closed, unless somebody else owns it.
THEOREM EngineExitCloses == Spec => []ExitCloses
<1>1. EngineInv => ExitCloses
  BY DEF EngineInv, Agree, Sweeping, ExitCloses
<1> QED
  BY <1>1, EngineAlways, PTL

\* No call that found the marked entry of a descriptor made outside closes it.
THEOREM EngineBoundKept == Spec => BoundIsKept
<1>1. EngineInv /\ [Next]_vars =>
        [\A n \in Fd : Outside(file[n]) /\ file'[n] # file[n] =>
           \E t \in Thread : reg[t].fd = n /\ pc[t] = "close" /\ reg[t].found # file[n]]_vars
  <2> SUFFICES ASSUME EngineInv, Next, NEW n \in Fd, Outside(file[n]), file'[n] # file[n]
               PROVE  \E t \in Thread : reg[t].fd = n /\ pc[t] = "close" /\ reg[t].found # file[n]
    OBVIOUS
  <2>1. EngineTypes /\ Agree
    BY DEF EngineInv, Next
  <2>2. ASSUME NEW m \in Fd, NEW kind, NewSocket(m, kind) PROVE FALSE
    <3>1. m # n
      BY <2>2 DEF NewSocket, Outside
    <3> QED
      BY <2>1, <2>2, <3>1 DEF NewSocket, EngineTypes, KernelTypes
  <2>3. ASSUME NEW t \in Thread, Close(t) PROVE reg[t].fd = n /\ pc[t] = "close" /\ reg[t].found # file[n]
    <3>1. pc[t] = "close" /\ file' # file
      BY <2>3 DEF Close
    <3>2. ~(IF reg[t].early THEN reg[t].bind ELSE reg[t].conn # 0 /\ conn[reg[t].conn].isBind)
      BY <2>3, <3>1 DEF Close
    <3>3. ~reg[t].bind
      BY <2>1, <3>2 DEF Agree, Remembered
    <3>4. reg[t].fd = n
      BY <2>1, <2>3, <3>2 DEF Close, CloseFile, EngineTypes, KernelTypes
    <3> QED
      BY <2>1, <3>1, <3>3, <3>4 DEF Agree, Remembered
  <2>4. ASSUME UNCHANGED kernel PROVE FALSE
    BY <2>4 DEF kernel
  <2>5. ASSUME NEW t \in Thread, Steps(t)
        PROVE  \E u \in Thread : reg[u].fd = n /\ pc[u] = "close" /\ reg[u].found # file[n]
    BY <2>3, <2>4, <2>5 DEF Steps, AddConn, MarkBind, AddEvent, RemoveConn, RemoveEvent
  <2>6. ~(\E t \in Worker, m \in Fd, kind \in {"listen", "client", "udp"} : Open(t, m, kind))
    BY <2>2 DEF Open, Opens
  <2>7. ~(\E t \in Worker, h \in given : Bind(t, h) \/ \E linger \in BOOLEAN : CloseConn(t, h, linger))
    BY <2>4 DEF Bind, CloseConn
  <2>8. ~(\E m \in Fd : ListenFails(m) \/ MadeOutside(m) \/ EpollWait(m) \/ CloseNext(m))
    BY <2>2, <2>4 DEF ListenFails, MadeOutside, EpollWait, CloseNext
  <2>9. ~(OnEvent \/ OnAccept \/ ReadData \/ CloseAll \/ CloseEnd)
    BY <2>2, <2>4 DEF OnEvent, OnAccept, Opens, ReadData, CloseAll, CloseEnd
  <2> QED
    BY <2>5, <2>6, <2>7, <2>8, <2>9 DEF Next
<1> QED
  BY <1>1, EngineAlways, PTL DEF Spec, BoundIsKept

-----------------------------------------------------------------------------
(* Udp *)

Datagram == [from : Peer, empty : BOOLEAN]
Message == [of : Datagram, udpAddr : {U!PackUdpAddress(p) : p \in Peer}]

\* The types: of what is posted only the datagram is needed, its address is a property.
UdpTypes ==
    /\ queue \in Seq(Datagram) /\ accepted \in Seq(Datagram)
    /\ posted \in Seq(Message)
    /\ edge \in BOOLEAN /\ mask \in BOOLEAN /\ paused \in BOOLEAN /\ modify \in BOOLEAN /\ reading \in BOOLEAN
    /\ behind \in BOOLEAN

\* The datagrams the socket thread has taken from the queue.
Taken == Len(accepted) - Len(queue)
Waiting == Taken >= 0 /\ \A k \in DOMAIN queue : queue[k] = accepted[Taken + k]
Places(place) ==
    /\ place \in [DOMAIN posted -> 1 .. Taken]
    /\ \A i, j \in DOMAIN posted : i < j => place[i] < place[j]
    /\ {place[i] : i \in DOMAIN posted} = {k \in 1 .. Taken : ~accepted[k].empty}
    /\ \A i \in DOMAIN posted : posted[i].of = accepted[place[i]]
Posted == \E place : Places(place)
Addressed == \A i \in DOMAIN posted : posted[i].udpAddr = U!PackUdpAddress(posted[i].of.from)

\* The default peer is kept with its packed form.
Default == udpAddr = <<>> \/ \E p \in Peer : udpAddr = <<U!PackUdpAddress(p), p>>
Reached == sent.meant # <<>> /\ sent.meant[1].scope = 0 => sent.to = sent.meant[1]

\* The mask is the one last asked for, or about to be set.
Masked == modify \/ (mask <=> ~paused)

UdpInv == UdpTypes /\ Waiting /\ Posted /\ Addressed /\ Default /\ Reached /\ Masked /\ U!NoneUnnoticed

\* What the packed form of an address without a scope keeps is the address.
LEMMA UnpackInverts ==
    ASSUME NEW p \in Peer, p.scope = 0
    PROVE  U!UnpackUdpAddress(U!PackUdpAddress(p)) = p
<1>1. p \in [family : Family, ip : Nat, port : Port, scope : Nat]
  BY PeerAssumption
<1>2. p = [family |-> p.family, ip |-> p.ip, port |-> p.port, scope |-> p.scope]
  BY <1>1
<1> QED
  BY <1>2 DEF U!UnpackUdpAddress, U!PackUdpAddress

\* At first nothing has come.
LEMMA UdpInit == U!Init => UdpInv
<1> SUFFICES ASSUME U!Init PROVE UdpInv
  OBVIOUS
<1>1. UdpTypes /\ Taken = 0 /\ queue = <<>> /\ posted = <<>> /\ accepted = <<>>
  <2>1. queue = <<>> /\ posted = <<>> /\ accepted = <<>>
    BY DEF U!Init
  <2>2. queue \in Seq(Datagram) /\ posted \in Seq(Message) /\ accepted \in Seq(Datagram) /\ Taken = 0
    BY <2>1 DEF Taken
  <2> QED
    BY <2>1, <2>2 DEF U!Init, UdpTypes
<1>2. Places(<<>>)
  BY <1>1 DEF Places
<1>3. Reached
  BY DEF U!Init, U!Nowhere, Reached
<1> QED
  BY <1>1, <1>2, <1>3 DEF UdpInv, Waiting, Posted, Addressed, Default, Masked, U!Init, U!NoneUnnoticed

\* A datagram is taken in at the end of the queue, or dropped.
LEMMA ArriveKeeps ==
    ASSUME UdpInv, NEW d \in Datagram, U!Arrive(d)
    PROVE  UdpInv'
<1>1. /\ queue \in Seq(Datagram) /\ accepted \in Seq(Datagram) /\ Len(queue) \in Nat /\ Len(accepted) \in Nat
      /\ Taken \in Nat
  BY DEF UdpInv, UdpTypes, Waiting, Taken
<1>2. posted' = posted /\ udpAddr' = udpAddr /\ sent' = sent /\ mask' = mask /\ paused' = paused /\ modify' = modify
      /\ reading' = reading
  BY DEF U!Arrive
<1>3. CASE UNCHANGED <<queue, accepted, edge, behind>>
  BY <1>2, <1>3 DEF UdpInv, UdpTypes, Waiting, Posted, Places, Taken, Addressed, Default, Reached, Masked, U!NoneUnnoticed
<1>4. CASE /\ queue' = Append(queue, d) /\ accepted' = Append(accepted, d)
           /\ edge' = (edge \/ mask) /\ behind' = (behind /\ ~mask)
  <2>1. /\ queue' \in Seq(Datagram) /\ accepted' \in Seq(Datagram) /\ Len(queue') = Len(queue) + 1
        /\ Len(accepted') = Len(accepted) + 1 /\ Taken' = Taken
    BY <1>1, <1>4 DEF Taken
  <2>2. Waiting'
    <3>1. DOMAIN queue = 1 .. Len(queue) /\ DOMAIN queue' = 1 .. Len(queue) + 1 /\ DOMAIN accepted = 1 .. Len(accepted)
      BY <2>1, <1>1
    <3>2. queue'[Len(queue) + 1] = d /\ accepted'[Taken + (Len(queue) + 1)] = d
      BY <1>1, <1>4 DEF Taken
    <3>3. ASSUME NEW k \in 1 .. Len(queue) PROVE queue'[k] = accepted'[Taken + k]
      <4>1. queue'[k] = queue[k]
        BY <1>1, <1>4
      <4>2. Taken + k \in 1 .. Len(accepted)
        BY <1>1 DEF Taken
      <4>3. accepted'[Taken + k] = accepted[Taken + k]
        BY <4>2, <1>1, <1>4
      <4>4. queue[k] = accepted[Taken + k]
        BY <3>1 DEF UdpInv, Waiting
      <4> QED
        BY <4>1, <4>3, <4>4
    <3>4. \A k \in 1 .. Len(queue) + 1 : k \in 1 .. Len(queue) \/ k = Len(queue) + 1
      BY <1>1
    <3>5. \A k \in 1 .. Len(queue) + 1 : queue'[k] = accepted'[Taken + k]
      BY <3>2, <3>3, <3>4
    <3> QED
      BY <3>1, <3>5, <2>1 DEF UdpInv, Waiting
  <2>3. Posted'
    <3>1. PICK place : Places(place)
      BY DEF UdpInv, Posted
    <3>2. \A k \in 1 .. Taken : accepted'[k] = accepted[k]
      BY <1>1, <1>4 DEF Taken
    <3>3. Places(place)'
      BY <3>1, <3>2, <2>1, <1>2 DEF Places
    <3> QED
      BY <3>3 DEF Posted
  <2>4. UdpTypes'
    BY <2>1, <1>2, <1>4 DEF UdpInv, UdpTypes
  <2>5. Addressed' /\ Default' /\ Reached' /\ Masked'
    BY <1>2 DEF UdpInv, Addressed, Default, Reached, Masked
  <2>6. U!NoneUnnoticed'
    BY <1>2, <1>4 DEF UdpInv, UdpTypes, Masked, U!NoneUnnoticed
  <2> QED
    BY <2>2, <2>3, <2>4, <2>5, <2>6 DEF UdpInv
<1> QED
  BY <1>3, <1>4 DEF U!Arrive

\* recvfrom takes the first datagram, which is posted unless it is empty.
LEMMA ReadUdpKeeps ==
    ASSUME UdpInv, U!ReadUdp
    PROVE  UdpInv'
<1>1. /\ queue \in Seq(Datagram) /\ accepted \in Seq(Datagram) /\ Len(queue) \in Nat /\ Len(accepted) \in Nat
      /\ Taken \in Nat
  BY DEF UdpInv, UdpTypes, Waiting, Taken
<1>2. accepted' = accepted /\ udpAddr' = udpAddr /\ sent' = sent /\ mask' = mask /\ paused' = paused /\ modify' = modify
      /\ edge' = edge /\ reading' = (queue # <<>> /\ ~Head(queue).empty)
  BY DEF U!ReadUdp
<1>3. CASE queue = <<>>
  <2>1. UNCHANGED <<queue, posted, behind>> /\ reading' \in BOOLEAN
    BY <1>3 DEF U!ReadUdp
  <2> QED
    BY <1>2, <1>3, <2>1
       DEF UdpInv, UdpTypes, Waiting, Posted, Places, Taken, Addressed, Default, Reached, Masked, U!NoneUnnoticed
<1>4. CASE queue # <<>>
  <2> DEFINE d == Head(queue)
             m == [of |-> d, udpAddr |-> U!PackUdpAddress(d.from)]
  <2>1. /\ queue' = Tail(queue) /\ posted' = (IF d.empty THEN posted ELSE Append(posted, m))
        /\ behind' = (d.empty /\ Len(queue) > 1 /\ ~edge) /\ reading' = (~d.empty)
    BY <1>2, <1>4 DEF U!ReadUdp
  <2>2. d \in Datagram /\ d.empty \in BOOLEAN /\ d.from \in Peer /\ d = queue[1] /\ Len(queue) >= 1
    <3>1. d \in Datagram /\ d = queue[1] /\ Len(queue) >= 1
      BY <1>1, <1>4
    <3> QED
      BY <3>1 DEF Datagram
  <2>3. /\ Len(queue') = Len(queue) - 1 /\ queue' \in Seq(Datagram) /\ Taken' = Taken + 1
        /\ \A k \in DOMAIN queue' : queue'[k] = queue[k + 1] /\ k + 1 \in DOMAIN queue
    BY <2>1, <2>2, <1>1, <1>2, <1>4 DEF Taken
  <2>4. d = accepted[Taken + 1]
    BY <2>2, <1>1 DEF UdpInv, Waiting
  <2>5. Waiting'
    <3>1. \A k \in DOMAIN queue' : k \in Nat /\ Taken + (k + 1) = Taken + 1 + k
      <4>1. DOMAIN queue' = 1 .. Len(queue')
        BY <2>3
      <4> QED
        BY <4>1, <1>1
    <3> QED
      BY <3>1, <2>3, <1>1, <1>2 DEF UdpInv, Waiting
  <2>6. m \in Message /\ m.of = d /\ m.udpAddr = U!PackUdpAddress(d.from)
    BY <2>2 DEF Message
  <2> HIDE DEF d, m
  <2>7. UdpTypes'
    BY <2>1, <2>2, <2>3, <2>6, <1>2 DEF UdpInv, UdpTypes
  <2>8. posted \in Seq(Message) /\ Len(posted) \in Nat
    BY DEF UdpInv, UdpTypes
  <2>9. PICK place : Places(place)
    BY DEF UdpInv, Posted
  <2>10. Posted' /\ Addressed'
    <3>1. CASE d.empty
      <4>1. posted' = posted /\ accepted[Taken + 1].empty
        BY <2>1, <2>4, <3>1
      <4>2. {k \in 1 .. Taken + 1 : ~accepted[k].empty} = {k \in 1 .. Taken : ~accepted[k].empty}
        BY <4>1, <1>1
      <4>3. place \in [DOMAIN posted -> 1 .. Taken + 1]
        BY <2>9, <1>1 DEF Places
      <4>4. Places(place)'
        BY <4>1, <4>2, <4>3, <2>3, <2>9, <1>2 DEF Places
      <4>5. Addressed'
        BY <4>1 DEF UdpInv, Addressed
      <4> QED
        BY <4>4, <4>5 DEF Posted
    <3>2. CASE ~d.empty
      <4> DEFINE n == Len(posted) + 1
                 next == [i \in 1 .. n |-> IF i = n THEN Taken + 1 ELSE place[i]]
      <4>1. /\ posted' = Append(posted, m) /\ DOMAIN posted' = 1 .. n /\ posted'[n] = m
            /\ DOMAIN posted = 1 .. Len(posted) /\ \A i \in DOMAIN posted : posted'[i] = posted[i] /\ i \in 1 .. n /\ i < n
            /\ \A i \in 1 .. n : i # n => i \in DOMAIN posted
        BY <2>1, <2>8, <3>2
      <4>2. /\ next[n] = Taken + 1 /\ n \in 1 .. n /\ DOMAIN next = 1 .. n
            /\ \A i \in DOMAIN posted : next[i] = place[i] /\ place[i] \in 1 .. Taken
        BY <4>1, <2>8, <2>9 DEF Places
      <4>3. next \in [1 .. n -> 1 .. Taken + 1]
        BY <4>1, <2>9, <1>1 DEF Places
      <4> HIDE DEF n, next
      <4>4. \A i, j \in 1 .. n : i < j => next[i] < next[j]
        <5> SUFFICES ASSUME NEW i \in 1 .. n, NEW j \in 1 .. n, i < j PROVE next[i] < next[j]
          OBVIOUS
        <5>1. n \in Nat
          BY <2>8 DEF n
        <5>2. i # n /\ i \in DOMAIN posted
          BY <5>1, <4>1
        <5>3. CASE j = n
          BY <5>2, <5>3, <4>2, <1>1
        <5>4. CASE j # n
          BY <5>2, <5>4, <4>1, <4>2, <2>9 DEF Places
        <5> QED
          BY <5>3, <5>4
      <4>5. {next[i] : i \in 1 .. n} = {k \in 1 .. Taken + 1 : ~accepted[k].empty}
        <5>1. {next[i] : i \in 1 .. n} = {place[i] : i \in DOMAIN posted} \cup {Taken + 1}
          BY <4>1, <4>2
        <5>2. {k \in 1 .. Taken + 1 : ~accepted[k].empty} = {k \in 1 .. Taken : ~accepted[k].empty} \cup {Taken + 1}
          BY <2>4, <3>2, <1>1
        <5> QED
          BY <5>1, <5>2, <2>9 DEF Places
      <4>6. \A i \in 1 .. n : posted'[i].of = accepted[next[i]]
        BY <4>1, <4>2, <2>4, <2>6, <2>9 DEF Places
      <4>7. Posted'
        <5>1. PICK q : q = next
          OBVIOUS
        <5>2. q \in [DOMAIN posted' -> 1 .. Taken'] /\ \A i \in DOMAIN posted' : posted'[i].of = accepted'[q[i]]
          BY <5>1, <4>1, <4>3, <4>6, <2>3, <1>2
        <5>3. \A i, j \in DOMAIN posted' : i < j => q[i] < q[j]
          BY <5>1, <4>1, <4>4
        <5>4. {q[i] : i \in DOMAIN posted'} = {k \in 1 .. Taken' : ~accepted'[k].empty}
          BY <5>1, <4>1, <4>5, <2>3, <1>2
        <5>5. Places(q)'
          BY <5>2, <5>3, <5>4 DEF Places
        <5> QED
          BY <5>5 DEF Posted
      <4>8. Addressed'
        BY <4>1, <2>6 DEF UdpInv, Addressed
      <4> QED
        BY <4>7, <4>8
    <3> QED
      BY <2>2, <3>1, <3>2
  <2>11. Default' /\ Reached' /\ Masked'
    BY <1>2 DEF UdpInv, Default, Reached, Masked
  <2>12. U!NoneUnnoticed'
    <3>1. queue' # <<>> => Len(queue) > 1
      BY <2>3, <1>1
    <3> QED
      BY <3>1, <2>1, <2>2, <1>2 DEF U!NoneUnnoticed
  <2> QED
    BY <2>5, <2>7, <2>10, <2>11, <2>12 DEF UdpInv
<1> QED
  BY <1>3, <1>4

\* The steps that leave the queue and what is posted alone.
LEMMA UdpEventKeeps ==
    ASSUME UdpInv, U!OnRW \/ U!ModifyEvent \/ \E p \in BOOLEAN : U!SetPaused(p)
    PROVE  UdpInv'
<1>1. /\ queue' = queue /\ posted' = posted /\ accepted' = accepted /\ udpAddr' = udpAddr /\ sent' = sent
  BY DEF U!OnRW, U!ModifyEvent, U!SetPaused, U!input
<1>2. Waiting' /\ Posted' /\ Addressed' /\ Default' /\ Reached'
  BY <1>1 DEF UdpInv, Waiting, Posted, Places, Taken, Addressed, Default, Reached
<1>3. /\ queue \in Seq(Datagram) /\ accepted \in Seq(Datagram) /\ posted \in Seq(Message)
      /\ edge \in BOOLEAN /\ mask \in BOOLEAN /\ paused \in BOOLEAN /\ modify \in BOOLEAN /\ reading \in BOOLEAN
      /\ behind \in BOOLEAN /\ Masked /\ U!NoneUnnoticed
  BY DEF UdpInv, UdpTypes
<1>4. CASE U!OnRW
  <2>1. /\ edge /\ edge' = FALSE /\ reading' = (~paused) /\ mask' = mask /\ paused' = paused /\ modify' = modify
        /\ behind' = behind
    BY <1>4 DEF U!OnRW, U!input
  <2>2. UdpTypes'
    BY <2>1, <1>1, <1>3 DEF UdpTypes
  <2>3. Masked' /\ U!NoneUnnoticed'
    BY <2>1, <1>3 DEF Masked, U!NoneUnnoticed
  <2> QED
    BY <2>2, <2>3, <1>2 DEF UdpInv
<1>5. CASE U!ModifyEvent
  <2>1. /\ modify' = FALSE /\ mask' = (~paused) /\ edge' = (~paused /\ queue # <<>>) /\ behind' = (behind /\ ~edge')
        /\ paused' = paused /\ reading' = reading
    BY <1>5 DEF U!ModifyEvent
  <2>2. UdpTypes'
    BY <2>1, <1>1, <1>3 DEF UdpTypes
  <2>3. Masked' /\ U!NoneUnnoticed'
    BY <2>1, <1>1, <1>3 DEF Masked, U!NoneUnnoticed
  <2> QED
    BY <2>2, <2>3, <1>2 DEF UdpInv
<1>6. CASE \E p \in BOOLEAN : U!SetPaused(p)
  <2>1. /\ modify' = TRUE /\ paused' \in BOOLEAN /\ edge' = edge /\ mask' = mask /\ reading' = reading
        /\ behind' = behind
    BY <1>6 DEF U!SetPaused, U!input
  <2>2. UdpTypes'
    BY <2>1, <1>1, <1>3 DEF UdpTypes
  <2>3. Masked' /\ U!NoneUnnoticed'
    BY <2>1, <1>3 DEF Masked, U!NoneUnnoticed
  <2> QED
    BY <2>2, <2>3, <1>2 DEF UdpInv
<1> QED
  BY <1>4, <1>5, <1>6

\* SetUdpAddress, and the two ways to send.
LEMMA UdpSendKeeps ==
    ASSUME UdpInv, (\E p \in Peer : U!SetUdpAddress(p)) \/ U!SendDefault \/ \E i \in DOMAIN posted : U!Reply(i)
    PROVE  UdpInv'
<1>1. UNCHANGED <<queue, edge, mask, paused, modify, reading, posted, accepted, behind>>
  BY DEF U!SetUdpAddress, U!SendDefault, U!Reply, U!input, U!events
<1>2. UdpTypes' /\ Waiting' /\ Posted' /\ Addressed' /\ Masked' /\ U!NoneUnnoticed'
  BY <1>1 DEF UdpInv, UdpTypes, Waiting, Posted, Places, Taken, Addressed, Masked, U!NoneUnnoticed
<1>3. ASSUME NEW p \in Peer, U!SetUdpAddress(p) PROVE Default' /\ Reached'
  <2>1. udpAddr' = <<U!PackUdpAddress(p), p>> /\ sent' = sent
    BY <1>3 DEF U!SetUdpAddress
  <2>2. Default'
    BY <2>1 DEF Default, U!PackUdpAddress
  <2> QED
    BY <2>1, <2>2 DEF UdpInv, Reached
<1>4. ASSUME NEW p \in Peer, sent' = [to |-> U!UnpackUdpAddress(U!PackUdpAddress(p)), meant |-> <<p>>] PROVE Reached'
  <2>1. sent'.meant[1] = p /\ sent'.to = U!UnpackUdpAddress(U!PackUdpAddress(p))
    BY <1>4
  <2> QED
    BY <2>1, UnpackInverts DEF Reached
<1>5. CASE U!SendDefault
  <2>1. PICK p \in Peer : udpAddr = <<U!PackUdpAddress(p), p>>
    BY <1>5 DEF UdpInv, Default, U!SendDefault
  <2>2. udpAddr[1] = U!PackUdpAddress(p) /\ udpAddr[2] = p
    BY <2>1
  <2>3. sent' = [to |-> U!UnpackUdpAddress(U!PackUdpAddress(p)), meant |-> <<p>>] /\ udpAddr' = udpAddr
    BY <2>2, <1>5 DEF U!SendDefault
  <2>4. Default'
    BY <2>3 DEF UdpInv, Default
  <2> QED
    BY <2>3, <2>4, <1>2, <1>4 DEF UdpInv
<1>6. ASSUME NEW i \in DOMAIN posted, U!Reply(i) PROVE Default' /\ Reached'
  <2>1. posted[i].of.from \in Peer /\ posted[i].udpAddr = U!PackUdpAddress(posted[i].of.from)
    <3>1. posted[i] \in Message
      BY DEF UdpInv, UdpTypes
    <3> QED
      BY <3>1 DEF UdpInv, Addressed, Message, Datagram
  <2>2. PICK p \in Peer : p = posted[i].of.from
    BY <2>1
  <2>3. sent' = [to |-> U!UnpackUdpAddress(U!PackUdpAddress(p)), meant |-> <<p>>] /\ udpAddr' = udpAddr
    BY <2>1, <2>2, <1>6 DEF U!Reply
  <2>4. Default'
    BY <2>3 DEF UdpInv, Default
  <2> QED
    BY <2>3, <2>4, <1>4
<1> QED
  BY <1>2, <1>3, <1>5, <1>6 DEF UdpInv

\* Every step keeps the invariant.
LEMMA UdpStep == UdpInv /\ [U!Next]_(U!vars) => UdpInv'
<1> SUFFICES ASSUME UdpInv, [U!Next]_(U!vars) PROVE UdpInv'
  OBVIOUS
<1>1. CASE UNCHANGED U!vars
  BY <1>1 DEF U!vars, UdpInv, UdpTypes, Waiting, Posted, Places, Taken, Addressed, Default, Reached, Masked,
     U!NoneUnnoticed
<1>2. ASSUME NEW p \in Peer, NEW e \in BOOLEAN, U!Arrive([from |-> p, empty |-> e]) PROVE UdpInv'
  <2>1. [from |-> p, empty |-> e] \in Datagram
    BY DEF Datagram
  <2> QED
    BY <2>1, <1>2, ArriveKeeps
<1> QED
  BY <1>1, <1>2, ReadUdpKeeps, UdpEventKeeps, UdpSendKeeps DEF U!Next

\* The invariant holds throughout.
LEMMA UdpAlways == U!Spec => []UdpInv
  BY UdpInit, UdpStep, PTL DEF U!Spec

\* What the kernel has taken in is posted in its order, once each and with its
\* sender's address, except for the empty ones, and a datagram goes where it is meant
\* to, for any peers and any number of datagrams.
THEOREM UdpExact == U!Spec => []DatagramsExact
<1>1. UdpInv => DatagramsExact
  <2> SUFFICES ASSUME UdpInv PROVE DatagramsExact
    OBVIOUS
  <2>1. PICK place : Places(place)
    BY DEF UdpInv, Posted
  <2> QED
    BY <2>1 DEF UdpInv, Waiting, Places, Taken, Addressed, Reached, DatagramsExact, U!DatagramsExact
<1> QED
  BY <1>1, UdpAlways, PTL

\* No datagram waits unnoticed, unless it is left behind an empty one.
THEOREM UdpNoticed == U!Spec => []NoneUnnoticed
<1>1. UdpInv => NoneUnnoticed
  BY DEF UdpInv, NoneUnnoticed
<1> QED
  BY <1>1, UdpAlways, PTL

=============================================================================

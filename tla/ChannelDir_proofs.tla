-------------------------- MODULE ChannelDir_proofs --------------------------
(***************************************************************************)
(* Gate and list: the receive gate follows the announcements, the member     *)
(* list follows the gate, and so, once nothing is on its way, every member   *)
(* hears exactly the channel it is tuned to (ChannelDir, GateIsTrue).        *)
(* The argument follows an announcement down its way: in the frames of an    *)
(* open data channel, else in the gate, the last word is the channel of the  *)
(* sender; in the events of the engine loop, else in the row, it is that of  *)
(* the gate.  Whoever leaves takes gate, row and link along.                 *)
(*                                                                         *)
(* Directories: what a member lists, the other end of an open channel has    *)
(* answered, or a list that carries it is on its way (DirectoriesAgree).     *)
(* An answer is an entry, a tombstone, or a store that is full counting its  *)
(* tombstones, and no step but a restart takes an answer back.               *)
(***************************************************************************)
EXTENDS ChannelDir, SequenceTheorems, FiniteSetTheorems, TLAPS

-----------------------------------------------------------------------------
(***************************************************************************)
(* The last word of a queue.                                               *)
(***************************************************************************)
IsSeq(q) == q \in Seq({q[k] : k \in DOMAIN q})

\* Frames of a data channel: none announces a channel; the last one that does
\* announces x; what is known after they all are read, if `old` is known now.
Mute(q) == \A k \in DOMAIN q : q[k].t # "Channel"
Tells(q, x) == \E k \in DOMAIN q :
  /\ q[k].t = "Channel" /\ q[k].name = x
  /\ \A l \in DOMAIN q : l > k => q[l].t # "Channel"
Brings(q, old, x) == Tells(q, x) \/ (Mute(q) /\ old = x)

\* The same for the events of an engine loop that come from j.
About(e, j) == e.peer = j /\ e.msg.t = "Channel"
MuteOf(q, j) == \A k \in DOMAIN q : ~About(q[k], j)
TellsOf(q, j, x) == \E k \in DOMAIN q :
  /\ About(q[k], j) /\ q[k].msg.name = x
  /\ \A l \in DOMAIN q : l > k => ~About(q[l], j)

Named(q) == \A k \in DOMAIN q : q[k].t = "Channel" => q[k].name \in Name

LEMMA SeqIsSeq ==
  ASSUME NEW S, NEW q \in Seq(S)
  PROVE  IsSeq(q)
<1> DEFINE R == {q[k] : k \in DOMAIN q}
<1>1. Len(q) \in Nat /\ DOMAIN q = 1 .. Len(q) /\ q = [k \in 1 .. Len(q) |-> q[k]]
  OBVIOUS
<1>2. q \in [1 .. Len(q) -> R]
  BY <1>1
<1> HIDE DEF R
<1>3. q \in Seq(R)
  BY <1>1, <1>2, SeqDef
<1> QED
  BY <1>3 DEF IsSeq, R

LEMMA SeqFacts ==
  ASSUME NEW q, IsSeq(q)
  PROVE  /\ Len(q) \in Nat /\ DOMAIN q = 1 .. Len(q)
         /\ \A m : /\ IsSeq(Append(q, m))
                   /\ Len(Append(q, m)) = Len(q) + 1
                   /\ DOMAIN Append(q, m) = 1 .. Len(q) + 1
                   /\ \A k \in 1 .. Len(q) : Append(q, m)[k] = q[k]
                   /\ Append(q, m)[Len(q) + 1] = m
         /\ q # <<>> => /\ IsSeq(Tail(q)) /\ Head(q) = q[1] /\ 1 \in DOMAIN q
                        /\ DOMAIN Tail(q) = 1 .. Len(q) - 1
                        /\ \A k \in DOMAIN Tail(q) : Tail(q)[k] = q[k + 1]
<1> DEFINE R == {q[k] : k \in DOMAIN q}
<1>1. q \in Seq(R)
  BY DEF IsSeq
<1> HIDE DEF R
<1>2. Len(q) \in Nat /\ DOMAIN q = 1 .. Len(q)
  BY <1>1
<1>3. ASSUME NEW m
      PROVE  /\ IsSeq(Append(q, m))
             /\ Len(Append(q, m)) = Len(q) + 1
             /\ DOMAIN Append(q, m) = 1 .. Len(q) + 1
             /\ \A k \in 1 .. Len(q) : Append(q, m)[k] = q[k]
             /\ Append(q, m)[Len(q) + 1] = m
  <2> DEFINE S == R \cup {m}
             a == Append(q, m)
  <2>1. q \in Seq(S)
    BY <1>1
  <2> HIDE DEF S
  <2>2. a \in Seq(S) /\ Len(a) = Len(q) + 1
        /\ \A k \in 1 .. Len(q) : a[k] = q[k]
    BY <2>1, m \in S DEF S
  <2>3. a[Len(q) + 1] = m
    BY <2>1, m \in S DEF S
  <2>4. DOMAIN a = 1 .. Len(q) + 1
    BY <2>2
  <2>5. IsSeq(a)
    BY <2>2, SeqIsSeq
  <2> QED
    BY <2>2, <2>3, <2>4, <2>5
<1>4. ASSUME q # <<>>
      PROVE  /\ IsSeq(Tail(q)) /\ Head(q) = q[1] /\ 1 \in DOMAIN q
             /\ DOMAIN Tail(q) = 1 .. Len(q) - 1
             /\ \A k \in DOMAIN Tail(q) : Tail(q)[k] = q[k + 1]
  <2>1. /\ Tail(q) \in Seq(R) /\ Len(Tail(q)) = Len(q) - 1 /\ Head(q) = q[1]
        /\ \A k \in 1 .. Len(Tail(q)) : Tail(q)[k] = q[k + 1]
    BY <1>1, <1>4, HeadTailProperties
  <2>2. DOMAIN Tail(q) = 1 .. Len(q) - 1
    BY <2>1
  <2>3. IsSeq(Tail(q))
    BY <2>1, SeqIsSeq
  <2>4. Len(q) > 0
    BY <1>1, <1>2, <1>4, EmptySeq
  <2> QED
    BY <1>2, <2>1, <2>2, <2>3, <2>4
<1> QED
  BY <1>2, <1>3, <1>4

LEMMA ConcatFacts ==
  ASSUME NEW q, IsSeq(q), NEW r, IsSeq(r)
  PROVE  /\ IsSeq(q \o r)
         /\ DOMAIN (q \o r) = 1 .. Len(q) + Len(r)
         /\ \A k \in 1 .. Len(q) : (q \o r)[k] = q[k]
         /\ \A k \in 1 .. Len(r) : (q \o r)[Len(q) + k] = r[k]
<1> DEFINE Q == {q[k] : k \in DOMAIN q}
           R == {r[k] : k \in DOMAIN r}
           S == Q \cup R
           c == q \o r
<1>1. q \in Seq(Q) /\ r \in Seq(R)
  BY DEF IsSeq
<1> HIDE DEF Q, R
<1>2. q \in Seq(S) /\ r \in Seq(S)
  BY <1>1, SeqMonotonic
<1> HIDE DEF S
<1>3. /\ c \in Seq(S) /\ Len(c) = Len(q) + Len(r)
      /\ \A k \in 1 .. Len(c) : c[k] = IF k <= Len(q) THEN q[k] ELSE r[k - Len(q)]
  BY <1>2, ConcatProperties
<1>4. Len(q) \in Nat /\ Len(r) \in Nat /\ DOMAIN c = 1 .. Len(c)
  BY <1>2, <1>3
<1> HIDE DEF c
<1>5. \A k \in 1 .. Len(q) : c[k] = q[k]
  BY <1>3, <1>4
<1>6. \A k \in 1 .. Len(r) : c[Len(q) + k] = r[k]
  <2> SUFFICES ASSUME NEW k \in 1 .. Len(r) PROVE c[Len(q) + k] = r[k]
    OBVIOUS
  <2>1. Len(q) + k \in 1 .. Len(c) /\ ~(Len(q) + k <= Len(q)) /\ (Len(q) + k) - Len(q) = k
    BY <1>3, <1>4
  <2> QED
    BY <1>3, <2>1
<1>7. IsSeq(c)
  BY <1>3, SeqIsSeq
<1> QED
  BY <1>3, <1>4, <1>5, <1>6, <1>7 DEF c

\* What is appended to a data channel is read last.
LEMMA Announcing ==
  ASSUME NEW q, IsSeq(q), NEW r, IsSeq(r), NEW old, NEW x
  PROVE  /\ Tells(r, x) => Brings(q \o r, old, x)
         /\ Mute(r) /\ Brings(q, old, x) => Brings(q \o r, old, x)
         /\ Named(q) /\ Named(r) => Named(q \o r)
<1> DEFINE c == q \o r
           m == Len(q)
           n == Len(r)
<1>1. /\ m \in Nat /\ n \in Nat /\ DOMAIN q = 1 .. m /\ DOMAIN r = 1 .. n
  BY SeqFacts
<1>2. /\ DOMAIN c = 1 .. m + n
      /\ \A k \in 1 .. m : c[k] = q[k]
      /\ \A k \in 1 .. n : c[m + k] = r[k]
  BY ConcatFacts
<1> HIDE DEF c, m, n
<1>3. \A k \in 1 .. m + n : k \in 1 .. m \/ (k - m \in 1 .. n /\ c[k] = r[k - m])
  <2> SUFFICES ASSUME NEW k \in 1 .. m + n, k \notin 1 .. m
               PROVE  k - m \in 1 .. n /\ c[k] = r[k - m]
    OBVIOUS
  <2>1. k - m \in 1 .. n /\ m + (k - m) = k
    BY <1>1
  <2> QED
    BY <1>2, <2>1
<1>4. ASSUME Tells(r, x) PROVE Tells(c, x)
  <2>1. PICK k \in 1 .. n : /\ r[k].t = "Channel" /\ r[k].name = x
                            /\ \A l \in 1 .. n : l > k => r[l].t # "Channel"
    BY <1>1, <1>4 DEF Tells
  <2>2. m + k \in 1 .. m + n /\ c[m + k] = r[k]
    BY <1>1, <1>2
  <2>3. ASSUME NEW l \in 1 .. m + n, l > m + k PROVE c[l].t # "Channel"
    <3>1. l - m \in 1 .. n /\ c[l] = r[l - m] /\ l - m > k
      BY <1>1, <1>3, <2>3
    <3> QED
      BY <2>1, <3>1
  <2> QED
    BY <1>2, <2>1, <2>2, <2>3 DEF Tells
<1>5. ASSUME Mute(r), Tells(q, x) PROVE Tells(c, x)
  <2>1. PICK k \in 1 .. m : /\ q[k].t = "Channel" /\ q[k].name = x
                            /\ \A l \in 1 .. m : l > k => q[l].t # "Channel"
    BY <1>1, <1>5 DEF Tells
  <2>2. k \in 1 .. m + n /\ c[k] = q[k]
    BY <1>1, <1>2
  <2>3. ASSUME NEW l \in 1 .. m + n, l > k PROVE c[l].t # "Channel"
    BY <1>1, <1>2, <1>3, <1>5, <2>1, <2>3 DEF Mute
  <2> QED
    BY <1>2, <2>1, <2>2, <2>3 DEF Tells
<1>6. Mute(r) /\ Mute(q) => Mute(c)
  BY <1>1, <1>2, <1>3 DEF Mute
<1>7. Named(q) /\ Named(r) => Named(c)
  BY <1>1, <1>2, <1>3 DEF Named
<1> QED
  BY <1>4, <1>5, <1>6, <1>7 DEF Brings, c

\* The frame that is read next either moves the gate or leaves it.
LEMMA Reading ==
  ASSUME NEW q, IsSeq(q), q # <<>>, NEW old, NEW x, Brings(q, old, x)
  PROVE  Brings(Tail(q), IF Head(q).t = "Channel" THEN Head(q).name ELSE old, x)
<1> DEFINE n == Len(q)
           u == Tail(q)
<1>1. /\ n \in Nat /\ DOMAIN q = 1 .. n /\ 1 \in 1 .. n /\ Head(q) = q[1]
      /\ DOMAIN u = 1 .. n - 1 /\ \A k \in 1 .. n - 1 : u[k] = q[k + 1]
  BY SeqFacts
<1> HIDE DEF n, u
<1>2. \A k \in 1 .. n : k = 1 \/ (k - 1 \in 1 .. n - 1 /\ u[k - 1] = q[k])
  <2> SUFFICES ASSUME NEW k \in 1 .. n, k # 1
               PROVE  k - 1 \in 1 .. n - 1 /\ u[k - 1] = q[k]
    OBVIOUS
  <2>1. k - 1 \in 1 .. n - 1 /\ (k - 1) + 1 = k
    BY <1>1
  <2> QED
    BY <1>1, <2>1
<1>3. CASE Mute(q) /\ old = x
  <2>1. Mute(u)
    BY <1>1, <1>3 DEF Mute
  <2>2. q[1].t # "Channel"
    BY <1>1, <1>3 DEF Mute
  <2> QED
    BY <1>1, <1>3, <2>1, <2>2 DEF Brings, u
<1>4. CASE Tells(q, x)
  <2>1. PICK k \in 1 .. n : /\ q[k].t = "Channel" /\ q[k].name = x
                            /\ \A l \in 1 .. n : l > k => q[l].t # "Channel"
    BY <1>1, <1>4 DEF Tells
  <2>2. CASE k = 1
    <3>1. Mute(u)
      <4> SUFFICES ASSUME NEW l \in 1 .. n - 1 PROVE u[l].t # "Channel"
        BY <1>1 DEF Mute
      <4>1. l + 1 \in 1 .. n /\ l + 1 > 1 /\ u[l] = q[l + 1]
        BY <1>1
      <4> QED
        BY <2>1, <2>2, <4>1
    <3> QED
      BY <1>1, <2>1, <2>2, <3>1 DEF Brings, u
  <2>3. CASE k # 1
    <3>1. k - 1 \in 1 .. n - 1 /\ u[k - 1] = q[k]
      BY <1>2, <2>3
    <3>2. ASSUME NEW l \in 1 .. n - 1, l > k - 1 PROVE u[l].t # "Channel"
      <4>1. l + 1 \in 1 .. n /\ l + 1 > k /\ u[l] = q[l + 1]
        BY <1>1, <3>2
      <4> QED
        BY <2>1, <4>1
    <3>3. Tells(u, x)
      BY <1>1, <2>1, <3>1, <3>2 DEF Tells
    <3> QED
      BY <3>3 DEF Brings, u
  <2> QED
    BY <2>2, <2>3
<1> QED
  BY <1>3, <1>4 DEF Brings

LEMMA Nothing ==
  ASSUME NEW x, NEW old
  PROVE  /\ IsSeq(<<>>) /\ Named(<<>>)
         /\ Brings(<<>>, old, x) <=> old = x
<1>1. <<>> \in Seq({}) /\ DOMAIN <<>> = {}
  OBVIOUS
<1>2. IsSeq(<<>>)
  BY <1>1, SeqIsSeq
<1> QED
  BY <1>1, <1>2 DEF Named, Brings, Mute, Tells

\* The row follows the gate: what is queued about j ends with the gate's word h,
\* or nothing is queued and the row r, if there is one, shows it.
Follows(q, j, h, r) == TellsOf(q, j, h) \/ (MuteOf(q, j) /\ r \in {None, h})

LEMMA Queueing ==
  ASSUME NEW q, IsSeq(q), NEW e, NEW j, NEW h, NEW r
  PROVE  /\ About(e, j) => Follows(Append(q, e), j, e.msg.name, r)
         /\ ~About(e, j) /\ Follows(q, j, h, r) => Follows(Append(q, e), j, h, r)
<1> DEFINE n == Len(q)
           u == Append(q, e)
<1>1. /\ n \in Nat /\ DOMAIN q = 1 .. n /\ DOMAIN u = 1 .. n + 1
      /\ \A k \in 1 .. n : u[k] = q[k]
      /\ u[n + 1] = e
  BY SeqFacts
<1> HIDE DEF n, u
<1>2. \A k \in 1 .. n + 1 : k = n + 1 \/ k \in 1 .. n
  BY <1>1
<1>3. ASSUME About(e, j) PROVE TellsOf(u, j, e.msg.name)
  <2>1. n + 1 \in 1 .. n + 1 /\ \A l \in 1 .. n + 1 : ~(l > n + 1)
    BY <1>1
  <2> QED
    BY <1>1, <1>3, <2>1 DEF TellsOf
<1>4. ASSUME ~About(e, j), TellsOf(q, j, h) PROVE TellsOf(u, j, h)
  <2>1. PICK k \in 1 .. n : /\ About(q[k], j) /\ q[k].msg.name = h
                            /\ \A l \in 1 .. n : l > k => ~About(q[l], j)
    BY <1>1, <1>4 DEF TellsOf
  <2>2. k \in 1 .. n + 1 /\ u[k] = q[k]
    BY <1>1
  <2>3. \A l \in 1 .. n + 1 : l > k => ~About(u[l], j)
    BY <1>1, <1>2, <1>4, <2>1
  <2> QED
    BY <1>1, <2>1, <2>2, <2>3 DEF TellsOf
<1>5. ~About(e, j) /\ MuteOf(q, j) => MuteOf(u, j)
  BY <1>1, <1>2 DEF MuteOf
<1> QED
  BY <1>3, <1>4, <1>5 DEF Follows, u

LEMMA Taking ==
  ASSUME NEW q, IsSeq(q), q # <<>>, NEW j, NEW h, NEW r, Follows(q, j, h, r)
  PROVE  Follows(Tail(q), j, h,
                 IF About(Head(q), j) /\ r # None THEN Head(q).msg.name ELSE r)
<1> DEFINE n == Len(q)
           u == Tail(q)
           s == IF About(Head(q), j) /\ r # None THEN Head(q).msg.name ELSE r
<1>1. /\ n \in Nat /\ DOMAIN q = 1 .. n /\ 1 \in 1 .. n /\ Head(q) = q[1]
      /\ DOMAIN u = 1 .. n - 1 /\ \A k \in 1 .. n - 1 : u[k] = q[k + 1]
  BY SeqFacts
<1> HIDE DEF n, u
<1>2. \A k \in 1 .. n : k = 1 \/ (k - 1 \in 1 .. n - 1 /\ u[k - 1] = q[k])
  <2> SUFFICES ASSUME NEW k \in 1 .. n, k # 1
               PROVE  k - 1 \in 1 .. n - 1 /\ u[k - 1] = q[k]
    OBVIOUS
  <2>1. k - 1 \in 1 .. n - 1 /\ (k - 1) + 1 = k
    BY <1>1
  <2> QED
    BY <1>1, <2>1
<1>3. CASE MuteOf(q, j) /\ r \in {None, h}
  <2>1. MuteOf(u, j) /\ ~About(q[1], j)
    BY <1>1, <1>3 DEF MuteOf
  <2> QED
    BY <1>1, <1>3, <2>1 DEF Follows, u
<1>4. CASE TellsOf(q, j, h)
  <2>1. PICK k \in 1 .. n : /\ About(q[k], j) /\ q[k].msg.name = h
                            /\ \A l \in 1 .. n : l > k => ~About(q[l], j)
    BY <1>1, <1>4 DEF TellsOf
  <2>2. CASE k = 1
    <3>1. MuteOf(u, j)
      <4> SUFFICES ASSUME NEW l \in 1 .. n - 1 PROVE ~About(u[l], j)
        BY <1>1 DEF MuteOf
      <4>1. l + 1 \in 1 .. n /\ l + 1 > 1 /\ u[l] = q[l + 1]
        BY <1>1
      <4> QED
        BY <2>1, <2>2, <4>1
    <3>2. s \in {None, h}
      BY <1>1, <2>1, <2>2
    <3> QED
      BY <3>1, <3>2 DEF Follows, u
  <2>3. CASE k # 1
    <3>1. k - 1 \in 1 .. n - 1 /\ u[k - 1] = q[k]
      BY <1>2, <2>3
    <3>2. ASSUME NEW l \in 1 .. n - 1, l > k - 1 PROVE ~About(u[l], j)
      <4>1. l + 1 \in 1 .. n /\ l + 1 > k /\ u[l] = q[l + 1]
        BY <1>1, <3>2
      <4> QED
        BY <2>1, <4>1
    <3>3. TellsOf(u, j, h)
      BY <1>1, <2>1, <3>1, <3>2 DEF TellsOf
    <3> QED
      BY <3>3 DEF Follows, u
  <2> QED
    BY <2>2, <2>3
<1> QED
  BY <1>3, <1>4 DEF Follows

-----------------------------------------------------------------------------
(***************************************************************************)
(* The inductive invariant.                                                *)
(***************************************************************************)
EvOk(q) ==
  /\ IsSeq(q)
  /\ \A k \in DOMAIN q : /\ q[k].peer \in Node
                         /\ q[k].msg.t = "Channel" => q[k].msg.name \in Name
BoxOk(q) == IsSeq(q) /\ \A k \in DOMAIN q : q[k].user \in Node
DcOk(q) == IsSeq(q) /\ Named(q)

Shape ==
  /\ mine \in [Node -> Name]
  /\ heard \in [Node -> [Node -> Name \cup {None}]]
  /\ row \in [Node -> [Node -> Name \cup {None}]]
  /\ open \in [Node -> [Node -> BOOLEAN]]
  /\ late = [a \in Node |-> [b \in Node |-> {}]]
  /\ DOMAIN dc = Node /\ \A a \in Node : DOMAIN dc[a] = Node
  /\ DOMAIN ev = Node /\ DOMAIN inbox = Node
  /\ budget \in [nodes : SUBSET Node, ops : Nat, faults : Nat]

Queues ==
  /\ \A a \in Node : EvOk(ev[a]) /\ BoxOk(inbox[a])
  /\ \A a, b \in Node : DcOk(dc[a][b])

\* What i knows of j.
Link(i, j) ==
  /\ open[j][i] => Brings(dc[j][i], heard[i][j], mine[j])
  /\ heard[i][j] # None => Follows(ev[i], j, heard[i][j], row[i][j])
  /\ open[i][j] \/ open[j][i] => i # j /\ {i, j} \subseteq Here /\ row[i][j] # None

GateInv == Shape /\ Queues /\ \A i, j \in Node : Link(i, j)

LEMMA EvOkFacts ==
  ASSUME NEW q, EvOk(q)
  PROVE  /\ q # <<>> => EvOk(Tail(q)) /\ Head(q).peer \in Node
                        /\ (Head(q).msg.t = "Channel" => Head(q).msg.name \in Name)
         /\ \A e : e.peer \in Node /\ (e.msg.t = "Channel" => e.msg.name \in Name)
                     => EvOk(Append(q, e))
<1>1. IsSeq(q)
  BY DEF EvOk
<1>2. ASSUME q # <<>>
      PROVE  EvOk(Tail(q)) /\ Head(q).peer \in Node
             /\ (Head(q).msg.t = "Channel" => Head(q).msg.name \in Name)
  <2>1. /\ Len(q) \in Nat /\ DOMAIN q = 1 .. Len(q)
        /\ IsSeq(Tail(q)) /\ Head(q) = q[1] /\ 1 \in DOMAIN q
        /\ DOMAIN Tail(q) = 1 .. Len(q) - 1
        /\ \A k \in DOMAIN Tail(q) : Tail(q)[k] = q[k + 1]
    BY <1>1, <1>2, SeqFacts
  <2>2. \A k \in DOMAIN Tail(q) : k + 1 \in DOMAIN q
    BY <2>1
  <2> QED
    BY <2>1, <2>2 DEF EvOk
<1>3. ASSUME NEW e, e.peer \in Node, e.msg.t = "Channel" => e.msg.name \in Name
      PROVE  EvOk(Append(q, e))
  <2> DEFINE u == Append(q, e)
  <2>1. /\ Len(q) \in Nat /\ DOMAIN q = 1 .. Len(q) /\ IsSeq(u)
        /\ DOMAIN u = 1 .. Len(q) + 1 /\ \A k \in 1 .. Len(q) : u[k] = q[k]
        /\ u[Len(q) + 1] = e
    BY <1>1, SeqFacts
  <2> HIDE DEF u
  <2>2. \A k \in DOMAIN u : k \in DOMAIN q \/ k = Len(q) + 1
    BY <2>1
  <2>3. EvOk(u)
    BY <1>3, <2>1, <2>2 DEF EvOk
  <2> QED
    BY <2>3 DEF u
<1> QED
  BY <1>2, <1>3

LEMMA BoxOkFacts ==
  ASSUME NEW q, BoxOk(q)
  PROVE  /\ q # <<>> => BoxOk(Tail(q)) /\ Head(q).user \in Node
         /\ \A r : BoxOk(r) => BoxOk(q \o r)
<1>1. IsSeq(q) /\ Len(q) \in Nat /\ DOMAIN q = 1 .. Len(q)
  BY SeqFacts DEF BoxOk
<1>2. ASSUME q # <<>> PROVE BoxOk(Tail(q)) /\ Head(q).user \in Node
  <2>1. /\ IsSeq(Tail(q)) /\ Head(q) = q[1] /\ 1 \in DOMAIN q
        /\ DOMAIN Tail(q) = 1 .. Len(q) - 1
        /\ \A k \in DOMAIN Tail(q) : Tail(q)[k] = q[k + 1]
    BY <1>1, <1>2, SeqFacts
  <2>2. \A k \in DOMAIN Tail(q) : k + 1 \in DOMAIN q
    BY <1>1, <2>1
  <2> QED
    BY <2>1, <2>2 DEF BoxOk
<1>3. ASSUME NEW r, BoxOk(r) PROVE BoxOk(q \o r)
  <2> DEFINE c == q \o r
  <2>1. IsSeq(r) /\ Len(r) \in Nat /\ DOMAIN r = 1 .. Len(r)
    BY <1>3, SeqFacts DEF BoxOk
  <2>2. /\ IsSeq(c) /\ DOMAIN c = 1 .. Len(q) + Len(r)
        /\ \A k \in 1 .. Len(q) : c[k] = q[k]
        /\ \A k \in 1 .. Len(r) : c[Len(q) + k] = r[k]
    BY <1>1, <2>1, ConcatFacts
  <2> HIDE DEF c
  <2>3. ASSUME NEW k \in DOMAIN c PROVE c[k].user \in Node
    <3>1. CASE k \in 1 .. Len(q)
      BY <1>1, <2>2, <3>1 DEF BoxOk
    <3>2. CASE k \notin 1 .. Len(q)
      <4>1. k - Len(q) \in 1 .. Len(r) /\ Len(q) + (k - Len(q)) = k
        BY <1>1, <2>1, <2>2, <3>2
      <4>2. c[k] = r[k - Len(q)]
        BY <2>2, <4>1
      <4> QED
        BY <1>3, <2>1, <4>1, <4>2 DEF BoxOk
    <3> QED
      BY <3>1, <3>2
  <2>4. BoxOk(c)
    BY <2>2, <2>3 DEF BoxOk
  <2> QED
    BY <2>4 DEF c
<1> QED
  BY <1>2, <1>3

LEMMA DcOkFacts ==
  ASSUME NEW q, DcOk(q)
  PROVE  /\ q # <<>> => DcOk(Tail(q)) /\ (Head(q).t = "Channel" => Head(q).name \in Name)
         /\ \A r : DcOk(r) => DcOk(q \o r)
<1>1. IsSeq(q)
  BY DEF DcOk
<1>2. ASSUME q # <<>>
      PROVE  DcOk(Tail(q)) /\ (Head(q).t = "Channel" => Head(q).name \in Name)
  <2>1. /\ Len(q) \in Nat /\ DOMAIN q = 1 .. Len(q)
        /\ IsSeq(Tail(q)) /\ Head(q) = q[1] /\ 1 \in DOMAIN q
        /\ DOMAIN Tail(q) = 1 .. Len(q) - 1
        /\ \A k \in DOMAIN Tail(q) : Tail(q)[k] = q[k + 1]
    BY <1>1, <1>2, SeqFacts
  <2>2. \A k \in DOMAIN Tail(q) : k + 1 \in DOMAIN q
    BY <2>1
  <2> QED
    BY <2>1, <2>2 DEF DcOk, Named
<1>3. ASSUME NEW r, DcOk(r) PROVE DcOk(q \o r)
  BY <1>1, <1>3, ConcatFacts, Announcing DEF DcOk
<1> QED
  BY <1>2, <1>3

\* Short sequences.
LEMMA Tuples ==
  /\ \A a : IsSeq(<<a>>) /\ DOMAIN <<a>> = {1} /\ <<a>>[1] = a
  /\ \A a, b : /\ IsSeq(<<a, b>>) /\ DOMAIN <<a, b>> = {1, 2}
               /\ <<a, b>>[1] = a /\ <<a, b>>[2] = b
<1>1. \A a : IsSeq(<<a>>) /\ DOMAIN <<a>> = {1} /\ <<a>>[1] = a
  <2> SUFFICES ASSUME NEW a PROVE IsSeq(<<a>>) /\ DOMAIN <<a>> = {1} /\ <<a>>[1] = a
    OBVIOUS
  <2>1. <<a>> \in Seq({a}) /\ DOMAIN <<a>> = {1} /\ <<a>>[1] = a
    OBVIOUS
  <2> QED
    BY <2>1, SeqIsSeq
<1>2. \A a, b : /\ IsSeq(<<a, b>>) /\ DOMAIN <<a, b>> = {1, 2}
                /\ <<a, b>>[1] = a /\ <<a, b>>[2] = b
  <2> SUFFICES ASSUME NEW a, NEW b
               PROVE  /\ IsSeq(<<a, b>>) /\ DOMAIN <<a, b>> = {1, 2}
                      /\ <<a, b>>[1] = a /\ <<a, b>>[2] = b
    OBVIOUS
  <2>1. /\ <<a, b>> \in Seq({a, b}) /\ DOMAIN <<a, b>> = {1, 2}
        /\ <<a, b>>[1] = a /\ <<a, b>>[2] = b
    OBVIOUS
  <2> QED
    BY <2>1, SeqIsSeq
<1> QED
  BY <1>1, <1>2

\* The messages the mesh sends.
LEMMA Messages ==
  /\ \A n \in Name : DcOk(<<ChannelMsg(n)>>) /\ Tells(<<ChannelMsg(n)>>, n)
  /\ \A n \in Name : \A d : /\ DcOk(<<ChannelMsg(n), ChannelsMsg(d)>>)
                            /\ Tells(<<ChannelMsg(n), ChannelsMsg(d)>>, n)
  /\ \A d : DcOk(<<ChannelsMsg(d)>>) /\ Mute(<<ChannelsMsg(d)>>)
  /\ \A c : DcOk(<<RemovedMsg(c)>>) /\ Mute(<<RemovedMsg(c)>>)
  /\ DcOk(<<>>) /\ Mute(<<>>)
<1>1. \A a : IsSeq(<<a>>) /\ DOMAIN <<a>> = {1} /\ <<a>>[1] = a
  BY Tuples
<1>2. \A a, b : /\ IsSeq(<<a, b>>) /\ DOMAIN <<a, b>> = {1, 2}
                /\ <<a, b>>[1] = a /\ <<a, b>>[2] = b
  BY Tuples
<1>3. /\ \A n : ChannelMsg(n).t = "Channel" /\ ChannelMsg(n).name = n
      /\ \A d : ChannelsMsg(d).t = "Channels"
      /\ \A c : RemovedMsg(c).t = "ChannelRemoved"
  BY DEF ChannelMsg, ChannelsMsg, RemovedMsg
<1>4. \A n \in Name : DcOk(<<ChannelMsg(n)>>) /\ Tells(<<ChannelMsg(n)>>, n)
  BY <1>1, <1>3 DEF DcOk, Named, Tells
<1>5. \A n \in Name : \A d : /\ DcOk(<<ChannelMsg(n), ChannelsMsg(d)>>)
                             /\ Tells(<<ChannelMsg(n), ChannelsMsg(d)>>, n)
  BY <1>2, <1>3 DEF DcOk, Named, Tells
<1>6. \A d : DcOk(<<ChannelsMsg(d)>>) /\ Mute(<<ChannelsMsg(d)>>)
  BY <1>1, <1>3 DEF DcOk, Named, Mute
<1>7. \A c : DcOk(<<RemovedMsg(c)>>) /\ Mute(<<RemovedMsg(c)>>)
  BY <1>1, <1>3 DEF DcOk, Named, Mute
<1>8. DcOk(<<>>) /\ Mute(<<>>)
  BY Nothing DEF DcOk, Mute
<1> QED
  BY <1>4, <1>5, <1>6, <1>7, <1>8

-----------------------------------------------------------------------------
(***************************************************************************)
(* What the steps have in common.                                          *)
(***************************************************************************)
LEMMA Broadcasting ==
  ASSUME Shape, Queues, NEW i \in Node, NEW msgs, DcOk(msgs),
         dc' = Broadcast(dc, i, msgs)
  PROVE  /\ DOMAIN dc' = Node /\ \A a \in Node : DOMAIN dc'[a] = Node
         /\ \A a, b \in Node :
              /\ dc'[a][b] = IF a = i /\ open[a][b] THEN dc[a][b] \o msgs ELSE dc[a][b]
              /\ DcOk(dc'[a][b])
<1>1. dc' = [dc EXCEPT ![i] = [j \in Node |-> IF open[i][j] THEN dc[i][j] \o msgs ELSE dc[i][j]]]
  BY DEF Broadcast
<1>2. DOMAIN dc' = Node /\ \A a \in Node : DOMAIN dc'[a] = Node
  BY <1>1 DEF Shape
<1>3. \A a, b \in Node :
         dc'[a][b] = IF a = i /\ open[a][b] THEN dc[a][b] \o msgs ELSE dc[a][b]
  BY <1>1 DEF Shape
<1>4. ASSUME NEW a \in Node, NEW b \in Node PROVE DcOk(dc'[a][b])
  <2>1. DcOk(dc[a][b]) /\ DcOk(dc[a][b] \o msgs)
    BY DcOkFacts DEF Queues
  <2> QED
    BY <1>3, <2>1
<1> QED
  BY <1>2, <1>3, <1>4

LEMMA Cutting ==
  ASSUME Shape, Queues, NEW i \in Node, NEW J, ClosedAll(i, J)
  PROVE  /\ open' \in [Node -> [Node -> BOOLEAN]]
         /\ late' = [a \in Node |-> [b \in Node |-> {}]]
         /\ DOMAIN dc' = Node /\ \A a \in Node : DOMAIN dc'[a] = Node
         /\ \A a, b \in Node :
              /\ DcOk(dc'[a][b])
              /\ IF (a = i /\ b \in J) \/ (b = i /\ a \in J)
                   THEN ~open'[a][b]
                   ELSE open'[a][b] = open[a][b] /\ dc'[a][b] = dc[a][b]
<1>1. /\ open' = [a \in Node |-> [b \in Node |->
                    IF (a = i /\ b \in J) \/ (b = i /\ a \in J) THEN FALSE ELSE open[a][b]]]
      /\ late' = [a \in Node |-> [b \in Node |->
                    IF (a = i /\ b \in J) \/ (b = i /\ a \in J) THEN {} ELSE late[a][b]]]
      /\ dc' = [a \in Node |-> [b \in Node |->
                    IF (a = i /\ b \in J) \/ (b = i /\ a \in J) THEN <<>> ELSE dc[a][b]]]
  BY DEF ClosedAll
<1>2. \A a, b \in Node : late[a][b] = {}
  BY DEF Shape
<1>3. late' = [a \in Node |-> [b \in Node |-> {}]]
  <2>1. \A a, b \in Node :
           (IF (a = i /\ b \in J) \/ (b = i /\ a \in J) THEN {} ELSE late[a][b]) = {}
    BY <1>2
  <2> QED
    BY <1>1, <2>1
<1>4. \A a, b \in Node : open[a][b] \in BOOLEAN
  BY DEF Shape
<1>5. open' \in [Node -> [Node -> BOOLEAN]]
  BY <1>1, <1>4
<1>6. \A a, b \in Node : DcOk(dc[a][b]) /\ DcOk(<<>>)
  BY Messages DEF Queues
<1>7. DOMAIN dc' = Node /\ \A a \in Node : DOMAIN dc'[a] = Node
  BY <1>1
<1>8. \A a, b \in Node : DcOk(dc'[a][b])
  BY <1>1, <1>6
<1>9. \A a, b \in Node :
         IF (a = i /\ b \in J) \/ (b = i /\ a \in J)
           THEN ~open'[a][b]
           ELSE open'[a][b] = open[a][b] /\ dc'[a][b] = dc[a][b]
  BY <1>1
<1> QED
  BY <1>3, <1>5, <1>7, <1>8, <1>9

\* An event that is no announcement is taken.
LEMMA Skipping ==
  ASSUME NEW q, EvOk(q), q # <<>>, Head(q).msg.t # "Channel", NEW j, NEW h, NEW r,
         Follows(q, j, h, r)
  PROVE  Follows(Tail(q), j, h, r)
<1>1. IsSeq(q) /\ ~About(Head(q), j)
  BY DEF EvOk, About
<1> QED
  BY <1>1, Taking

\* Whoever tunes to a channel tells everyone; nothing else that is told
\* touches gates and rows.
LEMMA Talking ==
  ASSUME GateInv, NEW i \in Node, NEW n \in Name, NEW msgs, DcOk(msgs),
         mine' = [mine EXCEPT ![i] = n],
         Tells(msgs, n) \/ (Mute(msgs) /\ n = mine[i]),
         dc' = Broadcast(dc, i, msgs),
         \/ ev' = ev
         \/ /\ ev[i] # <<>> /\ Head(ev[i]).msg.t # "Channel"
            /\ ev' = [ev EXCEPT ![i] = Tail(@)],
         UNCHANGED <<heard, row, open, late, inbox>>,
         budget' \in [nodes : SUBSET Node, ops : Nat, faults : Nat],
         Here' = Here
  PROVE  GateInv'
<1>1. /\ DOMAIN dc' = Node /\ \A a \in Node : DOMAIN dc'[a] = Node
      /\ \A a, b \in Node :
           /\ dc'[a][b] = IF a = i /\ open[a][b] THEN dc[a][b] \o msgs ELSE dc[a][b]
           /\ DcOk(dc'[a][b])
  BY Broadcasting DEF GateInv
<1>2. \A a \in Node : ev'[a] = ev[a] \/ (ev[a] # <<>> /\ Head(ev[a]).msg.t # "Channel"
                                         /\ ev'[a] = Tail(ev[a]))
  BY DEF GateInv, Shape
<1>3. Shape'
  <2>1. mine' \in [Node -> Name] /\ DOMAIN ev' = Node
    BY DEF GateInv, Shape
  <2> QED
    BY <1>1, <2>1 DEF GateInv, Shape
<1>4. \A a \in Node : EvOk(ev'[a])
  BY <1>2, EvOkFacts DEF GateInv, Queues
<1>5. Queues'
  BY <1>1, <1>4 DEF GateInv, Queues
<1>6. \A a, b \in Node : Link(a, b)'
  <2> SUFFICES ASSUME NEW a \in Node, NEW b \in Node PROVE Link(a, b)'
    OBVIOUS
  <2>0. Link(a, b) /\ EvOk(ev[a]) /\ DcOk(dc[b][a])
    BY DEF GateInv, Queues
  <2>1. open[b][a] => Brings(dc'[b][a], heard[a][b], mine'[b])
    <3> SUFFICES ASSUME open[b][a] PROVE Brings(dc'[b][a], heard[a][b], mine'[b])
      OBVIOUS
    <3>1. Brings(dc[b][a], heard[a][b], mine[b]) /\ IsSeq(dc[b][a]) /\ IsSeq(msgs)
      BY <2>0 DEF Link, DcOk
    <3>2. CASE b # i
      <4>1. dc'[b][a] = dc[b][a] /\ mine'[b] = mine[b]
        BY <1>1, <3>2 DEF GateInv, Shape
      <4> QED
        BY <3>1, <4>1
    <3>3. CASE b = i
      <4>1. dc'[b][a] = dc[b][a] \o msgs /\ mine'[b] = n
        BY <1>1, <3>3 DEF GateInv, Shape
      <4>2. CASE Tells(msgs, n)
        BY <3>1, <4>1, <4>2, Announcing
      <4>3. CASE Mute(msgs) /\ n = mine[i]
        <5>1. Brings(dc[b][a], heard[a][b], n)
          BY <3>1, <3>3, <4>3
        <5> QED
          BY <3>1, <4>1, <4>3, <5>1, Announcing
      <4> QED
        BY <4>2, <4>3
    <3> QED
      BY <3>2, <3>3
  <2>2. heard[a][b] # None => Follows(ev'[a], b, heard[a][b], row[a][b])
    BY <1>2, <2>0, Skipping DEF Link
  <2>3. open[a][b] \/ open[b][a] => a # b /\ {a, b} \subseteq Here' /\ row[a][b] # None
    BY <2>0 DEF Link
  <2> QED
    BY <2>1, <2>2, <2>3 DEF Link
<1> QED
  BY <1>3, <1>5, <1>6 DEF GateInv

LEMMA Spending ==
  ASSUME budget \in [nodes : SUBSET Node, ops : Nat, faults : Nat],
         (budget.ops > 0 /\ budget' = [budget EXCEPT !.ops = @ - 1]) \/ Fault
  PROVE  budget' \in [nodes : SUBSET Node, ops : Nat, faults : Nat] /\ Here' = Here
<1>1. budget \in [nodes : SUBSET Node, ops : Nat, faults : Nat]
  OBVIOUS
<1>2. CASE budget.ops > 0 /\ budget' = [budget EXCEPT !.ops = @ - 1]
  <2>1. budget.ops - 1 \in Nat
    BY <1>1, <1>2
  <2> QED
    BY <1>1, <1>2, <2>1 DEF Here
<1>3. CASE Fault
  <2>1. budget.faults - 1 \in Nat
    BY <1>1, <1>3 DEF Fault
  <2> QED
    BY <1>1, <1>3, <2>1 DEF Here, Fault
<1> QED
  BY <1>2, <1>3

LEMMA SetChannelStep ==
  ASSUME GateInv, NEW i \in Node, NEW n \in Name, SetChannel(i, n)
  PROVE  GateInv'
<1> DEFINE d == MergeChannels(dir[i], <<n>>)
           told == <<ChannelMsg(n)>> \o (IF d # dir[i] THEN <<ChannelsMsg(d)>> ELSE <<>>)
<1>1. /\ mine' = [mine EXCEPT ![i] = n]
      /\ dc' = Broadcast(dc, i, told)
      /\ UNCHANGED <<heard, row, open, late, ev, inbox>>
      /\ budget.ops > 0 /\ budget' = [budget EXCEPT !.ops = @ - 1]
  BY DEF SetChannel, Op
<1> HIDE DEF d
<1> DEFINE r == IF d # dir[i] THEN <<ChannelsMsg(d)>> ELSE <<>>
<1>2. /\ DcOk(<<ChannelMsg(n)>>) /\ Tells(<<ChannelMsg(n)>>, n)
      /\ DcOk(r) /\ Mute(r)
  BY Messages
<1> HIDE DEF r
<1>3. DcOk(told) /\ Tells(told, n)
  <2>1. DcOk(<<ChannelMsg(n)>> \o r)
    BY <1>2, DcOkFacts
  <2>2. n + 1 # n
    BY ChannelConstants
  <2>3. Brings(<<ChannelMsg(n)>>, n + 1, n)
    BY <1>2 DEF Brings
  <2>4. Brings(<<ChannelMsg(n)>> \o r, n + 1, n)
    BY <1>2, <2>3, Announcing DEF DcOk
  <2> QED
    BY <2>1, <2>2, <2>4 DEF Brings, r
<1> HIDE DEF told
<1>4. budget' \in [nodes : SUBSET Node, ops : Nat, faults : Nat] /\ Here' = Here
  BY <1>1, Spending DEF GateInv, Shape
<1> QED
  BY <1>1, <1>3, <1>4, Talking

LEMMA RemoveChannelStep ==
  ASSUME GateInv, NEW i \in Node, NEW c, RemoveChannel(i, c)
  PROVE  GateInv'
<1>1. /\ dc' = Broadcast(dc, i, <<RemovedMsg(c)>>)
      /\ UNCHANGED <<mine, heard, row, open, late, ev, inbox>>
      /\ budget.ops > 0 /\ budget' = [budget EXCEPT !.ops = @ - 1]
  BY DEF RemoveChannel, Op
<1>2. DcOk(<<RemovedMsg(c)>>) /\ Mute(<<RemovedMsg(c)>>)
  BY Messages
<1>3. budget' \in [nodes : SUBSET Node, ops : Nat, faults : Nat] /\ Here' = Here
  BY <1>1, Spending DEF GateInv, Shape
<1>4. mine[i] \in Name /\ mine' = [mine EXCEPT ![i] = mine[i]]
  BY <1>1 DEF GateInv, Shape
<1> QED
  BY <1>1, <1>2, <1>3, <1>4, Talking

LEMMA OnPeerChannelsStep ==
  ASSUME GateInv, NEW i \in Node, OnPeerChannels(i)
  PROVE  GateInv'
<1> DEFINE d == MergeChannels(dir[i], Accepted(i, Head(ev[i]).msg.names))
           msgs == PassedOn(d, dir[i])
<1>1. /\ dc' = Broadcast(dc, i, msgs)
      /\ ev[i] # <<>> /\ Head(ev[i]).msg.t # "Channel"
      /\ ev' = [ev EXCEPT ![i] = Tail(@)]
      /\ UNCHANGED <<mine, heard, row, open, late, inbox, budget>>
  BY DEF OnPeerChannels, Has
<1> HIDE DEF d
<1>2. DcOk(msgs) /\ Mute(msgs)
  BY Messages DEF PassedOn
<1> HIDE DEF msgs
<1>3. budget' \in [nodes : SUBSET Node, ops : Nat, faults : Nat] /\ Here' = Here
  BY <1>1 DEF GateInv, Shape, Here
<1>4. mine[i] \in Name /\ mine' = [mine EXCEPT ![i] = mine[i]]
  BY <1>1 DEF GateInv, Shape
<1> QED
  BY <1>1, <1>2, <1>3, <1>4, Talking

LEMMA OnPeerChannelRemovedStep ==
  ASSUME GateInv, NEW i \in Node, OnPeerChannelRemoved(i)
  PROVE  GateInv'
<1> DEFINE c == Canon(Head(ev[i]).msg.name)
<1>1. /\ dc' = Broadcast(dc, i, <<RemovedMsg(c)>>) \/ dc' = dc
      /\ ev[i] # <<>> /\ Head(ev[i]).msg.t # "Channel"
      /\ ev' = [ev EXCEPT ![i] = Tail(@)]
      /\ UNCHANGED <<mine, heard, row, open, late, inbox, budget>>
  BY DEF OnPeerChannelRemoved, Has
<1> HIDE DEF c
<1>2. CASE dc' = Broadcast(dc, i, <<RemovedMsg(c)>>)
  <2>1. DcOk(<<RemovedMsg(c)>>) /\ Mute(<<RemovedMsg(c)>>)
    BY Messages
  <2>2. budget' \in [nodes : SUBSET Node, ops : Nat, faults : Nat] /\ Here' = Here
    BY <1>1 DEF GateInv, Shape, Here
  <2>3. mine[i] \in Name /\ mine' = [mine EXCEPT ![i] = mine[i]]
    BY <1>1 DEF GateInv, Shape
  <2> QED
    BY <1>1, <1>2, <2>1, <2>2, <2>3, Talking
<1>3. CASE dc' = dc
  <2>1. \A a \in Node : ev'[a] = ev[a] \/ (ev[a] # <<>> /\ Head(ev[a]).msg.t # "Channel"
                                           /\ ev'[a] = Tail(ev[a]))
    BY <1>1 DEF GateInv, Shape
  <2>2. Shape'
    BY <1>1, <1>3 DEF GateInv, Shape
  <2>3. Queues'
    BY <1>1, <1>3, <2>1, EvOkFacts DEF GateInv, Queues
  <2>4. ASSUME NEW a \in Node, NEW b \in Node PROVE Link(a, b)'
    <3>1. Link(a, b) /\ EvOk(ev[a])
      BY DEF GateInv, Queues
    <3>2. heard[a][b] # None => Follows(ev'[a], b, heard[a][b], row[a][b])
      BY <2>1, <3>1, Skipping DEF Link
    <3> QED
      BY <1>1, <1>3, <3>1, <3>2 DEF Link, Here
  <2> QED
    BY <2>2, <2>3, <2>4 DEF GateInv
<1> QED
  BY <1>1, <1>2, <1>3

\* The channel opens, and its first word is the sender's channel.
LEMMA OpenStep ==
  ASSUME GateInv, ~Overtaken, NEW i \in Here, NEW j \in Here \ {i}, Open(i, j)
  PROVE  GateInv'
<1> DEFINE msgs == Announced(i)
<1>1. /\ row[i][j] # None /\ row[j][i] # None
      /\ open' = [open EXCEPT ![i][j] = TRUE]
      /\ dc' = [dc EXCEPT ![i][j] = @ \o msgs]
      /\ UNCHANGED <<mine, heard, row, late, ev, inbox, budget>>
  BY DEF Open, Members
<1>2. i \in Node /\ j \in Node /\ i # j /\ mine[i] \in Name
  BY DEF GateInv, Shape, Here
<1>3. DcOk(msgs) /\ Tells(msgs, mine[i])
  BY <1>2, Messages DEF Announced
<1> HIDE DEF msgs
<1>4. \A a, b \in Node : /\ open'[a][b] = IF a = i /\ b = j THEN TRUE ELSE open[a][b]
                         /\ dc'[a][b] = IF a = i /\ b = j THEN dc[a][b] \o msgs ELSE dc[a][b]
  BY <1>1 DEF GateInv, Shape
<1>5. Shape'
  <2>1. open' \in [Node -> [Node -> BOOLEAN]]
    BY <1>1, <1>2 DEF GateInv, Shape
  <2>2. DOMAIN dc' = Node /\ \A a \in Node : DOMAIN dc'[a] = Node
    BY <1>1, <1>2 DEF GateInv, Shape
  <2> QED
    BY <1>1, <2>1, <2>2 DEF GateInv, Shape
<1>6. Queues'
  <2>1. ASSUME NEW a \in Node, NEW b \in Node PROVE DcOk(dc'[a][b])
    <3>1. DcOk(dc[a][b]) /\ DcOk(dc[a][b] \o msgs)
      BY <1>3, DcOkFacts DEF GateInv, Queues
    <3> QED
      BY <1>4, <3>1
  <2> QED
    BY <1>1, <2>1 DEF GateInv, Queues
<1>7. ASSUME NEW a \in Node, NEW b \in Node PROVE Link(a, b)'
  <2>1. Link(a, b) /\ DcOk(dc[b][a])
    BY DEF GateInv, Queues
  <2>2. open'[b][a] => Brings(dc'[b][a], heard[a][b], mine[b])
    <3>1. CASE b = i /\ a = j
      BY <1>3, <1>4, <2>1, <3>1, Announcing DEF DcOk
    <3>2. CASE ~(b = i /\ a = j)
      BY <1>4, <2>1, <3>2 DEF Link
    <3> QED
      BY <3>1, <3>2
  <2>3. open'[a][b] \/ open'[b][a] => a # b /\ {a, b} \subseteq Here /\ row[a][b] # None
    <3>1. CASE {a, b} = {i, j}
      BY <1>1, <1>2, <3>1
    <3>2. CASE {a, b} # {i, j}
      BY <1>4, <2>1, <3>2 DEF Link
    <3> QED
      BY <3>1, <3>2
  <2> QED
    BY <1>1, <2>1, <2>2, <2>3 DEF Link, Here
<1> QED
  BY <1>5, <1>6, <1>7 DEF GateInv

\* The gate moves with the frame that is read, and the engine loop is told.
LEMMA ReceiveStep ==
  ASSUME GateInv, NEW i \in Here, NEW j \in Here \ {i}, Receive(i, j)
  PROVE  GateInv'
<1> DEFINE m == Head(dc[j][i])
           e == Event(j, m)
           h == IF m.t = "Channel" THEN m.name ELSE heard[i][j]
<1>1. /\ dc[j][i] # <<>>
      /\ heard' = IF m.t = "Channel" THEN [heard EXCEPT ![i][j] = m.name] ELSE heard
      /\ ev' = [ev EXCEPT ![i] = Append(@, e)]
      /\ dc' = [dc EXCEPT ![j][i] = Tail(@)]
      /\ UNCHANGED <<mine, row, open, late, inbox, budget>>
  BY DEF Receive
<1>2. i \in Node /\ j \in Node /\ i # j
  BY DEF GateInv, Shape, Here
<1>3. DcOk(Tail(dc[j][i])) /\ (m.t = "Channel" => m.name \in Name)
  BY <1>1, <1>2, DcOkFacts DEF GateInv, Queues
<1>4. e.peer = j /\ e.msg = m
  BY DEF Event
<1> HIDE DEF e, m
<1>5. \A a, b \in Node : /\ heard'[a][b] = IF a = i /\ b = j THEN h ELSE heard[a][b]
                         /\ dc'[b][a] = IF a = i /\ b = j THEN Tail(dc[b][a]) ELSE dc[b][a]
                         /\ ev'[a] = IF a = i THEN Append(ev[a], e) ELSE ev[a]
  BY <1>1 DEF GateInv, Shape
<1>6. Shape'
  <2>1. heard' \in [Node -> [Node -> Name \cup {None}]]
    BY <1>1, <1>3 DEF GateInv, Shape
  <2>2. /\ DOMAIN dc' = Node /\ \A a \in Node : DOMAIN dc'[a] = Node
        /\ DOMAIN ev' = Node
    BY <1>1 DEF GateInv, Shape
  <2> QED
    BY <1>1, <2>1, <2>2 DEF GateInv, Shape
<1>7. Queues'
  <2>1. \A a, b \in Node : DcOk(dc'[a][b])
    BY <1>3, <1>5 DEF GateInv, Queues
  <2>2. EvOk(Append(ev[i], e))
    BY <1>2, <1>3, <1>4, EvOkFacts DEF GateInv, Queues
  <2>3. \A a \in Node : EvOk(ev'[a])
    BY <1>5, <2>2 DEF GateInv, Queues
  <2> QED
    BY <1>1, <2>1, <2>3 DEF GateInv, Queues
<1>8. ASSUME NEW a \in Node, NEW b \in Node PROVE Link(a, b)'
  <2>1. Link(a, b) /\ DcOk(dc[b][a]) /\ EvOk(ev[a])
    BY DEF GateInv, Queues
  <2>2. open[b][a] => Brings(dc'[b][a], heard'[a][b], mine[b])
    <3>1. CASE b = j /\ a = i
      BY <1>1, <1>5, <2>1, <3>1, Reading DEF Link, DcOk, m
    <3>2. CASE ~(b = j /\ a = i)
      BY <1>5, <2>1, <3>2 DEF Link
    <3> QED
      BY <3>1, <3>2
  <2>3. heard'[a][b] # None => Follows(ev'[a], b, heard'[a][b], row[a][b])
    <3> SUFFICES ASSUME heard'[a][b] # None
                 PROVE  Follows(ev'[a], b, heard'[a][b], row[a][b])
      OBVIOUS
    <3>1. CASE a # i
      BY <1>5, <2>1, <3>1 DEF Link
    <3>2. CASE a = i /\ About(e, b)
      <4>1. b = j /\ heard'[a][b] = e.msg.name
        BY <1>2, <1>4, <1>5, <3>2 DEF About
      <4> QED
        BY <1>5, <2>1, <3>2, <4>1, Queueing DEF EvOk
    <3>3. CASE a = i /\ ~About(e, b)
      <4>1. heard'[a][b] = heard[a][b]
        BY <1>2, <1>4, <1>5, <3>3 DEF About
      <4> QED
        BY <1>5, <2>1, <3>3, <4>1, Queueing DEF EvOk, Link
    <3> QED
      BY <3>1, <3>2, <3>3
  <2> QED
    BY <1>1, <2>1, <2>2, <2>3 DEF Link, Here
<1> QED
  BY <1>6, <1>7, <1>8 DEF GateInv

\* The row follows the announcement.
LEMMA OnPeerChannelStep ==
  ASSUME GateInv, NEW i \in Node, OnPeerChannel(i)
  PROVE  GateInv'
<1> DEFINE e == Head(ev[i])
<1>1. /\ ev[i] # <<>> /\ e.msg.t = "Channel"
      /\ row' = IF row[i][e.peer] # None THEN [row EXCEPT ![i][e.peer] = e.msg.name] ELSE row
      /\ ev' = [ev EXCEPT ![i] = Tail(@)]
      /\ UNCHANGED <<mine, heard, open, late, dc, inbox, budget>>
  BY DEF OnPeerChannel, Has
<1>2. EvOk(Tail(ev[i])) /\ e.peer \in Node /\ e.msg.name \in Name
  BY <1>1, EvOkFacts DEF GateInv, Queues
<1> HIDE DEF e
<1>3. \A a, b \in Node :
         /\ row'[a][b] = IF a = i /\ About(e, b) /\ row[a][b] # None THEN e.msg.name ELSE row[a][b]
         /\ ev'[a] = IF a = i THEN Tail(ev[a]) ELSE ev[a]
  BY <1>1, <1>2 DEF GateInv, Shape, About
<1>4. Shape'
  <2>1. row' \in [Node -> [Node -> Name \cup {None}]] /\ DOMAIN ev' = Node
    BY <1>1, <1>2 DEF GateInv, Shape
  <2> QED
    BY <1>1, <2>1 DEF GateInv, Shape
<1>5. Queues'
  <2>1. \A a \in Node : EvOk(ev'[a])
    BY <1>2, <1>3 DEF GateInv, Queues
  <2> QED
    BY <1>1, <2>1 DEF GateInv, Queues
<1>6. ASSUME NEW a \in Node, NEW b \in Node PROVE Link(a, b)'
  <2>1. Link(a, b) /\ IsSeq(ev[a])
    BY DEF GateInv, Queues, EvOk
  <2>2. heard[a][b] # None => Follows(ev'[a], b, heard[a][b], row'[a][b])
    BY <1>1, <1>3, <2>1, Taking DEF Link, e
  <2>3. row[a][b] # None => row'[a][b] # None
    <3>1. e.msg.name # None
      BY <1>2, ChannelConstants DEF None
    <3> QED
      BY <1>3, <3>1
  <2> QED
    BY <1>1, <2>1, <2>2, <2>3 DEF Link, Here
<1> QED
  BY <1>4, <1>5, <1>6 DEF GateInv

\* A signaling frame is taken.
LEMMA Fetching ==
  ASSUME Shape, Queues, NEW i \in Node, inbox[i] # <<>>, inbox' = [inbox EXCEPT ![i] = Tail(@)]
  PROVE  /\ DOMAIN inbox' = Node /\ \A a \in Node : BoxOk(inbox'[a])
         /\ Head(inbox[i]).user \in Node
<1>1. BoxOk(Tail(inbox[i])) /\ Head(inbox[i]).user \in Node
  BY BoxOkFacts DEF Queues
<1>2. DOMAIN inbox' = Node /\ \A a \in Node : inbox'[a] = IF a = i THEN Tail(inbox[a]) ELSE inbox[a]
  BY DEF Shape
<1> QED
  BY <1>1, <1>2 DEF Queues

\* A row that is new shows the gate's word, and a row that is there stays.
LEMMA Seeding ==
  ASSUME Shape, NEW i \in Node, NEW j \in Node
  PROVE  /\ Seed(i, j) \in Name /\ Seed(i, j) # None
         /\ heard[i][j] # None => Seed(i, j) = heard[i][j]
  BY ChannelConstants DEF Shape, Seed, None

LEMMA OnPeerJoinedStep ==
  ASSUME GateInv, NEW i \in Node, OnPeerJoined(i)
  PROVE  GateInv'
<1> DEFINE j == Head(inbox[i]).user
           s == Seed(i, j)
<1>1. /\ inbox[i] # <<>>
      /\ row' = [row EXCEPT ![i][j] = s]
      /\ ClosedAll(i, {j}) \/ UNCHANGED <<open, late, dc>>
      /\ inbox' = [inbox EXCEPT ![i] = Tail(@)]
      /\ UNCHANGED <<mine, heard, ev, budget>>
  BY DEF OnPeerJoined, Closed
<1>2. /\ DOMAIN inbox' = Node /\ \A a \in Node : BoxOk(inbox'[a])
      /\ j \in Node
  BY <1>1, Fetching DEF GateInv
<1>3. s \in Name /\ s # None /\ (heard[i][j] # None => s = heard[i][j])
  BY <1>2, Seeding DEF GateInv
<1>4. /\ open' \in [Node -> [Node -> BOOLEAN]]
      /\ late' = [a \in Node |-> [b \in Node |-> {}]]
      /\ DOMAIN dc' = Node /\ \A a \in Node : DOMAIN dc'[a] = Node
      /\ \A a, b \in Node : /\ DcOk(dc'[a][b])
                            /\ open'[a][b] => open[a][b] /\ dc'[a][b] = dc[a][b]
  <2>1. CASE ClosedAll(i, {j})
    BY <2>1, Cutting DEF GateInv
  <2>2. CASE UNCHANGED <<open, late, dc>>
    BY <2>2 DEF GateInv, Shape, Queues
  <2> QED
    BY <1>1, <2>1, <2>2
<1> HIDE DEF j, s
<1>5. \A a, b \in Node : row'[a][b] = IF a = i /\ b = j THEN s ELSE row[a][b]
  BY <1>1 DEF GateInv, Shape
<1>6. Shape'
  <2>1. row' \in [Node -> [Node -> Name \cup {None}]]
    BY <1>1, <1>2, <1>3 DEF GateInv, Shape
  <2> QED
    BY <1>1, <1>2, <1>4, <2>1 DEF GateInv, Shape
<1>7. Queues'
  BY <1>1, <1>2, <1>4 DEF GateInv, Queues
<1>8. ASSUME NEW a \in Node, NEW b \in Node PROVE Link(a, b)'
  <2>1. Link(a, b)
    BY DEF GateInv
  <2>2. heard[a][b] # None => Follows(ev[a], b, heard[a][b], row'[a][b])
    <3>1. CASE a = i /\ b = j
      BY <1>3, <1>5, <2>1, <3>1 DEF Link, Follows
    <3>2. CASE ~(a = i /\ b = j)
      BY <1>5, <2>1, <3>2 DEF Link
    <3> QED
      BY <3>1, <3>2
  <2>3. row[a][b] # None => row'[a][b] # None
    BY <1>3, <1>5
  <2> QED
    BY <1>1, <1>4, <2>1, <2>2, <2>3 DEF Link, Here
<1> QED
  BY <1>6, <1>7, <1>8 DEF GateInv

LEMMA OnRosterStep ==
  ASSUME GateInv, NEW i \in Node, OnRoster(i)
  PROVE  GateInv'
<1> DEFINE Show(b) == IF b = i \/ b \notin Here THEN None
                      ELSE IF row[i][b] # None THEN row[i][b] ELSE Seed(i, b)
<1>1. /\ inbox[i] # <<>>
      /\ row' = [row EXCEPT ![i] = [b \in Node |-> Show(b)]]
      /\ ClosedAll(i, {b \in Node : i < b})
      /\ inbox' = [inbox EXCEPT ![i] = Tail(@)]
      /\ UNCHANGED <<mine, heard, ev, budget>>
  BY DEF OnRoster
<1>2. DOMAIN inbox' = Node /\ \A a \in Node : BoxOk(inbox'[a])
  BY <1>1, Fetching DEF GateInv
<1>3. \A b \in Node :
         /\ Show(b) \in Name \cup {None}
         /\ Show(b) # None => Show(b) = row[i][b] \/ row[i][b] = None
         /\ Show(b) # None /\ row[i][b] = None /\ heard[i][b] # None => Show(b) = heard[i][b]
         /\ b # i /\ b \in Here /\ row[i][b] # None => Show(b) # None
  <2> SUFFICES ASSUME NEW b \in Node
               PROVE  /\ Show(b) \in Name \cup {None}
                      /\ Show(b) # None => Show(b) = row[i][b] \/ row[i][b] = None
                      /\ Show(b) # None /\ row[i][b] = None /\ heard[i][b] # None
                           => Show(b) = heard[i][b]
                      /\ b # i /\ b \in Here /\ row[i][b] # None => Show(b) # None
    OBVIOUS
  <2>1. /\ Seed(i, b) \in Name /\ Seed(i, b) # None
        /\ heard[i][b] # None => Seed(i, b) = heard[i][b]
    BY Seeding DEF GateInv
  <2>2. row[i][b] \in Name \cup {None}
    BY DEF GateInv, Shape
  <2> QED
    BY <2>1, <2>2
<1>4. /\ open' \in [Node -> [Node -> BOOLEAN]]
      /\ late' = [a \in Node |-> [b \in Node |-> {}]]
      /\ DOMAIN dc' = Node /\ \A a \in Node : DOMAIN dc'[a] = Node
      /\ \A a, b \in Node : /\ DcOk(dc'[a][b])
                            /\ open'[a][b] => open[a][b] /\ dc'[a][b] = dc[a][b]
  <2> DEFINE J == {b \in Node : i < b}
  <2>1. ClosedAll(i, J)
    BY <1>1
  <2> HIDE DEF J
  <2> QED
    BY <2>1, Cutting DEF GateInv
<1> HIDE DEF Show
<1>5. \A a, b \in Node : row'[a][b] = IF a = i THEN Show(b) ELSE row[a][b]
  BY <1>1 DEF GateInv, Shape
<1>6. Shape'
  <2>1. [b \in Node |-> Show(b)] \in [Node -> Name \cup {None}]
    BY <1>3
  <2>2. row' \in [Node -> [Node -> Name \cup {None}]]
    BY <1>1, <2>1 DEF GateInv, Shape
  <2> QED
    BY <1>1, <1>2, <1>4, <2>2 DEF GateInv, Shape
<1>7. Queues'
  BY <1>1, <1>2, <1>4 DEF GateInv, Queues
<1>8. ASSUME NEW a \in Node, NEW b \in Node PROVE Link(a, b)'
  <2>1. Link(a, b)
    BY DEF GateInv
  <2>2. heard[a][b] # None => Follows(ev[a], b, heard[a][b], row'[a][b])
    BY <1>3, <1>5, <2>1 DEF Link, Follows
  <2>3. a # b /\ {a, b} \subseteq Here /\ row[a][b] # None => row'[a][b] # None
    BY <1>3, <1>5
  <2> QED
    BY <1>1, <1>4, <2>1, <2>2, <2>3 DEF Link, Here
<1> QED
  BY <1>6, <1>7, <1>8 DEF GateInv

\* Row, gate and link go together.
LEMMA OnPeerLeftStep ==
  ASSUME GateInv, NEW i \in Node, OnPeerLeft(i)
  PROVE  GateInv'
<1> DEFINE j == Head(inbox[i]).user
<1>1. /\ inbox[i] # <<>>
      /\ row' = [row EXCEPT ![i][j] = None]
      /\ heard' = [heard EXCEPT ![i][j] = None]
      /\ ClosedAll(i, {j})
      /\ inbox' = [inbox EXCEPT ![i] = Tail(@)]
      /\ UNCHANGED <<mine, ev, budget>>
  BY DEF OnPeerLeft, Closed
<1>2. /\ DOMAIN inbox' = Node /\ \A a \in Node : BoxOk(inbox'[a])
      /\ j \in Node
  BY <1>1, Fetching DEF GateInv
<1>3. /\ open' \in [Node -> [Node -> BOOLEAN]]
      /\ late' = [a \in Node |-> [b \in Node |-> {}]]
      /\ DOMAIN dc' = Node /\ \A a \in Node : DOMAIN dc'[a] = Node
      /\ \A a, b \in Node :
           /\ DcOk(dc'[a][b])
           /\ IF (a = i /\ b \in {j}) \/ (b = i /\ a \in {j})
                THEN ~open'[a][b]
                ELSE open'[a][b] = open[a][b] /\ dc'[a][b] = dc[a][b]
  BY <1>1, Cutting DEF GateInv
<1> HIDE DEF j
<1>4. \A a, b \in Node : /\ row'[a][b] = IF a = i /\ b = j THEN None ELSE row[a][b]
                         /\ heard'[a][b] = IF a = i /\ b = j THEN None ELSE heard[a][b]
  BY <1>1 DEF GateInv, Shape
<1>5. Shape'
  <2>1. /\ row' \in [Node -> [Node -> Name \cup {None}]]
        /\ heard' \in [Node -> [Node -> Name \cup {None}]]
    BY <1>1, <1>2 DEF GateInv, Shape
  <2> QED
    BY <1>1, <1>2, <1>3, <2>1 DEF GateInv, Shape
<1>6. Queues'
  BY <1>1, <1>2, <1>3 DEF GateInv, Queues
<1>7. ASSUME NEW a \in Node, NEW b \in Node PROVE Link(a, b)'
  <2>1. Link(a, b)
    BY DEF GateInv
  <2>2. CASE a = i /\ b = j
    <3>1. ~open'[a][b] /\ ~open'[b][a] /\ heard'[a][b] = None
      BY <1>2, <1>3, <1>4, <2>2
    <3> QED
      BY <3>1 DEF Link
  <2>3. CASE ~(a = i /\ b = j)
    <3>1. /\ heard'[a][b] = heard[a][b] /\ row'[a][b] = row[a][b]
          /\ open'[a][b] => open[a][b]
          /\ open'[b][a] => open[b][a] /\ dc'[b][a] = dc[b][a]
      BY <1>3, <1>4, <2>3
    <3> QED
      BY <1>1, <2>1, <3>1 DEF Link, Here
  <2> QED
    BY <2>2, <2>3
<1> QED
  BY <1>5, <1>6, <1>7 DEF GateInv

LEMMA BreakStep ==
  ASSUME GateInv, NEW i \in Node, NEW j \in Node, Break(i, j)
  PROVE  GateInv'
<1>1. /\ ClosedAll(i, {j})
      /\ budget' \in [nodes : SUBSET Node, ops : Nat, faults : Nat] /\ Here' = Here
      /\ UNCHANGED <<mine, heard, row, ev, inbox>>
  BY Spending DEF GateInv, Shape, Break, Closed
<1>2. /\ open' \in [Node -> [Node -> BOOLEAN]]
      /\ late' = [a \in Node |-> [b \in Node |-> {}]]
      /\ DOMAIN dc' = Node /\ \A a \in Node : DOMAIN dc'[a] = Node
      /\ \A a, b \in Node : /\ DcOk(dc'[a][b])
                            /\ open'[a][b] => open[a][b] /\ dc'[a][b] = dc[a][b]
  BY <1>1, Cutting DEF GateInv
<1>3. Shape'
  BY <1>1, <1>2 DEF GateInv, Shape
<1>4. Queues'
  BY <1>1, <1>2 DEF GateInv, Queues
<1>5. \A a, b \in Node : Link(a, b)'
  BY <1>1, <1>2 DEF GateInv, Link
<1> QED
  BY <1>3, <1>4, <1>5 DEF GateInv

\* What the server sends names members only.
LEMMA Reporting ==
  ASSUME Shape, Queues, NEW j \in Node, NEW ts, IsSeq(ts), News(j, ts)
  PROVE  DOMAIN inbox' = Node /\ \A a \in Node : BoxOk(inbox'[a])
<1> DEFINE f == [k \in DOMAIN ts |-> [t |-> ts[k], user |-> j]]
           r == [t |-> "Roster", user |-> j]
<1>1. inbox' = [a \in Node |-> IF a = j THEN <<r>> ELSE IF a \in Here THEN inbox[a] \o f ELSE <<>>]
  BY DEF News
<1>2. BoxOk(f)
  <2> DEFINE S == {f[k] : k \in DOMAIN f}
  <2>1. Len(ts) \in Nat /\ DOMAIN ts = 1 .. Len(ts)
    BY SeqFacts
  <2>2. f \in [1 .. Len(ts) -> S] /\ DOMAIN f = 1 .. Len(ts)
    BY <2>1
  <2>3. \A k \in DOMAIN f : f[k].user = j
    BY <2>1
  <2> HIDE DEF f, S
  <2>4. f \in Seq(S)
    BY <2>1, <2>2, SeqDef
  <2>5. IsSeq(f)
    BY <2>4, SeqIsSeq
  <2> QED
    BY <2>3, <2>5 DEF BoxOk
<1>3. BoxOk(<<r>>)
  <2>1. <<r>> \in Seq({r}) /\ DOMAIN <<r>> = {1} /\ <<r>>[1] = r
    OBVIOUS
  <2>2. IsSeq(<<r>>)
    BY <2>1, SeqIsSeq
  <2>3. r.user = j
    OBVIOUS
  <2> QED
    BY <2>1, <2>2, <2>3 DEF BoxOk
<1>4. BoxOk(<<>>)
  <2>1. IsSeq(<<>>) /\ DOMAIN <<>> = {}
    BY Nothing
  <2> QED
    BY <2>1 DEF BoxOk
<1> HIDE DEF f, r
<1>5. \A a \in Node : BoxOk(inbox[a] \o f)
  BY <1>2, BoxOkFacts DEF Queues
<1> QED
  BY <1>1, <1>3, <1>4, <1>5

LEMMA ReconnectStep ==
  ASSUME GateInv, NEW j \in Node, Reconnect(j)
  PROVE  GateInv'
<1>1. /\ budget' \in [nodes : SUBSET Node, ops : Nat, faults : Nat] /\ Here' = Here
      /\ UNCHANGED <<mine, heard, row, open, late, dc, ev>>
  BY Spending DEF GateInv, Shape, Reconnect
<1>2. PICK ts \in {<<"PeerJoined">>, <<"PeerLeft", "PeerJoined">>} : News(j, ts)
  BY DEF Reconnect
<1>3. DOMAIN inbox' = Node /\ \A a \in Node : BoxOk(inbox'[a])
  <2>1. /\ <<"PeerJoined">> \in Seq({"PeerJoined"})
        /\ <<"PeerLeft", "PeerJoined">> \in Seq({"PeerLeft", "PeerJoined"})
    OBVIOUS
  <2>2. IsSeq(ts)
    BY <1>2, <2>1, SeqIsSeq
  <2> QED
    BY <1>2, <2>2, Reporting DEF GateInv
<1>4. Shape'
  BY <1>1, <1>3 DEF GateInv, Shape
<1>5. Queues'
  BY <1>1, <1>3 DEF GateInv, Queues
<1>6. \A a, b \in Node : Link(a, b)'
  BY <1>1 DEF GateInv, Link
<1> QED
  BY <1>4, <1>5, <1>6 DEF GateInv

\* Who starts again knows nobody and is on the default channel; the others keep
\* what they last heard until they learn that it left.
LEMMA RestartStep ==
  ASSUME GateInv, NEW j \in Node, Restart(j)
  PROVE  GateInv'
<1>1. /\ mine' = [mine EXCEPT ![j] = DEFAULT_CHANNEL]
      /\ heard' = [heard EXCEPT ![j] = [b \in Node |-> None]]
      /\ row' = [row EXCEPT ![j] = [b \in Node |-> None]]
      /\ ClosedAll(j, Node)
      /\ ev' = [ev EXCEPT ![j] = <<>>]
      /\ News(j, <<"PeerLeft", "PeerJoined">>)
      /\ budget' \in [nodes : SUBSET Node, ops : Nat, faults : Nat] /\ Here' = Here
  BY Spending DEF GateInv, Shape, Restart
<1>2. IsSeq(<<"PeerLeft", "PeerJoined">>)
  <2>1. <<"PeerLeft", "PeerJoined">> \in Seq({"PeerLeft", "PeerJoined"})
    OBVIOUS
  <2> QED
    BY <2>1, SeqIsSeq
<1>3. DOMAIN inbox' = Node /\ \A a \in Node : BoxOk(inbox'[a])
  BY <1>1, <1>2, Reporting DEF GateInv
<1>4. /\ open' \in [Node -> [Node -> BOOLEAN]]
      /\ late' = [a \in Node |-> [b \in Node |-> {}]]
      /\ DOMAIN dc' = Node /\ \A a \in Node : DOMAIN dc'[a] = Node
      /\ \A a, b \in Node :
           /\ DcOk(dc'[a][b])
           /\ IF (a = j /\ b \in Node) \/ (b = j /\ a \in Node)
                THEN ~open'[a][b]
                ELSE open'[a][b] = open[a][b] /\ dc'[a][b] = dc[a][b]
  BY <1>1, Cutting DEF GateInv
<1>5. /\ \A a, b \in Node : /\ row'[a][b] = IF a = j THEN None ELSE row[a][b]
                            /\ heard'[a][b] = IF a = j THEN None ELSE heard[a][b]
      /\ \A a \in Node : /\ ev'[a] = IF a = j THEN <<>> ELSE ev[a]
                         /\ mine'[a] = IF a = j THEN DEFAULT_CHANNEL ELSE mine[a]
  BY <1>1 DEF GateInv, Shape
<1>6. EvOk(<<>>)
  <2>1. IsSeq(<<>>) /\ DOMAIN <<>> = {}
    BY Nothing
  <2> QED
    BY <2>1 DEF EvOk
<1>7. Shape'
  <2>1. [b \in Node |-> None] \in [Node -> Name \cup {None}]
    OBVIOUS
  <2>2. /\ row' \in [Node -> [Node -> Name \cup {None}]]
        /\ heard' \in [Node -> [Node -> Name \cup {None}]]
    BY <1>1, <2>1 DEF GateInv, Shape
  <2>3. mine' \in [Node -> Name] /\ DOMAIN ev' = Node
    BY <1>1, ChannelConstants DEF GateInv, Shape
  <2> QED
    BY <1>1, <1>3, <1>4, <2>2, <2>3 DEF Shape
<1>8. Queues'
  <2>1. \A a \in Node : EvOk(ev'[a])
    BY <1>5, <1>6 DEF GateInv, Queues
  <2> QED
    BY <1>3, <1>4, <2>1 DEF Queues
<1>9. ASSUME NEW a \in Node, NEW b \in Node PROVE Link(a, b)'
  <2>1. Link(a, b)
    BY DEF GateInv
  <2>2. CASE a = j \/ b = j
    <3>1. ~open'[a][b] /\ ~open'[b][a]
      BY <1>4, <2>2
    <3>2. heard'[a][b] # None => Follows(ev'[a], b, heard'[a][b], row'[a][b])
      BY <1>5, <2>1 DEF Link
    <3> QED
      BY <3>1, <3>2 DEF Link
  <2>3. CASE a # j /\ b # j
    <3>1. /\ heard'[a][b] = heard[a][b] /\ row'[a][b] = row[a][b]
          /\ ev'[a] = ev[a] /\ mine'[b] = mine[b]
          /\ open'[a][b] = open[a][b]
          /\ open'[b][a] = open[b][a] /\ dc'[b][a] = dc[b][a]
      BY <1>4, <1>5, <2>3
    <3> QED
      BY <1>1, <2>1, <3>1 DEF Link
  <2> QED
    BY <2>2, <2>3
<1> QED
  BY <1>7, <1>8, <1>9 DEF GateInv

-----------------------------------------------------------------------------
LEMMA GateInit ==
  ASSUME Init
  PROVE  GateInv
<1>1. /\ budget \in [nodes : SUBSET Node, ops : Nat, faults : Nat]
      /\ Here \subseteq Node
  BY ChannelConstants DEF Init, Here
<1>2. DEFAULT_CHANNEL \in Name /\ DEFAULT_CHANNEL # None
  BY ChannelConstants DEF DEFAULT_CHANNEL, None
<1>3. IsSeq(<<>>) /\ Named(<<>>) /\ DOMAIN <<>> = {}
  BY Nothing
<1>4. EvOk(<<>>) /\ BoxOk(<<>>) /\ DcOk(<<>>)
  BY <1>3 DEF EvOk, BoxOk, DcOk
<1>5. Shape
  <2>1. mine \in [Node -> Name]
    BY <1>2 DEF Init
  <2>2. heard \in [Node -> [Node -> Name \cup {None}]] /\ row = heard
    BY <1>2 DEF Init
  <2>3. open \in [Node -> [Node -> BOOLEAN]]
    BY DEF Init
  <2> QED
    BY <1>1, <2>1, <2>2, <2>3 DEF Init, Shape
<1>6. Queues
  BY <1>4 DEF Init, Queues
<1>7. ASSUME NEW a \in Node, NEW b \in Node PROVE Link(a, b)
  <2>1. /\ heard[a][b] = (IF a # b /\ {a, b} \subseteq Here THEN DEFAULT_CHANNEL ELSE None)
        /\ row[a][b] = heard[a][b]
        /\ open[a][b] = (a # b /\ {a, b} \subseteq Here)
        /\ open[b][a] = (b # a /\ {b, a} \subseteq Here)
        /\ mine[b] = DEFAULT_CHANNEL /\ dc[b][a] = <<>> /\ ev[a] = <<>>
    BY DEF Init
  <2>2. Brings(<<>>, DEFAULT_CHANNEL, DEFAULT_CHANNEL)
    BY Nothing
  <2>3. open[b][a] => Brings(dc[b][a], heard[a][b], mine[b])
    BY <2>1, <2>2
  <2>4. Follows(<<>>, b, heard[a][b], row[a][b])
    BY <1>3, <2>1 DEF Follows, MuteOf
  <2> QED
    BY <1>2, <2>1, <2>3, <2>4 DEF Link
<1> QED
  BY <1>5, <1>6, <1>7 DEF GateInv

LEMMA GateNext ==
  ASSUME GateInv, ~Overtaken, [Next]_vars
  PROVE  GateInv'
<1>1. Here \subseteq Node
  BY DEF GateInv, Shape, Here
<1>2. CASE UNCHANGED vars
  BY <1>2 DEF vars, GateInv, Shape, Queues, Link, Here
<1>3. ASSUME NEW i \in Here, Loop(i) PROVE GateInv'
  BY <1>1, <1>3, OnPeerChannelStep, OnPeerChannelsStep, OnPeerChannelRemovedStep,
     OnRosterStep, OnPeerJoinedStep, OnPeerLeftStep DEF Loop
<1>4. ASSUME NEW i \in Here, NEW j \in Here \ {i}, SendLate(i, j) PROVE GateInv'
  BY <1>1, <1>4 DEF SendLate, GateInv, Shape
<1>5. CASE Progress
  BY <1>3, <1>4, <1>5, OpenStep, ReceiveStep DEF Progress
<1>6. ASSUME NEW i \in Here, NEW n \in Name, SetChannel(i, n) \/ RemoveChannel(i, Canon(n))
      PROVE  GateInv'
  BY <1>1, <1>6, SetChannelStep, RemoveChannelStep
<1>7. ASSUME NEW i \in Here, NEW j \in Here, Break(i, j) PROVE GateInv'
  BY <1>1, <1>7, BreakStep
<1>8. ASSUME NEW i \in Here, Reconnect(i) \/ Restart(i) PROVE GateInv'
  BY <1>1, <1>8, ReconnectStep, RestartStep
<1> QED
  BY <1>2, <1>5, <1>6, <1>7, <1>8 DEF Next

LEMMA GateQuiet ==
  ASSUME GateInv
  PROVE  GateIsTrue
<1> SUFFICES ASSUME Quiet, NEW i \in Here, NEW j \in Here \ {i}
             PROVE  /\ Hears(i, j) <=> Canon(mine[i]) = Canon(mine[j])
                    /\ row[i][j] = mine[j]
  BY DEF GateIsTrue
<1>1. i \in Node /\ j \in Node /\ i # j
  BY DEF GateInv, Shape, Here
<1>2. open[j][i] /\ dc[j][i] = <<>> /\ ev[i] = <<>>
  BY <1>1 DEF Quiet
<1>3. Link(i, j) /\ mine[j] \in Name
  BY <1>1 DEF GateInv, Shape
<1>4. heard[i][j] = mine[j]
  BY <1>2, <1>3, Nothing DEF Link
<1>5. mine[j] # None
  BY <1>3, ChannelConstants DEF None
<1>6. Follows(<<>>, j, heard[i][j], row[i][j]) /\ row[i][j] # None
  BY <1>2, <1>3, <1>4, <1>5 DEF Link
<1>7. row[i][j] = heard[i][j]
  <2>1. DOMAIN <<>> = {}
    OBVIOUS
  <2> QED
    BY <1>6, <2>1 DEF Follows, TellsOf
<1> QED
  BY <1>4, <1>5, <1>7 DEF Hears

\* Gate and member list end up true: when the announcements on open leave in
\* their order, then whatever users switch or delete, whatever links break,
\* connections are lost and processes restart, once nothing is on its way each
\* member hears exactly those tuned to its channel, and shows each on the
\* channel it is on (the Channel arm of dispatch_inner, read_track, the
\* PeerChannel, PeerJoined, Roster and PeerLeft arms of the engine loop).
THEOREM GateFollows ==
  ASSUME ~Overtaken
  PROVE  Spec => []GateIsTrue
<1>1. GateInv /\ [Next]_vars => GateInv'
  BY GateNext
<1>2. Init => GateInv
  BY GateInit
<1>3. GateInv => GateIsTrue
  BY GateQuiet
<1> QED
  BY <1>1, <1>2, <1>3, PTL DEF Spec
-----------------------------------------------------------------------------
(***************************************************************************)
(* The directories.  First what the model's operators on them do: Without,   *)
(* and with it RemoveFromDir and MergeChannels.                              *)
(***************************************************************************)
\* The places of a set of positions: the positions up to k are counted.
UpTo(K, k) == {l \in K : l <= k}

\* Counting places numbers the positions in their order, from one.
LEMMA Places ==
  ASSUME NEW m \in Nat, NEW K, K \subseteq 1 .. m
  PROVE  /\ IsFiniteSet(K) /\ Cardinality(K) \in Nat
         /\ \A k \in K : Cardinality(UpTo(K, k)) \in 1 .. Cardinality(K)
         /\ \A k, l \in K : k < l => Cardinality(UpTo(K, k)) < Cardinality(UpTo(K, l))
         /\ \A n \in 1 .. Cardinality(K) : \E k \in K : Cardinality(UpTo(K, k)) = n
<1> DEFINE f == [k \in K |-> Cardinality(UpTo(K, k))]
           c == Cardinality(K)
<1>1. IsFiniteSet(1 .. m)
  BY FS_Interval
<1>2. IsFiniteSet(K) /\ c \in Nat
  BY <1>1, FS_Subset, FS_CardinalityType
<1>3. \A k \in K : k \in Int /\ UpTo(K, k) \in SUBSET K /\ k \in UpTo(K, k)
  BY DEF UpTo
<1>4. \A k \in K : IsFiniteSet(UpTo(K, k)) /\ f[k] \in Nat /\ f[k] <= c
  BY <1>2, <1>3, FS_Subset, FS_CardinalityType
<1>5. \A k \in K : f[k] # 0
  BY <1>3, <1>4, FS_EmptySet
<1>6. ASSUME NEW k \in K, NEW l \in K, k < l PROVE f[k] < f[l]
  <2>0. \A x \in K : x \in Int
    BY <1>3
  <2>1. UpTo(K, k) \in SUBSET UpTo(K, l) /\ l \notin UpTo(K, k) /\ l \in UpTo(K, l)
    <3>1. \A x \in K : x <= k => x <= l
      BY <1>6, <2>0
    <3>2. ~(l <= k) /\ l <= l
      BY <1>6, <2>0
    <3> QED
      BY <3>1, <3>2 DEF UpTo
  <2>2. f[k] <= f[l] /\ f[k] # f[l]
    BY <1>4, <2>1, FS_Subset
  <2> QED
    BY <1>4, <2>2
<1> HIDE DEF c
<1>7. f \in Injection(K, 1 .. c)
  <2>1. \A k \in K : f[k] \in 1 .. c
    BY <1>2, <1>4, <1>5
  <2>2. f \in [K -> 1 .. c]
    BY <2>1
  <2>3. \A k, l \in K : f[k] = f[l] => k = l
    <3> SUFFICES ASSUME NEW k \in K, NEW l \in K, f[k] = f[l], k # l PROVE FALSE
      OBVIOUS
    <3>1. k < l \/ l < k
      BY <1>3
    <3> QED
      BY <1>4, <1>6, <3>1
  <2> QED
    BY <2>2, <2>3 DEF Injection, IsInjective
<1>8. IsFiniteSet(1 .. c) /\ Cardinality(1 .. c) = c
  BY <1>2, FS_Interval
<1>9. f \in Surjection(K, 1 .. c)
  BY <1>7, <1>8, FS_Injection DEF c
<1>10. \A n \in 1 .. c : \E k \in K : f[k] = n
  BY <1>9 DEF Surjection
<1> QED
  BY <1>2, <1>4, <1>5, <1>6, <1>10 DEF c

\* A directory or a message lists a channel once.
Once(d) == \A k, l \in DOMAIN d : Canon(d[k]) = Canon(d[l]) => k = l

\* The places of s that Without keeps.
Kept(s, C) == {k \in DOMAIN s : Canon(s[k]) \notin C}

\* Without keeps what is not in C, each once if it was there once.
LEMMA WithoutFacts ==
  ASSUME NEW S, NEW s \in Seq(S), NEW C
  PROVE  /\ Without(s, C) \in Seq(S)
         /\ IsFiniteSet(Kept(s, C)) /\ Len(Without(s, C)) = Cardinality(Kept(s, C))
         /\ \A n \in DOMAIN Without(s, C) : Canon(Without(s, C)[n]) \notin C
         /\ \A c : Listed(Without(s, C), c) <=> (Listed(s, c) /\ c \notin C)
         /\ Once(s) => Once(Without(s, C))
<1> DEFINE K == Kept(s, C)
           m == Cardinality(K)
           w == Without(s, C)
           P(n) == CHOOSE k \in K : Cardinality(UpTo(K, k)) = n
<1>1. Len(s) \in Nat /\ DOMAIN s = 1 .. Len(s) /\ \A k \in DOMAIN s : s[k] \in S
  OBVIOUS
<1>2. K \subseteq 1 .. Len(s) /\ \A k \in K : k \in DOMAIN s /\ Canon(s[k]) \notin C
  BY <1>1 DEF Kept
<1>3. w = [n \in 1 .. m |-> s[P(n)]]
  BY DEF Without, Kept, UpTo
<1>4. \A k \in DOMAIN s : Canon(s[k]) \notin C => k \in K
  BY DEF Kept
<1> HIDE DEF K
<1>5. \A k \in K : k \in Int
  BY <1>1, <1>2
<1>6. /\ IsFiniteSet(K) /\ m \in Nat
      /\ \A k \in K : Cardinality(UpTo(K, k)) \in 1 .. m
      /\ \A k, l \in K : k < l => Cardinality(UpTo(K, k)) < Cardinality(UpTo(K, l))
      /\ \A n \in 1 .. m : \E k \in K : Cardinality(UpTo(K, k)) = n
  BY <1>1, <1>2, Places
<1>7. \A n \in 1 .. m : P(n) \in K /\ Cardinality(UpTo(K, P(n))) = n
  BY <1>6
<1> HIDE DEF P, m
<1>8. /\ w \in [1 .. m -> S] /\ DOMAIN w = 1 .. m
      /\ \A n \in 1 .. m : w[n] = s[P(n)]
  BY <1>1, <1>2, <1>3, <1>7
<1> HIDE DEF w
<1>9. w \in Seq(S) /\ Len(w) = m
  BY <1>6, <1>8, SeqDef
<1>10. \A k \in K : \E n \in 1 .. m : P(n) = k
  <2> SUFFICES ASSUME NEW k \in K PROVE \E n \in 1 .. m : P(n) = k
    OBVIOUS
  <2> DEFINE n == Cardinality(UpTo(K, k))
  <2>1. n \in 1 .. m /\ P(n) \in K /\ Cardinality(UpTo(K, P(n))) = n
    BY <1>6, <1>7
  <2> HIDE DEF n
  <2>2. k \in Int /\ P(n) \in Int
    BY <1>5, <2>1
  <2>3. ~(k < P(n)) /\ ~(P(n) < k)
    BY <1>6, <2>1 DEF n
  <2> QED
    BY <2>1, <2>2, <2>3
<1>11. \A n \in 1 .. m : Canon(w[n]) \notin C
  BY <1>2, <1>7, <1>8
<1>12. ASSUME NEW c PROVE Listed(w, c) <=> (Listed(s, c) /\ c \notin C)
  <2>1. Listed(w, c) => Listed(s, c) /\ c \notin C
    BY <1>2, <1>7, <1>8, <1>11 DEF Listed
  <2>2. ASSUME Listed(s, c), c \notin C PROVE Listed(w, c)
    <3>1. PICK k \in DOMAIN s : Canon(s[k]) = c
      BY <2>2 DEF Listed
    <3>2. PICK n \in 1 .. m : P(n) = k
      BY <1>4, <1>10, <2>2, <3>1
    <3> QED
      BY <1>8, <3>1, <3>2 DEF Listed
  <2> QED
    BY <2>1, <2>2
<1>13. ASSUME Once(s) PROVE Once(w)
  <2> SUFFICES ASSUME NEW n \in 1 .. m, NEW l \in 1 .. m, Canon(w[n]) = Canon(w[l]) PROVE n = l
    BY <1>8 DEF Once
  <2>1. P(n) \in DOMAIN s /\ P(l) \in DOMAIN s /\ Canon(s[P(n)]) = Canon(s[P(l)])
    BY <1>2, <1>7, <1>8
  <2>2. P(n) = P(l)
    BY <1>13, <2>1 DEF Once
  <2> QED
    BY <1>7, <2>2
<1> QED
  BY <1>6, <1>8, <1>9, <1>11, <1>12, <1>13 DEF w, K, m

DirOk(d) == d \in Seq(Name) /\ Once(d)

\* What leaves a directory makes room for one.
LEMMA RemovingFacts ==
  ASSUME NEW d, DirOk(d), NEW c
  PROVE  /\ DirOk(RemoveFromDir(d, c))
         /\ \A x : Listed(RemoveFromDir(d, c), x) <=> (Listed(d, x) /\ x # c)
         /\ Len(RemoveFromDir(d, c)) = IF Listed(d, c) THEN Len(d) - 1 ELSE Len(d)
<1> DEFINE r == RemoveFromDir(d, c)
           K == Kept(d, {c})
<1>1. d \in Seq(Name) /\ Once(d) /\ Len(d) \in Nat /\ DOMAIN d = 1 .. Len(d)
  BY DEF DirOk
<1>2. /\ DirOk(r) /\ Len(r) = Cardinality(K)
      /\ \A x : Listed(r, x) <=> (Listed(d, x) /\ x \notin {c})
  BY <1>1, WithoutFacts DEF RemoveFromDir, DirOk
<1>3. IsFiniteSet(DOMAIN d) /\ Cardinality(DOMAIN d) = Len(d)
  BY <1>1, FS_Interval
<1>4. CASE Listed(d, c)
  <2>1. PICK k \in DOMAIN d : Canon(d[k]) = c
    BY <1>4 DEF Listed
  <2>2. K = (DOMAIN d) \ {k}
    BY <1>1, <2>1 DEF Kept, Once
  <2>3. Cardinality(K) = Len(d) - 1
    BY <1>3, <2>2, FS_RemoveElement
  <2> QED
    BY <1>2, <1>4, <2>3
<1>5. CASE ~Listed(d, c)
  <2>1. K = DOMAIN d
    BY <1>5 DEF Kept, Listed
  <2> QED
    BY <1>2, <1>3, <1>5, <2>1
<1> QED
  BY <1>4, <1>5

\* A directory keeps what it lists, takes in what is new to it, or is full.
LEMMA MergingFacts ==
  ASSUME NEW d, DirOk(d), Len(d) <= MAX_CHANNELS, NEW add, DirOk(add)
  PROVE  /\ DirOk(MergeChannels(d, add))
         /\ Len(d) <= Len(MergeChannels(d, add)) /\ Len(MergeChannels(d, add)) <= MAX_CHANNELS
         /\ \A c : Listed(d, c) => Listed(MergeChannels(d, add), c)
         /\ \A c : Listed(MergeChannels(d, add), c) => Listed(d, c) \/ Listed(add, c)
         /\ \A c : Listed(add, c) =>
              Listed(MergeChannels(d, add), c) \/ Len(MergeChannels(d, add)) = MAX_CHANNELS
         /\ Len(MergeChannels(d, add)) = Len(d) => MergeChannels(d, add) = d
<1> DEFINE new == Without(add, ChannelsOf(d))
           room == MAX_CHANNELS - Len(d)
           t == IF Len(new) < room THEN Len(new) ELSE room
           u == SubSeq(new, 1, t)
           r == MergeChannels(d, add)
           m == Len(d)
<1>1. d \in Seq(Name) /\ Once(d) /\ m \in Nat /\ DOMAIN d = 1 .. m
  BY DEF DirOk
<1>2. add \in Seq(Name) /\ Once(add)
  BY DEF DirOk
<1>3. /\ new \in Seq(Name) /\ Once(new)
      /\ \A n \in DOMAIN new : Canon(new[n]) \notin ChannelsOf(d)
      /\ \A c : Listed(new, c) <=> (Listed(add, c) /\ c \notin ChannelsOf(d))
  BY <1>2, WithoutFacts
<1>4. \A c : c \in ChannelsOf(d) <=> Listed(d, c)
  BY DEF ChannelsOf, Listed
<1>5. r = d \o u
  BY DEF MergeChannels
<1> HIDE DEF new, r
<1>6. Len(new) \in Nat /\ DOMAIN new = 1 .. Len(new)
  BY <1>3
<1>7. /\ room \in Nat /\ t \in Nat /\ t <= Len(new) /\ t <= room
      /\ t = Len(new) \/ t = room
  BY <1>1, <1>6, ChannelConstants
<1>8. MAX_CHANNELS = m + room
  BY <1>1, ChannelConstants
<1> HIDE DEF t, room, m
<1>9. /\ u \in Seq(Name) /\ Len(u) = t /\ DOMAIN u = 1 .. t
      /\ \A k \in 1 .. t : u[k] = new[k] /\ k \in DOMAIN new
  <2>1. \A k \in 1 .. t : k \in DOMAIN new /\ new[k] \in Name
    <3>1. \A k \in DOMAIN new : new[k] \in Name
      BY <1>3
    <3>2. \A k \in 1 .. t : k \in 1 .. Len(new)
      <4>1. t \in Nat /\ t <= Len(new) /\ Len(new) \in Nat
        BY <1>6, <1>7
      <4> QED
        BY <4>1
    <3> QED
      BY <1>6, <3>1, <3>2
  <2>2. /\ u \in Seq(Name) /\ Len(u) = IF 1 <= t THEN t - 1 + 1 ELSE 0
        /\ \A k \in 1 .. t - 1 + 1 : u[k] = new[1 + k - 1]
    BY <1>7, <2>1, SubSeqProperties
  <2> HIDE DEF u
  <2>3. Len(u) = t /\ t - 1 + 1 = t
    BY <1>7, <2>2
  <2>4. \A k \in 1 .. t : 1 + k - 1 = k
    BY <1>7
  <2>5. \A k \in 1 .. t : u[k] = new[k]
    BY <2>2, <2>3, <2>4
  <2>6. DOMAIN u = 1 .. t
    BY <2>2, <2>3
  <2> QED
    BY <2>1, <2>2, <2>3, <2>5, <2>6
<1> HIDE DEF u
<1>10. /\ r \in Seq(Name) /\ Len(r) = m + t
       /\ \A k \in 1 .. m + t : r[k] = IF k <= m THEN d[k] ELSE u[k - m]
  BY <1>1, <1>5, <1>9, ConcatProperties DEF m
<1>11. DOMAIN r = 1 .. m + t
  BY <1>1, <1>7, <1>10
<1>12. \A k \in 1 .. m : k \in DOMAIN r /\ r[k] = d[k]
  BY <1>1, <1>7, <1>10, <1>11
<1>13. \A k \in DOMAIN r : k \in 1 .. m \/ (k - m \in 1 .. t /\ r[k] = new[k - m] /\ ~(k <= m))
  <2> SUFFICES ASSUME NEW k \in DOMAIN r, k \notin 1 .. m
               PROVE  k - m \in 1 .. t /\ r[k] = new[k - m] /\ ~(k <= m)
    OBVIOUS
  <2>1. k - m \in 1 .. t /\ ~(k <= m)
    BY <1>1, <1>7, <1>11
  <2> QED
    BY <1>9, <1>10, <1>11, <2>1
<1>14. \A k \in 1 .. t : k + m \in DOMAIN r /\ r[k + m] = new[k]
  <2> SUFFICES ASSUME NEW k \in 1 .. t PROVE k + m \in DOMAIN r /\ r[k + m] = new[k]
    OBVIOUS
  <2>1. k + m \in 1 .. m + t /\ ~(k + m <= m) /\ (k + m) - m = k
    BY <1>1, <1>7
  <2> QED
    BY <1>9, <1>10, <1>11, <2>1
<1>15. Once(r)
  <2> SUFFICES ASSUME NEW k \in DOMAIN r, NEW l \in DOMAIN r, Canon(r[k]) = Canon(r[l])
               PROVE  k = l
    BY DEF Once
  <2>0. k \in Int /\ l \in Int /\ m \in Int
    BY <1>1, <1>7, <1>11
  <2>1. CASE k \in 1 .. m /\ l \in 1 .. m
    BY <1>1, <1>12, <2>1 DEF Once
  <2>2. CASE k \notin 1 .. m /\ l \notin 1 .. m
    <3>1. k - m \in DOMAIN new /\ l - m \in DOMAIN new /\ Canon(new[k - m]) = Canon(new[l - m])
      BY <1>9, <1>13, <2>2
    <3>2. k - m = l - m
      BY <1>3, <3>1 DEF Once
    <3> QED
      BY <2>0, <3>2
  <2>3. ASSUME NEW a \in 1 .. m, NEW b \in DOMAIN r, b \notin 1 .. m, Canon(r[a]) = Canon(r[b])
        PROVE  FALSE
    <3>1. b - m \in DOMAIN new /\ r[b] = new[b - m] /\ r[a] = d[a] /\ a \in DOMAIN d
      BY <1>1, <1>9, <1>12, <1>13, <2>3
    <3>2. Canon(r[b]) \in ChannelsOf(d)
      BY <2>3, <3>1 DEF ChannelsOf
    <3> QED
      BY <1>3, <3>1, <3>2
  <2> QED
    BY <2>1, <2>2, <2>3
<1>16. \A c : Listed(d, c) => Listed(r, c)
  BY <1>1, <1>12 DEF Listed
<1>17. \A c : Listed(r, c) => Listed(d, c) \/ Listed(add, c)
  <2> SUFFICES ASSUME NEW c, NEW k \in DOMAIN r, Canon(r[k]) = c
               PROVE  Listed(d, c) \/ Listed(add, c)
    BY DEF Listed
  <2>1. CASE k \in 1 .. m
    BY <1>1, <1>12, <2>1 DEF Listed
  <2>2. CASE k \notin 1 .. m
    <3>1. k - m \in DOMAIN new /\ r[k] = new[k - m]
      BY <1>9, <1>13, <2>2
    <3>2. Listed(new, c)
      BY <3>1 DEF Listed
    <3> QED
      BY <1>3, <3>2
  <2> QED
    BY <2>1, <2>2
<1>18. ASSUME NEW c, Listed(add, c) PROVE Listed(r, c) \/ Len(r) = MAX_CHANNELS
  <2>1. CASE t = room
    BY <1>8, <1>10, <2>1
  <2>2. CASE Listed(d, c)
    BY <1>16, <2>2
  <2>3. CASE t = Len(new) /\ ~Listed(d, c)
    <3>1. PICK k \in DOMAIN new : Canon(new[k]) = c
      BY <1>3, <1>4, <1>18, <2>3 DEF Listed
    <3>2. k + m \in DOMAIN r /\ r[k + m] = new[k]
      BY <1>6, <1>14, <2>3
    <3> QED
      BY <3>1, <3>2 DEF Listed
  <2> QED
    BY <1>7, <2>1, <2>2, <2>3
<1>19. ASSUME Len(r) = Len(d) PROVE r = d
  <2>1. t = 0
    BY <1>1, <1>7, <1>10, <1>19 DEF m
  <2>2. u = <<>>
    BY <1>9, <2>1
  <2> QED
    BY <1>1, <1>5, <2>2
<1>20. m <= Len(r) /\ Len(r) <= MAX_CHANNELS
  BY <1>1, <1>7, <1>8, <1>10
<1> QED
  BY <1>10, <1>15, <1>16, <1>17, <1>18, <1>19, <1>20 DEF r, DirOk, m

\* Messages that carry a directory, and what is in a queue of them.
MsgOk(m) == /\ m.t = "Channel" => m.name \in Name
            /\ m.t = "Channels" => DirOk(m.names)
Bears(m, c) == m.t = "Channels" /\ Listed(m.names, c)

MsgsOk(q) == IsSeq(q) /\ \A k \in DOMAIN q : MsgOk(q[k])
EventsOk(q) == IsSeq(q) /\ \A k \in DOMAIN q : MsgOk(q[k].msg)

InQueue(q, c) == \E k \in DOMAIN q : Bears(q[k], c)
InEvents(q, c) == \E k \in DOMAIN q : Bears(q[k].msg, c)

LEMMA QueueFacts ==
  ASSUME NEW q, MsgsOk(q)
  PROVE  /\ q # <<>> => /\ MsgsOk(Tail(q)) /\ MsgOk(Head(q))
                        /\ \A c : InQueue(q, c) => Bears(Head(q), c) \/ InQueue(Tail(q), c)
         /\ \A m : MsgOk(m) => /\ MsgsOk(Append(q, m))
                               /\ \A c : InQueue(q, c) \/ Bears(m, c) => InQueue(Append(q, m), c)
         /\ \A r : MsgsOk(r) => /\ MsgsOk(q \o r)
                                /\ \A c : InQueue(q, c) \/ InQueue(r, c) => InQueue(q \o r, c)
<1> DEFINE n == Len(q)
<1>1. IsSeq(q) /\ n \in Nat /\ DOMAIN q = 1 .. n
  BY SeqFacts DEF MsgsOk
<1> HIDE DEF n
<1>2. ASSUME q # <<>>
      PROVE  /\ MsgsOk(Tail(q)) /\ MsgOk(Head(q))
             /\ \A c : InQueue(q, c) => Bears(Head(q), c) \/ InQueue(Tail(q), c)
  <2> DEFINE u == Tail(q)
  <2>1. /\ IsSeq(u) /\ Head(q) = q[1] /\ 1 \in DOMAIN q
        /\ DOMAIN u = 1 .. n - 1 /\ \A k \in DOMAIN u : u[k] = q[k + 1]
    BY <1>1, <1>2, SeqFacts DEF n
  <2> HIDE DEF u
  <2>2. \A k \in DOMAIN u : k + 1 \in DOMAIN q
    BY <1>1, <2>1
  <2>3. \A k \in DOMAIN q : k = 1 \/ (k - 1 \in DOMAIN u /\ u[k - 1] = q[k])
    <3> SUFFICES ASSUME NEW k \in DOMAIN q, k # 1
                 PROVE  k - 1 \in DOMAIN u /\ u[k - 1] = q[k]
      OBVIOUS
    <3>1. k - 1 \in 1 .. n - 1 /\ (k - 1) + 1 = k
      BY <1>1
    <3> QED
      BY <2>1, <3>1
  <2>4. MsgsOk(u) /\ MsgOk(Head(q))
    BY <2>1, <2>2 DEF MsgsOk
  <2>5. \A c : InQueue(q, c) => Bears(Head(q), c) \/ InQueue(u, c)
    BY <2>1, <2>3 DEF InQueue
  <2> QED
    BY <2>4, <2>5 DEF u
<1>3. ASSUME NEW m, MsgOk(m)
      PROVE  /\ MsgsOk(Append(q, m))
             /\ \A c : InQueue(q, c) \/ Bears(m, c) => InQueue(Append(q, m), c)
  <2> DEFINE u == Append(q, m)
  <2>1. /\ IsSeq(u) /\ DOMAIN u = 1 .. n + 1
        /\ \A k \in 1 .. n : u[k] = q[k]
        /\ u[n + 1] = m
    BY <1>1, SeqFacts DEF n
  <2> HIDE DEF u
  <2>2. \A k \in DOMAIN u : k = n + 1 \/ k \in DOMAIN q
    BY <1>1, <2>1
  <2>3. n + 1 \in DOMAIN u /\ \A k \in DOMAIN q : k \in DOMAIN u
    BY <1>1, <2>1
  <2>4. MsgsOk(u)
    BY <1>1, <1>3, <2>1, <2>2 DEF MsgsOk
  <2>5. \A c : InQueue(q, c) \/ Bears(m, c) => InQueue(u, c)
    BY <1>1, <2>1, <2>3 DEF InQueue
  <2> QED
    BY <2>4, <2>5 DEF u
<1>4. ASSUME NEW r, MsgsOk(r)
      PROVE  /\ MsgsOk(q \o r)
             /\ \A c : InQueue(q, c) \/ InQueue(r, c) => InQueue(q \o r, c)
  <2> DEFINE l == Len(r)
             u == q \o r
  <2>1. IsSeq(r) /\ l \in Nat /\ DOMAIN r = 1 .. l
    BY <1>4, SeqFacts DEF MsgsOk
  <2>2. /\ IsSeq(u) /\ DOMAIN u = 1 .. n + l
        /\ \A k \in 1 .. n : u[k] = q[k]
        /\ \A k \in 1 .. l : u[n + k] = r[k]
    BY <1>1, <2>1, ConcatFacts DEF n
  <2> HIDE DEF l, u
  <2>3. \A k \in DOMAIN u : k \in DOMAIN q \/ (k - n \in DOMAIN r /\ u[k] = r[k - n])
    <3> SUFFICES ASSUME NEW k \in DOMAIN u, k \notin DOMAIN q
                 PROVE  k - n \in DOMAIN r /\ u[k] = r[k - n]
      OBVIOUS
    <3>1. k - n \in 1 .. l /\ n + (k - n) = k
      BY <1>1, <2>1, <2>2
    <3> QED
      BY <2>1, <2>2, <3>1
  <2>4. /\ \A k \in DOMAIN q : k \in DOMAIN u
        /\ \A k \in DOMAIN r : n + k \in DOMAIN u
    BY <1>1, <2>1, <2>2
  <2>5. MsgsOk(u)
    BY <1>1, <1>4, <2>2, <2>3 DEF MsgsOk
  <2>6. \A c : InQueue(q, c) \/ InQueue(r, c) => InQueue(u, c)
    BY <1>1, <2>1, <2>2, <2>4 DEF InQueue
  <2> QED
    BY <2>5, <2>6 DEF u
<1> QED
  BY <1>2, <1>3, <1>4

LEMMA EventFacts ==
  ASSUME NEW q, EventsOk(q)
  PROVE  /\ q # <<>> => /\ EventsOk(Tail(q)) /\ MsgOk(Head(q).msg)
                        /\ \A c : InEvents(q, c) => Bears(Head(q).msg, c) \/ InEvents(Tail(q), c)
         /\ \A e : MsgOk(e.msg) =>
              /\ EventsOk(Append(q, e))
              /\ \A c : InEvents(q, c) \/ Bears(e.msg, c) => InEvents(Append(q, e), c)
<1> DEFINE n == Len(q)
<1>1. IsSeq(q) /\ n \in Nat /\ DOMAIN q = 1 .. n
  BY SeqFacts DEF EventsOk
<1> HIDE DEF n
<1>2. ASSUME q # <<>>
      PROVE  /\ EventsOk(Tail(q)) /\ MsgOk(Head(q).msg)
             /\ \A c : InEvents(q, c) => Bears(Head(q).msg, c) \/ InEvents(Tail(q), c)
  <2> DEFINE u == Tail(q)
  <2>1. /\ IsSeq(u) /\ Head(q) = q[1] /\ 1 \in DOMAIN q
        /\ DOMAIN u = 1 .. n - 1 /\ \A k \in DOMAIN u : u[k] = q[k + 1]
    BY <1>1, <1>2, SeqFacts DEF n
  <2> HIDE DEF u
  <2>2. \A k \in DOMAIN u : k + 1 \in DOMAIN q
    BY <1>1, <2>1
  <2>3. \A k \in DOMAIN q : k = 1 \/ (k - 1 \in DOMAIN u /\ u[k - 1] = q[k])
    <3> SUFFICES ASSUME NEW k \in DOMAIN q, k # 1
                 PROVE  k - 1 \in DOMAIN u /\ u[k - 1] = q[k]
      OBVIOUS
    <3>1. k - 1 \in 1 .. n - 1 /\ (k - 1) + 1 = k
      BY <1>1
    <3> QED
      BY <2>1, <3>1
  <2>4. EventsOk(u) /\ MsgOk(Head(q).msg)
    BY <2>1, <2>2 DEF EventsOk
  <2>5. \A c : InEvents(q, c) => Bears(Head(q).msg, c) \/ InEvents(u, c)
    BY <2>1, <2>3 DEF InEvents
  <2> QED
    BY <2>4, <2>5 DEF u
<1>3. ASSUME NEW e, MsgOk(e.msg)
      PROVE  /\ EventsOk(Append(q, e))
             /\ \A c : InEvents(q, c) \/ Bears(e.msg, c) => InEvents(Append(q, e), c)
  <2> DEFINE u == Append(q, e)
  <2>1. /\ IsSeq(u) /\ DOMAIN u = 1 .. n + 1
        /\ \A k \in 1 .. n : u[k] = q[k]
        /\ u[n + 1] = e
    BY <1>1, SeqFacts DEF n
  <2> HIDE DEF u
  <2>2. \A k \in DOMAIN u : k = n + 1 \/ k \in DOMAIN q
    BY <1>1, <2>1
  <2>3. n + 1 \in DOMAIN u /\ \A k \in DOMAIN q : k \in DOMAIN u
    BY <1>1, <2>1
  <2>4. EventsOk(u)
    BY <1>1, <1>3, <2>1, <2>2 DEF EventsOk
  <2>5. \A c : InEvents(q, c) \/ Bears(e.msg, c) => InEvents(u, c)
    BY <1>1, <2>1, <2>3 DEF InEvents
  <2> QED
    BY <2>4, <2>5 DEF u
<1> QED
  BY <1>2, <1>3

-----------------------------------------------------------------------------
(***************************************************************************)
(* What a node knows of the channels: a directory and tombstones.          *)
(***************************************************************************)
Canons == {Canon(n) : n \in Name}

StoreOk(d, R) ==
  /\ DirOk(d) /\ Len(d) <= MAX_CHANNELS
  /\ R \subseteq Canons /\ IsFiniteSet(R)
  /\ \A c \in R : ~Listed(d, c)

\* The node has an answer to a channel that is offered to it: it lists it, has
\* a tombstone for it, or is full, counting the room its tombstones made.
Settles(d, R, c) ==
  Listed(d, c) \/ c \in R \/ Len(d) + Cardinality(R) >= MAX_CHANNELS

\* Tuning in.
LEMMA TuningIn ==
  ASSUME NEW d, NEW R, StoreOk(d, R), NEW n \in Name
  PROVE  /\ StoreOk(MergeChannels(d, <<n>>), R \ {Canon(n)})
         /\ \A c : Settles(d, R, c) => Settles(MergeChannels(d, <<n>>), R \ {Canon(n)}, c)
<1> DEFINE e == MergeChannels(d, <<n>>)
           x == Canon(n)
           T == R \ {x}
<1>1. DirOk(<<n>>) /\ Listed(<<n>>, x) /\ \A c : Listed(<<n>>, c) => c = x
  BY DEF DirOk, Once, Listed
<1>2. /\ DirOk(e) /\ Len(d) <= Len(e) /\ Len(e) <= MAX_CHANNELS
      /\ \A c : Listed(d, c) => Listed(e, c)
      /\ \A c : Listed(e, c) => Listed(d, c) \/ c = x
      /\ Listed(e, x) \/ Len(e) = MAX_CHANNELS
      /\ Len(e) = Len(d) => e = d
  BY <1>1, MergingFacts DEF StoreOk
<1>3. Len(d) \in Nat /\ Len(e) \in Nat /\ MAX_CHANNELS \in Nat
  BY <1>2, ChannelConstants DEF StoreOk, DirOk
<1>4. /\ IsFiniteSet(T) /\ Cardinality(R) \in Nat
      /\ Cardinality(T) = IF x \in R THEN Cardinality(R) - 1 ELSE Cardinality(R)
  BY FS_RemoveElement, FS_CardinalityType DEF StoreOk
<1>5. T \subseteq Canons /\ \A c \in T : c \in R /\ c # x /\ ~Listed(d, c)
  BY DEF StoreOk
<1> HIDE DEF e, T
<1>6. StoreOk(e, T)
  BY <1>2, <1>4, <1>5 DEF StoreOk
<1>7. Len(e) + Cardinality(T) >= MAX_CHANNELS \/ ~(Len(d) + Cardinality(R) >= MAX_CHANNELS)
  <2>1. CASE x \notin R
    BY <1>2, <1>3, <1>4, <2>1
  <2>2. CASE x \in R /\ Len(e) = MAX_CHANNELS
    <3>1. Cardinality(T) \in Nat
      BY <1>4, FS_CardinalityType
    <3> QED
      BY <1>3, <2>2, <3>1
  <2>3. CASE x \in R /\ Listed(e, x)
    <3>1. ~Listed(d, x)
      BY <2>3 DEF StoreOk
    <3>2. Len(e) # Len(d)
      BY <1>2, <2>3, <3>1
    <3> QED
      BY <1>2, <1>3, <1>4, <2>3, <3>2
  <2> QED
    BY <1>2, <2>1, <2>2, <2>3
<1>8. ASSUME NEW c, Settles(d, R, c) PROVE Settles(e, T, c)
  <2>1. CASE Listed(d, c)
    BY <1>2, <2>1 DEF Settles
  <2>2. CASE c \in R /\ c # x
    BY <2>2 DEF Settles, T
  <2>3. CASE c = x /\ Listed(e, x)
    BY <2>3 DEF Settles
  <2>4. CASE Len(e) = MAX_CHANNELS
    <3>1. Cardinality(T) \in Nat
      BY <1>4, FS_CardinalityType
    <3> QED
      BY <1>3, <2>4, <3>1 DEF Settles
  <2>5. CASE Len(d) + Cardinality(R) >= MAX_CHANNELS
    BY <1>7, <2>5 DEF Settles
  <2> QED
    BY <1>2, <1>8, <2>1, <2>2, <2>3, <2>4, <2>5 DEF Settles
<1> QED
  BY <1>6, <1>8 DEF e, T

\* Deleting a channel: what leaves the directory becomes a tombstone.
LEMMA Deleting ==
  ASSUME NEW d, NEW R, StoreOk(d, R), NEW c \in Canons
  PROVE  /\ StoreOk(RemoveFromDir(d, c), R \cup {c})
         /\ \A x : Settles(d, R, x) => Settles(RemoveFromDir(d, c), R \cup {c}, x)
         /\ \A x : Listed(RemoveFromDir(d, c), x) => Listed(d, x)
<1> DEFINE e == RemoveFromDir(d, c)
           T == R \cup {c}
<1>1. /\ DirOk(e) /\ \A x : Listed(e, x) <=> (Listed(d, x) /\ x # c)
      /\ Len(e) = IF Listed(d, c) THEN Len(d) - 1 ELSE Len(d)
  BY RemovingFacts DEF StoreOk
<1>2. Len(d) \in Nat /\ Len(d) <= MAX_CHANNELS /\ MAX_CHANNELS \in Nat
  BY ChannelConstants DEF StoreOk, DirOk
<1>3. /\ IsFiniteSet(T) /\ Cardinality(R) \in Nat
      /\ Cardinality(T) = IF c \in R THEN Cardinality(R) ELSE Cardinality(R) + 1
  BY FS_AddElement, FS_CardinalityType DEF StoreOk
<1>4. T \subseteq Canons /\ \A x \in T : x \in R \/ x = c
  BY DEF StoreOk
<1> HIDE DEF e
<1>5. \A x \in T : ~Listed(e, x)
  BY <1>1, <1>4 DEF StoreOk
<1>6. Len(e) <= MAX_CHANNELS
  BY <1>1, <1>2
<1>7. StoreOk(e, T)
  BY <1>1, <1>3, <1>4, <1>5, <1>6 DEF StoreOk
<1>8. Listed(d, c) => c \notin R
  BY DEF StoreOk
<1>9. Len(e) + Cardinality(T) >= Len(d) + Cardinality(R)
  BY <1>1, <1>2, <1>3, <1>8
<1>10. Len(e) \in Int /\ Cardinality(T) \in Int
  BY <1>1, <1>2, <1>3
<1>11. ASSUME NEW x, Settles(d, R, x) PROVE Settles(e, T, x)
  <2>1. CASE Listed(d, x)
    BY <1>1, <2>1 DEF Settles, T
  <2>2. CASE x \in R
    BY <2>2 DEF Settles, T
  <2>3. CASE Len(d) + Cardinality(R) >= MAX_CHANNELS
    BY <1>2, <1>3, <1>9, <1>10, <2>3 DEF Settles
  <2> QED
    BY <1>11, <2>1, <2>2, <2>3 DEF Settles
<1> QED
  BY <1>1, <1>7, <1>11 DEF e

\* Taking in a directory: each of its channels gets an answer.
LEMMA TakingIn ==
  ASSUME NEW d, NEW R, StoreOk(d, R), NEW names, DirOk(names)
  PROVE  LET e == MergeChannels(d, Without(names, R))
         IN  /\ StoreOk(e, R)
             /\ \A c : Settles(d, R, c) => Settles(e, R, c)
             /\ \A c : Listed(names, c) => Settles(e, R, c)
<1> DEFINE a == Without(names, R)
           e == MergeChannels(d, a)
<1>1. DirOk(a) /\ \A c : Listed(a, c) <=> (Listed(names, c) /\ c \notin R)
  BY WithoutFacts DEF DirOk
<1> HIDE DEF a
<1>2. /\ DirOk(e) /\ Len(d) <= Len(e) /\ Len(e) <= MAX_CHANNELS
      /\ \A c : Listed(d, c) => Listed(e, c)
      /\ \A c : Listed(e, c) => Listed(d, c) \/ Listed(a, c)
      /\ \A c : Listed(a, c) => Listed(e, c) \/ Len(e) = MAX_CHANNELS
  BY <1>1, MergingFacts DEF StoreOk
<1>3. Len(d) \in Nat /\ Len(e) \in Nat /\ MAX_CHANNELS \in Nat /\ Cardinality(R) \in Nat
  BY <1>2, ChannelConstants, FS_CardinalityType DEF StoreOk, DirOk
<1> HIDE DEF e
<1>4. StoreOk(e, R)
  BY <1>1, <1>2 DEF StoreOk
<1>5. Len(d) + Cardinality(R) >= MAX_CHANNELS => Len(e) + Cardinality(R) >= MAX_CHANNELS
  BY <1>2, <1>3
<1>6. Len(e) = MAX_CHANNELS => Len(e) + Cardinality(R) >= MAX_CHANNELS
  BY <1>3
<1>7. \A c : Settles(d, R, c) => Settles(e, R, c)
  BY <1>2, <1>5 DEF Settles
<1>8. \A c : Listed(names, c) => Settles(e, R, c)
  BY <1>1, <1>2, <1>6 DEF Settles
<1> QED
  BY <1>4, <1>7, <1>8 DEF e, a

-----------------------------------------------------------------------------
(***************************************************************************)
(* The invariant of the directories: every channel of a directory was        *)
(* answered by the other end of an open data channel, or is on its way.      *)
(***************************************************************************)
Typed ==
  /\ budget \in [nodes : SUBSET Node, ops : Nat, faults : Nat]
  /\ mine \in [Node -> Name]
  /\ heard \in [Node -> [Node -> Name \cup {None}]]
  /\ row \in [Node -> [Node -> Name \cup {None}]]
  /\ open \in [Node -> [Node -> BOOLEAN]]
  /\ DOMAIN dir = Node /\ DOMAIN removed = Node

Stored == \A i \in Node : StoreOk(dir[i], removed[i])

Flying ==
  /\ DOMAIN late = Node /\ DOMAIN dc = Node /\ DOMAIN ev = Node
  /\ \A i \in Node : /\ DOMAIN late[i] = Node /\ DOMAIN dc[i] = Node
                     /\ EventsOk(ev[i])
  /\ \A i, j \in Node : MsgsOk(dc[i][j]) /\ \A m \in late[i][j] : MsgOk(m)

UnderWay(i, j, c) ==
  \/ \E m \in late[i][j] : Bears(m, c)
  \/ InQueue(dc[i][j], c)
  \/ InEvents(ev[j], c)

Offered(i, j) ==
  i # j /\ open[i][j] =>
    \A c : Listed(dir[i], c) => Settles(dir[j], removed[j], c) \/ UnderWay(i, j, c)

DirInv == Typed /\ Stored /\ Flying /\ \A i, j \in Node : Offered(i, j)

\* The messages the mesh sends carry sound directories.
LEMMA Carrying ==
  /\ \A n \in Name : MsgOk(ChannelMsg(n)) /\ MsgsOk(<<ChannelMsg(n)>>)
  /\ \A d : DirOk(d) => /\ MsgOk(ChannelsMsg(d)) /\ MsgsOk(<<ChannelsMsg(d)>>)
                        /\ \A c : Listed(d, c) => /\ Bears(ChannelsMsg(d), c)
                                                  /\ InQueue(<<ChannelsMsg(d)>>, c)
  /\ \A c : MsgOk(RemovedMsg(c)) /\ MsgsOk(<<RemovedMsg(c)>>)
  /\ \A n \in Name : \A d : DirOk(d) =>
       /\ MsgsOk(<<ChannelMsg(n), ChannelsMsg(d)>>)
       /\ \A c : Listed(d, c) => InQueue(<<ChannelMsg(n), ChannelsMsg(d)>>, c)
  /\ MsgsOk(<<>>)
<1>1. \A a : IsSeq(<<a>>) /\ DOMAIN <<a>> = {1} /\ <<a>>[1] = a
  BY Tuples
<1>2. \A a, b : /\ IsSeq(<<a, b>>) /\ DOMAIN <<a, b>> = {1, 2}
                /\ <<a, b>>[1] = a /\ <<a, b>>[2] = b
  BY Tuples
<1>3. /\ \A n \in Name : MsgOk(ChannelMsg(n))
      /\ \A d : DirOk(d) => MsgOk(ChannelsMsg(d)) /\ \A c : Listed(d, c) => Bears(ChannelsMsg(d), c)
      /\ \A c : MsgOk(RemovedMsg(c))
  BY DEF ChannelMsg, ChannelsMsg, RemovedMsg, MsgOk, Bears
<1>4. \A m : MsgOk(m) => MsgsOk(<<m>>) /\ \A c : Bears(m, c) => InQueue(<<m>>, c)
  BY <1>1 DEF MsgsOk, InQueue
<1>5. \A m, o : MsgOk(m) /\ MsgOk(o) =>
         MsgsOk(<<m, o>>) /\ \A c : Bears(o, c) => InQueue(<<m, o>>, c)
  BY <1>2 DEF MsgsOk, InQueue
<1>6. MsgsOk(<<>>)
  BY Nothing DEF MsgsOk
<1> QED
  BY <1>3, <1>4, <1>5, <1>6

LEMMA Broadcasts ==
  ASSUME Typed, Flying, NEW i \in Node, NEW told, MsgsOk(told), dc' = Broadcast(dc, i, told)
  PROVE  /\ DOMAIN dc' = Node /\ \A a \in Node : DOMAIN dc'[a] = Node
         /\ \A a, b \in Node :
              /\ MsgsOk(dc'[a][b])
              /\ \A c : InQueue(dc[a][b], c) => InQueue(dc'[a][b], c)
         /\ \A b \in Node : open[i][b] => \A c : InQueue(told, c) => InQueue(dc'[i][b], c)
<1>1. dc' = [dc EXCEPT ![i] = [j \in Node |-> IF open[i][j] THEN dc[i][j] \o told ELSE dc[i][j]]]
  BY DEF Broadcast
<1>2. DOMAIN dc' = Node /\ \A a \in Node : DOMAIN dc'[a] = Node
  BY <1>1 DEF Flying
<1>3. \A a, b \in Node :
         dc'[a][b] = IF a = i /\ open[a][b] THEN dc[a][b] \o told ELSE dc[a][b]
  BY <1>1 DEF Flying
<1>4. ASSUME NEW a \in Node, NEW b \in Node
      PROVE  /\ MsgsOk(dc'[a][b])
             /\ \A c : InQueue(dc[a][b], c) => InQueue(dc'[a][b], c)
             /\ a = i /\ open[a][b] => \A c : InQueue(told, c) => InQueue(dc'[a][b], c)
  <2>1. /\ MsgsOk(dc[a][b]) /\ MsgsOk(dc[a][b] \o told)
        /\ \A c : InQueue(dc[a][b], c) \/ InQueue(told, c) => InQueue(dc[a][b] \o told, c)
    BY QueueFacts DEF Flying
  <2> QED
    BY <1>3, <2>1
<1> QED
  BY <1>2, <1>4

\* What a node knows changes, what is new is told, and the event that caused it
\* is taken.
LEMMA Knowing ==
  ASSUME DirInv, NEW i \in Node, NEW d, NEW R, StoreOk(d, R),
         \A c : Settles(dir[i], removed[i], c) => Settles(d, R, c),
         dir' = [dir EXCEPT ![i] = d] \/ (dir' = dir /\ d = dir[i]),
         removed' = [removed EXCEPT ![i] = R] \/ (removed' = removed /\ R = removed[i]),
         DOMAIN dc' = Node, \A a \in Node : DOMAIN dc'[a] = Node,
         \A a, b \in Node : MsgsOk(dc'[a][b]),
         \A a, b \in Node : \A c : InQueue(dc[a][b], c) => InQueue(dc'[a][b], c),
         \A b \in Node : open[i][b] =>
            \A c : Listed(d, c) => Listed(dir[i], c) \/ InQueue(dc'[i][b], c),
         \/ ev' = ev
         \/ /\ ev[i] # <<>> /\ ev' = [ev EXCEPT ![i] = Tail(@)]
            /\ \A c : Bears(Head(ev[i]).msg, c) => Settles(d, R, c),
         UNCHANGED <<open, late>>, Typed'
  PROVE  DirInv'
<1>1. \A a \in Node : /\ dir'[a] = IF a = i THEN d ELSE dir[a]
                      /\ removed'[a] = IF a = i THEN R ELSE removed[a]
  BY DEF DirInv, Typed
<1>2. Stored'
  BY <1>1 DEF DirInv, Stored
<1>3. /\ DOMAIN ev' = Node
      /\ \A a \in Node : /\ EventsOk(ev'[a])
                         /\ \A c : InEvents(ev[a], c) =>
                              InEvents(ev'[a], c) \/ (a = i /\ Settles(d, R, c))
  <2>1. CASE ev' = ev
    BY <2>1 DEF DirInv, Flying
  <2>2. CASE /\ ev[i] # <<>> /\ ev' = [ev EXCEPT ![i] = Tail(@)]
             /\ \A c : Bears(Head(ev[i]).msg, c) => Settles(d, R, c)
    <3>1. /\ EventsOk(ev[i]) /\ EventsOk(Tail(ev[i]))
          /\ \A c : InEvents(ev[i], c) => Bears(Head(ev[i]).msg, c) \/ InEvents(Tail(ev[i]), c)
      BY <2>2, EventFacts DEF DirInv, Flying
    <3>2. DOMAIN ev' = Node /\ \A a \in Node : ev'[a] = IF a = i THEN Tail(ev[a]) ELSE ev[a]
      BY <2>2 DEF DirInv, Flying
    <3>3. \A a \in Node : EventsOk(ev[a])
      BY DEF DirInv, Flying
    <3> QED
      BY <2>2, <3>1, <3>2, <3>3
  <2> QED
    BY <2>1, <2>2
<1>4. Flying'
  BY <1>3 DEF DirInv, Flying
<1>5. ASSUME NEW a \in Node, NEW b \in Node PROVE Offered(a, b)'
  <2> SUFFICES ASSUME a # b, open[a][b], NEW c, Listed(dir'[a], c)
               PROVE  Settles(dir'[b], removed'[b], c) \/ UnderWay(a, b, c)'
    BY DEF Offered
  <2>1. Settles(dir[b], removed[b], c) => Settles(dir'[b], removed'[b], c)
    BY <1>1
  <2>2. UnderWay(a, b, c) => Settles(dir'[b], removed'[b], c) \/ UnderWay(a, b, c)'
    <3>1. InEvents(ev[b], c) => InEvents(ev'[b], c) \/ Settles(dir'[b], removed'[b], c)
      BY <1>1, <1>3
    <3>2. InQueue(dc[a][b], c) => InQueue(dc'[a][b], c)
      OBVIOUS
    <3>3. (\E m \in late[a][b] : Bears(m, c)) => (\E m \in late'[a][b] : Bears(m, c))
      OBVIOUS
    <3> QED
      BY <3>1, <3>2, <3>3 DEF UnderWay
  <2>3. Listed(dir[a], c) \/ (a = i /\ InQueue(dc'[a][b], c))
    BY <1>1
  <2>4. CASE Listed(dir[a], c)
    <3>1. Settles(dir[b], removed[b], c) \/ UnderWay(a, b, c)
      BY <2>4 DEF DirInv, Offered
    <3> QED
      BY <2>1, <2>2, <3>1
  <2>5. CASE InQueue(dc'[a][b], c)
    BY <2>5 DEF UnderWay
  <2> QED
    BY <2>3, <2>4, <2>5
<1> QED
  BY <1>2, <1>4, <1>5 DEF DirInv

LEMMA SetChannelDir ==
  ASSUME DirInv, NEW i \in Node, NEW n \in Name, SetChannel(i, n)
  PROVE  DirInv'
<1> DEFINE d == MergeChannels(dir[i], <<n>>)
           R == removed[i] \ {Canon(n)}
           u == IF d # dir[i] THEN <<ChannelsMsg(d)>> ELSE <<>>
           told == <<ChannelMsg(n)>> \o u
<1>1. /\ mine' = [mine EXCEPT ![i] = n]
      /\ removed' = [removed EXCEPT ![i] = R]
      /\ dir' = [dir EXCEPT ![i] = d]
      /\ dc' = Broadcast(dc, i, told)
      /\ UNCHANGED <<heard, row, open, late, ev, inbox>>
      /\ Op
  BY DEF SetChannel
<1>2. /\ StoreOk(d, R)
      /\ \A c : Settles(dir[i], removed[i], c) => Settles(d, R, c)
  BY TuningIn DEF DirInv, Stored
<1> HIDE DEF d, R
<1>3. DirOk(d)
  BY <1>2 DEF StoreOk
<1>4. MsgsOk(<<ChannelMsg(n)>>) /\ MsgsOk(u)
  BY <1>3, Carrying
<1>5. \A c : Listed(d, c) => Listed(dir[i], c) \/ InQueue(u, c)
  BY <1>3, Carrying
<1> HIDE DEF u
<1>6. MsgsOk(told) /\ \A c : InQueue(u, c) => InQueue(told, c)
  BY <1>4, QueueFacts
<1> HIDE DEF told
<1>7. /\ DOMAIN dc' = Node /\ \A a \in Node : DOMAIN dc'[a] = Node
      /\ \A a, b \in Node :
           /\ MsgsOk(dc'[a][b])
           /\ \A c : InQueue(dc[a][b], c) => InQueue(dc'[a][b], c)
      /\ \A b \in Node : open[i][b] => \A c : InQueue(told, c) => InQueue(dc'[i][b], c)
  BY <1>1, <1>6, Broadcasts DEF DirInv
<1>8. Typed'
  <2>1. budget' \in [nodes : SUBSET Node, ops : Nat, faults : Nat]
    BY <1>1, Spending DEF DirInv, Typed, Op
  <2> QED
    BY <1>1, <2>1 DEF DirInv, Typed
<1>9. \A b \in Node : open[i][b] =>
        \A c : Listed(d, c) => Listed(dir[i], c) \/ InQueue(dc'[i][b], c)
  BY <1>5, <1>6, <1>7
<1> QED
  BY <1>1, <1>2, <1>7, <1>8, <1>9, Knowing

LEMMA RemoveChannelDir ==
  ASSUME DirInv, NEW i \in Node, NEW c \in Canons, RemoveChannel(i, c)
  PROVE  DirInv'
<1> DEFINE d == RemoveFromDir(dir[i], c)
           R == removed[i] \cup {c}
           told == <<RemovedMsg(c)>>
<1>1. /\ removed' = [removed EXCEPT ![i] = R]
      /\ dir' = [dir EXCEPT ![i] = d]
      /\ dc' = Broadcast(dc, i, told)
      /\ UNCHANGED <<mine, heard, row, open, late, ev, inbox>>
      /\ Op
  BY DEF RemoveChannel
<1>2. /\ StoreOk(d, R)
      /\ \A x : Settles(dir[i], removed[i], x) => Settles(d, R, x)
      /\ \A x : Listed(d, x) => Listed(dir[i], x)
  BY Deleting DEF DirInv, Stored
<1> HIDE DEF d, R
<1>3. MsgsOk(told)
  BY Carrying
<1> HIDE DEF told
<1>4. /\ DOMAIN dc' = Node /\ \A a \in Node : DOMAIN dc'[a] = Node
      /\ \A a, b \in Node :
           /\ MsgsOk(dc'[a][b])
           /\ \A x : InQueue(dc[a][b], x) => InQueue(dc'[a][b], x)
  BY <1>1, <1>3, Broadcasts DEF DirInv
<1>5. Typed'
  <2>1. budget' \in [nodes : SUBSET Node, ops : Nat, faults : Nat]
    BY <1>1, Spending DEF DirInv, Typed, Op
  <2> QED
    BY <1>1, <2>1 DEF DirInv, Typed
<1> QED
  BY <1>1, <1>2, <1>4, <1>5, Knowing

\* An event that carries no directory is taken, and nothing is learned.
LEMMA Ignoring ==
  ASSUME DirInv, NEW i \in Node, ev[i] # <<>>, ev' = [ev EXCEPT ![i] = Tail(@)],
         Head(ev[i]).msg.t # "Channels",
         UNCHANGED <<dir, removed, dc, open, late>>, Typed'
  PROVE  DirInv'
<1>1. \A c : ~Bears(Head(ev[i]).msg, c)
  BY DEF Bears
<1>2. StoreOk(dir[i], removed[i])
  BY DEF DirInv, Stored
<1>3. /\ DOMAIN dc' = Node /\ \A a \in Node : DOMAIN dc'[a] = Node
      /\ \A a, b \in Node : MsgsOk(dc'[a][b])
  BY DEF DirInv, Flying
<1>4. \A a, b \in Node : \A c : InQueue(dc[a][b], c) => InQueue(dc'[a][b], c)
  OBVIOUS
<1> QED
  BY <1>1, <1>2, <1>3, <1>4, Knowing

LEMMA OnPeerChannelDir ==
  ASSUME DirInv, NEW i \in Node, OnPeerChannel(i)
  PROVE  DirInv'
<1> DEFINE e == Head(ev[i])
<1>1. /\ ev[i] # <<>> /\ e.msg.t = "Channel"
      /\ row' = IF row[i][e.peer] # None THEN [row EXCEPT ![i][e.peer] = e.msg.name] ELSE row
      /\ ev' = [ev EXCEPT ![i] = Tail(@)]
      /\ UNCHANGED <<mine, dir, removed, heard, open, late, dc, inbox, budget>>
  BY DEF OnPeerChannel, Has
<1>2. e.msg.name \in Name
  BY <1>1, EventFacts DEF DirInv, Flying, MsgOk
<1>3. e.msg.t # "Channels"
  BY <1>1
<1> HIDE DEF e
<1>4. row' \in [Node -> [Node -> Name \cup {None}]]
  BY <1>1, <1>2 DEF DirInv, Typed
<1>5. Typed'
  BY <1>1, <1>4 DEF DirInv, Typed
<1> QED
  BY <1>1, <1>3, <1>5, Ignoring DEF e

LEMMA OnPeerChannelsDir ==
  ASSUME DirInv, NEW i \in Node, OnPeerChannels(i)
  PROVE  DirInv'
<1> DEFINE names == Head(ev[i]).msg.names
           d == MergeChannels(dir[i], Without(names, removed[i]))
           told == IF d # dir[i] THEN <<ChannelsMsg(d)>> ELSE <<>>
<1>1. /\ ev[i] # <<>> /\ Head(ev[i]).msg.t = "Channels"
      /\ dir' = [dir EXCEPT ![i] = d]
      /\ dc' = Broadcast(dc, i, told)
      /\ ev' = [ev EXCEPT ![i] = Tail(@)]
      /\ UNCHANGED <<mine, removed, heard, row, open, late, inbox, budget>>
  BY DEF OnPeerChannels, Has, Accepted, PassedOn
<1>2. DirOk(names)
  BY <1>1, EventFacts DEF DirInv, Flying, MsgOk
<1>3. \A c : Bears(Head(ev[i]).msg, c) => Listed(names, c)
  BY DEF Bears
<1> HIDE DEF names
<1>4. /\ StoreOk(d, removed[i])
      /\ \A c : Settles(dir[i], removed[i], c) => Settles(d, removed[i], c)
      /\ \A c : Listed(names, c) => Settles(d, removed[i], c)
  BY <1>2, TakingIn DEF DirInv, Stored
<1> HIDE DEF d
<1>5. /\ MsgsOk(told)
      /\ \A c : Listed(d, c) => Listed(dir[i], c) \/ InQueue(told, c)
  BY <1>4, Carrying DEF StoreOk
<1> HIDE DEF told
<1>6. /\ DOMAIN dc' = Node /\ \A a \in Node : DOMAIN dc'[a] = Node
      /\ \A a, b \in Node :
           /\ MsgsOk(dc'[a][b])
           /\ \A c : InQueue(dc[a][b], c) => InQueue(dc'[a][b], c)
      /\ \A b \in Node : open[i][b] => \A c : InQueue(told, c) => InQueue(dc'[i][b], c)
  BY <1>1, <1>5, Broadcasts DEF DirInv
<1>7. Typed'
  BY <1>1 DEF DirInv, Typed
<1>8. \A b \in Node : open[i][b] =>
        \A c : Listed(d, c) => Listed(dir[i], c) \/ InQueue(dc'[i][b], c)
  BY <1>5, <1>6
<1>9. \A c : Bears(Head(ev[i]).msg, c) => Settles(d, removed[i], c)
  BY <1>3, <1>4
<1> QED
  BY <1>1, <1>4, <1>6, <1>7, <1>8, <1>9, Knowing

LEMMA OnPeerChannelRemovedDir ==
  ASSUME DirInv, NEW i \in Node, OnPeerChannelRemoved(i)
  PROVE  DirInv'
<1> DEFINE c == Canon(Head(ev[i]).msg.name)
           d == RemoveFromDir(dir[i], c)
           R == removed[i] \cup {c}
           told == <<RemovedMsg(c)>>
<1>1. /\ ev[i] # <<>> /\ Head(ev[i]).msg.t = "ChannelRemoved"
      /\ \/ /\ Honors(i, c)
            /\ removed' = [removed EXCEPT ![i] = R]
            /\ dir' = [dir EXCEPT ![i] = d]
            /\ dc' = Broadcast(dc, i, told)
         \/ UNCHANGED <<removed, dir, dc>>
      /\ ev' = [ev EXCEPT ![i] = Tail(@)]
      /\ UNCHANGED <<mine, heard, row, open, late, inbox, budget>>
  BY DEF OnPeerChannelRemoved, Has
<1>2. Head(ev[i]).msg.t # "Channels"
  BY <1>1
<1> HIDE DEF c
<1>3. CASE UNCHANGED <<removed, dir, dc>>
  <2>1. Typed'
    BY <1>1, <1>3 DEF DirInv, Typed
  <2> QED
    BY <1>1, <1>2, <1>3, <2>1, Ignoring
<1>4. CASE /\ Honors(i, c)
           /\ removed' = [removed EXCEPT ![i] = R]
           /\ dir' = [dir EXCEPT ![i] = d]
           /\ dc' = Broadcast(dc, i, told)
  <2>1. c \in Canons
    <3>1. Listed(dir[i], c) /\ dir[i] \in Seq(Name)
      BY <1>4 DEF Honors, TombstoneAllowed, DirInv, Stored, StoreOk, DirOk
    <3>2. PICK k \in DOMAIN dir[i] : Canon(dir[i][k]) = c
      BY <3>1 DEF Listed
    <3>3. dir[i][k] \in Name
      BY <3>1
    <3> QED
      BY <3>2, <3>3 DEF Canons
  <2>2. /\ StoreOk(d, R)
        /\ \A x : Settles(dir[i], removed[i], x) => Settles(d, R, x)
        /\ \A x : Listed(d, x) => Listed(dir[i], x)
    BY <2>1, Deleting DEF DirInv, Stored
  <2> HIDE DEF d, R
  <2>3. MsgsOk(told)
    BY Carrying
  <2> HIDE DEF told
  <2>4. /\ DOMAIN dc' = Node /\ \A a \in Node : DOMAIN dc'[a] = Node
        /\ \A a, b \in Node :
             /\ MsgsOk(dc'[a][b])
             /\ \A x : InQueue(dc[a][b], x) => InQueue(dc'[a][b], x)
    BY <1>4, <2>3, Broadcasts DEF DirInv
  <2>5. Typed'
    BY <1>1, <1>4 DEF DirInv, Typed
  <2>6. \A x : Bears(Head(ev[i]).msg, x) => Settles(d, R, x)
    BY <1>2 DEF Bears
  <2> QED
    BY <1>1, <1>4, <2>2, <2>4, <2>5, <2>6, Knowing
<1> QED
  BY <1>1, <1>3, <1>4

\* The channel opens, and the whole directory is under way.
LEMMA OpenDir ==
  ASSUME DirInv, NEW i \in Node, NEW j \in Node, Open(i, j)
  PROVE  DirInv'
<1> DEFINE told == Announced(i)
<1>1. /\ open' = [open EXCEPT ![i][j] = TRUE]
      /\ \/ late' = [late EXCEPT ![i][j] = ToSet(told)] /\ UNCHANGED dc
         \/ dc' = [dc EXCEPT ![i][j] = @ \o told] /\ UNCHANGED late
      /\ UNCHANGED <<mine, dir, removed, heard, row, ev, inbox, budget>>
  BY DEF Open
<1>2. mine[i] \in Name /\ DirOk(dir[i])
  BY DEF DirInv, Typed, Stored, StoreOk
<1>3. /\ ToSet(told) = {ChannelMsg(mine[i]), ChannelsMsg(dir[i])}
  <2>1. Len(told) = 2 /\ told[1] = ChannelMsg(mine[i]) /\ told[2] = ChannelsMsg(dir[i])
    BY DEF Announced
  <2>2. 1 .. 2 = {1, 2}
    OBVIOUS
  <2> HIDE DEF told
  <2> QED
    BY <2>1, <2>2 DEF ToSet
<1>4. /\ MsgsOk(told) /\ \A c : Listed(dir[i], c) => InQueue(told, c)
      /\ \A m \in ToSet(told) : MsgOk(m)
      /\ \A c : Listed(dir[i], c) => \E m \in ToSet(told) : Bears(m, c)
  BY <1>2, <1>3, Carrying DEF Announced
<1> HIDE DEF told
<1>5. Typed'
  BY <1>1 DEF DirInv, Typed
<1>6. /\ Flying'
      /\ \A a, b \in Node :
           /\ \A c : UnderWay(a, b, c) => UnderWay(a, b, c)' \/ (a = i /\ b = j)
           /\ a = i /\ b = j => \A c : Listed(dir[i], c) => UnderWay(a, b, c)'
  <2>1. CASE late' = [late EXCEPT ![i][j] = ToSet(told)] /\ UNCHANGED dc
    <3>1. \A a, b \in Node :
             late'[a][b] = IF a = i /\ b = j THEN ToSet(told) ELSE late[a][b]
      BY <2>1 DEF DirInv, Flying
    <3>2. DOMAIN late' = Node /\ \A a \in Node : DOMAIN late'[a] = Node
      BY <2>1 DEF DirInv, Flying
    <3>3. \A a, b \in Node : \A m \in late'[a][b] : MsgOk(m)
      BY <1>4, <3>1 DEF DirInv, Flying
    <3>4. Flying'
      BY <1>1, <2>1, <3>2, <3>3 DEF DirInv, Flying
    <3>5. \A a, b \in Node : \A c :
             UnderWay(a, b, c) => UnderWay(a, b, c)' \/ (a = i /\ b = j)
      BY <1>1, <2>1, <3>1 DEF UnderWay
    <3>6. \A c : Listed(dir[i], c) => UnderWay(i, j, c)'
      BY <1>4, <3>1 DEF UnderWay
    <3> QED
      BY <3>4, <3>5, <3>6
  <2>2. CASE dc' = [dc EXCEPT ![i][j] = @ \o told] /\ UNCHANGED late
    <3>1. \A a, b \in Node :
             dc'[a][b] = IF a = i /\ b = j THEN dc[a][b] \o told ELSE dc[a][b]
      BY <2>2 DEF DirInv, Flying
    <3>2. DOMAIN dc' = Node /\ \A a \in Node : DOMAIN dc'[a] = Node
      BY <2>2 DEF DirInv, Flying
    <3>3. /\ MsgsOk(dc[i][j] \o told)
          /\ \A c : InQueue(told, c) => InQueue(dc[i][j] \o told, c)
      BY <1>4, QueueFacts DEF DirInv, Flying
    <3>4. \A a, b \in Node : MsgsOk(dc'[a][b])
      BY <3>1, <3>3 DEF DirInv, Flying
    <3>5. Flying'
      BY <1>1, <2>2, <3>2, <3>4 DEF DirInv, Flying
    <3>6. \A a, b \in Node : \A c :
             UnderWay(a, b, c) => UnderWay(a, b, c)' \/ (a = i /\ b = j)
      BY <1>1, <2>2, <3>1 DEF UnderWay
    <3>7. \A c : Listed(dir[i], c) => UnderWay(i, j, c)'
      BY <1>4, <3>1, <3>3 DEF UnderWay
    <3> QED
      BY <3>5, <3>6, <3>7
  <2> QED
    BY <1>1, <2>1, <2>2
<1>7. \A a, b \in Node : open'[a][b] = IF a = i /\ b = j THEN TRUE ELSE open[a][b]
  BY <1>1 DEF DirInv, Typed
<1>8. ASSUME NEW a \in Node, NEW b \in Node PROVE Offered(a, b)'
  <2> SUFFICES ASSUME a # b, open'[a][b], NEW c, Listed(dir[a], c)
               PROVE  Settles(dir[b], removed[b], c) \/ UnderWay(a, b, c)'
    BY <1>1 DEF Offered
  <2>1. CASE a = i /\ b = j
    BY <1>6, <2>1
  <2>2. CASE ~(a = i /\ b = j)
    <3>1. open[a][b] /\ Offered(a, b)
      BY <1>7, <2>2 DEF DirInv
    <3>2. Settles(dir[b], removed[b], c) \/ UnderWay(a, b, c)
      BY <3>1 DEF Offered
    <3> QED
      BY <1>6, <2>2, <3>2
  <2> QED
    BY <2>1, <2>2
<1>9. Stored'
  BY <1>1 DEF DirInv, Stored
<1> QED
  BY <1>5, <1>6, <1>8, <1>9 DEF DirInv

\* A late announcement joins the frames.
LEMMA SendLateDir ==
  ASSUME DirInv, NEW i \in Node, NEW j \in Node, SendLate(i, j)
  PROVE  DirInv'
<1>1. PICK m \in late[i][j] : /\ late' = [late EXCEPT ![i][j] = @ \ {m}]
                              /\ dc' = [dc EXCEPT ![i][j] = Append(@, m)]
                              /\ UNCHANGED <<mine, dir, removed, heard, row, open, ev, inbox, budget>>
  BY DEF SendLate
<1>2. \A a, b \in Node :
         /\ late'[a][b] = IF a = i /\ b = j THEN late[a][b] \ {m} ELSE late[a][b]
         /\ dc'[a][b] = IF a = i /\ b = j THEN Append(dc[a][b], m) ELSE dc[a][b]
  BY <1>1 DEF DirInv, Flying
<1>3. MsgOk(m) /\ MsgsOk(dc[i][j])
  BY DEF DirInv, Flying
<1>4. /\ MsgsOk(Append(dc[i][j], m))
      /\ \A c : InQueue(dc[i][j], c) \/ Bears(m, c) => InQueue(Append(dc[i][j], m), c)
  BY <1>3, QueueFacts
<1>5. Flying'
  <2>1. /\ DOMAIN late' = Node /\ DOMAIN dc' = Node
        /\ \A a \in Node : DOMAIN late'[a] = Node /\ DOMAIN dc'[a] = Node
    BY <1>1 DEF DirInv, Flying
  <2>2. ASSUME NEW a \in Node, NEW b \in Node
        PROVE  MsgsOk(dc'[a][b]) /\ \A x \in late'[a][b] : MsgOk(x)
    <3>1. MsgsOk(dc[a][b]) /\ \A x \in late[a][b] : MsgOk(x)
      BY DEF DirInv, Flying
    <3>2. late'[a][b] \subseteq late[a][b]
      BY <1>2
    <3>3. dc'[a][b] = dc[a][b] \/ MsgsOk(dc'[a][b])
      BY <1>2, <1>4
    <3> QED
      BY <3>1, <3>2, <3>3
  <2> QED
    BY <1>1, <2>1, <2>2 DEF DirInv, Flying
<1>6. Typed' /\ Stored'
  BY <1>1 DEF DirInv, Typed, Stored
<1>7. ASSUME NEW a \in Node, NEW b \in Node, NEW c, UnderWay(a, b, c) PROVE UnderWay(a, b, c)'
  <2>1. CASE a = i /\ b = j /\ \E x \in late[a][b] : Bears(x, c)
    <3>1. (\E x \in late'[a][b] : Bears(x, c)) \/ Bears(m, c)
      BY <1>2, <2>1
    <3> QED
      BY <1>2, <1>4, <2>1, <3>1 DEF UnderWay
  <2>2. CASE a = i /\ b = j /\ ~\E x \in late[a][b] : Bears(x, c)
    BY <1>1, <1>2, <1>4, <1>7, <2>2 DEF UnderWay
  <2>3. CASE ~(a = i /\ b = j)
    BY <1>1, <1>2, <1>7, <2>3 DEF UnderWay
  <2> QED
    BY <2>1, <2>2, <2>3
<1>8. \A a, b \in Node : Offered(a, b)'
  BY <1>1, <1>7 DEF DirInv, Offered
<1> QED
  BY <1>5, <1>6, <1>8 DEF DirInv

\* A frame becomes an event.
LEMMA ReceiveDir ==
  ASSUME DirInv, NEW i \in Node, NEW j \in Node, Receive(i, j)
  PROVE  DirInv'
<1> DEFINE m == Head(dc[j][i])
           e == Event(j, m)
<1>1. /\ dc[j][i] # <<>>
      /\ heard' = IF m.t = "Channel" THEN [heard EXCEPT ![i][j] = m.name] ELSE heard
      /\ ev' = [ev EXCEPT ![i] = Append(@, e)]
      /\ dc' = [dc EXCEPT ![j][i] = Tail(@)]
      /\ UNCHANGED <<mine, dir, removed, row, open, late, inbox, budget>>
  BY DEF Receive
<1>2. /\ MsgsOk(Tail(dc[j][i])) /\ MsgOk(m)
      /\ \A c : InQueue(dc[j][i], c) => Bears(m, c) \/ InQueue(Tail(dc[j][i]), c)
  BY <1>1, QueueFacts DEF DirInv, Flying
<1>3. e.msg = m
  BY DEF Event
<1> HIDE DEF e, m
<1>4. /\ EventsOk(Append(ev[i], e))
      /\ \A c : InEvents(ev[i], c) \/ Bears(m, c) => InEvents(Append(ev[i], e), c)
  BY <1>2, <1>3, EventFacts DEF DirInv, Flying
<1>5. \A a, b \in Node : /\ dc'[a][b] = IF a = j /\ b = i THEN Tail(dc[a][b]) ELSE dc[a][b]
                         /\ ev'[a] = IF a = i THEN Append(ev[a], e) ELSE ev[a]
  BY <1>1 DEF DirInv, Flying
<1>6. Typed' /\ Stored'
  <2>1. heard' \in [Node -> [Node -> Name \cup {None}]]
    BY <1>1, <1>2 DEF DirInv, Typed, MsgOk
  <2> QED
    BY <1>1, <2>1 DEF DirInv, Typed, Stored
<1>7. Flying'
  <2>1. /\ DOMAIN ev' = Node /\ DOMAIN dc' = Node
        /\ \A a \in Node : DOMAIN dc'[a] = Node
    BY <1>1 DEF DirInv, Flying
  <2>2. \A a, b \in Node : MsgsOk(dc'[a][b]) /\ EventsOk(ev'[a])
    BY <1>2, <1>4, <1>5 DEF DirInv, Flying
  <2> QED
    BY <1>1, <2>1, <2>2 DEF DirInv, Flying
<1>8. ASSUME NEW a \in Node, NEW b \in Node, NEW c, UnderWay(a, b, c) PROVE UnderWay(a, b, c)'
  <2>1. CASE \E x \in late[a][b] : Bears(x, c)
    BY <1>1, <2>1 DEF UnderWay
  <2>2. CASE InQueue(dc[a][b], c)
    <3>1. InQueue(dc'[a][b], c) \/ (b = i /\ Bears(m, c))
      BY <1>2, <1>5, <2>2
    <3> QED
      BY <1>4, <1>5, <3>1 DEF UnderWay
  <2>3. CASE InEvents(ev[b], c)
    BY <1>4, <1>5, <2>3 DEF UnderWay
  <2> QED
    BY <1>8, <2>1, <2>2, <2>3 DEF UnderWay
<1>9. \A a, b \in Node : Offered(a, b)'
  BY <1>1, <1>8 DEF DirInv, Offered
<1> QED
  BY <1>6, <1>7, <1>9 DEF DirInv

\* Links that go leave the others as they are.
LEMMA CuttingDir ==
  ASSUME Typed, Flying, NEW i \in Node, NEW J, ClosedAll(i, J)
  PROVE  /\ open' \in [Node -> [Node -> BOOLEAN]]
         /\ DOMAIN late' = Node /\ DOMAIN dc' = Node
         /\ \A a \in Node : DOMAIN late'[a] = Node /\ DOMAIN dc'[a] = Node
         /\ \A a, b \in Node :
              /\ MsgsOk(dc'[a][b]) /\ \A m \in late'[a][b] : MsgOk(m)
              /\ open'[a][b] => /\ ~((a = i /\ b \in J) \/ (b = i /\ a \in J))
                                /\ open[a][b]
                                /\ dc'[a][b] = dc[a][b] /\ late'[a][b] = late[a][b]
<1>1. /\ open' = [a \in Node |-> [b \in Node |->
                    IF (a = i /\ b \in J) \/ (b = i /\ a \in J) THEN FALSE ELSE open[a][b]]]
      /\ late' = [a \in Node |-> [b \in Node |->
                    IF (a = i /\ b \in J) \/ (b = i /\ a \in J) THEN {} ELSE late[a][b]]]
      /\ dc' = [a \in Node |-> [b \in Node |->
                    IF (a = i /\ b \in J) \/ (b = i /\ a \in J) THEN <<>> ELSE dc[a][b]]]
  BY DEF ClosedAll
<1>2. \A a, b \in Node : open[a][b] \in BOOLEAN
  BY DEF Typed
<1>3. open' \in [Node -> [Node -> BOOLEAN]]
  BY <1>1, <1>2
<1>4. \A a, b \in Node : /\ MsgsOk(dc[a][b]) /\ MsgsOk(<<>>)
                         /\ \A m \in late[a][b] : MsgOk(m)
  BY Carrying DEF Flying
<1>5. /\ DOMAIN late' = Node /\ DOMAIN dc' = Node
      /\ \A a \in Node : DOMAIN late'[a] = Node /\ DOMAIN dc'[a] = Node
  BY <1>1
<1>6. ASSUME NEW a \in Node, NEW b \in Node
      PROVE  /\ MsgsOk(dc'[a][b]) /\ \A m \in late'[a][b] : MsgOk(m)
             /\ open'[a][b] => /\ ~((a = i /\ b \in J) \/ (b = i /\ a \in J))
                               /\ open[a][b]
                               /\ dc'[a][b] = dc[a][b] /\ late'[a][b] = late[a][b]
  <2>1. CASE (a = i /\ b \in J) \/ (b = i /\ a \in J)
    <3>1. ~open'[a][b] /\ late'[a][b] = {} /\ dc'[a][b] = <<>>
      BY <1>1, <2>1
    <3> QED
      BY <1>4, <3>1
  <2>2. CASE ~((a = i /\ b \in J) \/ (b = i /\ a \in J))
    <3>1. open'[a][b] = open[a][b] /\ late'[a][b] = late[a][b] /\ dc'[a][b] = dc[a][b]
      BY <1>1, <2>2
    <3> QED
      BY <1>4, <2>2, <3>1
  <2> QED
    BY <2>1, <2>2
<1> QED
  BY <1>3, <1>5, <1>6

\* Joins, departures and breaks: links may go, nothing is learned.
LEMMA LosingDir ==
  ASSUME DirInv, NEW i \in Node, NEW J, ClosedAll(i, J) \/ UNCHANGED <<open, late, dc>>,
         UNCHANGED <<mine, dir, removed, ev>>,
         budget' \in [nodes : SUBSET Node, ops : Nat, faults : Nat],
         heard' \in [Node -> [Node -> Name \cup {None}]],
         row' \in [Node -> [Node -> Name \cup {None}]]
  PROVE  DirInv'
<1>1. /\ open' \in [Node -> [Node -> BOOLEAN]]
      /\ DOMAIN late' = Node /\ DOMAIN dc' = Node
      /\ \A a \in Node : DOMAIN late'[a] = Node /\ DOMAIN dc'[a] = Node
      /\ \A a, b \in Node :
           /\ MsgsOk(dc'[a][b]) /\ \A m \in late'[a][b] : MsgOk(m)
           /\ open'[a][b] => /\ open[a][b]
                             /\ dc'[a][b] = dc[a][b] /\ late'[a][b] = late[a][b]
  <2>1. CASE ClosedAll(i, J)
    BY <2>1, CuttingDir DEF DirInv
  <2>2. CASE UNCHANGED <<open, late, dc>>
    BY <2>2 DEF DirInv, Typed, Flying
  <2> QED
    BY <2>1, <2>2
<1>2. Typed' /\ Stored'
  BY <1>1 DEF DirInv, Typed, Stored
<1>3. Flying'
  BY <1>1 DEF DirInv, Flying
<1>4. \A a, b \in Node : Offered(a, b)'
  BY <1>1 DEF DirInv, Offered, UnderWay
<1> QED
  BY <1>2, <1>3, <1>4 DEF DirInv

LEMMA OnPeerJoinedDir ==
  ASSUME DirInv, NEW i \in Node, OnPeerJoined(i)
  PROVE  DirInv'
<1> DEFINE j == Head(inbox[i]).user
<1>1. /\ row' = [row EXCEPT ![i][j] = Seed(i, j)]
      /\ ClosedAll(i, {j}) \/ UNCHANGED <<open, late, dc>>
      /\ UNCHANGED <<mine, dir, removed, heard, ev, budget>>
  BY DEF OnPeerJoined, Closed
<1> HIDE DEF j
<1>2. j \in Node => Seed(i, j) \in Name
  BY ChannelConstants DEF DirInv, Typed, Seed
<1>3. row' \in [Node -> [Node -> Name \cup {None}]]
  BY <1>1, <1>2 DEF DirInv, Typed
<1> QED
  BY <1>1, <1>3, LosingDir DEF DirInv, Typed

LEMMA OnRosterDir ==
  ASSUME DirInv, NEW i \in Node, OnRoster(i)
  PROVE  DirInv'
<1> DEFINE Show(b) == IF b = i \/ b \notin Here THEN None
                      ELSE IF row[i][b] # None THEN row[i][b] ELSE Seed(i, b)
           r == [b \in Node |-> Show(b)]
           J == {b \in Node : i < b}
<1>1. /\ row' = [row EXCEPT ![i] = r]
      /\ ClosedAll(i, J)
      /\ UNCHANGED <<mine, dir, removed, heard, ev, budget>>
  BY DEF OnRoster
<1>2. \A b \in Node : Show(b) \in Name \cup {None}
  <2>1. \A b \in Node : Seed(i, b) \in Name
    BY ChannelConstants DEF DirInv, Typed, Seed
  <2>2. \A b \in Node : row[i][b] \in Name \cup {None}
    BY DEF DirInv, Typed
  <2> QED
    BY <2>1, <2>2
<1> HIDE DEF Show, J
<1>3. r \in [Node -> Name \cup {None}]
  BY <1>2
<1> HIDE DEF r
<1>4. row' \in [Node -> [Node -> Name \cup {None}]]
  BY <1>1, <1>3 DEF DirInv, Typed
<1> QED
  BY <1>1, <1>4, LosingDir DEF DirInv, Typed

LEMMA OnPeerLeftDir ==
  ASSUME DirInv, NEW i \in Node, OnPeerLeft(i)
  PROVE  DirInv'
<1> DEFINE j == Head(inbox[i]).user
<1>1. /\ row' = [row EXCEPT ![i][j] = None]
      /\ heard' = [heard EXCEPT ![i][j] = None]
      /\ ClosedAll(i, {j})
      /\ UNCHANGED <<mine, dir, removed, ev, budget>>
  BY DEF OnPeerLeft, Closed
<1> HIDE DEF j
<1>2. /\ row' \in [Node -> [Node -> Name \cup {None}]]
      /\ heard' \in [Node -> [Node -> Name \cup {None}]]
  BY <1>1 DEF DirInv, Typed
<1> QED
  BY <1>1, <1>2, LosingDir DEF DirInv, Typed

LEMMA BreakDir ==
  ASSUME DirInv, NEW i \in Node, NEW j \in Node, Break(i, j)
  PROVE  DirInv'
<1>1. /\ ClosedAll(i, {j}) /\ Fault
      /\ UNCHANGED <<mine, dir, removed, heard, row, ev>>
  BY DEF Break, Closed
<1>2. budget' \in [nodes : SUBSET Node, ops : Nat, faults : Nat]
  BY <1>1, Spending DEF DirInv, Typed, Op
<1> QED
  BY <1>1, <1>2, LosingDir DEF DirInv, Typed

LEMMA ReconnectDir ==
  ASSUME DirInv, NEW j \in Node, Reconnect(j)
  PROVE  DirInv'
<1>1. Fault /\ UNCHANGED <<mine, dir, removed, heard, row, open, late, dc, ev>>
  BY DEF Reconnect
<1>2. budget' \in [nodes : SUBSET Node, ops : Nat, faults : Nat]
  BY <1>1, Spending DEF DirInv, Typed, Op
<1> QED
  BY <1>1, <1>2, LosingDir DEF DirInv, Typed

\* Whoever starts again is offered everything when its links are built again.
LEMMA RestartDir ==
  ASSUME DirInv, NEW j \in Node, Restart(j)
  PROVE  DirInv'
<1>1. /\ mine' = [mine EXCEPT ![j] = DEFAULT_CHANNEL]
      /\ dir' = [dir EXCEPT ![j] = <<DEFAULT_CHANNEL>>]
      /\ removed' = [removed EXCEPT ![j] = {}]
      /\ heard' = [heard EXCEPT ![j] = [b \in Node |-> None]]
      /\ row' = [row EXCEPT ![j] = [b \in Node |-> None]]
      /\ ClosedAll(j, Node)
      /\ ev' = [ev EXCEPT ![j] = <<>>]
      /\ Fault
  BY DEF Restart
<1>2. /\ open' \in [Node -> [Node -> BOOLEAN]]
      /\ DOMAIN late' = Node /\ DOMAIN dc' = Node
      /\ \A a \in Node : DOMAIN late'[a] = Node /\ DOMAIN dc'[a] = Node
      /\ \A a, b \in Node :
           /\ MsgsOk(dc'[a][b]) /\ \A m \in late'[a][b] : MsgOk(m)
           /\ open'[a][b] => /\ a # j /\ b # j /\ open[a][b]
                             /\ dc'[a][b] = dc[a][b] /\ late'[a][b] = late[a][b]
  BY <1>1, CuttingDir DEF DirInv
<1>3. StoreOk(<<DEFAULT_CHANNEL>>, {})
  <2>1. <<DEFAULT_CHANNEL>> \in Seq(Name) /\ Len(<<DEFAULT_CHANNEL>>) = 1
    BY ChannelConstants
  <2>2. Once(<<DEFAULT_CHANNEL>>)
    BY DEF Once
  <2>3. 1 <= MAX_CHANNELS
    BY ChannelConstants
  <2> QED
    BY <2>1, <2>2, <2>3, FS_EmptySet DEF StoreOk, DirOk
<1>4. \A a \in Node : /\ dir'[a] = IF a = j THEN <<DEFAULT_CHANNEL>> ELSE dir[a]
                      /\ removed'[a] = IF a = j THEN {} ELSE removed[a]
                      /\ ev'[a] = IF a = j THEN <<>> ELSE ev[a]
  BY <1>1 DEF DirInv, Typed, Flying
<1>5. Typed'
  <2>1. budget' \in [nodes : SUBSET Node, ops : Nat, faults : Nat]
    BY <1>1, Spending DEF DirInv, Typed, Op
  <2>2. [b \in Node |-> None] \in [Node -> Name \cup {None}]
    OBVIOUS
  <2>3. /\ row' \in [Node -> [Node -> Name \cup {None}]]
        /\ heard' \in [Node -> [Node -> Name \cup {None}]]
    BY <1>1, <2>2 DEF DirInv, Typed
  <2>4. mine' \in [Node -> Name] /\ DOMAIN dir' = Node /\ DOMAIN removed' = Node
    BY <1>1, ChannelConstants DEF DirInv, Typed
  <2> QED
    BY <1>2, <2>1, <2>3, <2>4 DEF Typed
<1>6. Stored'
  BY <1>3, <1>4 DEF DirInv, Stored
<1>7. Flying'
  <2>1. EventsOk(<<>>)
    BY Nothing DEF EventsOk
  <2>2. DOMAIN ev' = Node /\ \A a \in Node : EventsOk(ev'[a])
    BY <1>1, <1>4, <2>1 DEF DirInv, Flying
  <2> QED
    BY <1>2, <2>2 DEF Flying
<1>8. \A a, b \in Node : Offered(a, b)'
  BY <1>2, <1>4 DEF DirInv, Offered, UnderWay
<1> QED
  BY <1>5, <1>6, <1>7, <1>8 DEF DirInv

-----------------------------------------------------------------------------
LEMMA DirInit ==
  ASSUME Init
  PROVE  DirInv
<1>1. /\ budget \in [nodes : SUBSET Node, ops : Nat, faults : Nat]
      /\ DEFAULT_CHANNEL \in Name
  BY ChannelConstants DEF Init
<1>2. Typed
  <2>1. heard \in [Node -> [Node -> Name \cup {None}]] /\ row = heard
    BY <1>1 DEF Init
  <2>2. open \in [Node -> [Node -> BOOLEAN]] /\ mine \in [Node -> Name]
    BY <1>1 DEF Init
  <2> QED
    BY <1>1, <2>1, <2>2 DEF Init, Typed
<1>3. Stored
  <2>1. <<DEFAULT_CHANNEL>> \in Seq(Name) /\ Len(<<DEFAULT_CHANNEL>>) = 1
    BY <1>1
  <2>2. Once(<<DEFAULT_CHANNEL>>)
    BY DEF Once
  <2>3. 1 <= MAX_CHANNELS
    BY ChannelConstants
  <2>4. StoreOk(<<DEFAULT_CHANNEL>>, {})
    BY <2>1, <2>2, <2>3, FS_EmptySet DEF StoreOk, DirOk
  <2> QED
    BY <2>4 DEF Init, Stored
<1>4. Flying
  <2>1. EventsOk(<<>>) /\ MsgsOk(<<>>)
    BY Nothing DEF EventsOk, MsgsOk
  <2> QED
    BY <2>1 DEF Init, Flying
<1>5. \A a, b \in Node : Offered(a, b)
  BY DEF Init, Offered, Settles
<1> QED
  BY <1>2, <1>3, <1>4, <1>5 DEF DirInv

LEMMA DirNext ==
  ASSUME DirInv, [Next]_vars
  PROVE  DirInv'
<1>1. Here \subseteq Node
  BY DEF DirInv, Typed, Here
<1>2. CASE UNCHANGED vars
  BY <1>2 DEF vars, DirInv, Typed, Stored, Flying, Offered, UnderWay
<1>3. ASSUME NEW i \in Here, Loop(i) PROVE DirInv'
  BY <1>1, <1>3, OnPeerChannelDir, OnPeerChannelsDir, OnPeerChannelRemovedDir,
     OnRosterDir, OnPeerJoinedDir, OnPeerLeftDir DEF Loop
<1>4. ASSUME NEW i \in Here, NEW j \in Here \ {i}, Open(i, j) \/ SendLate(i, j) \/ Receive(i, j)
      PROVE  DirInv'
  BY <1>1, <1>4, OpenDir, SendLateDir, ReceiveDir
<1>5. CASE Progress
  BY <1>3, <1>4, <1>5 DEF Progress
<1>6. ASSUME NEW i \in Here, NEW n \in Name, SetChannel(i, n) \/ RemoveChannel(i, Canon(n))
      PROVE  DirInv'
  <2>1. Canon(n) \in Canons
    BY DEF Canons
  <2> QED
    BY <1>1, <1>6, <2>1, SetChannelDir, RemoveChannelDir
<1>7. ASSUME NEW i \in Here, NEW j \in Here, Break(i, j) PROVE DirInv'
  BY <1>1, <1>7, BreakDir
<1>8. ASSUME NEW i \in Here, Reconnect(i) \/ Restart(i) PROVE DirInv'
  BY <1>1, <1>8, ReconnectDir, RestartDir
<1> QED
  BY <1>2, <1>5, <1>6, <1>7, <1>8 DEF Next

LEMMA DirQuiet ==
  ASSUME DirInv
  PROVE  DirectoriesAgree
<1>1. TypeOK
  <2>1. \A i \in Node : StoreOk(dir[i], removed[i])
    BY DEF DirInv, Stored
  <2> QED
    BY <2>1 DEF DirInv, Typed, TypeOK, StoreOk, DirOk, Once, Canons
<1>2. NoZombie
  BY DEF DirInv, Stored, StoreOk, NoZombie
<1>3. ASSUME Quiet, NEW i \in Here, NEW j \in Here, NEW k \in DOMAIN dir[i]
      PROVE  Settles(dir[j], removed[j], Canon(dir[i][k]))
  <2> DEFINE c == Canon(dir[i][k])
  <2>1. Listed(dir[i], c)
    BY DEF Listed
  <2> HIDE DEF c
  <2>2. CASE i = j
    BY <2>1, <2>2 DEF Settles, c
  <2>3. CASE i # j
    <3>1. i \in Node /\ j \in Node
      BY DEF DirInv, Typed, Here
    <3>2. open[i][j] /\ dc[i][j] = <<>> /\ late[i][j] = {} /\ ev[j] = <<>>
      BY <1>3, <2>3 DEF Quiet
    <3>3. ~UnderWay(i, j, c)
      <4>1. DOMAIN <<>> = {}
        OBVIOUS
      <4> QED
        BY <3>2, <4>1 DEF UnderWay, InQueue, InEvents
    <3>4. Offered(i, j)
      BY <3>1 DEF DirInv
    <3> QED
      BY <2>1, <2>3, <3>2, <3>3, <3>4 DEF Offered, c
  <2> QED
    BY <2>2, <2>3
<1> QED
  BY <1>1, <1>2, <1>3 DEF DirectoriesAgree, Settles

\* The directories end up sound: what is deleted at a member stays deleted
\* there, and once nothing is on its way, a channel of one directory is in every
\* other one, but for those who deleted it and for those that are full or were
\* full before a deletion (merge_channels, remove_from_dir, tombstone_allowed,
\* the PeerChannels and PeerChannelRemoved arms of the engine loop, the
\* announcements of wire_ctrl).  The order of the announcements does not matter.
THEOREM DirectoriesConverge == Spec => []DirectoriesAgree
<1>1. DirInv /\ [Next]_vars => DirInv'
  BY DirNext
<1>2. Init => DirInv
  BY DirInit
<1>3. DirInv => DirectoriesAgree
  BY DirQuiet
<1> QED
  BY <1>1, <1>2, <1>3, PTL DEF Spec
=============================================================================

-------------------------- MODULE GroupKey_proofs --------------------------
(***************************************************************************)
(* For any number of nodes, ring slots and generations, and any scenario:   *)
(* the keys of every node go through the steps of KeyRing.  In rooms nobody *)
(* leaves, with any number of joins, rekeys and link failures in any order: *)
(* a node only hands out keys it minted, and none that sealed audio before  *)
(* the receiver joined.  In rooms that anyone but their authority may       *)
(* leave: once things settle, all seal with one key, which nobody who left  *)
(* holds.                                                                  *)
(***************************************************************************)
EXTENDS GroupKey, RoomAudio_proofs

-----------------------------------------------------------------------------
(***************************************************************************)
(* Queues of mesh events.  S[i][j] is a set of messages i may send j: what  *)
(* the engine does to the queues never leaves it.                           *)
(***************************************************************************)
Chans(ch, S) ==
  /\ ch = [i \in Node |-> [j \in Node |-> ch[i][j]]]
  /\ \A i, j \in Node : ch[i][j] \in Seq(S[i][j])

\* Appending and taking, for any set of elements.
LEMMA SeqAppend ==
  ASSUME NEW D, NEW q \in Seq(D), NEW m \in D
  PROVE  Append(q, m) \in Seq(D)
  OBVIOUS

LEMMA SeqTail ==
  ASSUME NEW D, NEW q \in Seq(D), q # <<>>
  PROVE  Head(q) \in D /\ Tail(q) \in Seq(D)
  OBVIOUS

\* A larger set of messages allows as much.
LEMMA ChansGrow ==
  ASSUME NEW ch, NEW S, NEW T, Chans(ch, S),
         \A i, j \in Node : S[i][j] \subseteq T[i][j]
  PROVE  Chans(ch, T)
  <1>1. ASSUME NEW i \in Node, NEW j \in Node PROVE ch[i][j] \in Seq(T[i][j])
    <2>1. ch[i][j] \in Seq(S[i][j]) /\ S[i][j] \subseteq T[i][j]
      BY DEF Chans
    <2> QED BY <2>1
  <1> QED BY <1>1 DEF Chans

LEMMA SendAllowed ==
  ASSUME NEW ch, NEW S, Chans(ch, S), NEW lk, NEW ss, NEW n \in Node, NEW peers, NEW m,
         \A p \in Node : p \in peers \cap ss[n] /\ (<<n, p>> \in lk \/ <<p, n>> \in lk)
                         => m \in S[n][p]
  PROVE  Chans(SendEach(ch, lk, ss, n, peers, m), S)
  <1> DEFINE to(p) == p \in peers \cap ss[n] /\ (<<n, p>> \in lk \/ <<p, n>> \in lk)
             row == [p \in Node |-> IF to(p) THEN Append(ch[n][p], m) ELSE ch[n][p]]
             new == SendEach(ch, lk, ss, n, peers, m)
  <1>1. new = [i \in Node |-> IF i = n THEN row ELSE ch[i]]
    <2>1. new = [ch EXCEPT ![n] = row]
      BY DEF SendEach
    <2>2. ch = [i \in Node |-> [j \in Node |-> ch[i][j]]]
      BY DEF Chans
    <2> HIDE DEF row, new
    <2> QED BY <2>1, <2>2
  <1>2. ASSUME NEW i \in Node, NEW j \in Node PROVE new[i][j] \in Seq(S[i][j])
    <2>1. ch[i][j] \in Seq(S[i][j])
      BY DEF Chans
    <2>2. CASE i = n /\ to(j)
      <3>1. new[i][j] = Append(ch[i][j], m)
        BY <1>1, <2>2
      <3>2. m \in S[i][j]
        BY <2>2
      <3> QED BY <2>1, <3>1, <3>2, SeqAppend
    <2>3. CASE ~(i = n /\ to(j))
      <3>1. new[i][j] = ch[i][j]
        BY <1>1, <2>3
      <3> QED BY <2>1, <3>1
    <2> QED BY <2>2, <2>3
  <1>3. new = [i \in Node |-> [j \in Node |-> new[i][j]]]
    <2>1. ASSUME NEW i \in Node PROVE new[i] = [j \in Node |-> new[i][j]]
      <3>1. ch[i] = [j \in Node |-> ch[i][j]]
        BY DEF Chans
      <3>2. CASE i = n
        BY <1>1, <3>2
      <3>3. CASE i # n
        <4>1. new[i] = ch[i]
          BY <1>1, <3>3
        <4> QED BY <3>1, <4>1
      <3> QED BY <3>2, <3>3
    <2>2. DOMAIN new = Node /\ new = [i \in Node |-> new[i]]
      BY <1>1
    <2> HIDE DEF new
    <2> QED BY <2>1, <2>2
  <1> QED BY <1>2, <1>3 DEF Chans

LEMMA ArrivedPrefix ==
  ASSUME NEW D, NEW q \in Seq(D)
  PROVE  Arrived(q) \in Seq(D)
  <1> DEFINE rs == {i \in 1..Len(q) : q[i] = Reply}
             first == CHOOSE i \in rs : \A j \in rs : i <= j
  <1>1. CASE rs = {}
    BY <1>1 DEF Arrived
  <1>2. CASE rs # {}
    <2>1. \E i \in rs : \A j \in rs : i <= j
      <3>1. rs \subseteq Nat
        OBVIOUS
      <3> HIDE DEF rs
      <3> QED BY <1>2, <3>1, LeastElement
    <2>2. first \in 1..Len(q)
      BY <2>1
    <2>3. Arrived(q) = SubSeq(q, 1, first - 1)
      BY <1>2 DEF Arrived
    <2> HIDE DEF first
    <2>4. \A i \in 1..(first - 1) : q[i] \in D
      BY <2>2
    <2> QED BY <2>2, <2>3, <2>4
  <1> QED BY <1>1, <1>2

LEMMA CutAllowed ==
  ASSUME NEW S, Chans(chan, S), NEW n, NEW ps, NEW keep \in BOOLEAN
  PROVE  Chans(CutChan(n, ps, keep), S)
  <1> DEFINE new == CutChan(n, ps, keep)
  <1>1. ASSUME NEW i \in Node, NEW j \in Node PROVE new[i][j] \in Seq(S[i][j])
    <2>1. chan[i][j] \in Seq(S[i][j])
      BY DEF Chans
    <2>2. Arrived(chan[i][j]) \in Seq(S[i][j])
      BY <2>1, ArrivedPrefix
    <2>3. <<>> \in Seq(S[i][j])
      OBVIOUS
    <2>4. new[i][j] \in {chan[i][j], Arrived(chan[i][j]), <<>>}
      BY DEF CutChan
    <2> QED BY <2>1, <2>2, <2>3, <2>4
  <1>2. new = [i \in Node |-> [j \in Node |-> new[i][j]]]
    BY DEF CutChan
  <1> QED BY <1>1, <1>2 DEF Chans

LEMMA RestAllowed ==
  ASSUME NEW S, Chans(chan, S), NEW n \in Node, NEW p \in Node, chan[p][n] # <<>>
  PROVE  Chans(Rest(n, p), S) /\ Head(chan[p][n]) \in S[p][n]
  <1> DEFINE new == Rest(n, p)
  <1>1. chan = [i \in Node |-> [j \in Node |-> chan[i][j]]]
    BY DEF Chans
  <1>2. new = [i \in Node |-> [j \in Node |->
                 IF i = p /\ j = n THEN Tail(chan[p][n]) ELSE chan[i][j]]]
    BY <1>1 DEF Rest
  <1>3. chan[p][n] \in Seq(S[p][n])
    BY DEF Chans
  <1>4. Head(chan[p][n]) \in S[p][n] /\ Tail(chan[p][n]) \in Seq(S[p][n])
    BY <1>3, SeqTail
  <1>5. ASSUME NEW i \in Node, NEW j \in Node PROVE new[i][j] \in Seq(S[i][j])
    <2>1. chan[i][j] \in Seq(S[i][j])
      BY DEF Chans
    <2>2. CASE i = p /\ j = n
      BY <1>2, <1>4, <2>2
    <2>3. CASE ~(i = p /\ j = n)
      BY <1>2, <2>1, <2>3
    <2> QED BY <2>2, <2>3
  <1>6. new = [i \in Node |-> [j \in Node |-> new[i][j]]]
    BY <1>2
  <1> HIDE DEF new
  <1> QED BY <1>4, <1>5, <1>6 DEF Chans, new

LEMMA ConnectAllowed ==
  ASSUME NEW S, Chans(chan, S), NEW i \in Node, NEW j \in Node, Connect(i, j),
         Secure \in S[i][j], Reply \in S[j][i]
  PROVE  Chans(chan', S)
  <1>1. i < j /\ i # j
    BY RoomAudioConstants DEF Connect
  <1>2. chan = [a \in Node |-> [b \in Node |-> chan[a][b]]]
    BY DEF Chans
  <1>3. chan' = [a \in Node |-> [b \in Node |->
                   IF a = i /\ b = j THEN Append(chan[i][j], Secure)
                   ELSE IF a = j /\ b = i THEN Append(chan[j][i], Reply)
                   ELSE chan[a][b]]]
    BY <1>1, <1>2 DEF Connect
  <1>4. ASSUME NEW a \in Node, NEW b \in Node PROVE chan'[a][b] \in Seq(S[a][b])
    <2>1. chan[a][b] \in Seq(S[a][b])
      BY DEF Chans
    <2>2. Append(chan[i][j], Secure) \in Seq(S[i][j])
      BY SeqAppend DEF Chans
    <2>3. Append(chan[j][i], Reply) \in Seq(S[j][i])
      BY SeqAppend DEF Chans
    <2> QED BY <1>3, <2>1, <2>2, <2>3
  <1>5. chan' = [a \in Node |-> [b \in Node |-> chan'[a][b]]]
    BY <1>3
  <1> QED BY <1>4, <1>5 DEF Chans

LEMMA ReplyAllowed ==
  ASSUME NEW S, Chans(chan, S), NEW i \in Node, NEW j \in Node, ReplyArrives(i, j),
         Reply \in S[j][i] => Secure \in S[j][i]
  PROVE  Chans(chan', S)
  <1>1. PICK x \in 1..Len(chan[j][i]) :
          chan[j][i][x] = Reply /\ chan' = [chan EXCEPT ![j][i][x] = Secure]
    BY DEF ReplyArrives
  <1>2. chan = [a \in Node |-> [b \in Node |-> chan[a][b]]]
    BY DEF Chans
  <1>3. chan' = [a \in Node |-> [b \in Node |->
                   IF a = j /\ b = i THEN [chan[j][i] EXCEPT ![x] = Secure]
                   ELSE chan[a][b]]]
    BY <1>1, <1>2
  <1>4. chan[j][i] \in Seq(S[j][i])
    BY DEF Chans
  <1>5. Secure \in S[j][i]
    BY <1>1, <1>4
  <1>6. [chan[j][i] EXCEPT ![x] = Secure] \in Seq(S[j][i])
    BY <1>1, <1>4, <1>5
  <1>7. ASSUME NEW a \in Node, NEW b \in Node PROVE chan'[a][b] \in Seq(S[a][b])
    BY <1>3, <1>6 DEF Chans
  <1>8. chan' = [a \in Node |-> [b \in Node |-> chan'[a][b]]]
    BY <1>3
  <1> QED BY <1>7, <1>8 DEF Chans

-----------------------------------------------------------------------------
(***************************************************************************)
(* The rings.                                                              *)
(***************************************************************************)
\* The operators of the instance are those of the room.
LEMMA SameRing ==
  ASSUME NEW n
  PROVE  /\ KR(n)!NoKey = NoKey
         /\ \A k, c : KR(n)!Better(k, c) <=> Better(k, c)
         /\ \A s, c, p, g : KR(n)!SendAfterPromote(s, c, p, g) = SendAfterPromote(s, c, p, g)
  BY DEF KR!NoKey, NoKey, KR!Better, Better, KR!SendAfterPromote, SendAfterPromote

\* What Adopt asks of the entries of n.
LEMMA AdoptEntries ==
  ASSUME NEW n, NEW k, Better(k, cur[n]), cur'[n] = k,
         prev'[n] = PrevAfterStage(cur[n], prev[n]),
         room_gen'[n] = MaxOf(room_gen[n], k.gen),
         \/ /\ send[n] = NoKey
            /\ send'[n] = SendAfterPromote(send[n], k, prev'[n], k.gen)
            /\ timers'[n] = timers[n]
         \/ /\ send[n] # NoKey
            /\ send'[n] = send[n]
            /\ \E same \in BOOLEAN : /\ same => SameTick /\ timers[n] # <<>>
                                     /\ timers'[n] = Schedule(timers[n], k.gen, same)
  PROVE  KR(n)!Adopt(k)
  <1>1. /\ KR(n)!Better(k, cur[n])
        /\ prev'[n] = KR(n)!PrevAfterStage(cur[n], prev[n])
        /\ room_gen'[n] = KR(n)!MaxOf(room_gen[n], k.gen)
        /\ KR(n)!NoKey = NoKey
    <2>1. KR(n)!Better(k, cur[n]) <=> Better(k, cur[n])
      BY SameRing
    <2>2. KR(n)!PrevAfterStage(cur[n], prev[n]) = PrevAfterStage(cur[n], prev[n])
      BY DEF KR!PrevAfterStage, PrevAfterStage, KR!Truncate, Truncate, KR!NoKey, NoKey
    <2>3. KR(n)!MaxOf(room_gen[n], k.gen) = MaxOf(room_gen[n], k.gen)
      BY DEF KR!MaxOf, MaxOf
    <2>4. KR(n)!NoKey = NoKey
      BY SameRing
    <2> QED BY <2>1, <2>2, <2>3, <2>4
  <1>2. CASE send[n] = NoKey
    <2>1. send'[n] = KR(n)!SendAfterPromote(send[n], k, prev'[n], k.gen)
      BY <1>2, SameRing
    <2> QED BY <1>1, <1>2, <2>1 DEF KR!Adopt
  <1>3. CASE send[n] # NoKey
    <2>1. \E same \in BOOLEAN : /\ same => SameTick /\ timers[n] # <<>>
                                /\ timers'[n] = KR(n)!Schedule(timers[n], k.gen, same)
      <3>1. PICK same \in BOOLEAN : /\ same => SameTick /\ timers[n] # <<>>
                                    /\ timers'[n] = Schedule(timers[n], k.gen, same)
        BY <1>3
      <3>2. KR(n)!Schedule(timers[n], k.gen, same) = Schedule(timers[n], k.gen, same)
        BY DEF KR!Schedule, Schedule
      <3> QED BY <3>1, <3>2
    <2> QED BY <1>1, <1>3, <2>1 DEF KR!Adopt
  <1> QED BY <1>2, <1>3

Counts == Nat \ {0}

Rings ==
  /\ send \in [Node -> Key \cup {NoKey}]
  /\ cur \in [Node -> Key \cup {NoKey}]
  /\ prev \in [Node -> Seq(Key)]
  /\ \A n \in Node : Len(prev[n]) <= ROOM_KEY_PREV_SLOTS
  /\ room_gen \in [Node -> Nat]
  /\ timers \in [Node -> Seq(SUBSET Counts)]

\* A key taken by n goes through Adopt of its key ring and leaves the other
\* rings alone.
LEMMA TakeIsAdopt ==
  ASSUME Rings, NEW n \in Node, NEW k \in Key, Better(k, cur[n]), Take(n, k)
  PROVE  /\ Rings'
         /\ KR(n)!Adopt(k)
         /\ \A m \in Node : m # n => UNCHANGED KR(m)!ringVars
         /\ cur'[n] = k
         /\ send'[n] \in {send[n], k}
         /\ \A i \in 1..Len(prev'[n]) : prev'[n][i] \in Ring(cur[n], prev[n])
         /\ room_gen'[n] = MaxOf(room_gen[n], k.gen)
  <1>1. /\ cur' = [cur EXCEPT ![n] = k]
        /\ prev' = [prev EXCEPT ![n] = PrevAfterStage(cur[n], prev[n])]
        /\ room_gen' = [room_gen EXCEPT ![n] = MaxOf(room_gen[n], k.gen)]
    BY DEF Take
  <1>2. /\ cur[n] \in Key \cup {NoKey} /\ prev[n] \in Seq(Key)
        /\ Len(prev[n]) <= ROOM_KEY_PREV_SLOTS /\ room_gen[n] \in Nat
        /\ send[n] \in Key \cup {NoKey} /\ timers[n] \in Seq(SUBSET Counts)
        /\ k.gen \in Counts
    BY KeyFacts DEF Rings, Counts
  <1>3. /\ PrevAfterStage(cur[n], prev[n]) \in Seq(Key)
        /\ Len(PrevAfterStage(cur[n], prev[n])) <= ROOM_KEY_PREV_SLOTS
        /\ \A i \in 1..Len(PrevAfterStage(cur[n], prev[n])) :
              PrevAfterStage(cur[n], prev[n])[i] \in Ring(cur[n], prev[n])
    BY <1>2, StageType
  <1>4. MaxOf(room_gen[n], k.gen) \in Nat
    BY <1>2 DEF MaxOf, Counts
  <1>5. /\ cur' \in [Node -> Key \cup {NoKey}]
        /\ cur'[n] = k
        /\ \A m \in Node : m # n => cur'[m] = cur[m]
    BY <1>1 DEF Rings
  <1>6. /\ prev' \in [Node -> Seq(Key)]
        /\ prev'[n] = PrevAfterStage(cur[n], prev[n])
        /\ \A m \in Node : m # n => prev'[m] = prev[m]
    <2> DEFINE q == PrevAfterStage(cur[n], prev[n])
    <2>1. q \in Seq(Key) /\ prev' = [prev EXCEPT ![n] = q] /\ prev \in [Node -> Seq(Key)]
      BY <1>1, <1>3 DEF Rings
    <2> HIDE DEF q
    <2>2. prev' \in [Node -> Seq(Key)] /\ prev'[n] = q /\ \A m \in Node : m # n => prev'[m] = prev[m]
      BY <2>1
    <2> QED BY <2>2 DEF q
  <1>7. /\ room_gen' \in [Node -> Nat]
        /\ room_gen'[n] = MaxOf(room_gen[n], k.gen)
        /\ \A m \in Node : m # n => room_gen'[m] = room_gen[m]
    BY <1>1, <1>4 DEF Rings
  <1>8. \A m \in Node : Len(prev'[m]) <= ROOM_KEY_PREV_SLOTS
    BY <1>3, <1>6 DEF Rings
  <1>9. CASE send[n] = NoKey
    <2>1. send' = [send EXCEPT ![n] = k] /\ timers' = timers
      BY <1>9 DEF Take
    <2>2. /\ send' \in [Node -> Key \cup {NoKey}] /\ send'[n] = k
          /\ \A m \in Node : m # n => send'[m] = send[m]
      BY <2>1 DEF Rings
    <2>3. SendAfterPromote(send[n], k, prev'[n], k.gen) = k
      BY <1>6, <1>3, KeyFacts DEF SendAfterPromote
    <2>4. KR(n)!Adopt(k)
      BY <1>5, <1>6, <1>7, <1>9, <2>1, <2>2, <2>3, AdoptEntries
    <2>5. \A m \in Node : m # n => UNCHANGED KR(m)!ringVars
      BY <1>5, <1>6, <1>7, <2>1, <2>2 DEF KR!ringVars
    <2>6. Rings'
      BY <1>5, <1>6, <1>7, <1>8, <2>1, <2>2 DEF Rings
    <2> QED BY <1>3, <1>5, <1>6, <1>7, <2>2, <2>4, <2>5, <2>6
  <1>10. CASE send[n] # NoKey
    <2>1. PICK same \in BOOLEAN :
            /\ same => SameTick /\ timers[n] # <<>>
            /\ timers' = [timers EXCEPT ![n] = Schedule(timers[n], k.gen, same)]
      BY <1>10 DEF Take
    <2>2. send' = send
      BY <1>10 DEF Take
    <2>3. Schedule(timers[n], k.gen, same) \in Seq(SUBSET Counts)
      BY <1>2, <2>1, ScheduleType
    <2>4. /\ timers' \in [Node -> Seq(SUBSET Counts)]
          /\ timers'[n] = Schedule(timers[n], k.gen, same)
          /\ \A m \in Node : m # n => timers'[m] = timers[m]
      BY <2>1, <2>3 DEF Rings
    <2>5. KR(n)!Adopt(k)
      BY <1>5, <1>6, <1>7, <1>10, <2>1, <2>2, <2>4, AdoptEntries
    <2>6. \A m \in Node : m # n => UNCHANGED KR(m)!ringVars
      BY <1>5, <1>6, <1>7, <2>2, <2>4 DEF KR!ringVars
    <2>7. Rings'
      BY <1>5, <1>6, <1>7, <1>8, <2>2, <2>4 DEF Rings
    <2> QED BY <1>3, <1>5, <1>6, <1>7, <2>2, <2>5, <2>6, <2>7
  <1> QED BY <1>9, <1>10

LEMMA AdoptRings ==
  ASSUME Rings, NEW n \in Node, NEW k \in Key, Adopt(n, k)
  PROVE  /\ Rings'
         /\ Gen = Counts => RingStep
         /\ cur'[n] \in Key
  <1>1. CASE Better(k, cur[n])
    <2>1. Take(n, k)
      BY <1>1 DEF Adopt
    <2>2. KR(n)!Adopt(k) /\ Rings' /\ cur'[n] = k
      BY <1>1, <2>1, TakeIsAdopt
    <2>3. \A m \in Node : m # n => UNCHANGED KR(m)!ringVars
      BY <1>1, <2>1, TakeIsAdopt
    <2>4. k.gen \in Counts /\ k.auth \in Node /\ k = [gen |-> k.gen, auth |-> k.auth]
      BY DEF Key, Counts
    <2>5. ASSUME Gen = Counts PROVE KR(n)!Next
      <3>1. KR(n)!Adopt([gen |-> k.gen, auth |-> k.auth])
        BY <2>2, <2>4
      <3> QED BY <2>4, <2>5, <3>1 DEF KR!Next
    <2>6. ASSUME Gen = Counts, NEW m \in Node
          PROVE  KR(m)!Next \/ UNCHANGED KR(m)!ringVars
      BY <2>3, <2>5, <2>6
    <2> QED BY <2>2, <2>6 DEF RingStep
  <1>2. CASE ~Better(k, cur[n])
    <2>1. KeepRing
      BY <1>2 DEF Adopt
    <2>2. cur[n] \in Key
      BY <1>2 DEF Better, Rings
    <2> QED BY <2>1, <2>2 DEF KeepRing, ring_vars, Rings, RingStep, KR!ringVars
  <1> QED BY <1>1, <1>2

LEMMA KeepRings ==
  ASSUME Rings, UNCHANGED ring_vars
  PROVE  Rings' /\ RingStep
  BY DEF ring_vars, Rings, RingStep, KR!ringVars

LEMMA PromoteRings ==
  ASSUME Rings, NEW n \in Node, NEW g, OnPromote(n, g)
  PROVE  /\ Rings'
         /\ Gen = Counts => RingStep
         /\ send'[n] \in Ring(cur[n], prev[n]) \cup {send[n]}
         /\ \A m \in Node : m # n => send'[m] = send[m]
  <1>1. /\ send' = [send EXCEPT ![n] = SendAfterPromote(send[n], cur[n], prev[n], g)]
        /\ timers' = [timers EXCEPT ![n] = FireTimer(timers[n], g)]
        /\ timers[n] # <<>> /\ g \in Head(timers[n])
        /\ UNCHANGED <<cur, prev, room_gen>>
    BY DEF OnPromote
  <1>2. /\ cur[n] \in Key \cup {NoKey} /\ prev[n] \in Seq(Key)
        /\ send[n] \in Key \cup {NoKey} /\ timers[n] \in Seq(SUBSET Counts)
    BY DEF Rings
  <1>3. SendAfterPromote(send[n], cur[n], prev[n], g) \in Ring(cur[n], prev[n]) \cup {send[n]}
    BY <1>2, PromoteFromRing
  <1>4. Ring(cur[n], prev[n]) \subseteq Key
    BY <1>2 DEF Ring
  <1>5. /\ send' \in [Node -> Key \cup {NoKey}]
        /\ send'[n] = SendAfterPromote(send[n], cur[n], prev[n], g)
        /\ \A m \in Node : m # n => send'[m] = send[m]
    BY <1>1, <1>2, <1>3, <1>4 DEF Rings
  <1>6. FireTimer(timers[n], g) \in Seq(SUBSET Counts)
    BY <1>1, <1>2, FireTimerType
  <1>7. /\ timers' \in [Node -> Seq(SUBSET Counts)]
        /\ timers'[n] = FireTimer(timers[n], g)
        /\ \A m \in Node : m # n => timers'[m] = timers[m]
    BY <1>1, <1>6 DEF Rings
  <1>8. Rings'
    BY <1>1, <1>5, <1>7 DEF Rings
  <1>9. KR(n)!Promote(g)
    <2>1. KR(n)!SendAfterPromote(send[n], cur[n], prev[n], g)
            = SendAfterPromote(send[n], cur[n], prev[n], g)
      BY SameRing
    <2>2. KR(n)!FireTimer(timers[n], g) = FireTimer(timers[n], g)
      BY DEF KR!FireTimer, FireTimer
    <2> QED BY <1>1, <1>5, <1>7, <2>1, <2>2 DEF KR!Promote
  <1>10. g \in Counts
    <2>1. Head(timers[n]) \in SUBSET Counts
      BY <1>1, <1>2
    <2> QED BY <1>1, <2>1
  <1>11. ASSUME Gen = Counts, NEW m \in Node
         PROVE  KR(m)!Next \/ UNCHANGED KR(m)!ringVars
    <2>1. CASE m = n
      BY <1>9, <1>10, <1>11, <2>1 DEF KR!Next
    <2>2. CASE m # n
      BY <1>1, <1>5, <1>7, <2>2 DEF KR!ringVars
    <2> QED BY <2>1, <2>2
  <1> QED BY <1>3, <1>5, <1>8, <1>11 DEF RingStep

-----------------------------------------------------------------------------
(***************************************************************************)
(* Every step is a step of the key rings.                                  *)
(***************************************************************************)
\* What nodes send each other when the keys come from K.
Sent(K) ==
  {Secure, Reply} \cup {KeyMsg(k) : k \in K} \cup {GenMsg(g) : g \in Nat}

LEMMA SentFacts ==
  ASSUME NEW K
  PROVE  /\ Secure \in Sent(K) /\ Reply \in Sent(K)
         /\ \A k \in K : KeyMsg(k) \in Sent(K)
         /\ \A g \in Nat : GenMsg(g) \in Sent(K)
         /\ \A m \in Sent(K) : /\ m.t = "RoomKey" => m.key \in K /\ m = KeyMsg(m.key)
                               /\ m.t = "RoomGen" => m.key.gen \in Nat
  <1>1. /\ Secure \in Sent(K) /\ Reply \in Sent(K)
        /\ \A k \in K : KeyMsg(k) \in Sent(K)
        /\ \A g \in Nat : GenMsg(g) \in Sent(K)
    BY Zenon DEF Sent
  <1>2. ASSUME NEW m \in Sent(K)
        PROVE  /\ m.t = "RoomKey" => m.key \in K /\ m = KeyMsg(m.key)
               /\ m.t = "RoomGen" => m.key.gen \in Nat
    <2>1. CASE m = Secure \/ m = Reply
      BY <2>1 DEF Secure, Reply
    <2>2. CASE \E k \in K : m = KeyMsg(k)
      BY <2>2 DEF KeyMsg
    <2>3. CASE \E g \in Nat : m = GenMsg(g)
      BY <2>3 DEF GenMsg
    <2>4. m = Secure \/ m = Reply \/ (\E k \in K : m = KeyMsg(k)) \/ (\E g \in Nat : m = GenMsg(g))
      BY Zenon DEF Sent
    <2> QED BY <2>1, <2>2, <2>3, <2>4
  <1> QED BY <1>1, <1>2

AnyMsg == [i \in Node |-> [j \in Node |-> Sent(Key)]]

\* The inductive invariant of the refinement: keys, counters and messages are
\* what a ring can be offered.
Typed == Rings /\ Chans(chan, AnyMsg)

LEMMA MintIsKey ==
  ASSUME NEW n \in Node, NEW g \in Nat
  PROVE  Mint(n, g + 1) \in Key
  BY DEF Mint, Key

\* The tail of an arm: rotate and hand out, or leave the keys alone.
LEMMA ArmTyped ==
  ASSUME Rings, NEW n \in Node, NEW g \in Nat, NEW mem, NEW lk, NEW ss,
         NEW ch, Chans(ch, AnyMsg),
         \/ /\ Adopt(n, Mint(n, g + 1))
            /\ chan' = SendEach(ch, lk, ss, n, mem, KeyMsg(cur'[n]))
         \/ KeepRing /\ chan' = ch
  PROVE  Typed' /\ (Gen = Counts => RingStep)
  <1>1. CASE /\ Adopt(n, Mint(n, g + 1))
             /\ chan' = SendEach(ch, lk, ss, n, mem, KeyMsg(cur'[n]))
    <2>1. Rings' /\ (Gen = Counts => RingStep) /\ cur'[n] \in Key
      BY <1>1, AdoptRings, MintIsKey
    <2>2. \A p \in Node : KeyMsg(cur'[n]) \in AnyMsg[n][p]
      BY <2>1, SentFacts DEF AnyMsg
    <2>3. Chans(chan', AnyMsg)
      BY <1>1, <2>2, SendAllowed
    <2> QED BY <2>1, <2>3 DEF Typed
  <1>2. CASE KeepRing /\ chan' = ch
    BY <1>2, KeepRings DEF KeepRing, Typed
  <1> QED BY <1>1, <1>2

LEMMA FrameTyped ==
  ASSUME Typed, NEW n \in Node,
         OnRoster(n) \/ OnPeerJoined(n) \/ OnPeerLeft(n) \/ OnRekey(n)
  PROVE  Typed' /\ (Gen = Counts => RingStep)
  <1>1. Rings /\ room_gen[n] \in Nat
    BY DEF Typed, Rings
  <1>2. \A ps : \A keep \in BOOLEAN : Chans(CutChan(n, ps, keep), AnyMsg)
    BY CutAllowed DEF Typed
  <1>3. CASE OnRoster(n)
    BY <1>1, <1>2, <1>3, ArmTyped DEF OnRoster, RotateIf
  <1>4. CASE OnPeerJoined(n)
    BY <1>1, <1>2, <1>4, ArmTyped DEF OnPeerJoined, RotateIf
  <1>5. CASE OnPeerLeft(n)
    BY <1>1, <1>2, <1>5, ArmTyped DEF OnPeerLeft, RotateIf
  <1>6. CASE OnRekey(n)
    BY <1>1, <1>2, <1>6, ArmTyped DEF OnRekey, RotateIf
  <1> QED BY <1>3, <1>4, <1>5, <1>6

LEMMA EventTyped ==
  ASSUME Typed, NEW n \in Node, NEW p \in Node,
         \/ OnSecureAuthority(n, p) \/ OnSecureMember(n, p)
         \/ OnRoomKey(n, p) \/ OnRoomGen(n, p)
  PROVE  Typed' /\ (Gen = Counts => RingStep)
  <1>1. /\ Rings /\ room_gen[n] \in Nat /\ cur[n] \in Key \cup {NoKey}
        /\ chan[p][n] # <<>>
    BY DEF Typed, Rings, OnSecureAuthority, OnSecureMember, OnRoomKey, OnRoomGen, Event
  <1>2. Chans(Rest(n, p), AnyMsg) /\ Head(chan[p][n]) \in Sent(Key)
    BY <1>1, RestAllowed DEF Typed, AnyMsg
  <1>3. CASE OnSecureAuthority(n, p)
    <2>1. Rings' /\ (Gen = Counts => RingStep) /\ cur'[n] \in Key
      <3>1. CASE cur[n] = NoKey
        <4>1. MaxOf(room_gen[n], 1) \in Nat \ {0}
          BY <1>1 DEF MaxOf
        <4>2. Mint(n, MaxOf(room_gen[n], 1)) \in Key
          BY <4>1 DEF Mint, Key
        <4>3. Adopt(n, Mint(n, MaxOf(room_gen[n], 1)))
          BY <1>3, <3>1 DEF OnSecureAuthority
        <4> QED BY <1>1, <4>2, <4>3, AdoptRings
      <3>2. CASE cur[n] # NoKey
        <4>1. UNCHANGED ring_vars
          BY <1>3, <3>2 DEF OnSecureAuthority, KeepRing
        <4> QED BY <1>1, <3>2, <4>1, KeepRings DEF ring_vars
      <3> QED BY <3>1, <3>2
    <2>2. \A q \in Node : KeyMsg(cur'[n]) \in AnyMsg[n][q]
      BY <2>1, SentFacts DEF AnyMsg
    <2>3. chan' = SendEach(Rest(n, p), link, sess, n, {p}, KeyMsg(cur'[n]))
      BY <1>3 DEF OnSecureAuthority
    <2>4. Chans(chan', AnyMsg)
      BY <1>2, <2>2, <2>3, SendAllowed
    <2> QED BY <2>1, <2>4 DEF Typed
  <1>4. CASE OnSecureMember(n, p)
    <2>1. Rings' /\ RingStep
      BY <1>1, <1>4, KeepRings DEF OnSecureMember, KeepRing
    <2>2. \/ chan' = Rest(n, p)
          \/ /\ cur[n] # NoKey
             /\ chan' = SendEach(Rest(n, p), link, sess, n, {p}, GenMsg(cur[n].gen))
      BY <1>4 DEF OnSecureMember
    <2>3. cur[n] # NoKey => \A q \in Node : GenMsg(cur[n].gen) \in AnyMsg[n][q]
      BY <1>1, KeyFacts, SentFacts DEF AnyMsg
    <2>4. Chans(chan', AnyMsg)
      BY <1>2, <2>2, <2>3, SendAllowed
    <2> QED BY <2>1, <2>4 DEF Typed
  <1>5. CASE OnRoomKey(n, p)
    <2> DEFINE k == Head(chan[p][n]).key
    <2>1. k \in Key
      BY <1>2, <1>5, SentFacts DEF OnRoomKey, Event
    <2>2. [gen |-> k.gen, auth |-> p] \in Key
      BY <2>1 DEF Key
    <2>3. Adopt(n, [gen |-> k.gen, auth |-> p]) \/ UNCHANGED ring_vars
      BY <1>5 DEF OnRoomKey, KeepRing
    <2>4. Rings' /\ (Gen = Counts => RingStep)
      BY <1>1, <2>2, <2>3, AdoptRings, KeepRings
    <2>5. chan' = Rest(n, p)
      BY <1>5 DEF OnRoomKey
    <2> QED BY <1>2, <2>4, <2>5 DEF Typed
  <1>6. CASE OnRoomGen(n, p)
    <2>1. Head(chan[p][n]).key.gen \in Nat
      BY <1>2, <1>6, SentFacts DEF OnRoomGen, Event
    <2> QED BY <1>1, <1>2, <1>6, <2>1, ArmTyped DEF OnRoomGen, RotateIf
  <1> QED BY <1>3, <1>4, <1>5, <1>6

LEMMA OtherTyped ==
  ASSUME Typed,
         \/ RekeyRoom
         \/ \E n \in Node : \/ JoinRoom(n) \/ LeaveRoom(n) \/ SignalingLost(n)
                            \/ ServerNotices(n) \/ Rejoin(n)
                            \/ \E p \in Node : LinkFails(n, p) \/ ReplyArrives(n, p) \/ Connect(n, p)
         \/ UNCHANGED vars
  PROVE  Typed' /\ RingStep
  <1>1. UNCHANGED ring_vars
    BY DEF RekeyRoom, JoinRoom, LeaveRoom, SignalingLost, ServerNotices, Rejoin, LinkFails,
           ReplyArrives, Connect, vars, ring_vars
  <1>2. Rings' /\ RingStep
    BY <1>1, KeepRings DEF Typed
  <1>3. Chans(chan, AnyMsg)
    BY DEF Typed
  <1>4. \A i, j \in Node : Secure \in AnyMsg[i][j] /\ Reply \in AnyMsg[i][j]
    BY SentFacts DEF AnyMsg
  <1>5. ASSUME NEW n \in Node, LeaveRoom(n) PROVE Chans(chan', AnyMsg)
    BY <1>3, <1>5, CutAllowed DEF LeaveRoom
  <1>6. ASSUME NEW n \in Node, NEW p \in Node, LinkFails(n, p) PROVE Chans(chan', AnyMsg)
    BY <1>3, <1>6, CutAllowed DEF LinkFails
  <1>7. ASSUME NEW n \in Node, NEW p \in Node, ReplyArrives(n, p) PROVE Chans(chan', AnyMsg)
    BY <1>3, <1>4, <1>7, ReplyAllowed
  <1>8. ASSUME NEW n \in Node, NEW p \in Node, Connect(n, p) PROVE Chans(chan', AnyMsg)
    BY <1>3, <1>4, <1>8, ConnectAllowed
  <1>9. ASSUME UNCHANGED chan PROVE Chans(chan', AnyMsg)
    BY <1>3, <1>9
  <1>10. ASSUME \/ RekeyRoom \/ UNCHANGED vars
                \/ \E n \in Node : JoinRoom(n) \/ SignalingLost(n) \/ ServerNotices(n) \/ Rejoin(n)
         PROVE  Chans(chan', AnyMsg)
    BY <1>9, <1>10 DEF RekeyRoom, JoinRoom, SignalingLost, ServerNotices, Rejoin, mesh_vars, vars
  <1>11. Chans(chan', AnyMsg)
    BY <1>5, <1>6, <1>7, <1>8, <1>10
  <1> QED BY <1>2, <1>11 DEF Typed

LEMMA StepTyped ==
  ASSUME Typed, [Next]_vars
  PROVE  Typed' /\ (Gen = Counts => RingStep)
  <1>1. ASSUME NEW n \in Node, NEW g, OnPromote(n, g)
        PROVE  Typed' /\ (Gen = Counts => RingStep)
    <2>1. Rings' /\ (Gen = Counts => RingStep)
      BY <1>1, PromoteRings DEF Typed
    <2>2. chan' = chan
      BY <1>1 DEF OnPromote, mesh_vars
    <2> QED BY <2>1, <2>2 DEF Typed
  <1>2. ASSUME NEW n \in Node, Handle(n)
        PROVE  Typed' /\ (Gen = Counts => RingStep)
    <2>1. CASE OnRoster(n) \/ OnPeerJoined(n) \/ OnPeerLeft(n) \/ OnRekey(n)
      BY <2>1, FrameTyped
    <2>2. CASE \E p \in Node : \/ OnSecureAuthority(n, p) \/ OnSecureMember(n, p)
                               \/ OnRoomKey(n, p) \/ OnRoomGen(n, p)
      BY <2>2, EventTyped
    <2>3. CASE \E p \in Node : ReplyArrives(n, p) \/ Connect(n, p)
      BY <2>3, OtherTyped
    <2>4. CASE \E g : OnPromote(n, g)
      BY <2>4, <1>1
    <2> QED BY <1>2, <2>1, <2>2, <2>3, <2>4 DEF Handle
  <1>3. CASE \E n \in Node : \/ JoinRoom(n) \/ LeaveRoom(n) \/ SignalingLost(n)
                             \/ ServerNotices(n) \/ Rejoin(n)
                             \/ \E p \in Node : LinkFails(n, p)
    BY <1>3, OtherTyped
  <1>4. CASE RekeyRoom \/ UNCHANGED vars
    BY <1>4, OtherTyped
  <1> QED BY <1>2, <1>3, <1>4 DEF Next

\* The first key of a settled room is a key.
LEMMA FounderKey ==
  ASSUME NEW F \in SUBSET Node, Settled(F)
  PROVE  /\ FirstKey(F) \in Key
         /\ FirstKey(F).gen = 1
         /\ FirstKey(F).auth \in F
         /\ \A f \in F : FirstKey(F).auth <= f
  <1>1. F \subseteq Nat /\ F # {}
    BY RoomAudioConstants DEF Settled
  <1>2. \E a \in F : \A f \in F : a <= f
    BY <1>1, LeastElement
  <1> DEFINE a0 == CHOOSE a \in F : \A f \in F : a <= f
  <1>3. a0 \in F /\ \A f \in F : a0 <= f
    BY <1>2
  <1>4. FirstKey(F) = [gen |-> 1, auth |-> a0]
    BY DEF FirstKey
  <1> HIDE DEF a0
  <1> QED BY <1>3, <1>4 DEF Key

LEMMA InitTyped == Init => Typed
  <1> SUFFICES ASSUME Init PROVE Typed
    OBVIOUS
  <1>1. PICK sc \in Scenario : InitWith(sc.founders)
    BY DEF Init
  <1> DEFINE F == sc.founders
  <1>2. F \in SUBSET Node
    BY GroupConstants DEF ScenarioType
  <1> HIDE DEF F
  <1>3. InitWith(F)
    BY <1>1 DEF F
  <1>4. \A n \in Node : Formed(F, n, FirstKey(F), NoKey) \in Key \cup {NoKey}
    BY <1>2, FounderKey DEF Formed
  <1>5. \A n \in Node : Formed(F, n, 1, 0) \in Nat
    BY DEF Formed
  <1>6. Rings
    <2>1. <<>> \in Seq(Key) /\ <<>> \in Seq(SUBSET Counts) /\ Len(<<>>) = 0
      OBVIOUS
    <2> QED BY <1>3, <1>4, <1>5, <2>1, RoomAudioConstants DEF InitWith, Rings
  <1>7. Chans(chan, AnyMsg)
    <2>1. chan = [i \in Node |-> [j \in Node |-> <<>>]]
      BY <1>3 DEF InitWith
    <2> QED BY <2>1 DEF Chans
  <1> QED BY <1>6, <1>7 DEF Typed

\* What the engine loop does to the keys of a node, whatever the server, the
\* other nodes and the links do: it adopts a better key, promotes a staged
\* one, or leaves them alone.
THEOREM KeysMoveAsRings ==
  ASSUME Gen = Counts
  PROVE  Spec => [][RingStep]_vars
  <1>1. Typed /\ [Next]_vars => Typed' /\ RingStep
    BY StepTyped
  <1> QED BY <1>1, InitTyped, PTL DEF Spec

\* Refinement: in a room that starts empty, the keys of every node implement
\* the specification KeyRing.
THEOREM RoomOfKeyRings ==
  ASSUME Gen = Counts, \A sc \in Scenario : ~Settled(sc.founders)
  PROVE  Spec => EachNodeIsAKeyRing
  <1>1. ASSUME Init, NEW n \in Node PROVE KR(n)!Init
    <2>1. PICK sc \in Scenario : InitWith(sc.founders)
      BY <1>1 DEF Init
    <2>2. \A x, y : Formed(sc.founders, n, x, y) = y
      BY <2>1 DEF Formed
    <2>3. /\ send[n] = NoKey /\ cur[n] = NoKey /\ prev[n] = <<>>
          /\ room_gen[n] = 0 /\ timers[n] = <<>>
      BY <2>1, <2>2 DEF InitWith
    <2> QED BY <2>3, SameRing DEF KR!Init
  <1>2. Init => \A n \in Node : KR(n)!Init
    BY <1>1
  <1>3. Spec => [][RingStep]_vars
    BY KeysMoveAsRings
  <1> QED BY <1>2, <1>3, PTL DEF Spec, EachNodeIsAKeyRing

-----------------------------------------------------------------------------
(***************************************************************************)
(* Rooms that only grow: nobody leaves and no signaling connection is lost, *)
(* but nodes join at any moment, links fail and come back, and users ask    *)
(* for rekeys.                                                             *)
(***************************************************************************)
OnlyGrows == \A sc \in Scenario : sc.leavers = {} /\ sc.reconnects = 0

HeldKeys(n) == (Ring(cur[n], prev[n]) \cup {send[n]}) \ {NoKey}

Histories ==
  /\ known \in [Node -> SUBSET Key]
  /\ before \in [Node -> SUBSET (Key \cup {NoKey})]
  /\ sealed \in SUBSET (Key \cup {NoKey})
  /\ members \in [Node -> SUBSET Node]

\* What a node holds it knows; it came after the node did; and no key is
\* ahead of the counter of the node that minted it.
Held ==
  /\ \A n \in Node : HeldKeys(n) \subseteq known[n]
  /\ \A n \in Node : \A k \in known[n] : k.gen <= room_gen[k.auth] /\ k \notin before[n]
  /\ \A k \in sealed \ {NoKey} : k.gen <= room_gen[k.auth]

\* What sealed audio before a node joined was minted by others.
Foreign ==
  /\ \A n \in Node : before[n] \subseteq sealed
  /\ \A n \in Node : \A k \in before[n] \ {NoKey} : k.auth # n

\* A node without a key has counted none and superseded none; no key is above the counter.
Counted ==
  /\ \A n \in Node : cur[n] = NoKey => room_gen[n] = 0 /\ send[n] = NoKey /\ prev[n] = <<>>
  /\ \A n \in Node : cur[n].gen <= room_gen[n]

\* The authority holds a key of its own, newer than all it had sealed with
\* before any of its members joined.
Newest ==
  \A n \in Node : AmAuthority(n, members[n]) /\ cur[n] # NoKey =>
    /\ cur[n].auth = n
    /\ \A m \in members[n] : \A k \in before[m] \ {NoKey} : k.auth = n => k.gen < cur[n].gen

Secrets == Histories /\ Held /\ Foreign /\ Counted /\ Newest

LEMMA TakeKeepsSecrets ==
  ASSUME Rings, Secrets, NEW n \in Node, NEW k \in Key, Better(k, cur[n]), Take(n, k),
         k \notin before[n], k.auth = n \/ k.gen <= room_gen[k.auth],
         before' = before, members' \in [Node -> SUBSET Node],
         \A m \in Node : m # n => members'[m] = members[m],
         AmAuthority(n, members'[n]) =>
           /\ k.auth = n
           /\ \A m \in Node : \A x \in before[m] \ {NoKey} : x.auth = n => x.gen < k.gen
  PROVE  Secrets'
  <1>1. /\ known' = [known EXCEPT ![n] = known[n] \cup {k}]
        /\ sealed' = sealed \/ sealed' = sealed \cup {k}
        /\ cur' = [cur EXCEPT ![n] = k]
        /\ \A m \in Node : m # n => /\ cur'[m] = cur[m] /\ prev'[m] = prev[m]
                                    /\ room_gen'[m] = room_gen[m] /\ send'[m] = send[m]
    BY DEF Take, Rings
  <1>2. /\ cur'[n] = k
        /\ send'[n] \in {send[n], k}
        /\ \A i \in 1..Len(prev'[n]) : prev'[n][i] \in Ring(cur[n], prev[n])
        /\ room_gen'[n] = MaxOf(room_gen[n], k.gen)
    BY TakeIsAdopt
  <1>3. k.gen \in Nat /\ k.gen > 0 /\ k.auth \in Node /\ k # NoKey
    BY KeyFacts
  <1>4. \A m \in Node : room_gen[m] \in Nat /\ room_gen'[m] \in Nat /\ room_gen[m] <= room_gen'[m]
    <2>1. \A m \in Node : room_gen[m] \in Nat
      BY DEF Rings
    <2>2. room_gen'[n] \in Nat /\ room_gen[n] <= room_gen'[n]
      BY <1>2, <1>3, <2>1 DEF MaxOf
    <2> QED BY <1>1, <2>1, <2>2
  <1>5. k.gen <= room_gen'[n] /\ k.gen <= room_gen'[k.auth]
    <2>1. k.gen <= room_gen'[n]
      BY <1>2, <1>3, <1>4 DEF MaxOf
    <2> QED BY <1>3, <1>4, <2>1
  <1>6. Histories'
    <2>1. known' \in [Node -> SUBSET Key]
      BY <1>1 DEF Secrets, Histories
    <2> QED BY <1>1, <2>1 DEF Secrets, Histories
  <1>7. known'[n] = known[n] \cup {k} /\ \A m \in Node : m # n => known'[m] = known[m]
    BY <1>1 DEF Secrets, Histories
  <1>8. Held'
    <2>1. HeldKeys(n)' \subseteq HeldKeys(n) \cup {k}
      BY <1>2 DEF HeldKeys, Ring
    <2>2. \A m \in Node : m # n => HeldKeys(m)' = HeldKeys(m)
      BY <1>1 DEF HeldKeys, Ring
    <2>3. \A m \in Node : HeldKeys(m)' \subseteq known'[m]
      BY <1>7, <2>1, <2>2 DEF Secrets, Held
    <2>4. \A m \in Node : \A x \in known[m] :
             x.gen \in Nat /\ x.auth \in Node /\ x.gen <= room_gen[x.auth] /\ x \notin before[m]
      BY KeyFacts DEF Secrets, Held, Histories
    <2>5. \A m \in Node : \A x \in known'[m] : x.gen <= room_gen'[x.auth] /\ x \notin before'[m]
      BY <1>4, <1>5, <1>7, <2>4
    <2>6. \A x \in sealed \ {NoKey} :
             x.gen \in Nat /\ x.auth \in Node /\ x.gen <= room_gen[x.auth]
      BY KeyFacts DEF Secrets, Held, Histories
    <2>7. \A x \in sealed' \ {NoKey} : x.gen <= room_gen'[x.auth]
      BY <1>1, <1>4, <1>5, <2>6
    <2> QED BY <2>3, <2>5, <2>7 DEF Held
  <1>9. Foreign'
    BY <1>1 DEF Secrets, Foreign
  <1>10. Counted'
    BY <1>1, <1>2, <1>3, <1>5 DEF Secrets, Counted
  <1>11. Newest'
    <2>1. ASSUME NEW a \in Node, AmAuthority(a, members'[a]), cur'[a] # NoKey
          PROVE  /\ cur'[a].auth = a
                 /\ \A m \in members'[a] : \A x \in before'[m] \ {NoKey} :
                      x.auth = a => x.gen < cur'[a].gen
      <3>1. CASE a = n
        BY <1>2, <2>1, <3>1
      <3>2. CASE a # n
        <4>1. cur'[a] = cur[a] /\ members'[a] = members[a]
          BY <1>1, <3>2
        <4> QED BY <2>1, <4>1 DEF Secrets, Newest
      <3> QED BY <3>1, <3>2
    <2> QED BY <2>1 DEF Newest
  <1> QED BY <1>6, <1>8, <1>9, <1>10, <1>11 DEF Secrets

LEMMA MintKeepsSecrets ==
  ASSUME Rings, Secrets, NEW n \in Node, NEW g \in Nat, room_gen[n] <= g,
         Adopt(n, Mint(n, g + 1)),
         before' = before, members' \in [Node -> SUBSET Node],
         \A m \in Node : m # n => members'[m] = members[m]
  PROVE  /\ Secrets'
         /\ cur'[n] = Mint(n, g + 1)
         /\ room_gen'[n] = g + 1
         /\ \A m \in Node : m # n => room_gen'[m] = room_gen[m]
         /\ \A m \in Node : cur'[n] \notin before[m]
  <1> DEFINE k == Mint(n, g + 1)
  <1>1. k \in Key /\ k.gen = g + 1 /\ k.auth = n /\ k # NoKey
    BY MintIsKey, KeyFacts DEF Mint
  <1>2. room_gen[n] \in Nat /\ cur[n] \in Key \cup {NoKey} /\ cur[n].gen <= room_gen[n]
    BY DEF Rings, Secrets, Counted
  <1>3. Better(k, cur[n])
    BY <1>1, <1>2, KeyFacts DEF Better
  <1>4. Take(n, k)
    BY <1>3 DEF Adopt
  <1>5. \A m \in Node : \A x \in before[m] \ {NoKey} : x.auth = n => x.gen < k.gen
    <2>1. ASSUME NEW m \in Node, NEW x \in before[m] \ {NoKey}, x.auth = n PROVE x.gen < k.gen
      <3>1. x \in Key /\ x \in sealed \ {NoKey}
        BY DEF Secrets, Histories, Foreign
      <3>2. x.gen <= room_gen[n] /\ x.gen \in Nat
        BY <2>1, <3>1, KeyFacts DEF Secrets, Held
      <3> QED BY <1>1, <1>2, <3>2
    <2> QED BY <2>1
  <1>6. \A m \in Node : k \notin before[m]
    <2>1. \A m \in Node : k \in before[m] => k.gen < k.gen
      BY <1>1, <1>5
    <2> QED BY <1>1, <2>1
  <1>7. AmAuthority(n, members'[n]) =>
           /\ k.auth = n
           /\ \A m \in Node : \A x \in before[m] \ {NoKey} : x.auth = n => x.gen < k.gen
    BY <1>1, <1>5
  <1>8. k \notin before[n] /\ (k.auth = n \/ k.gen <= room_gen[k.auth])
    BY <1>1, <1>6
  <1>9. cur'[n] = k /\ room_gen'[n] = MaxOf(room_gen[n], k.gen)
    BY <1>1, <1>3, <1>4, TakeIsAdopt
  <1>10. \A m \in Node : m # n => room_gen'[m] = room_gen[m]
    BY <1>4 DEF Take, Rings
  <1>11. room_gen'[n] = g + 1
    BY <1>1, <1>2, <1>9 DEF MaxOf
  <1> HIDE DEF k
  <1>12. Secrets'
    BY <1>1, <1>3, <1>4, <1>7, <1>8, TakeKeepsSecrets
  <1> QED BY <1>6, <1>9, <1>10, <1>11, <1>12 DEF k

\* Steps that leave the keys alone: lists may only grow where the node is not
\* an authority with a key.
LEMMA KeepKeepsSecrets ==
  ASSUME Rings, Secrets, UNCHANGED ring_vars, UNCHANGED hist_vars, UNCHANGED before,
         members' \in [Node -> SUBSET Node],
         \A m \in Node : \/ members'[m] = members[m]
                         \/ cur[m] = NoKey
                         \/ ~AmAuthority(m, members'[m])
  PROVE  Secrets'
  <1>1. /\ send' = send /\ cur' = cur /\ prev' = prev /\ room_gen' = room_gen
        /\ known' = known /\ sealed' = sealed /\ before' = before
    BY DEF ring_vars, hist_vars
  <1>2. Histories' /\ Held' /\ Foreign' /\ Counted'
    BY <1>1 DEF Secrets, Histories, Held, HeldKeys, Foreign, Counted, Ring
  <1>3. Newest'
    BY <1>1 DEF Secrets, Newest
  <1> QED BY <1>2, <1>3 DEF Secrets

LEMMA PromoteKeepsSecrets ==
  ASSUME Rings, Secrets, NEW n \in Node, NEW g, OnPromote(n, g)
  PROVE  Secrets'
  <1>1. /\ UNCHANGED <<cur, prev, room_gen, known, before, members>>
        /\ sealed' = sealed \cup {send'[n]}
    BY DEF OnPromote
  <1>2. /\ send'[n] \in Ring(cur[n], prev[n]) \cup {send[n]}
        /\ \A m \in Node : m # n => send'[m] = send[m]
    BY PromoteRings
  <1>3. \A m \in Node : HeldKeys(m)' \subseteq HeldKeys(m)
    BY <1>1, <1>2 DEF HeldKeys, Ring
  <1>4. \A m \in Node : HeldKeys(m) \subseteq known[m] /\ known[m] \subseteq Key
    BY DEF Secrets, Held, Histories
  <1>5. send'[n] = NoKey \/ send'[n] \in known[n]
    BY <1>2, <1>4 DEF HeldKeys
  <1>6. Histories'
    BY <1>1, <1>4, <1>5 DEF Secrets, Histories
  <1>7. Held'
    BY <1>1, <1>3, <1>4, <1>5 DEF Secrets, Held
  <1>8. Foreign'
    BY <1>1 DEF Secrets, Foreign
  <1>9. Counted'
    <2>1. cur[n] = NoKey => send'[n] = NoKey
      <3>1. ASSUME cur[n] = NoKey, send'[n] # NoKey PROVE FALSE
        <4>1. send'[n] \in known[n] /\ send'[n] \in Key
          BY <1>4, <1>5, <3>1
        <4>2. send[n] = NoKey /\ prev[n] = <<>>
          BY <3>1 DEF Secrets, Counted
        <4>3. Ring(cur[n], prev[n]) = {}
          BY <3>1, <4>2 DEF Ring
        <4> QED BY <1>2, <3>1, <4>2, <4>3
      <3> QED BY <3>1
    <2> QED BY <1>1, <1>2, <2>1 DEF Secrets, Counted
  <1>10. Newest'
    BY <1>1 DEF Secrets, Newest
  <1> QED BY <1>6, <1>7, <1>8, <1>9, <1>10 DEF Secrets

ServerFrame ==
  [t : {"Roster", "PeerJoined", "Rekey"}, user : Nat, peers : SUBSET Node]

\* Everyone in the room is connected and knows only members of it; a node
\* outside has nothing yet; a link is on both lists.
Rooms ==
  /\ status \in [Node -> {"out", "in"}]
  /\ room \in SUBSET Node
  /\ \A n \in Node : n \in room <=> status[n] = "in"
  /\ online = room
  /\ budget \in ScenarioType /\ budget.leavers = {} /\ budget.reconnects = 0
  /\ \A n \in Node : members[n] \subseteq room \ {n}
  /\ \A n \in Node \ room : members[n] = {} /\ cur[n] = NoKey /\ known[n] = {}
  /\ \A i, j \in Node : <<i, j>> \in link => j \in members[i] /\ i \in members[j]

\* A Roster is the first frame of a node, which knows nobody and has no key.
FrameInv(n, i, f) ==
  /\ f.t = "Roster" => /\ i = 1 /\ members[n] = {} /\ cur[n] = NoKey
                       /\ f.peers \subseteq room \ {n}
  /\ f.t = "PeerJoined" => f.user \in room \ {n}

Inboxes ==
  /\ inbox \in [Node -> Seq(ServerFrame)]
  /\ \A n \in Node : \A i \in 1..Len(inbox[n]) : FrameInv(n, i, inbox[n][i])

\* Keys p may hand to n: its own, none that sealed audio before n joined.
OwnKeys(p, n) == {k \in Key : k.auth = p /\ k.gen <= room_gen[p] /\ k \notin before[n]}

OwnMsg == [p \in Node |-> [n \in Node |->
             IF p \in members[n] THEN Sent(OwnKeys(p, n)) ELSE {}]]

GrowInv == Typed /\ Secrets /\ Rooms /\ Inboxes /\ Chans(chan, OwnMsg)

LEMMA OwnMsgGrows ==
  ASSUME Rings, Rings',
         \A m \in Node : room_gen[m] <= room_gen'[m],
         \A m \in Node : members[m] \subseteq members'[m],
         \A m \in Node : before'[m] = before[m] \/ members[m] = {}
  PROVE  \A p, n \in Node : OwnMsg[p][n] \subseteq OwnMsg'[p][n]
  <1>1. ASSUME NEW p \in Node, NEW n \in Node, p \in members[n]
        PROVE  OwnKeys(p, n) \subseteq OwnKeys(p, n)'
    <2>1. room_gen[p] \in Nat /\ room_gen'[p] \in Nat /\ room_gen[p] <= room_gen'[p]
      BY DEF Rings
    <2>2. before'[n] = before[n]
      BY <1>1
    <2>3. \A k \in Key : k.gen \in Nat
      BY KeyFacts
    <2> QED BY <2>1, <2>2, <2>3 DEF OwnKeys
  <1>2. ASSUME NEW p \in Node, NEW n \in Node, p \in members[n]
        PROVE  Sent(OwnKeys(p, n)) \subseteq Sent(OwnKeys(p, n)')
    BY <1>1, <1>2 DEF Sent
  <1>3. ASSUME NEW p \in Node, NEW n \in Node PROVE OwnMsg[p][n] \subseteq OwnMsg'[p][n]
    <2>1. CASE p \in members[n]
      <3>1. p \in members'[n]
        BY <2>1
      <3>2. OwnMsg[p][n] = Sent(OwnKeys(p, n)) /\ OwnMsg'[p][n] = Sent(OwnKeys(p, n)')
        BY <2>1, <3>1 DEF OwnMsg
      <3> QED BY <1>2, <2>1, <3>2
    <2>2. CASE p \notin members[n]
      BY <2>2 DEF OwnMsg
    <2> QED BY <2>1, <2>2
  <1> QED BY <1>3

\* An event in the queue comes from a member.
LEMMA EventFromMember ==
  ASSUME Chans(chan, OwnMsg), NEW n \in Node, NEW p \in Node, chan[p][n] # <<>>
  PROVE  /\ p \in members[n]
         /\ Head(chan[p][n]) \in Sent(OwnKeys(p, n))
         /\ Chans(Rest(n, p), OwnMsg)
  <1>1. Chans(Rest(n, p), OwnMsg) /\ Head(chan[p][n]) \in OwnMsg[p][n]
    BY RestAllowed
  <1>2. OwnMsg[p][n] = IF p \in members[n] THEN Sent(OwnKeys(p, n)) ELSE {}
    BY DEF OwnMsg
  <1> QED BY <1>1, <1>2

\* Rotating: the key handed out is new, and only members receive it.
LEMMA MintGrows ==
  ASSUME GrowInv, Rings', NEW n \in Node, NEW g \in Nat, room_gen[n] <= g,
         Adopt(n, Mint(n, g + 1)),
         before' = before, members' \in [Node -> SUBSET Node],
         \A m \in Node : m # n => members'[m] = members[m],
         members[n] \subseteq members'[n],
         NEW ch, Chans(ch, OwnMsg), NEW lk, lk \subseteq link, NEW ss, NEW mem,
         chan' = SendEach(ch, lk, ss, n, mem, KeyMsg(cur'[n]))
  PROVE  Secrets' /\ Chans(chan', OwnMsg')
  <1>1. Rings /\ Secrets /\ Rooms
    BY DEF GrowInv, Typed
  <1>2. /\ Secrets' /\ cur'[n] = Mint(n, g + 1) /\ room_gen'[n] = g + 1
        /\ \A m \in Node : m # n => room_gen'[m] = room_gen[m]
        /\ \A m \in Node : cur'[n] \notin before[m]
    BY <1>1, MintKeepsSecrets
  <1>3. \A m \in Node : room_gen[m] \in Nat /\ room_gen[m] <= room_gen'[m]
    <2>1. \A m \in Node : room_gen[m] \in Nat
      BY <1>1 DEF Rings
    <2>2. room_gen[n] <= room_gen'[n]
      BY <1>2, <2>1
    <2>3. \A m \in Node : m # n => room_gen[m] <= room_gen'[m]
      BY <1>2, <2>1
    <2> QED BY <2>1, <2>2, <2>3
  <1>4. Chans(ch, OwnMsg')
    <2>1. \A p, q \in Node : OwnMsg[p][q] \subseteq OwnMsg'[p][q]
      BY <1>1, <1>3, OwnMsgGrows
    <2> QED BY <2>1, ChansGrow
  <1>5. ASSUME NEW p \in Node, <<n, p>> \in lk \/ <<p, n>> \in lk
        PROVE  KeyMsg(cur'[n]) \in OwnMsg'[n][p]
    <2>1. n \in members'[p]
      BY <1>1, <1>5 DEF Rooms
    <2>2. cur'[n] \in Key /\ cur'[n].auth = n /\ cur'[n].gen = g + 1
      BY <1>2, MintIsKey DEF Mint
    <2>3. cur'[n] \in OwnKeys(n, p)'
      BY <1>2, <2>2 DEF OwnKeys
    <2>4. KeyMsg(cur'[n]) \in Sent(OwnKeys(n, p)')
      BY <2>3, SentFacts
    <2> QED BY <2>1, <2>4 DEF OwnMsg
  <1>6. Chans(chan', OwnMsg')
    BY <1>4, <1>5, SendAllowed
  <1> QED BY <1>2, <1>6

\* Leaving the keys alone.
LEMMA KeepGrows ==
  ASSUME GrowInv, Rings', KeepRing,
         before' = before, members' \in [Node -> SUBSET Node],
         \A m \in Node : members[m] \subseteq members'[m],
         \A m \in Node : \/ members'[m] = members[m]
                         \/ cur[m] = NoKey
                         \/ ~AmAuthority(m, members'[m]),
         NEW ch, Chans(ch, OwnMsg), chan' = ch
  PROVE  Secrets' /\ Chans(chan', OwnMsg')
  <1>1. Rings /\ Secrets
    BY DEF GrowInv, Typed
  <1>2. Secrets'
    BY <1>1, KeepKeepsSecrets DEF KeepRing
  <1>3. \A m \in Node : room_gen[m] <= room_gen'[m]
    BY <1>1 DEF KeepRing, ring_vars, Rings
  <1>4. \A p, q \in Node : OwnMsg[p][q] \subseteq OwnMsg'[p][q]
    BY <1>1, <1>3, OwnMsgGrows
  <1> QED BY <1>2, <1>4, ChansGrow

\* What is left of Rooms after a step of the engine of n that may extend its
\* list and cut links.
LEMMA EngineRooms ==
  ASSUME Rooms, Rings, NEW n \in room, UNCHANGED <<room, status, online, budget>>,
         members' \in [Node -> SUBSET Node], members'[n] \subseteq room \ {n},
         \A m \in Node : m # n => /\ members'[m] = members[m] /\ cur'[m] = cur[m]
                                  /\ known'[m] = known[m],
         members[n] \subseteq members'[n],
         link' \subseteq link
  PROVE  Rooms'
  BY DEF Rooms

LEMMA EngineOthers ==
  ASSUME Rings, Histories, NEW n \in Node, KeepRing \/ \E k : Adopt(n, k)
  PROVE  \A m \in Node : m # n => cur'[m] = cur[m] /\ known'[m] = known[m]
  BY DEF KeepRing, ring_vars, hist_vars, Adopt, Take, Rings, Histories

\* Taking the head of an inbox.
LEMMA ReceiveInboxes ==
  ASSUME Inboxes, NEW n \in Node, NEW t, Receive(n, t),
         \A m \in Node : m # n => members'[m] = members[m] /\ cur'[m] = cur[m]
  PROVE  /\ Inboxes'
         /\ Head(inbox[n]) \in ServerFrame /\ Head(inbox[n]).t = t
         /\ FrameInv(n, 1, Head(inbox[n]))
  <1>1. /\ inbox[n] # <<>> /\ Head(inbox[n]).t = t /\ room' = room
        /\ inbox' = [inbox EXCEPT ![n] = Tail(inbox[n])]
    BY DEF Receive
  <1>2. inbox[n] \in Seq(ServerFrame) /\ inbox \in [Node -> Seq(ServerFrame)]
    BY DEF Inboxes
  <1>3. Tail(inbox[n]) \in Seq(ServerFrame) /\ Head(inbox[n]) \in ServerFrame
    BY <1>1, <1>2, SeqTail
  <1>4. /\ inbox' \in [Node -> Seq(ServerFrame)]
        /\ inbox'[n] = Tail(inbox[n])
        /\ \A m \in Node : m # n => inbox'[m] = inbox[m]
    BY <1>1, <1>2, <1>3
  <1>5. FrameInv(n, 1, Head(inbox[n]))
    <2>1. 1 \in 1..Len(inbox[n]) /\ Head(inbox[n]) = inbox[n][1]
      BY <1>1, <1>2
    <2> QED BY <2>1 DEF Inboxes
  <1>6. ASSUME NEW m \in Node, NEW i \in 1..Len(inbox'[m])
        PROVE  FrameInv(m, i, inbox[m][i])'
    <2>1. CASE m = n
      <3>1. i + 1 \in 1..Len(inbox[n]) /\ inbox'[n][i] = inbox[n][i + 1] /\ i + 1 # 1
        BY <1>1, <1>2, <1>4, <1>6, <2>1
      <3>2. FrameInv(n, i + 1, inbox[n][i + 1])
        BY <3>1 DEF Inboxes
      <3> QED BY <1>1, <2>1, <3>1, <3>2 DEF FrameInv
    <2>2. CASE m # n
      <3>1. FrameInv(m, i, inbox[m][i]) /\ inbox'[m] = inbox[m]
        BY <1>4, <1>6, <2>2 DEF Inboxes
      <3> QED BY <1>1, <2>2, <3>1 DEF FrameInv
    <2> QED BY <2>1, <2>2
  <1> QED BY <1>1, <1>3, <1>4, <1>5, <1>6 DEF Inboxes

\* A step that leaves the inboxes alone and n, if its list or key changed,
\* has no Roster pending.
LEMMA SameInboxes ==
  ASSUME Inboxes, UNCHANGED <<inbox, members>>, room \subseteq room',
         \A m \in Node : cur'[m] = cur[m] \/ members[m] # {}
  PROVE  Inboxes'
  <1>1. ASSUME NEW m \in Node, NEW i \in 1..Len(inbox[m])
        PROVE  FrameInv(m, i, inbox[m][i])'
    BY <1>1 DEF Inboxes, FrameInv
  <1> QED BY <1>1 DEF Inboxes

LEMMA RosterGrows ==
  ASSUME GrowInv, NEW n \in Node, OnRoster(n)
  PROVE  GrowInv'
  <1> DEFINE peers == Head(inbox[n]).peers
             torn == (members[n] \ peers) \cup Offered(n, peers)
  <1>1. Receive(n, "Roster") /\ members' = [members EXCEPT ![n] = peers]
    BY DEF OnRoster
  <1>2. /\ n \in room /\ UNCHANGED <<room, status, online, budget>> /\ before' = before
    BY <1>1 DEF Receive, GrowInv, Rooms
  <1>3. /\ Rings /\ Histories /\ Rooms /\ Inboxes /\ Chans(chan, OwnMsg) /\ inbox[n] # <<>>
        /\ Head(inbox[n]).t = "Roster"
    BY <1>1 DEF GrowInv, Typed, Secrets, Receive
  <1>4. FrameInv(n, 1, Head(inbox[n]))
    <2>1. 1 \in 1..Len(inbox[n]) /\ Head(inbox[n]) = inbox[n][1]
      BY <1>3 DEF Inboxes
    <2> QED BY <1>3, <2>1 DEF Inboxes
  <1>5. members[n] = {} /\ cur[n] = NoKey /\ peers \subseteq room \ {n}
    BY <1>3, <1>4 DEF FrameInv
  <1> HIDE DEF peers
  <1>6. PICK keep \in BOOLEAN :
          /\ KeepRing
          /\ chan' = CutChan(n, torn, keep)
          /\ link' = link \ Pairs(n, torn)
    BY <1>5 DEF OnRoster, RotateIf, peers
  <1> HIDE DEF torn
  <1>7. /\ members' \in [Node -> SUBSET Node] /\ members'[n] = peers
        /\ \A m \in Node : m # n => members'[m] = members[m]
    BY <1>1, <1>3, <1>5 DEF Histories, Rooms
  <1>8. Typed'
    BY FrameTyped DEF GrowInv
  <1>9. Secrets' /\ Chans(chan', OwnMsg')
    <2>1. Chans(CutChan(n, torn, keep), OwnMsg)
      BY <1>3, CutAllowed
    <2> QED BY <1>2, <1>5, <1>6, <1>7, <1>8, <2>1, KeepGrows DEF Typed
  <1>10. \A m \in Node : m # n => cur'[m] = cur[m] /\ known'[m] = known[m]
    BY <1>3, <1>6, EngineOthers
  <1>11. Rooms'
    BY <1>2, <1>3, <1>5, <1>6, <1>7, <1>10, EngineRooms
  <1>12. Inboxes'
    BY <1>1, <1>3, <1>7, <1>10, ReceiveInboxes
  <1> QED BY <1>8, <1>9, <1>11, <1>12 DEF GrowInv

LEMMA JoinedGrows ==
  ASSUME GrowInv, NEW n \in Node, OnPeerJoined(n)
  PROVE  GrowInv'
  <1> DEFINE u == Head(inbox[n]).user
             mem == members[n] \cup {u}
             torn == Offered(n, {u})
  <1>1. Receive(n, "PeerJoined") /\ members' = [members EXCEPT ![n] = mem]
    BY DEF OnPeerJoined
  <1>2. /\ n \in room /\ UNCHANGED <<room, status, online, budget>> /\ before' = before
    BY <1>1 DEF Receive, GrowInv, Rooms
  <1>3. /\ Rings /\ Histories /\ Rooms /\ Inboxes /\ Chans(chan, OwnMsg) /\ inbox[n] # <<>>
        /\ Head(inbox[n]).t = "PeerJoined"
    BY <1>1 DEF GrowInv, Typed, Secrets, Receive
  <1>4. FrameInv(n, 1, Head(inbox[n]))
    <2>1. 1 \in 1..Len(inbox[n]) /\ Head(inbox[n]) = inbox[n][1]
      BY <1>3 DEF Inboxes
    <2> QED BY <1>3, <2>1 DEF Inboxes
  <1>5. u \in room \ {n}
    BY <1>3, <1>4 DEF FrameInv
  <1>6. PICK keep \in BOOLEAN :
          RotateIf(AmAuthority(n, mem) /\ cur[n] # NoKey, n, room_gen[n], mem,
                   link \ Pairs(n, torn), ForgetSess(n, torn), CutChan(n, torn, keep))
    BY DEF OnPeerJoined
  <1> HIDE DEF u, torn
  <1>7. mem \in SUBSET Node /\ mem \subseteq room \ {n} /\ members[n] \subseteq mem
    BY <1>3, <1>5 DEF Rooms
  <1> HIDE DEF mem
  <1>8. /\ members' \in [Node -> SUBSET Node] /\ members'[n] = mem
        /\ \A m \in Node : m # n => members'[m] = members[m]
    BY <1>1, <1>3, <1>7 DEF Histories
  <1>9. Typed'
    BY FrameTyped DEF GrowInv
  <1>10. Chans(CutChan(n, torn, keep), OwnMsg)
    BY <1>3, CutAllowed
  <1>11. link' = link \ Pairs(n, torn)
    BY <1>6 DEF RotateIf
  <1>12. CASE AmAuthority(n, mem) /\ cur[n] # NoKey
    <2>1. /\ Adopt(n, Mint(n, room_gen[n] + 1))
          /\ chan' = SendEach(CutChan(n, torn, keep), link \ Pairs(n, torn),
                              ForgetSess(n, torn), n, mem, KeyMsg(cur'[n]))
      BY <1>6, <1>12 DEF RotateIf
    <2>2. room_gen[n] \in Nat /\ room_gen[n] <= room_gen[n]
      BY <1>3 DEF Rings
    <2>3. link \ Pairs(n, torn) \subseteq link
      OBVIOUS
    <2>4. Rings'
      BY <1>9 DEF Typed
    <2>5. Secrets' /\ Chans(chan', OwnMsg')
      BY <1>2, <1>7, <1>8, <1>10, <2>1, <2>2, <2>3, <2>4, MintGrows
    <2>6. \A m \in Node : m # n => cur'[m] = cur[m] /\ known'[m] = known[m]
      BY <1>3, <2>1, EngineOthers
    <2>7. Rooms'
      BY <1>2, <1>3, <1>7, <1>8, <1>11, <2>6, EngineRooms
    <2>8. Inboxes'
      BY <1>1, <1>3, <1>8, <2>6, ReceiveInboxes
    <2> QED BY <1>9, <2>5, <2>7, <2>8 DEF GrowInv
  <1>13. CASE ~(AmAuthority(n, mem) /\ cur[n] # NoKey)
    <2>1. KeepRing /\ chan' = CutChan(n, torn, keep)
      BY <1>6, <1>13 DEF RotateIf
    <2>2. Rings'
      BY <1>9 DEF Typed
    <2>3. \A m \in Node : members[m] \subseteq members'[m]
      BY <1>7, <1>8
    <2>4. \A m \in Node : \/ members'[m] = members[m]
                          \/ cur[m] = NoKey
                          \/ ~AmAuthority(m, members'[m])
      BY <1>8, <1>13
    <2>5. Secrets' /\ Chans(chan', OwnMsg')
      BY <1>2, <1>8, <1>10, <2>1, <2>2, <2>3, <2>4, KeepGrows
    <2>6. \A m \in Node : m # n => cur'[m] = cur[m] /\ known'[m] = known[m]
      BY <1>3, <2>1, EngineOthers
    <2>7. Rooms'
      BY <1>2, <1>3, <1>7, <1>8, <1>11, <2>6, EngineRooms
    <2>8. Inboxes'
      BY <1>1, <1>3, <1>8, <2>6, ReceiveInboxes
    <2> QED BY <1>9, <2>5, <2>7, <2>8 DEF GrowInv
  <1> QED BY <1>12, <1>13

LEMMA RekeyGrows ==
  ASSUME GrowInv, NEW n \in Node, OnRekey(n)
  PROVE  GrowInv'
  <1> DEFINE torn == Offered(n, members[n])
  <1>1. Receive(n, "Rekey") /\ members' = members
    BY DEF OnRekey
  <1>2. /\ n \in room /\ UNCHANGED <<room, status, online, budget>> /\ before' = before
    BY <1>1 DEF Receive, GrowInv, Rooms
  <1>3. /\ Rings /\ Histories /\ Rooms /\ Inboxes /\ Chans(chan, OwnMsg)
    BY DEF GrowInv, Typed, Secrets
  <1>4. PICK keep \in BOOLEAN :
          RotateIf(AmAuthority(n, members[n]), n, room_gen[n], members[n],
                   link \ Pairs(n, torn), sess, CutChan(n, torn, keep))
    BY DEF OnRekey
  <1> HIDE DEF torn
  <1>5. /\ members' \in [Node -> SUBSET Node] /\ members'[n] \subseteq room \ {n}
        /\ \A m \in Node : members'[m] = members[m]
    BY <1>1, <1>3 DEF Histories, Rooms
  <1>6. Typed'
    BY FrameTyped DEF GrowInv
  <1>7. Chans(CutChan(n, torn, keep), OwnMsg)
    BY <1>3, CutAllowed
  <1>8. link' = link \ Pairs(n, torn)
    BY <1>4 DEF RotateIf
  <1>9. \/ /\ Adopt(n, Mint(n, room_gen[n] + 1))
           /\ chan' = SendEach(CutChan(n, torn, keep), link \ Pairs(n, torn),
                               sess, n, members[n], KeyMsg(cur'[n]))
        \/ KeepRing /\ chan' = CutChan(n, torn, keep)
    BY <1>4 DEF RotateIf
  <1>10. Secrets' /\ Chans(chan', OwnMsg')
    <2>1. room_gen[n] \in Nat /\ room_gen[n] <= room_gen[n]
      BY <1>3 DEF Rings
    <2>2. link \ Pairs(n, torn) \subseteq link
      OBVIOUS
    <2>3. Rings'
      BY <1>6 DEF Typed
    <2>4. CASE KeepRing /\ chan' = CutChan(n, torn, keep)
      BY <1>2, <1>5, <1>7, <2>3, <2>4, KeepGrows
    <2>5. CASE /\ Adopt(n, Mint(n, room_gen[n] + 1))
               /\ chan' = SendEach(CutChan(n, torn, keep), link \ Pairs(n, torn),
                                   sess, n, members[n], KeyMsg(cur'[n]))
      BY <1>2, <1>5, <1>7, <2>1, <2>2, <2>3, <2>5, MintGrows
    <2> QED BY <1>9, <2>4, <2>5
  <1>11. \A m \in Node : m # n => cur'[m] = cur[m] /\ known'[m] = known[m]
    BY <1>3, <1>9, EngineOthers
  <1>12. Rooms'
    BY <1>2, <1>3, <1>5, <1>8, <1>11, EngineRooms
  <1>13. Inboxes'
    BY <1>1, <1>3, <1>5, <1>11, ReceiveInboxes
  <1> QED BY <1>6, <1>10, <1>12, <1>13 DEF GrowInv

\* Nobody leaves.
LEMMA LeftNever ==
  ASSUME GrowInv, NEW n \in Node
  PROVE  ~OnPeerLeft(n)
  <1> SUFFICES ASSUME OnPeerLeft(n) PROVE FALSE
    OBVIOUS
  <1>1. inbox[n] # <<>> /\ Head(inbox[n]).t = "PeerLeft"
    BY DEF OnPeerLeft, Receive
  <1>2. Head(inbox[n]) \in ServerFrame
    BY <1>1, SeqTail DEF GrowInv, Inboxes
  <1> QED BY <1>1, <1>2 DEF ServerFrame

\* A step of the engine of n that changes neither lists nor links nor inboxes,
\* on an event of a member.
LEMMA QuietRooms ==
  ASSUME GrowInv, NEW n \in room, members[n] # {},
         UNCHANGED <<server_vars, members, budget>>, link' \subseteq link,
         \A m \in Node : m # n => cur'[m] = cur[m] /\ known'[m] = known[m]
  PROVE  Rooms' /\ Inboxes'
  <1>1. /\ UNCHANGED <<room, inbox, status, online>> /\ members' = members /\ budget' = budget
        /\ members \in [Node -> SUBSET Node] /\ Rooms /\ Rings /\ Inboxes /\ n \in Node
    BY DEF server_vars, GrowInv, Typed, Secrets, Histories, Rooms
  <1>2. members[n] \subseteq room \ {n}
    BY <1>1 DEF Rooms
  <1>3. Rooms'
    BY <1>1, <1>2, EngineRooms
  <1>4. Inboxes'
    BY <1>1, SameInboxes
  <1> QED BY <1>3, <1>4

LEMMA SecureGrows ==
  ASSUME GrowInv, NEW n \in Node, NEW p \in Node,
         OnSecureAuthority(n, p) \/ OnSecureMember(n, p)
  PROVE  GrowInv'
  <1>1. /\ status[n] = "in" /\ chan[p][n] # <<>> /\ link' = link
        /\ UNCHANGED <<server_vars, members, before, budget>>
    BY DEF OnSecureAuthority, OnSecureMember, Event
  <1>2. /\ Rings /\ Secrets /\ Histories /\ Chans(chan, OwnMsg) /\ Rooms /\ n \in room
    BY <1>1 DEF GrowInv, Typed, Secrets, Rooms
  <1>3. p \in members[n] /\ Chans(Rest(n, p), OwnMsg)
    BY <1>1, <1>2, EventFromMember
  <1>4. Typed' /\ Rings'
    BY EventTyped DEF GrowInv, Typed
  <1>5. members' \in [Node -> SUBSET Node] /\ members' = members /\ before' = before
    BY <1>1, <1>2 DEF Histories
  <1>6. CASE OnSecureAuthority(n, p) /\ cur[n] = NoKey
    <2>1. /\ Adopt(n, Mint(n, MaxOf(room_gen[n], 1)))
          /\ chan' = SendEach(Rest(n, p), link, sess, n, {p}, KeyMsg(cur'[n]))
      BY <1>6 DEF OnSecureAuthority
    <2>2. room_gen[n] = 0
      BY <1>2, <1>6 DEF Secrets, Counted
    <2>3. MaxOf(room_gen[n], 1) = 0 + 1
      BY <2>2 DEF MaxOf
    <2>4. Adopt(n, Mint(n, 0 + 1)) /\ room_gen[n] <= 0
      BY <2>1, <2>2, <2>3
    <2>5. Secrets' /\ Chans(chan', OwnMsg')
      BY <1>3, <1>4, <1>5, <2>1, <2>4, MintGrows
    <2>6. \A m \in Node : m # n => cur'[m] = cur[m] /\ known'[m] = known[m]
      BY <1>2, <2>1, EngineOthers
    <2>7. Rooms' /\ Inboxes'
      BY <1>1, <1>2, <1>3, <2>6, QuietRooms
    <2> QED BY <1>4, <2>5, <2>7 DEF GrowInv
  <1>7. CASE ~(OnSecureAuthority(n, p) /\ cur[n] = NoKey)
    <2>1. KeepRing
      BY <1>7 DEF OnSecureAuthority, OnSecureMember
    <2>2. \A m \in Node : cur'[m] = cur[m] /\ known'[m] = known[m]
      BY <2>1 DEF KeepRing, ring_vars, hist_vars
    <2>3. Chans(chan', OwnMsg)
      <3>1. CASE OnSecureAuthority(n, p)
        <4>1. /\ chan' = SendEach(Rest(n, p), link, sess, n, {p}, KeyMsg(cur[n]))
              /\ AmAuthority(n, members[n]) /\ cur[n] # NoKey
          BY <1>7, <2>2, <3>1 DEF OnSecureAuthority
        <4>2. cur[n] \in Key /\ cur[n].auth = n /\ cur[n].gen <= room_gen[n]
          BY <1>2, <4>1 DEF Secrets, Newest, Counted, Rings
        <4>3. ASSUME NEW q \in Node, q \in {p} \cap sess[n], <<n, q>> \in link \/ <<q, n>> \in link
              PROVE  KeyMsg(cur[n]) \in OwnMsg[n][q]
          <5>1. q \in members[n] /\ n \in members[q]
            BY <1>2, <4>3 DEF Rooms
          <5>2. cur[n] \notin before[q]
            <6>1. ASSUME cur[n] \in before[q] PROVE FALSE
              <7>1. cur[n].gen < cur[n].gen
                BY <1>2, <4>1, <4>2, <5>1, <6>1 DEF Secrets, Newest
              <7> QED BY <4>2, <7>1, KeyFacts
            <6> QED BY <6>1
          <5>3. cur[n] \in OwnKeys(n, q)
            BY <4>2, <5>2 DEF OwnKeys
          <5>4. KeyMsg(cur[n]) \in Sent(OwnKeys(n, q))
            BY <5>3, SentFacts
          <5> QED BY <5>1, <5>4 DEF OwnMsg
        <4> QED BY <1>3, <4>1, <4>3, SendAllowed
      <3>2. CASE OnSecureMember(n, p)
        <4>1. \/ chan' = Rest(n, p)
              \/ /\ cur[n] # NoKey
                 /\ chan' = SendEach(Rest(n, p), link, sess, n, {p}, GenMsg(cur[n].gen))
          BY <3>2 DEF OnSecureMember
        <4>2. ASSUME NEW q \in Node, cur[n] # NoKey, <<n, q>> \in link \/ <<q, n>> \in link
              PROVE  GenMsg(cur[n].gen) \in OwnMsg[n][q]
          <5>1. n \in members[q]
            BY <1>2, <4>2 DEF Rooms
          <5>2. cur[n].gen \in Nat
            BY <1>2, <4>2, KeyFacts DEF Rings
          <5>3. GenMsg(cur[n].gen) \in Sent(OwnKeys(n, q))
            BY <5>2, SentFacts
          <5> QED BY <5>1, <5>3 DEF OwnMsg
        <4> QED BY <1>3, <4>1, <4>2, SendAllowed
      <3> QED BY <3>1, <3>2
    <2>4. Secrets' /\ Chans(chan', OwnMsg')
      BY <1>4, <1>5, <2>1, <2>3, KeepGrows
    <2>5. Rooms' /\ Inboxes'
      BY <1>1, <1>2, <1>3, <2>2, QuietRooms
    <2> QED BY <1>4, <2>4, <2>5 DEF GrowInv
  <1> QED BY <1>6, <1>7

LEMMA RoomKeyGrows ==
  ASSUME GrowInv, NEW n \in Node, NEW p \in Node, OnRoomKey(n, p)
  PROVE  GrowInv'
  <1> DEFINE r == Head(chan[p][n]).key
             k == [gen |-> r.gen, auth |-> p]
  <1>1. /\ status[n] = "in" /\ chan[p][n] # <<>> /\ link' = link
        /\ Head(chan[p][n]).t = "RoomKey"
        /\ UNCHANGED <<server_vars, members, before, budget>>
        /\ chan' = Rest(n, p)
    BY DEF OnRoomKey, Event
  <1>2. /\ Rings /\ Secrets /\ Histories /\ Chans(chan, OwnMsg) /\ Rooms /\ n \in room
    BY <1>1 DEF GrowInv, Typed, Secrets, Rooms
  <1>3. /\ p \in members[n] /\ Chans(Rest(n, p), OwnMsg)
        /\ Head(chan[p][n]) \in Sent(OwnKeys(p, n))
    BY <1>1, <1>2, EventFromMember
  <1>4. Typed' /\ Rings'
    BY EventTyped DEF GrowInv, Typed
  <1>5. members' \in [Node -> SUBSET Node] /\ members' = members /\ before' = before
    BY <1>1, <1>2 DEF Histories
  <1>6. r \in OwnKeys(p, n)
    BY <1>1, <1>3, SentFacts
  <1>7. k = r /\ k \in Key /\ k.auth = p /\ k.gen <= room_gen[p] /\ k \notin before[n]
    BY <1>6 DEF OwnKeys, Key
  <1>8. (Adopt(n, k) /\ IsAuthorityPeer(p, n, members[n])) \/ KeepRing
    BY DEF OnRoomKey
  <1> HIDE DEF k, r
  <1>9. CASE IsAuthorityPeer(p, n, members[n]) /\ Adopt(n, k) /\ Better(k, cur[n])
    <2>1. Take(n, k)
      BY <1>9 DEF Adopt
    <2>2. ~AmAuthority(n, members'[n])
      <3>1. p < n /\ p \in members[n] /\ p \in Nat /\ n \in Nat
        BY <1>3, <1>9, RoomAudioConstants DEF IsAuthorityPeer
      <3>2. ~(n < p)
        BY <3>1
      <3> QED BY <1>5, <3>1, <3>2 DEF AmAuthority
    <2>3. Secrets'
      BY <1>2, <1>5, <1>7, <1>9, <2>1, <2>2, TakeKeepsSecrets
    <2>4. \A m \in Node : room_gen[m] <= room_gen'[m]
      <3>1. \A m \in Node : room_gen[m] \in Nat
        BY <1>2 DEF Rings
      <3>2. room_gen' = [room_gen EXCEPT ![n] = MaxOf(room_gen[n], k.gen)]
        BY <2>1 DEF Take
      <3>3. k.gen \in Nat
        BY <1>7, KeyFacts
      <3>4. room_gen[n] <= MaxOf(room_gen[n], k.gen)
        BY <3>1, <3>3 DEF MaxOf
      <3> QED BY <1>2, <3>1, <3>2, <3>4 DEF Rings
    <2>5. Chans(chan', OwnMsg')
      <3>1. \A a, b \in Node : OwnMsg[a][b] \subseteq OwnMsg'[a][b]
        BY <1>2, <1>4, <1>5, <2>4, OwnMsgGrows
      <3> QED BY <1>1, <1>3, <3>1, ChansGrow
    <2>6. \A m \in Node : m # n => cur'[m] = cur[m] /\ known'[m] = known[m]
      BY <1>2, <1>9, EngineOthers
    <2>7. Rooms' /\ Inboxes'
      BY <1>1, <1>2, <1>3, <2>6, QuietRooms
    <2> QED BY <1>4, <2>3, <2>5, <2>7 DEF GrowInv
  <1>10. CASE ~(IsAuthorityPeer(p, n, members[n]) /\ Adopt(n, k) /\ Better(k, cur[n]))
    <2>1. KeepRing
      BY <1>8, <1>10 DEF Adopt
    <2>2. \A m \in Node : cur'[m] = cur[m] /\ known'[m] = known[m]
      BY <2>1 DEF KeepRing, ring_vars, hist_vars
    <2>3. Secrets' /\ Chans(chan', OwnMsg')
      BY <1>1, <1>3, <1>4, <1>5, <2>1, KeepGrows
    <2>4. Rooms' /\ Inboxes'
      BY <1>1, <1>2, <1>3, <2>2, QuietRooms
    <2> QED BY <1>4, <2>3, <2>4 DEF GrowInv
  <1> QED BY <1>9, <1>10

LEMMA RoomGenGrows ==
  ASSUME GrowInv, NEW n \in Node, NEW p \in Node, OnRoomGen(n, p)
  PROVE  GrowInv'
  <1> DEFINE g == Head(chan[p][n]).key.gen
  <1>1. /\ status[n] = "in" /\ chan[p][n] # <<>> /\ link' = link
        /\ Head(chan[p][n]).t = "RoomGen"
        /\ UNCHANGED <<server_vars, members, before, budget>>
    BY DEF OnRoomGen, Event, RotateIf
  <1>2. /\ Rings /\ Secrets /\ Histories /\ Chans(chan, OwnMsg) /\ Rooms /\ n \in room
    BY <1>1 DEF GrowInv, Typed, Secrets, Rooms
  <1>3. /\ p \in members[n] /\ Chans(Rest(n, p), OwnMsg)
        /\ Head(chan[p][n]) \in Sent(OwnKeys(p, n))
    BY <1>1, <1>2, EventFromMember
  <1>4. Typed' /\ Rings'
    BY EventTyped DEF GrowInv, Typed
  <1>5. members' \in [Node -> SUBSET Node] /\ members' = members /\ before' = before
    BY <1>1, <1>2 DEF Histories
  <1>6. g \in Nat /\ room_gen[n] \in Nat
    BY <1>1, <1>2, <1>3, SentFacts DEF Rings
  <1>7. \/ /\ g > room_gen[n]
           /\ Adopt(n, Mint(n, g + 1))
           /\ chan' = SendEach(Rest(n, p), link, sess, n, members[n], KeyMsg(cur'[n]))
        \/ KeepRing /\ chan' = Rest(n, p)
    BY DEF OnRoomGen, RotateIf
  <1> HIDE DEF g
  <1>8. Secrets' /\ Chans(chan', OwnMsg')
    <2>1. CASE KeepRing /\ chan' = Rest(n, p)
      BY <1>3, <1>4, <1>5, <2>1, KeepGrows
    <2>2. CASE /\ g > room_gen[n]
               /\ Adopt(n, Mint(n, g + 1))
               /\ chan' = SendEach(Rest(n, p), link, sess, n, members[n], KeyMsg(cur'[n]))
      <3>1. room_gen[n] <= g
        BY <1>6, <2>2
      <3> QED BY <1>3, <1>4, <1>5, <1>6, <2>2, <3>1, MintGrows
    <2> QED BY <1>7, <2>1, <2>2
  <1>9. \A m \in Node : m # n => cur'[m] = cur[m] /\ known'[m] = known[m]
    BY <1>2, <1>7, EngineOthers
  <1>10. Rooms' /\ Inboxes'
    BY <1>1, <1>2, <1>3, <1>9, QuietRooms
  <1> QED BY <1>4, <1>8, <1>10 DEF GrowInv

LEMMA PromoteGrows ==
  ASSUME GrowInv, NEW n \in Node, NEW g, OnPromote(n, g), Typed'
  PROVE  GrowInv'
  <1>1. /\ UNCHANGED <<server_vars, members, cur, prev, room_gen, mesh_vars, known, before, budget>>
        /\ Rings /\ Rings' /\ Secrets
    BY DEF OnPromote, GrowInv, Typed
  <1>2. Secrets'
    BY <1>1, PromoteKeepsSecrets
  <1>3. Rooms'
    BY <1>1 DEF GrowInv, Rooms, server_vars, mesh_vars
  <1>4. Inboxes'
    BY <1>1, SameInboxes DEF GrowInv, server_vars
  <1>5. Chans(chan', OwnMsg')
    BY <1>1 DEF GrowInv, OwnMsg, OwnKeys, mesh_vars
  <1> QED BY <1>2, <1>3, <1>4, <1>5 DEF GrowInv

\* Links come and go between members.
LEMMA LinkGrows ==
  ASSUME GrowInv, NEW i \in Node, NEW j \in Node,
         Connect(i, j) \/ ReplyArrives(i, j) \/ LinkFails(i, j), Typed'
  PROVE  GrowInv'
  <1>1. /\ UNCHANGED <<server_vars, members, ring_vars, hist_vars, before>>
        /\ Rings /\ Secrets /\ Histories /\ Rooms /\ Inboxes /\ Chans(chan, OwnMsg) /\ Rings'
    BY DEF Connect, ReplyArrives, LinkFails, GrowInv, Typed, Secrets
  <1>2. Secrets'
    BY <1>1, KeepKeepsSecrets DEF Histories
  <1>3. \A p, n \in Node : p \in members[n] => Secure \in OwnMsg[p][n] /\ Reply \in OwnMsg[p][n]
    BY SentFacts DEF OwnMsg
  <1>4. Chans(chan', OwnMsg)
    <2>1. CASE Connect(i, j)
      <3>1. j \in members[i] /\ i \in members[j]
        BY <2>1 DEF Connect
      <3> QED BY <1>1, <1>3, <2>1, <3>1, ConnectAllowed
    <2>2. CASE ReplyArrives(i, j)
      <3>1. Reply \in OwnMsg[j][i] => Secure \in OwnMsg[j][i]
        BY <1>3 DEF OwnMsg
      <3> QED BY <1>1, <2>2, <3>1, ReplyAllowed
    <2>3. CASE LinkFails(i, j)
      BY <1>1, <2>3, CutAllowed DEF LinkFails
    <2> QED BY <2>1, <2>2, <2>3
  <1>5. Chans(chan', OwnMsg')
    BY <1>1, <1>4 DEF OwnMsg, OwnKeys, ring_vars
  <1>6. Rooms'
    <2>1. /\ room' = room /\ status' = status /\ online' = online /\ members' = members
          /\ cur' = cur /\ known' = known
      BY <1>1 DEF server_vars, ring_vars, hist_vars
    <2>2. \A a, b \in Node : <<a, b>> \in link' => b \in members[a] /\ a \in members[b]
      <3>1. CASE Connect(i, j)
        <4>1. link' = link \cup {<<i, j>>} /\ j \in members[i] /\ i \in members[j]
          BY <3>1 DEF Connect
        <4> QED BY <1>1, <4>1 DEF Rooms
      <3>2. CASE ReplyArrives(i, j)
        BY <1>1, <3>2 DEF ReplyArrives, Rooms
      <3>3. CASE LinkFails(i, j)
        BY <1>1, <3>3 DEF LinkFails, Rooms
      <3> QED BY <3>1, <3>2, <3>3
    <2>3. budget' \in ScenarioType /\ budget'.leavers = {} /\ budget'.reconnects = 0
      <3>1. CASE LinkFails(i, j)
        <4>1. budget.fails \in Nat /\ budget.fails > 0
          BY <1>1, <3>1 DEF Rooms, ScenarioType, LinkFails
        <4>2. budget.fails - 1 \in Nat
          BY <4>1
        <4> QED BY <1>1, <3>1, <4>2 DEF Rooms, ScenarioType, LinkFails
      <3>2. CASE ~LinkFails(i, j)
        BY <1>1, <3>2 DEF Rooms, Connect, ReplyArrives
      <3> QED BY <3>1, <3>2
    <2> QED BY <1>1, <2>1, <2>2, <2>3 DEF Rooms
  <1>7. Inboxes'
    BY <1>1, SameInboxes DEF server_vars, ring_vars
  <1> QED BY <1>2, <1>5, <1>6, <1>7 DEF GrowInv

\* A frame appended by the server.
LEMMA TellInboxes ==
  ASSUME Inboxes, NEW n, NEW f \in ServerFrame, f.t # "Roster"
  PROVE  /\ Tell(n, f) \in [Node -> Seq(ServerFrame)]
         /\ \A m \in Node : \A i \in 1..Len(Tell(n, f)[m]) :
              \/ i \in 1..Len(inbox[m]) /\ Tell(n, f)[m][i] = inbox[m][i]
              \/ Tell(n, f)[m][i] = f /\ m \in room \ {n}
  <1> DEFINE told(k) == k \in (room \cap online) \ {n}
             new == Tell(n, f)
  <1>1. new = [k \in Node |-> IF told(k) THEN Append(inbox[k], f) ELSE inbox[k]]
    BY DEF Tell
  <1>2. ASSUME NEW m \in Node
        PROVE  /\ new[m] \in Seq(ServerFrame)
               /\ \A i \in 1..Len(new[m]) :
                    \/ i \in 1..Len(inbox[m]) /\ new[m][i] = inbox[m][i]
                    \/ new[m][i] = f /\ m \in room \ {n}
    <2>1. inbox[m] \in Seq(ServerFrame)
      BY DEF Inboxes
    <2>2. CASE told(m)
      <3>1. new[m] = Append(inbox[m], f)
        BY <1>1, <2>2
      <3> HIDE DEF new
      <3>2. new[m] \in Seq(ServerFrame)
        BY <2>1, <3>1, SeqAppend
      <3>3. ASSUME NEW i \in 1..Len(new[m])
            PROVE  \/ i \in 1..Len(inbox[m]) /\ new[m][i] = inbox[m][i]
                   \/ new[m][i] = f
        BY <2>1, <3>1, <3>3
      <3> QED BY <2>2, <3>2, <3>3
    <2>3. CASE ~told(m)
      BY <1>1, <2>1, <2>3
    <2> QED BY <2>2, <2>3
  <1>3. DOMAIN new = Node /\ new = [k \in Node |-> new[k]]
    BY <1>1
  <1> HIDE DEF new
  <1>4. new \in [Node -> Seq(ServerFrame)]
    BY <1>2, <1>3
  <1> QED BY <1>2, <1>4 DEF new

LEMMA JoinGrows ==
  ASSUME GrowInv, NEW n \in Node, JoinRoom(n), Typed'
  PROVE  GrowInv'
  <1>1. /\ UNCHANGED <<members, ring_vars, mesh_vars, hist_vars, budget>>
        /\ n \notin room /\ room' = room \cup {n} /\ online' = online \cup {n}
        /\ status' = [status EXCEPT ![n] = "in"]
        /\ before' = [before EXCEPT ![n] = sealed]
        /\ inbox' = [Tell(n, PeerJoined(n)) EXCEPT ![n] = <<Roster(room)>>]
    BY DEF JoinRoom, GrowInv, Rooms
  <1>2. /\ Rings /\ Rings' /\ Secrets /\ Histories /\ Held /\ Foreign /\ Newest
        /\ Rooms /\ Inboxes /\ Chans(chan, OwnMsg)
    BY DEF GrowInv, Typed, Secrets
  <1>3. /\ members' = members /\ cur' = cur /\ prev' = prev /\ send' = send
        /\ room_gen' = room_gen /\ known' = known /\ sealed' = sealed /\ chan' = chan
        /\ link' = link
    BY <1>1 DEF ring_vars, mesh_vars, hist_vars
  <1>4. members[n] = {} /\ cur[n] = NoKey /\ known[n] = {} /\ room_gen[n] = 0
    BY <1>1, <1>2 DEF Rooms, Secrets, Counted
  <1>5. /\ before' \in [Node -> SUBSET (Key \cup {NoKey})]
        /\ before'[n] = sealed
        /\ \A m \in Node : m # n => before'[m] = before[m]
    BY <1>1, <1>2 DEF Histories
  <1>6. Histories'
    BY <1>2, <1>3, <1>5 DEF Histories
  <1>7. Held'
    <2>1. \A m \in Node : HeldKeys(m)' = HeldKeys(m)
      BY <1>3 DEF HeldKeys, Ring
    <2> QED BY <1>2, <1>3, <1>4, <1>5, <2>1 DEF Held
  <1>8. Foreign'
    <2>1. ASSUME NEW k \in sealed \ {NoKey}, k.auth = n PROVE FALSE
      <3>1. k \in Key /\ k.gen <= room_gen[n]
        BY <1>2, <2>1 DEF Held, Histories
      <3> QED BY <1>4, <3>1, KeyFacts
    <2> QED BY <1>2, <1>3, <1>5, <2>1 DEF Foreign
  <1>9. Counted'
    BY <1>2, <1>3 DEF Secrets, Counted
  <1>10. Newest'
    <2>1. \A a \in Node : n \notin members[a]
      BY <1>1, <1>2 DEF Rooms
    <2>2. \A a \in Node : \A m \in members[a] : m \in Node /\ before'[m] = before[m]
      BY <1>2, <1>5, <2>1 DEF Histories
    <2> QED BY <1>2, <1>3, <2>2 DEF Newest
  <1>11. Secrets'
    BY <1>6, <1>7, <1>8, <1>9, <1>10 DEF Secrets
  <1>12. Rooms'
    <2>1. status' \in [Node -> {"out", "in"}] /\ status'[n] = "in"
          /\ \A m \in Node : m # n => status'[m] = status[m]
      BY <1>1, <1>2 DEF Rooms
    <2>2. budget' = budget
      BY <1>1
    <2> QED BY <1>1, <1>2, <1>3, <2>1, <2>2 DEF Rooms
  <1>13. Chans(chan', OwnMsg')
    <2>1. \A m \in Node : room_gen[m] <= room_gen'[m]
      BY <1>2, <1>3 DEF Rings
    <2>2. \A a, b \in Node : OwnMsg[a][b] \subseteq OwnMsg'[a][b]
      BY <1>2, <1>3, <1>4, <1>5, <2>1, OwnMsgGrows
    <2> QED BY <1>2, <1>3, <2>2, ChansGrow
  <1>14. Inboxes'
    <2> DEFINE new == Tell(n, PeerJoined(n))
    <2>1. PeerJoined(n) \in ServerFrame /\ PeerJoined(n).t = "PeerJoined" /\ PeerJoined(n).user = n
      BY RoomAudioConstants DEF PeerJoined, ServerFrame
    <2>2. /\ new \in [Node -> Seq(ServerFrame)]
          /\ \A m \in Node : \A i \in 1..Len(new[m]) :
                \/ i \in 1..Len(inbox[m]) /\ new[m][i] = inbox[m][i]
                \/ new[m][i] = PeerJoined(n) /\ m \in room \ {n}
      BY <1>2, <2>1, TellInboxes
    <2>3. Roster(room) \in ServerFrame /\ Roster(room).t = "Roster" /\ Roster(room).peers = room
      BY <1>2 DEF Roster, ServerFrame, Rooms
    <2> HIDE DEF new
    <2>4. <<Roster(room)>> \in Seq(ServerFrame)
      BY <2>3
    <2>5. /\ inbox' \in [Node -> Seq(ServerFrame)]
          /\ inbox'[n] = <<Roster(room)>>
          /\ \A m \in Node : m # n => inbox'[m] = new[m]
      BY <1>1, <2>2, <2>4 DEF new
    <2>6. ASSUME NEW m \in Node, NEW i \in 1..Len(inbox'[m])
          PROVE  FrameInv(m, i, inbox[m][i])'
      <3>1. CASE m = n
        <4>1. i = 1 /\ inbox'[m][i] = Roster(room)
          <5>1. inbox'[m] = <<Roster(room)>>
            BY <2>5, <3>1
          <5>2. i \in 1..Len(<<Roster(room)>>)
            BY <2>6, <5>1
          <5>3. i = 1
            BY <5>2
          <5> QED BY <5>1, <5>3
        <4> QED BY <1>1, <1>3, <1>4, <2>3, <3>1, <4>1 DEF FrameInv
      <3>2. CASE m # n
        <4>1. \/ i \in 1..Len(inbox[m]) /\ inbox'[m][i] = inbox[m][i]
              \/ inbox'[m][i] = PeerJoined(n) /\ m \in room \ {n}
          BY <2>2, <2>5, <2>6, <3>2
        <4>2. CASE i \in 1..Len(inbox[m]) /\ inbox'[m][i] = inbox[m][i]
          <5>1. FrameInv(m, i, inbox[m][i])
            BY <1>2, <4>2 DEF Inboxes
          <5> QED BY <1>1, <1>3, <4>2, <5>1 DEF FrameInv
        <4>3. CASE inbox'[m][i] = PeerJoined(n) /\ m \in room \ {n}
          BY <1>1, <2>1, <3>2, <4>3 DEF FrameInv
        <4> QED BY <4>1, <4>2, <4>3
      <3> QED BY <3>1, <3>2
    <2> QED BY <2>5, <2>6 DEF Inboxes
  <1> QED BY <1>11, <1>12, <1>13, <1>14 DEF GrowInv

LEMMA AskGrows ==
  ASSUME GrowInv, RekeyRoom, Typed'
  PROVE  GrowInv'
  <1>1. /\ UNCHANGED <<room, status, online, members, ring_vars, mesh_vars, hist_vars, before>>
        /\ inbox' = Tell(0, Rekey)
        /\ budget' = [budget EXCEPT !.rekeys = budget.rekeys - 1]
        /\ budget.rekeys > 0
    BY DEF RekeyRoom
  <1>2. /\ Rings /\ Rings' /\ Secrets /\ Histories /\ Rooms /\ Inboxes /\ Chans(chan, OwnMsg)
    BY DEF GrowInv, Typed, Secrets
  <1>3. Secrets'
    BY <1>1, <1>2, KeepKeepsSecrets DEF Histories
  <1>4. Chans(chan', OwnMsg')
    BY <1>1, <1>2 DEF OwnMsg, OwnKeys, ring_vars, mesh_vars
  <1>5. Rooms'
    <2>1. budget' \in ScenarioType /\ budget'.leavers = {} /\ budget'.reconnects = 0
      <3>1. budget.rekeys \in Nat
        BY <1>2 DEF Rooms, ScenarioType
      <3>2. budget.rekeys - 1 \in Nat
        BY <1>1, <3>1
      <3> QED BY <1>1, <1>2, <3>2 DEF Rooms, ScenarioType
    <2> QED BY <1>1, <1>2, <2>1 DEF Rooms, ring_vars, mesh_vars, hist_vars
  <1>6. Inboxes'
    <2>1. Rekey \in ServerFrame /\ Rekey.t = "Rekey"
      BY DEF Rekey, ServerFrame
    <2>2. /\ inbox' \in [Node -> Seq(ServerFrame)]
          /\ \A m \in Node : \A i \in 1..Len(inbox'[m]) :
                \/ i \in 1..Len(inbox[m]) /\ inbox'[m][i] = inbox[m][i]
                \/ inbox'[m][i] = Rekey
      BY <1>1, <1>2, <2>1, TellInboxes
    <2>3. ASSUME NEW m \in Node, NEW i \in 1..Len(inbox'[m])
          PROVE  FrameInv(m, i, inbox[m][i])'
      <3>1. CASE i \in 1..Len(inbox[m]) /\ inbox'[m][i] = inbox[m][i]
        <4>1. FrameInv(m, i, inbox[m][i])
          BY <1>2, <3>1 DEF Inboxes
        <4> QED BY <1>1, <3>1, <4>1 DEF FrameInv, ring_vars
      <3>2. CASE inbox'[m][i] = Rekey
        BY <2>1, <3>2 DEF FrameInv
      <3> QED BY <2>2, <2>3, <3>1, <3>2
    <2> QED BY <2>2, <2>3 DEF Inboxes
  <1> QED BY <1>3, <1>4, <1>5, <1>6 DEF GrowInv

LEMMA StepGrows ==
  ASSUME GrowInv, [Next]_vars
  PROVE  GrowInv'
  <1>1. Typed'
    BY StepTyped DEF GrowInv
  <1>2. ASSUME NEW n \in Node, Handle(n) PROVE GrowInv'
    <2>1. CASE OnRoster(n) \/ OnPeerJoined(n) \/ OnPeerLeft(n) \/ OnRekey(n)
      BY <2>1, RosterGrows, JoinedGrows, LeftNever, RekeyGrows
    <2>2. CASE \E p \in Node : \/ OnSecureAuthority(n, p) \/ OnSecureMember(n, p)
                               \/ OnRoomKey(n, p) \/ OnRoomGen(n, p)
      BY <2>2, SecureGrows, RoomKeyGrows, RoomGenGrows
    <2>3. CASE \E p \in Node : ReplyArrives(n, p) \/ Connect(n, p)
      BY <1>1, <2>3, LinkGrows
    <2>4. CASE \E g : OnPromote(n, g)
      BY <1>1, <2>4, PromoteGrows
    <2> QED BY <1>2, <2>1, <2>2, <2>3, <2>4 DEF Handle
  <1>3. ASSUME NEW n \in Node
        PROVE  ~LeaveRoom(n) /\ ~SignalingLost(n) /\ ~ServerNotices(n) /\ ~Rejoin(n)
    BY DEF LeaveRoom, SignalingLost, ServerNotices, Rejoin, GrowInv, Rooms
  <1>4. ASSUME NEW n \in Node, JoinRoom(n) \/ \E p \in Node : LinkFails(n, p) PROVE GrowInv'
    BY <1>1, <1>4, JoinGrows, LinkGrows
  <1>5. CASE RekeyRoom
    BY <1>1, <1>5, AskGrows
  <1>6. CASE UNCHANGED vars
    <2>1. Secrets'
      BY <1>6 DEF vars, GrowInv, Secrets, Histories, Held, HeldKeys, Foreign, Counted, Newest, Ring
    <2>2. Rooms' /\ Inboxes'
      BY <1>6 DEF vars, GrowInv, Rooms, Inboxes, FrameInv
    <2>3. Chans(chan', OwnMsg')
      BY <1>6 DEF vars, GrowInv, OwnMsg, OwnKeys
    <2> QED BY <1>1, <2>1, <2>2, <2>3 DEF GrowInv
  <1> QED BY <1>2, <1>3, <1>4, <1>5, <1>6 DEF Next

LEMMA EmptyRing == \A c : Ring(c, <<>>) = {c} \ {NoKey}
  BY DEF Ring

LEMMA InitGrows ==
  ASSUME OnlyGrows, Init
  PROVE  GrowInv
  <1>1. PICK sc \in Scenario : InitWith(sc.founders) /\ budget = sc
    BY DEF Init
  <1> DEFINE F == sc.founders
  <1>2. F \in SUBSET Node /\ sc \in ScenarioType
    BY GroupConstants DEF ScenarioType
  <1>3. budget \in ScenarioType /\ budget.leavers = {} /\ budget.reconnects = 0
    BY <1>1, <1>2 DEF OnlyGrows
  <1> HIDE DEF F
  <1>4. InitWith(F)
    BY <1>1 DEF F
  <1>5. Typed
    BY InitTyped
  <1>6. /\ room = F /\ online = F
        /\ status = [n \in Node |-> IF n \in F THEN "in" ELSE "out"]
        /\ inbox = [n \in Node |-> <<>>] /\ chan = [i \in Node |-> [j \in Node |-> <<>>]]
        /\ prev = [n \in Node |-> <<>>] /\ before = [n \in Node |-> {}]
        /\ link = {e \in F \X F : e[1] < e[2]}
    BY <1>4 DEF InitWith
  <1>7. CASE Settled(F)
    <2>1. /\ FirstKey(F) \in Key /\ FirstKey(F).gen = 1 /\ FirstKey(F).auth \in F
          /\ \A f \in F : FirstKey(F).auth <= f
      BY <1>2, <1>7, FounderKey
    <2> DEFINE k == FirstKey(F)
    <2>2. \A n \in Node : n \in F =>
            /\ members[n] = F \ {n} /\ cur[n] = k /\ send[n] = k /\ room_gen[n] = 1
            /\ known[n] = {k}
      BY <1>4, <1>7 DEF InitWith, Formed
    <2>3. \A n \in Node : n \notin F =>
            /\ members[n] = {} /\ cur[n] = NoKey /\ send[n] = NoKey /\ room_gen[n] = 0
            /\ known[n] = {}
      BY <1>4, <1>7 DEF InitWith, Formed
    <2>4. sealed = {k}
      BY <1>4, <1>7 DEF InitWith
    <2>5. /\ members = [n \in Node |-> members[n]] /\ known = [n \in Node |-> known[n]]
      BY <1>4 DEF InitWith
    <2> HIDE DEF k
    <2>6. k \in Key /\ k.gen = 1 /\ k.auth \in F /\ (\A f \in F : k.auth <= f) /\ k # NoKey
      BY <2>1, KeyFacts DEF k
    <2>7. Histories
      <3>1. ASSUME NEW n \in Node PROVE members[n] \in SUBSET Node /\ known[n] \in SUBSET Key
        <4>1. CASE n \in F
          BY <1>2, <2>2, <2>6, <4>1
        <4>2. CASE n \notin F
          BY <2>3, <4>2
        <4> QED BY <4>1, <4>2
      <3>2. members \in [Node -> SUBSET Node] /\ known \in [Node -> SUBSET Key]
        BY <2>5, <3>1
      <3> QED BY <1>6, <2>4, <2>6, <3>2 DEF Histories
    <2>8. Held
      <3>1. ASSUME NEW n \in Node PROVE HeldKeys(n) \subseteq known[n]
        <4>1. HeldKeys(n) \subseteq {cur[n], send[n]} \ {NoKey}
          BY <1>6, EmptyRing DEF HeldKeys
        <4>2. CASE n \in F
          BY <2>2, <4>1, <4>2
        <4>3. CASE n \notin F
          BY <2>3, <4>1, <4>3
        <4> QED BY <4>2, <4>3
      <3> QED BY <1>2, <1>6, <2>2, <2>3, <2>4, <2>6, <3>1 DEF Held
    <2>9. Foreign /\ Counted
      BY <1>2, <1>6, <2>2, <2>3, <2>6, KeyFacts DEF Foreign, Counted
    <2>10. Newest
      <3>1. ASSUME NEW n \in Node, AmAuthority(n, members[n]), cur[n] # NoKey
            PROVE  cur[n].auth = n
        <4>1. n \in F /\ members[n] = F \ {n}
          BY <2>2, <2>3, <3>1
        <4>2. k.auth <= n /\ k.auth \in Nat /\ n \in Nat /\ (k.auth # n => n < k.auth)
          BY <1>2, <2>6, <3>1, <4>1, RoomAudioConstants DEF AmAuthority
        <4>3. k.auth = n
          BY <4>2
        <4> QED BY <2>2, <4>1, <4>3
      <3> QED BY <1>6, <2>7, <3>1 DEF Newest, Histories
    <2>11. Rooms
      <3>1. \A i, j \in Node : <<i, j>> \in link => i \in F /\ j \in F /\ i # j
        BY <1>2, <1>6, RoomAudioConstants
      <3> QED BY <1>2, <1>3, <1>6, <2>2, <2>3, <3>1 DEF Rooms
    <2>12. Inboxes
      BY <1>6 DEF Inboxes
    <2>13. Chans(chan, OwnMsg)
      BY <1>6 DEF Chans
    <2> QED BY <1>5, <2>7, <2>8, <2>9, <2>10, <2>11, <2>12, <2>13 DEF GrowInv, Secrets
  <1>8. CASE ~Settled(F)
    <2>1. \A n \in Node :
            /\ members[n] = {} /\ cur[n] = NoKey /\ send[n] = NoKey /\ room_gen[n] = 0
            /\ known[n] = {}
      BY <1>4, <1>8 DEF InitWith, Formed
    <2>2. sealed = {}
      BY <1>4, <1>8 DEF InitWith
    <2>3. members = [n \in Node |-> {}] /\ known = [n \in Node |-> {}]
      BY <1>4, <1>8 DEF InitWith, Formed
    <2>4. Histories
      BY <1>6, <2>2, <2>3 DEF Histories
    <2>5. Held
      <3>1. \A n \in Node : HeldKeys(n) = {}
        BY <1>6, <2>1, EmptyRing DEF HeldKeys
      <3> QED BY <2>1, <2>2, <3>1 DEF Held
    <2>6. Foreign /\ Counted /\ Newest
      BY <1>6, <2>1, <2>2, KeyFacts DEF Foreign, Counted, Newest
    <2>7. Rooms
      <3>1. \A i, j \in Node : <<i, j>> \notin link
        <4>1. \A i, j \in Node : <<i, j>> \in link => i \in F /\ j \in F /\ i # j
          BY <1>2, <1>6, RoomAudioConstants
        <4> QED BY <1>8, <4>1 DEF Settled
      <3> QED BY <1>2, <1>3, <1>6, <2>1, <3>1 DEF Rooms
    <2>8. Inboxes
      BY <1>6 DEF Inboxes
    <2>9. Chans(chan, OwnMsg)
      BY <1>6 DEF Chans
    <2> QED BY <1>5, <2>4, <2>5, <2>6, <2>7, <2>8, <2>9 DEF GrowInv, Secrets
  <1> QED BY <1>7, <1>8

LEMMA GrowInvariant ==
  ASSUME OnlyGrows
  PROVE  Spec => []GrowInv
  <1>1. Init => GrowInv
    BY InitGrows
  <1>2. GrowInv /\ [Next]_vars => GrowInv'
    BY StepGrows
  <1> QED BY <1>1, <1>2, PTL DEF Spec

\* The label a receiver puts on a room key is the node that minted it, in
\* every room nobody leaves: a node that hands out a key is the authority of
\* its own list and holds a key of its own.
THEOREM OwnKeysOnly ==
  ASSUME OnlyGrows
  PROVE  Spec => []HandsOutOwnKeys
  <1>1. GrowInv => HandsOutOwnKeys
    <2> SUFFICES ASSUME GrowInv, NEW p \in Node, NEW n \in Node,
                        NEW i \in 1..Len(chan[p][n]), chan[p][n][i].t = "RoomKey"
                 PROVE  chan[p][n][i].key.auth = p
      BY DEF HandsOutOwnKeys
    <2>1. chan[p][n][i] \in OwnMsg[p][n]
      BY DEF GrowInv, Chans
    <2>2. chan[p][n][i] \in Sent(OwnKeys(p, n))
      BY <2>1 DEF OwnMsg
    <2>3. chan[p][n][i].key \in OwnKeys(p, n)
      BY <2>2, SentFacts
    <2> QED BY <2>3 DEF OwnKeys
  <1> QED BY <1>1, GrowInvariant, PTL

\* Nobody who joins, however late and in whatever order the frames of the
\* server and the events of the mesh reach the others, is handed a key that
\* sealed audio before.
THEOREM NoOldKeys ==
  ASSUME OnlyGrows
  PROVE  Spec => []FutureSecrecy
  <1>1. GrowInv => FutureSecrecy
    BY DEF GrowInv, Secrets, Held, FutureSecrecy
  <1> QED BY <1>1, GrowInvariant, PTL
-----------------------------------------------------------------------------
(***************************************************************************)
(* Rooms whose authority stays: anyone may join at any moment, links and    *)
(* signaling connections fail and come back, users ask for rekeys, and      *)
(* whoever leaves has a founder with a smaller id who does not.             *)
(***************************************************************************)
AuthorityStays ==
  \A sc \in Scenario : \A x \in sc.leavers : \E a \in sc.founders \ sc.leavers : a < x

Joined == {n \in Node : status[n] # "out"}

\* The smallest id that ever joined: the authority, whoever knows of it.
First(a) == status[a] = "in" /\ \A m \in Joined : a <= m

\* A message, or a frame, that waits in a queue.
Waits(q, m) == \E x \in 1 .. Len(q) : q[x] = m

AnyFrame ==
  [t : {"Roster", "PeerJoined", "PeerLeft", "Rekey"}, user : Nat, peers : SUBSET Node]

FrameOk(n, f) ==
  /\ f.t = "Roster" => f.peers \subseteq Joined \ {n}
  /\ f.t = "PeerJoined" => f.user \in Joined \ {n}

\* Who is connected is in the room, who is in the room has not left it, and
\* nobody knows of a node that never joined.
People ==
  /\ status \in [Node -> {"out", "in", "gone"}]
  /\ online \subseteq room /\ room \subseteq Node /\ \A n \in room : status[n] = "in"
  /\ members \in [Node -> SUBSET Node]
  /\ \A n \in Node : members[n] \subseteq Joined \ {n}
  /\ inbox \in [Node -> Seq(AnyFrame)]
  /\ \A n \in Node : \A i \in 1 .. Len(inbox[n]) : FrameOk(n, inbox[n][i])

\* The founders that stay.
Stays ==
  /\ budget \in ScenarioType
  /\ \A x \in budget.leavers : \E a \in budget.founders \ budget.leavers : a < x
  /\ \A a \in budget.founders \ budget.leavers : status[a] = "in"
  /\ \A x \in Node : status[x] = "gone" => x \in budget.leavers

\* A link is on both lists; its larger end holds a session, its smaller end
\* too, or the Reply is on its way.
Links ==
  /\ sess \in [Node -> SUBSET Node]
  /\ link \subseteq Node \X Node
  /\ \A i, j \in Node : <<i, j>> \in link =>
       /\ i < j /\ j \in members[i] /\ i \in members[j]
       /\ i \in sess[j] /\ (j \in sess[i] \/ Waits(chan[j][i], Reply))

\* The counter of a node is the generation of its key; the first has a key of
\* its own.
LabelOk(n) ==
  /\ cur[n].gen = room_gen[n]
  /\ n \notin Joined => cur[n] = NoKey
  /\ cur[n] # NoKey => cur[n].auth \in Joined
  /\ First(n) /\ cur[n] # NoKey => cur[n].auth = n

Labels == \A n \in Node : LabelOk(n)

\* The last grace timer is the one of the newest key.
PromiseOk(n) ==
  IF timers[n] = <<>> THEN send[n] = cur[n]
  ELSE /\ cur[n] # NoKey /\ send[n] # NoKey
       /\ timers[n][Len(timers[n])] = {cur[n].gen}

Promises == \A n \in Node : PromiseOk(n)

GivenKeys(p) == {k \in Key : k.gen <= room_gen[p] /\ (First(p) => k.auth = p)}

Given == [p \in Node |-> [n \in Node |->
            IF p \in Joined /\ n \in Joined THEN Sent(GivenKeys(p)) ELSE {}]]

\* The key of the first is with n, or on its way to it, unless n has a newer one.
Handed(a, n) ==
  \/ room_gen[a] > ROOM_GEN_BOUND
  \/ Waits(chan[n][a], Reply) \/ Waits(chan[n][a], Secure)
  \/ /\ cur[a] # NoKey
     /\ \/ cur[n] = cur[a]
        \/ room_gen[a] < room_gen[n]
        \/ Waits(chan[a][n], KeyMsg(cur[a]))

\* A generation of n above that of the first is reported, or will be.
Reported(a, n) ==
  \/ room_gen[n] > ROOM_GEN_BOUND
  \/ room_gen[n] <= room_gen[a]
  \/ Waits(chan[a][n], Secure)
  \/ Waits(chan[n][a], GenMsg(room_gen[n]))

InStep ==
  \A a, n \in Node : First(a) /\ <<a, n>> \in link => Handed(a, n) /\ Reported(a, n)

StayInv ==
  /\ Typed /\ People /\ Stays /\ Links /\ Labels /\ Promises
  /\ Chans(chan, Given) /\ InStep

-----------------------------------------------------------------------------
(***************************************************************************)
(* Queues.                                                                 *)
(***************************************************************************)
LEMMA WaitsAppend ==
  ASSUME NEW D, NEW q \in Seq(D), NEW m
  PROVE  /\ Waits(Append(q, m), m)
         /\ \A x : Waits(q, x) => Waits(Append(q, m), x)
         /\ \A x : Waits(Append(q, m), x) => x = m \/ Waits(q, x)
  <1>1. /\ Len(Append(q, m)) = Len(q) + 1 /\ Len(q) \in Nat
        /\ Append(q, m)[Len(q) + 1] = m
        /\ \A i \in 1 .. Len(q) : Append(q, m)[i] = q[i]
    OBVIOUS
  <1> QED BY <1>1 DEF Waits

LEMMA WaitsTail ==
  ASSUME NEW D, NEW q \in Seq(D), q # <<>>
  PROVE  /\ \A x : Waits(q, x) => x = Head(q) \/ Waits(Tail(q), x)
         /\ \A x : Waits(Tail(q), x) => Waits(q, x)
         /\ Waits(q, Head(q))
  <1>1. /\ Len(q) \in Nat \ {0} /\ Len(Tail(q)) = Len(q) - 1 /\ Head(q) = q[1]
        /\ \A i \in 1 .. Len(q) - 1 : Tail(q)[i] = q[i + 1]
    OBVIOUS
  <1>2. ASSUME NEW x, Waits(q, x), x # Head(q) PROVE Waits(Tail(q), x)
    <2>1. PICK i \in 1 .. Len(q) : q[i] = x
      BY <1>2 DEF Waits
    <2>2. i - 1 \in 1 .. Len(Tail(q)) /\ Tail(q)[i - 1] = x
      BY <1>1, <1>2, <2>1
    <2> QED BY <2>2 DEF Waits
  <1>3. ASSUME NEW x, Waits(Tail(q), x) PROVE Waits(q, x)
    <2>1. PICK i \in 1 .. Len(Tail(q)) : Tail(q)[i] = x
      BY <1>3 DEF Waits
    <2>2. i + 1 \in 1 .. Len(q) /\ q[i + 1] = x
      BY <1>1, <2>1
    <2> QED BY <2>2 DEF Waits
  <1>4. Waits(q, Head(q))
    BY <1>1 DEF Waits
  <1> QED BY <1>2, <1>3, <1>4

\* What SendEach, CutChan and Rest do to a queue.
To(lk, ss, n, peers, j) == j \in peers \cap ss[n] /\ (<<n, j>> \in lk \/ <<j, n>> \in lk)

LEMMA SendQueue ==
  ASSUME NEW ch, NEW S, Chans(ch, S), NEW lk, NEW ss, NEW n \in Node, NEW peers, NEW m,
         NEW i \in Node, NEW j \in Node
  PROVE  /\ i = n /\ To(lk, ss, n, peers, j)
            => SendEach(ch, lk, ss, n, peers, m)[i][j] = Append(ch[i][j], m)
         /\ ~(i = n /\ To(lk, ss, n, peers, j))
            => SendEach(ch, lk, ss, n, peers, m)[i][j] = ch[i][j]
  <1> DEFINE row == [p \in Node |-> IF To(lk, ss, n, peers, p) THEN Append(ch[n][p], m) ELSE ch[n][p]]
             new == SendEach(ch, lk, ss, n, peers, m)
  <1>1. new = [ch EXCEPT ![n] = row]
    BY DEF SendEach, To
  <1>2. ch = [a \in Node |-> [b \in Node |-> ch[a][b]]]
    BY DEF Chans
  <1>3. row[j] = IF To(lk, ss, n, peers, j) THEN Append(ch[n][j], m) ELSE ch[n][j]
    OBVIOUS
  <1> HIDE DEF row, new
  <1>4. new[i] = IF i = n THEN row ELSE ch[i]
    BY <1>1, <1>2
  <1>5. CASE i = n
    BY <1>3, <1>4, <1>5 DEF new
  <1>6. CASE i # n
    BY <1>4, <1>6 DEF new
  <1> QED BY <1>5, <1>6

\* Sending leaves what waits.
LEMMA SendKeeps ==
  ASSUME NEW ch, NEW S, Chans(ch, S), NEW lk, NEW ss, NEW n \in Node, NEW peers, NEW m,
         NEW i \in Node, NEW j \in Node, NEW x, Waits(ch[i][j], x)
  PROVE  Waits(SendEach(ch, lk, ss, n, peers, m)[i][j], x)
  <1>1. ch[i][j] \in Seq(S[i][j])
    BY DEF Chans
  <1>2. Waits(Append(ch[i][j], m), x)
    BY <1>1, WaitsAppend
  <1>3. \/ SendEach(ch, lk, ss, n, peers, m)[i][j] = Append(ch[i][j], m)
        \/ SendEach(ch, lk, ss, n, peers, m)[i][j] = ch[i][j]
    BY SendQueue
  <1> QED BY <1>2, <1>3

LEMMA CutQueue ==
  ASSUME NEW n \in Node, NEW ps, NEW keep, NEW i \in Node, NEW j \in Node,
         <<i, j>> \notin Pairs(n, ps)
  PROVE  CutChan(n, ps, keep)[i][j] = chan[i][j]
  BY DEF CutChan

LEMMA RestQueue ==
  ASSUME NEW S, Chans(chan, S), NEW n \in Node, NEW p \in Node, NEW i \in Node, NEW j \in Node
  PROVE  Rest(n, p)[i][j] = IF i = p /\ j = n THEN Tail(chan[p][n]) ELSE chan[i][j]
  <1>1. chan = [a \in Node |-> [b \in Node |-> chan[a][b]]]
    BY DEF Chans
  <1> QED BY <1>1 DEF Rest

\* Taking the head leaves the rest.
LEMMA RestKeeps ==
  ASSUME NEW S, Chans(chan, S), NEW n \in Node, NEW p \in Node, chan[p][n] # <<>>,
         NEW i \in Node, NEW j \in Node, NEW x, Waits(chan[i][j], x),
         ~(i = p /\ j = n /\ x = Head(chan[p][n]))
  PROVE  Waits(Rest(n, p)[i][j], x)
  <1>1. chan[p][n] \in Seq(S[p][n])
    BY DEF Chans
  <1>2. i = p /\ j = n => Waits(Tail(chan[p][n]), x)
    BY <1>1, WaitsTail
  <1>3. Rest(n, p)[i][j] = IF i = p /\ j = n THEN Tail(chan[p][n]) ELSE chan[i][j]
    BY RestQueue
  <1> QED BY <1>2, <1>3

LEMMA PairsFacts ==
  ASSUME NEW n, NEW ps, NEW i, NEW j
  PROVE  <<i, j>> \in Pairs(n, ps) <=> (i = n /\ j \in ps) \/ (j = n /\ i \in ps)
  BY DEF Pairs

-----------------------------------------------------------------------------
(***************************************************************************)
(* Keys.                                                                   *)
(***************************************************************************)
\* The last timer, when one is set and when one fires.
LEMMA LastSet ==
  ASSUME NEW D, NEW q \in Seq(D), NEW m \in D
  PROVE  Append(q, m) # <<>> /\ Append(q, m)[Len(Append(q, m))] = m
  OBVIOUS

LEMMA LastOfTail ==
  ASSUME NEW D, NEW q \in Seq(D), q # <<>>, Len(q) # 1
  PROVE  Tail(q) # <<>> /\ Tail(q)[Len(Tail(q))] = q[Len(q)]
  <1>0. Len(q) \in Nat \ {0}
    OBVIOUS
  <1>a. \A k \in Nat \ {0} : k # 1 => k > 1
    OBVIOUS
  <1>1. Len(q) \in Nat /\ Len(q) > 1
    BY <1>0, <1>a, Zenon
  <1>2. Len(Tail(q)) = Len(q) - 1
    BY <1>1
  <1>3. Tail(q)[Len(q) - 1] = q[Len(q)]
    BY <1>1
  <1> QED BY <1>1, <1>2, <1>3

LEMMA LastFired ==
  ASSUME NEW D, NEW q \in Seq(SUBSET D), q # <<>>, NEW g \in Head(q), NEW c,
         q[Len(q)] = {c}
  PROVE  \/ FireTimer(q, g) = <<>> /\ g = c
         \/ FireTimer(q, g) # <<>> /\ FireTimer(q, g)[Len(FireTimer(q, g))] = {c}
  <1>1. Len(q) \in Nat \ {0} /\ Head(q) = q[1]
    OBVIOUS
  <1>2. CASE Head(q) = {g}
    <2>1. FireTimer(q, g) = Tail(q)
      BY <1>2 DEF FireTimer
    <2>2. CASE Len(q) = 1
      <3>1. g = c
        BY <1>1, <1>2, <2>2
      <3>2. Tail(q) = <<>>
        BY <2>2
      <3> QED BY <2>1, <3>1, <3>2
    <2>3. CASE Len(q) # 1
      <3>1. Tail(q) # <<>> /\ Tail(q)[Len(Tail(q))] = q[Len(q)]
        BY <2>3, LastOfTail
      <3> QED BY <2>1, <3>1
    <2> QED BY <2>2, <2>3
  <1>3. CASE Head(q) # {g}
    <2>1. FireTimer(q, g) = [q EXCEPT ![1] = q[1] \ {g}]
      BY <1>3 DEF FireTimer
    <2>2. Len(q) # 1
      BY <1>1, <1>3
    <2>3. [q EXCEPT ![1] = q[1] \ {g}] # <<>> /\ Len([q EXCEPT ![1] = q[1] \ {g}]) = Len(q)
      BY <1>1
    <2>4. [q EXCEPT ![1] = q[1] \ {g}][Len(q)] = q[Len(q)]
      BY <1>1, <2>2
    <2> QED BY <2>1, <2>3, <2>4
  <1> QED BY <1>2, <1>3

\* A better key: what it does to the node that takes it.
LEMMA TakeSteps ==
  ASSUME ~SameTick, Typed, Labels, Promises, NEW n \in Node, NEW k \in Key,
         Better(k, cur[n]), Take(n, k)
  PROVE  /\ cur' = [cur EXCEPT ![n] = k]
         /\ room_gen' = [room_gen EXCEPT ![n] = k.gen]
         /\ room_gen[n] <= k.gen
         /\ known' = [known EXCEPT ![n] = known[n] \cup {k}]
         /\ Promises'
  <1>1. /\ cur \in [Node -> Key \cup {NoKey}] /\ send \in [Node -> Key \cup {NoKey}]
        /\ timers \in [Node -> Seq(SUBSET Counts)] /\ room_gen \in [Node -> Nat]
    BY DEF Typed, Rings
  <1>2. k.gen \in Nat \ {0} /\ k # NoKey
    BY KeyFacts
  <1>3. cur[n].gen = room_gen[n] /\ room_gen[n] \in Nat
    BY <1>1 DEF Labels, LabelOk
  <1>4. room_gen[n] <= k.gen
    BY <1>2, <1>3, KeyFacts DEF Better
  <1>5. MaxOf(room_gen[n], k.gen) = k.gen
    BY <1>2, <1>3, <1>4 DEF MaxOf
  <1>6. /\ cur' = [cur EXCEPT ![n] = k]
        /\ room_gen' = [room_gen EXCEPT ![n] = k.gen]
        /\ known' = [known EXCEPT ![n] = known[n] \cup {k}]
    BY <1>5 DEF Take
  <1>7. ASSUME NEW m \in Node, m # n PROVE PromiseOk(m)'
    <2>1. cur'[m] = cur[m] /\ send'[m] = send[m] /\ timers'[m] = timers[m]
      BY <1>1, <1>7 DEF Take
    <2>2. PromiseOk(m)
      BY DEF Promises
    <2> QED BY <2>1, <2>2 DEF PromiseOk
  <1>8. PromiseOk(n)'
    <2>1. cur'[n] = k
      BY <1>1, <1>6
    <2>2. CASE send[n] = NoKey
      <3>1. send'[n] = k /\ timers' = timers
        BY <1>1, <2>2 DEF Take
      <3>2. timers[n] = <<>>
        BY <2>2 DEF Promises, PromiseOk
      <3> QED BY <2>1, <3>1, <3>2 DEF PromiseOk
    <2>3. CASE send[n] # NoKey
      <3>1. PICK same \in BOOLEAN :
              /\ same => SameTick
              /\ timers' = [timers EXCEPT ![n] = Schedule(timers[n], k.gen, same)]
              /\ send' = send
        BY <2>3 DEF Take
      <3>2. Schedule(timers[n], k.gen, same) = Append(timers[n], {k.gen})
        BY <3>1 DEF Schedule
      <3>3. timers'[n] = Append(timers[n], {k.gen}) /\ timers[n] \in Seq(SUBSET Counts)
        BY <1>1, <3>1, <3>2
      <3>4. {k.gen} \in SUBSET Counts
        BY <1>2 DEF Counts
      <3>5. timers'[n] # <<>> /\ timers'[n][Len(timers'[n])] = {k.gen}
        BY <3>3, <3>4, LastSet
      <3> QED BY <1>2, <2>1, <2>3, <3>1, <3>5 DEF PromiseOk
    <2> QED BY <2>2, <2>3
  <1> QED BY <1>4, <1>6, <1>7, <1>8 DEF Promises

\* A key a node mints is new, and better than the one it has.
LEMMA MintSteps ==
  ASSUME ~SameTick, Typed, Labels, Promises, NEW n \in Node, NEW g \in Nat, room_gen[n] <= g,
         Adopt(n, Mint(n, g + 1))
  PROVE  /\ cur' = [cur EXCEPT ![n] = Mint(n, g + 1)]
         /\ room_gen' = [room_gen EXCEPT ![n] = g + 1]
         /\ known' = [known EXCEPT ![n] = known[n] \cup {Mint(n, g + 1)}]
         /\ Promises'
  <1> DEFINE k == Mint(n, g + 1)
  <1>1. k \in Key /\ k.gen = g + 1
    BY MintIsKey DEF Mint
  <1>2. room_gen[n] \in Nat /\ cur[n].gen = room_gen[n]
    BY DEF Typed, Rings, Labels, LabelOk
  <1>3. Better(k, cur[n])
    BY <1>1, <1>2 DEF Better
  <1>4. Take(n, k)
    BY <1>3 DEF Adopt
  <1> HIDE DEF k
  <1>5. /\ cur' = [cur EXCEPT ![n] = k] /\ room_gen' = [room_gen EXCEPT ![n] = k.gen]
        /\ known' = [known EXCEPT ![n] = known[n] \cup {k}] /\ Promises'
    BY <1>1, <1>3, <1>4, TakeSteps
  <1> QED BY <1>1, <1>5 DEF k

LEMMA KeepPromises ==
  ASSUME Promises, KeepRing
  PROVE  Promises'
  BY DEF Promises, PromiseOk, KeepRing, ring_vars

\* When a grace period ends the key it was set for is no newer than the one
\* the last timer is set for.
LEMMA PromotePromises ==
  ASSUME Typed, Promises, NEW n \in Node, NEW g, OnPromote(n, g)
  PROVE  Promises'
  <1>1. /\ cur \in [Node -> Key \cup {NoKey}] /\ send \in [Node -> Key \cup {NoKey}]
        /\ prev \in [Node -> Seq(Key)] /\ timers \in [Node -> Seq(SUBSET Counts)]
    BY DEF Typed, Rings
  <1> DEFINE ts == timers[n]
             s == SendAfterPromote(send[n], cur[n], prev[n], g)
  <1>2. /\ ts # <<>> /\ g \in Head(ts) /\ cur' = cur
        /\ send' = [send EXCEPT ![n] = s]
        /\ timers' = [timers EXCEPT ![n] = FireTimer(ts, g)]
    BY DEF OnPromote
  <1>3. /\ s \in Ring(cur[n], prev[n]) \cup {send[n]}
        /\ cur[n] # NoKey /\ cur[n].gen = g => s = cur[n]
    BY <1>1, PromoteFromRing
  <1>4. /\ cur[n] # NoKey /\ send[n] # NoKey /\ ts[Len(ts)] = {cur[n].gen}
    BY <1>2 DEF Promises, PromiseOk
  <1>5. s # NoKey
    BY <1>3, <1>4 DEF Ring
  <1>6. send'[n] = s /\ timers'[n] = FireTimer(ts, g) /\ ts \in Seq(SUBSET Counts)
    BY <1>1, <1>2
  <1>7. \A m \in Node : m # n => send'[m] = send[m] /\ timers'[m] = timers[m]
    BY <1>1, <1>2
  <1> HIDE DEF ts, s
  <1>8. PromiseOk(n)'
    <2>0. ts \in Seq(SUBSET Counts) /\ ts # <<>> /\ g \in Head(ts) /\ ts[Len(ts)] = {cur[n].gen}
      BY <1>2, <1>4, <1>6
    <2>1. \/ FireTimer(ts, g) = <<>> /\ g = cur[n].gen
          \/ FireTimer(ts, g) # <<>> /\ FireTimer(ts, g)[Len(FireTimer(ts, g))] = {cur[n].gen}
      BY <2>0, LastFired
    <2> QED BY <1>2, <1>3, <1>4, <1>5, <1>6, <2>1 DEF PromiseOk
  <1>9. ASSUME NEW m \in Node, m # n PROVE PromiseOk(m)'
    BY <1>2, <1>7, <1>9 DEF Promises, PromiseOk
  <1> QED BY <1>8, <1>9 DEF Promises

-----------------------------------------------------------------------------
(***************************************************************************)
(* The first.                                                              *)
(***************************************************************************)
LEMMA FirstFacts ==
  ASSUME People, NEW a \in Node, First(a)
  PROVE  /\ a \in Joined
         /\ \A m \in Joined : m # a => a < m
         /\ AmAuthority(a, members[a])
         /\ \A p \in Joined : \A mem : ~IsAuthorityPeer(p, a, mem)
  <1>1. a \in Joined /\ Joined \subseteq Node /\ \A m \in Joined : a <= m
    BY DEF First, Joined
  <1>2. \A m \in Joined : m # a => a < m
    BY <1>1, RoomAudioConstants
  <1>3. members[a] \subseteq Joined \ {a}
    BY DEF People
  <1>4. AmAuthority(a, members[a])
    BY <1>2, <1>3 DEF AmAuthority
  <1>5. ASSUME NEW p \in Joined PROVE ~(p < a)
    BY <1>1, RoomAudioConstants
  <1> QED BY <1>1, <1>2, <1>4, <1>5 DEF IsAuthorityPeer

\* Whoever has the first on its list takes it for the authority.
LEMMA KnowsFirst ==
  ASSUME People, NEW a \in Node, First(a), NEW n \in Joined, NEW mem,
         mem \subseteq Joined \ {n}, a \in mem
  PROVE  /\ ~AmAuthority(n, mem)
         /\ IsAuthorityPeer(a, n, mem)
         /\ \A p \in Joined : p # a => ~IsAuthorityPeer(p, n, mem)
  <1>1. a \in Joined /\ Joined \subseteq Nat
    BY RoomAudioConstants DEF First, Joined
  <1>2. \A m \in Joined : m # a => a < m
    BY FirstFacts
  <1>3. \A m \in Joined : m # a => ~(m < a)
    BY <1>1, <1>2
  <1>4. a # n
    OBVIOUS
  <1>5. IsAuthorityPeer(a, n, mem)
    BY <1>2, <1>4 DEF IsAuthorityPeer
  <1> QED BY <1>1, <1>2, <1>3, <1>4, <1>5 DEF IsAuthorityPeer, AmAuthority

LEMMA StillFirst ==
  ASSUME UNCHANGED status
  PROVE  Joined' = Joined /\ \A a : First(a)' <=> First(a)
  BY DEF Joined, First

\* A node that joins or leaves makes nobody first that had joined before.
LEMMA FirstBack ==
  ASSUME NEW n \in Node, status \in [Node -> {"out", "in", "gone"}], NEW s \in {"in", "gone"},
         status' = [status EXCEPT ![n] = s], s = "gone" \/ status[n] = "out"
  PROVE  Joined \subseteq Joined' /\ \A a \in Joined : First(a)' => First(a)
  <1>1. Joined \subseteq Joined'
    BY DEF Joined
  <1>2. ASSUME NEW a \in Joined, First(a)' PROVE First(a)
    <2>1. status[a] = "in"
      BY <1>2 DEF First, Joined
    <2> QED BY <1>1, <1>2, <2>1 DEF First
  <1> QED BY <1>1, <1>2

\* Once someone has joined there is a first, in the room.
LEMMA SomeFirst ==
  ASSUME People, Stays, NEW m \in Joined
  PROVE  \E a \in Joined : First(a)
  <1>1. Joined \subseteq Node /\ Joined \subseteq Nat
    BY RoomAudioConstants DEF Joined
  <1>2. PICK a \in Joined : \A x \in Joined : a <= x
    BY <1>1, LeastElement
  <1>3. ASSUME status[a] = "gone" PROVE FALSE
    <2>1. a \in budget.leavers
      BY <1>1, <1>3 DEF Stays
    <2>2. PICK b \in budget.founders \ budget.leavers : b < a
      BY <2>1 DEF Stays
    <2>3. status[b] = "in" /\ b \in Node
      BY <2>2 DEF Stays, ScenarioType
    <2>4. b \in Joined
      BY <2>3 DEF Joined
    <2>5. a <= b /\ a \in Nat /\ b \in Nat
      BY <1>1, <1>2, <2>4
    <2> QED BY <2>2, <2>5
  <1>4. status[a] = "in"
    BY <1>1, <1>3 DEF People, Joined
  <1> QED BY <1>2, <1>4 DEF First

-----------------------------------------------------------------------------
(***************************************************************************)
(* What is under way.                                                      *)
(***************************************************************************)
LEMMA GivenGrows ==
  ASSUME Rings, Rings', Joined \subseteq Joined', \A p \in Joined : First(p)' => First(p),
         \A p \in Node : room_gen[p] <= room_gen'[p]
  PROVE  \A p, n \in Node : Given[p][n] \subseteq Given'[p][n]
  <1>1. ASSUME NEW p \in Joined PROVE GivenKeys(p) \subseteq GivenKeys(p)'
    <2>1. p \in Node
      BY DEF Joined
    <2>2. room_gen[p] \in Nat /\ room_gen'[p] \in Nat /\ room_gen[p] <= room_gen'[p]
      BY <2>1 DEF Rings
    <2>3. \A k \in Key : k.gen \in Nat
      BY KeyFacts
    <2> QED BY <2>2, <2>3 DEF GivenKeys
  <1>2. ASSUME NEW p \in Joined PROVE Sent(GivenKeys(p)) \subseteq Sent(GivenKeys(p)')
    BY <1>1 DEF Sent
  <1>3. ASSUME NEW p \in Node, NEW n \in Node PROVE Given[p][n] \subseteq Given'[p][n]
    <2>1. CASE p \in Joined /\ n \in Joined
      <3>1. p \in Joined' /\ n \in Joined'
        BY <2>1
      <3>2. Given[p][n] = Sent(GivenKeys(p)) /\ Given'[p][n] = Sent(GivenKeys(p)')
        BY <2>1, <3>1 DEF Given
      <3> QED BY <1>2, <2>1, <3>2
    <2>2. CASE ~(p \in Joined /\ n \in Joined)
      BY <2>2 DEF Given
    <2> QED BY <2>1, <2>2
  <1> QED BY <1>3

LEMMA GivenFacts ==
  ASSUME NEW p \in Node, NEW n \in Node
  PROVE  /\ p \in Joined /\ n \in Joined =>
              /\ Secure \in Given[p][n] /\ Reply \in Given[p][n]
              /\ \A g \in Nat : GenMsg(g) \in Given[p][n]
              /\ \A k \in GivenKeys(p) : KeyMsg(k) \in Given[p][n]
         /\ \A m \in Given[p][n] : /\ p \in Joined /\ n \in Joined
                                   /\ m.t = "RoomKey" => m.key \in GivenKeys(p) /\ m = KeyMsg(m.key)
  <1>1. Given[p][n] = IF p \in Joined /\ n \in Joined THEN Sent(GivenKeys(p)) ELSE {}
    BY DEF Given
  <1> QED BY <1>1, SentFacts

\* An event comes from a node that joined.
LEMMA EventGiven ==
  ASSUME Chans(chan, Given), NEW n \in Node, NEW p \in Node, chan[p][n] # <<>>
  PROVE  /\ p \in Joined /\ n \in Joined
         /\ Head(chan[p][n]) \in Given[p][n]
         /\ Chans(Rest(n, p), Given)
         /\ Head(chan[p][n]).t = "RoomKey" =>
              /\ Head(chan[p][n]).key \in GivenKeys(p)
              /\ Head(chan[p][n]) = KeyMsg(Head(chan[p][n]).key)
  <1>1. Chans(Rest(n, p), Given) /\ Head(chan[p][n]) \in Given[p][n]
    BY RestAllowed
  <1> QED BY <1>1, GivenFacts

\* A pair whose keys and queues keep what they have stays in step.
LEMMA PairKept ==
  ASSUME NEW a \in Node, NEW n \in Node, Handed(a, n), Reported(a, n),
         cur'[a] = cur[a], cur'[n] = cur[n],
         room_gen'[a] = room_gen[a], room_gen'[n] = room_gen[n],
         \A m : Waits(chan[a][n], m) /\ m # Reply => Waits(chan'[a][n], m),
         \A m : Waits(chan[n][a], m) /\ m # Reply => Waits(chan'[n][a], m),
         Waits(chan[n][a], Reply) => Waits(chan'[n][a], Reply) \/ Waits(chan'[n][a], Secure)
  PROVE  Handed(a, n)' /\ Reported(a, n)'
  <1>1. /\ Secure # Reply /\ \A k : KeyMsg(k) # Reply
        /\ \A g : GenMsg(g) # Reply
    BY DEF Secure, Reply, KeyMsg, GenMsg
  <1>2. Handed(a, n)'
    BY <1>1 DEF Handed
  <1>3. Reported(a, n)'
    BY <1>1 DEF Reported
  <1> QED BY <1>2, <1>3

LEMMA MessageKinds ==
  /\ Secure.t = "Secure" /\ Reply.t = "Reply"
  /\ \A k : KeyMsg(k).t = "RoomKey" /\ KeyMsg(k).key = k
  /\ \A g : GenMsg(g).t = "RoomGen" /\ GenMsg(g).key.gen = g
  BY DEF Secure, Reply, KeyMsg, GenMsg

-----------------------------------------------------------------------------
(***************************************************************************)
(* Frames of the server.                                                   *)
(***************************************************************************)
\* Minting above what it has, whatever the reason.
LEMMA MintStays ==
  ASSUME ~SameTick, Typed, Labels, Promises, UNCHANGED status, NEW n \in Joined,
         NEW g \in Nat, room_gen[n] <= g, Adopt(n, Mint(n, g + 1))
  PROVE  /\ Labels' /\ Promises'
         /\ cur'[n] = Mint(n, g + 1) /\ cur'[n] \in Key /\ room_gen'[n] = g + 1
         /\ \A m \in Node : m # n => cur'[m] = cur[m] /\ room_gen'[m] = room_gen[m]
         /\ \A m \in Node : room_gen[m] <= room_gen'[m]
  <1>1. n \in Node
    BY DEF Joined
  <1>2. /\ cur' = [cur EXCEPT ![n] = Mint(n, g + 1)]
        /\ room_gen' = [room_gen EXCEPT ![n] = g + 1]
        /\ Promises'
    BY <1>1, MintSteps
  <1>3. cur \in [Node -> Key \cup {NoKey}] /\ room_gen \in [Node -> Nat]
    BY DEF Typed, Rings
  <1>4. /\ cur'[n] = Mint(n, g + 1) /\ room_gen'[n] = g + 1
        /\ \A m \in Node : m # n => cur'[m] = cur[m] /\ room_gen'[m] = room_gen[m]
    BY <1>1, <1>2, <1>3
  <1>5. Mint(n, g + 1) \in Key /\ Mint(n, g + 1).gen = g + 1 /\ Mint(n, g + 1).auth = n
    BY <1>1, MintIsKey DEF Mint
  <1>6. ASSUME NEW m \in Node PROVE LabelOk(m)'
    <2>1. CASE m = n
      BY <1>4, <1>5, <2>1, StillFirst DEF LabelOk
    <2>2. CASE m # n
      BY <1>4, <2>2, StillFirst DEF LabelOk, Labels
    <2> QED BY <2>1, <2>2
  <1>7. ASSUME NEW m \in Node PROVE room_gen[m] <= room_gen'[m]
    <2>1. room_gen[m] \in Nat /\ room_gen[n] \in Nat
      BY <1>1, <1>3
    <2>2. CASE m = n
      BY <1>4, <2>1, <2>2
    <2>3. CASE m # n
      BY <1>4, <2>1, <2>3
    <2> QED BY <2>2, <2>3
  <1> QED BY <1>2, <1>4, <1>5, <1>6, <1>7 DEF Labels

LEMMA KeepStays ==
  ASSUME Typed, Labels, Promises, UNCHANGED status, KeepRing
  PROVE  /\ Labels' /\ Promises' /\ cur' = cur /\ room_gen' = room_gen
         /\ \A m \in Node : room_gen[m] <= room_gen'[m]
  <1>1. cur' = cur /\ room_gen' = room_gen /\ Promises'
    BY KeepPromises DEF KeepRing, ring_vars
  <1>2. Labels'
    BY <1>1, StillFirst DEF Labels, LabelOk
  <1>3. \A m \in Node : room_gen[m] \in Nat
    BY DEF Typed, Rings
  <1> QED BY <1>1, <1>2, <1>3

LEMMA ReceivePeople ==
  ASSUME People, Stays, NEW n \in Node, NEW t, Receive(n, t),
         NEW mem, mem \subseteq Joined \ {n}, members' = [members EXCEPT ![n] = mem]
  PROVE  /\ People' /\ Stays' /\ n \in Joined /\ UNCHANGED status
         /\ members'[n] = mem /\ \A m \in Node : m # n => members'[m] = members[m]
  <1>1. /\ UNCHANGED <<room, status, online, budget>> /\ n \in online
        /\ inbox[n] # <<>> /\ inbox' = [inbox EXCEPT ![n] = Tail(inbox[n])]
    BY DEF Receive
  <1>2. n \in Joined /\ status' = status
    BY <1>1 DEF People, Joined
  <1>3. /\ inbox \in [Node -> Seq(AnyFrame)] /\ inbox[n] \in Seq(AnyFrame)
        /\ Joined \subseteq Node /\ Joined' = Joined
    BY <1>2 DEF People, Joined
  <1>4. Tail(inbox[n]) \in Seq(AnyFrame)
    BY <1>1, <1>3, SeqTail
  <1>5. /\ inbox' \in [Node -> Seq(AnyFrame)] /\ inbox'[n] = Tail(inbox[n])
        /\ \A m \in Node : m # n => inbox'[m] = inbox[m]
    BY <1>1, <1>3, <1>4
  <1>6. ASSUME NEW m \in Node, NEW i \in 1 .. Len(inbox'[m]) PROVE FrameOk(m, inbox[m][i])'
    <2>1. \E x \in 1 .. Len(inbox[m]) : inbox'[m][i] = inbox[m][x]
      <3>1. CASE m = n
        <4>1. i + 1 \in 1 .. Len(inbox[n]) /\ Tail(inbox[n])[i] = inbox[n][i + 1]
          BY <1>1, <1>3, <1>5, <3>1
        <4> QED BY <1>5, <3>1, <4>1
      <3>2. CASE m # n
        BY <1>5, <3>2
      <3> QED BY <3>1, <3>2
    <2>2. PICK x \in 1 .. Len(inbox[m]) : inbox'[m][i] = inbox[m][x]
      BY <2>1
    <2>3. FrameOk(m, inbox[m][x])
      BY DEF People
    <2> QED BY <1>3, <2>2, <2>3 DEF FrameOk
  <1>7. /\ members' \in [Node -> SUBSET Node] /\ members'[n] = mem
        /\ \A m \in Node : m # n => members'[m] = members[m]
    BY <1>3 DEF People
  <1>8. \A m \in Node : members'[m] \subseteq Joined' \ {m}
    BY <1>3, <1>7 DEF People
  <1>9. People'
    BY <1>1, <1>5, <1>6, <1>7, <1>8 DEF People
  <1>10. Stays'
    BY <1>1 DEF Stays
  <1> QED BY <1>2, <1>7, <1>9, <1>10

\* The links that are left still hold what a link holds.
LEMMA LinksLeft ==
  ASSUME Links, NEW n \in Node, NEW mem, NEW torn, members[n] \ mem \subseteq torn,
         members'[n] = mem, \A m \in Node : m # n => members'[m] = members[m],
         link' = link \ Pairs(n, torn),
         sess' = sess \/ sess' = ForgetSess(n, torn),
         \A i, j \in Node : <<i, j>> \in link' /\ Waits(chan[j][i], Reply)
                            => Waits(chan'[j][i], Reply)
  PROVE  Links'
  <1>1. sess \in [Node -> SUBSET Node] /\ link \subseteq Node \X Node
    BY DEF Links
  <1>2. sess' \in [Node -> SUBSET Node]
    BY <1>1 DEF ForgetSess
  <1>3. \A i, j \in Node : (i = n /\ j \in torn) \/ j \in sess'[i] \/ j \notin sess[i]
    BY <1>1 DEF ForgetSess
  <1>4. ASSUME NEW i \in Node, NEW j \in Node, <<i, j>> \in link'
        PROVE  /\ i < j /\ j \in members'[i] /\ i \in members'[j]
               /\ i \in sess'[j] /\ (j \in sess'[i] \/ Waits(chan'[j][i], Reply))
    <2>1. /\ <<i, j>> \in link /\ ~(i = n /\ j \in torn) /\ ~(j = n /\ i \in torn)
      BY <1>4, PairsFacts
    <2>2. /\ i < j /\ j \in members[i] /\ i \in members[j]
          /\ i \in sess[j] /\ (j \in sess[i] \/ Waits(chan[j][i], Reply))
      BY <2>1 DEF Links
    <2>3. j \in members'[i] /\ i \in members'[j]
      BY <2>1, <2>2
    <2>4. i \in sess'[j] /\ (j \in sess'[i] \/ Waits(chan'[j][i], Reply))
      BY <1>3, <1>4, <2>1, <2>2
    <2> QED BY <2>2, <2>3, <2>4
  <1>5. link' \subseteq Node \X Node
    BY <1>1
  <1> QED BY <1>2, <1>4, <1>5 DEF Links

\* An arm whose mesh is as the frame left it: keys alone, or rotated.
LEMMA FrameStays ==
  ASSUME ~SameTick, StayInv, NEW n \in Node, NEW t, Receive(n, t),
         NEW mem, mem \subseteq Joined \ {n}, members' = [members EXCEPT ![n] = mem],
         NEW torn, members[n] \ mem \subseteq torn, NEW keep \in BOOLEAN, NEW ss,
         link' = link \ Pairs(n, torn), sess' = ss, ss = sess \/ ss = ForgetSess(n, torn),
         \/ /\ AmAuthority(n, mem) /\ Adopt(n, Mint(n, room_gen[n] + 1))
            /\ chan' = SendEach(CutChan(n, torn, keep), link', ss, n, mem, KeyMsg(cur'[n]))
         \/ KeepRing /\ chan' = CutChan(n, torn, keep)
  PROVE  StayInv'
  <1> DEFINE ch == CutChan(n, torn, keep)
  <1>1. /\ Typed /\ Rings /\ People /\ Stays /\ Links /\ Labels /\ Promises
        /\ Chans(chan, Given) /\ Chans(chan, AnyMsg) /\ InStep
    BY DEF StayInv, Typed
  <1>2. /\ People' /\ Stays' /\ n \in Joined /\ UNCHANGED status
        /\ members'[n] = mem /\ \A m \in Node : m # n => members'[m] = members[m]
    BY <1>1, ReceivePeople
  <1>3. Joined' = Joined /\ \A a : First(a)' <=> First(a)
    BY <1>2, StillFirst
  <1>4. room_gen[n] \in Nat
    BY <1>1 DEF Rings
  <1>5. Chans(ch, AnyMsg) /\ Chans(ch, Given)
    BY <1>1, CutAllowed
  <1>6. Typed'
    BY <1>1, <1>4, <1>5, ArmTyped
  <1>7. /\ Labels' /\ Promises'
        /\ \A m \in Node : m # n => cur'[m] = cur[m] /\ room_gen'[m] = room_gen[m]
        /\ \A m \in Node : room_gen[m] <= room_gen'[m]
    <2>1. CASE Adopt(n, Mint(n, room_gen[n] + 1))
      <3>1. room_gen[n] <= room_gen[n]
        BY <1>4
      <3> QED BY <1>1, <1>2, <1>4, <2>1, <3>1, MintStays
    <2>2. CASE KeepRing
      BY <1>1, <1>2, <2>2, KeepStays
    <2> QED BY <2>1, <2>2
  <1>8. Chans(ch, Given')
    <2>1. \A p, q \in Node : Given[p][q] \subseteq Given'[p][q]
      BY <1>1, <1>3, <1>6, <1>7, GivenGrows DEF Typed
    <2> QED BY <1>5, <2>1, ChansGrow
  <1> HIDE DEF ch
  <1>9. Chans(chan', Given')
    <2>1. CASE /\ Adopt(n, Mint(n, room_gen[n] + 1))
               /\ chan' = SendEach(ch, link', ss, n, mem, KeyMsg(cur'[n]))
      <3>1. /\ cur'[n] = Mint(n, room_gen[n] + 1) /\ cur'[n] \in Key
            /\ room_gen'[n] = room_gen[n] + 1
        <4>1. room_gen[n] <= room_gen[n]
          BY <1>4
        <4> QED BY <1>1, <1>2, <1>4, <2>1, <4>1, MintStays
      <3>2. cur'[n].auth = n /\ cur'[n].gen = room_gen'[n] /\ room_gen'[n] \in Nat
        BY <1>4, <3>1 DEF Mint
      <3>3. cur'[n] \in GivenKeys(n)'
        BY <3>1, <3>2 DEF GivenKeys
      <3>4. ASSUME NEW p \in Node, p \in mem PROVE KeyMsg(cur'[n]) \in Given'[n][p]
        <4>1. n \in Joined' /\ p \in Joined'
          BY <1>2, <1>3, <3>4
        <4>2. Given'[n][p] = Sent(GivenKeys(n)')
          BY <4>1 DEF Given
        <4> QED BY <3>3, <4>2, SentFacts
      <3> QED BY <1>8, <2>1, <3>4, SendAllowed
    <2>2. CASE chan' = ch
      BY <1>8, <2>2
    <2> QED BY <2>1, <2>2 DEF ch
  <1>10. ASSUME NEW i \in Node, NEW j \in Node, NEW x, Waits(chan[i][j], x),
                <<i, j>> \in link' \/ <<j, i>> \in link'
         PROVE  Waits(chan'[i][j], x)
    <2>1. <<i, j>> \notin Pairs(n, torn)
      BY <1>10, PairsFacts
    <2>2. Waits(ch[i][j], x)
      BY <1>10, <2>1, CutQueue DEF ch
    <2>3. \/ chan' = SendEach(ch, link', ss, n, mem, KeyMsg(cur'[n]))
          \/ chan' = ch
      BY DEF ch
    <2> QED BY <1>5, <2>2, <2>3, SendKeeps DEF ch
  <1>11. Links'
    BY <1>1, <1>2, <1>10, LinksLeft
  <1>12. ASSUME NEW a \in Node, NEW x \in Node, First(a)', <<a, x>> \in link'
         PROVE  Handed(a, x)' /\ Reported(a, x)'
    <2>1. First(a) /\ <<a, x>> \in link /\ a \in members'[x] /\ x \in members'[a]
      BY <1>3, <1>11, <1>12 DEF Links
    <2>2. Handed(a, x) /\ Reported(a, x)
      BY <1>1, <2>1 DEF InStep
    <2>3. ASSUME cur'[a] = cur[a], cur'[x] = cur[x], room_gen'[a] = room_gen[a],
                 room_gen'[x] = room_gen[x]
          PROVE  Handed(a, x)' /\ Reported(a, x)'
      BY <1>10, <1>12, <2>2, <2>3, PairKept
    <2>4. CASE KeepRing
      BY <2>3, <2>4 DEF KeepRing, ring_vars
    <2>5. CASE a # n /\ x # n
      BY <1>7, <2>3, <2>5
    <2>6. CASE x = n /\ AmAuthority(n, mem)
      <3>1. a \in mem
        BY <1>2, <2>1, <2>6
      <3> QED BY <1>1, <1>2, <2>1, <2>6, <3>1, KnowsFirst
    <2>7. CASE /\ a = n /\ Adopt(n, Mint(n, room_gen[n] + 1))
               /\ chan' = SendEach(ch, link', ss, n, mem, KeyMsg(cur'[n]))
      <3>1. x \in mem
        BY <1>2, <2>1, <2>7
      <3>2. cur'[n] # NoKey
        <4>1. room_gen[n] <= room_gen[n]
          BY <1>4
        <4>2. cur'[n] \in Key
          BY <1>1, <1>2, <1>4, <2>7, <4>1, MintStays
        <4> QED BY <4>2, KeyFacts
      <3>3. Handed(a, x)'
        <4>1. x \in sess'[a] \/ Waits(chan'[x][a], Reply)
          BY <1>11, <1>12 DEF Links
        <4>2. ASSUME x \in sess'[a] PROVE Waits(chan'[n][x], KeyMsg(cur'[n]))
          <5>1. To(link', ss, n, mem, x)
            BY <1>12, <2>7, <3>1, <4>2 DEF To
          <5>2. chan'[n][x] = Append(ch[n][x], KeyMsg(cur'[n]))
            BY <1>5, <2>7, <5>1, SendQueue DEF ch
          <5>3. ch[n][x] \in Seq(AnyMsg[n][x])
            BY <1>5 DEF Chans, ch
          <5> QED BY <5>2, <5>3, WaitsAppend
        <4> QED BY <2>7, <3>2, <4>1, <4>2 DEF Handed
      <3>4. Reported(a, x)'
        <4>1. room_gen'[x] = room_gen[x] /\ room_gen[a] <= room_gen'[a]
          BY <1>7, <2>1, <2>7, <1>1 DEF People
        <4>2. room_gen[x] \in Nat /\ room_gen[a] \in Nat /\ room_gen'[a] \in Nat
          BY <1>1, <1>6 DEF Typed, Rings
        <4>3. room_gen[x] <= room_gen[a] => room_gen'[x] <= room_gen'[a]
          BY <4>1, <4>2
        <4>4. /\ Waits(chan[a][x], Secure) => Waits(chan'[a][x], Secure)
              /\ Waits(chan[x][a], GenMsg(room_gen[x])) => Waits(chan'[x][a], GenMsg(room_gen[x]))
          BY <1>10, <1>12
        <4> QED BY <2>2, <4>1, <4>3, <4>4 DEF Reported
      <3> QED BY <3>3, <3>4
    <2> QED BY <2>4, <2>5, <2>6, <2>7 DEF ch
  <1> QED BY <1>2, <1>6, <1>7, <1>9, <1>11, <1>12 DEF StayInv, InStep

\* What an arm does with the frame it took: a list, torn connections, and keys
\* that are left alone, or rotated.
Arm(n, mem, torn, keep, ss) ==
  /\ \E t : Receive(n, t)
  /\ members' = [members EXCEPT ![n] = mem]
  /\ mem \subseteq Joined \ {n} /\ members[n] \ mem \subseteq torn
  /\ link' = link \ Pairs(n, torn) /\ sess' = ss /\ (ss = sess \/ ss = ForgetSess(n, torn))
  /\ \/ /\ AmAuthority(n, mem) /\ Adopt(n, Mint(n, room_gen[n] + 1))
        /\ chan' = SendEach(CutChan(n, torn, keep), link', ss, n, mem, KeyMsg(cur'[n]))
     \/ /\ KeepRing /\ chan' = CutChan(n, torn, keep)
        /\ AmAuthority(n, mem) => members[n] \subseteq mem

LEMMA FrameArms ==
  ASSUME StayInv, NEW n \in Node,
         OnRoster(n) \/ OnPeerJoined(n) \/ OnPeerLeft(n) \/ OnRekey(n)
  PROVE  \E mem, torn, ss : \E keep \in BOOLEAN : Arm(n, mem, torn, keep, ss)
  <1> DEFINE f == Head(inbox[n])
  <1>1. /\ People /\ members \in [Node -> SUBSET Node] /\ members[n] \subseteq Joined \ {n}
    BY DEF StayInv, People
  <1>2. inbox[n] # <<>> /\ (\E t : Receive(n, t))
    BY DEF OnRoster, OnPeerJoined, OnPeerLeft, OnRekey, Receive
  <1>3. FrameOk(n, f)
    <2>1. inbox[n] \in Seq(AnyFrame)
      BY <1>1 DEF People
    <2>2. 1 \in 1 .. Len(inbox[n]) /\ f = inbox[n][1]
      BY <1>2, <2>1
    <2> QED BY <1>1, <2>2 DEF People
  <1> HIDE DEF f
  <1>4. CASE OnRoster(n)
    <2> DEFINE gone == members[n] \ f.peers
               torn == gone \cup Offered(n, f.peers)
    <2>1. Receive(n, "Roster") /\ members' = [members EXCEPT ![n] = f.peers]
      BY <1>4 DEF OnRoster, f
    <2>2. f.peers \subseteq Joined \ {n}
      BY <1>3, <2>1 DEF FrameOk, Receive, f
    <2>3. PICK keep \in BOOLEAN :
            RotateIf(gone # {} /\ AmAuthority(n, f.peers), n, room_gen[n], f.peers,
                     link \ Pairs(n, torn), ForgetSess(n, torn), CutChan(n, torn, keep))
      BY <1>4 DEF OnRoster, f
    <2>4. members[n] \ f.peers \subseteq torn
      OBVIOUS
    <2>5. gone # {} \/ members[n] \subseteq f.peers
      OBVIOUS
    <2> HIDE DEF gone, torn
    <2>6. /\ link' = link \ Pairs(n, torn) /\ sess' = ForgetSess(n, torn)
          /\ \/ /\ AmAuthority(n, f.peers) /\ Adopt(n, Mint(n, room_gen[n] + 1))
                /\ chan' = SendEach(CutChan(n, torn, keep), link', sess', n, f.peers, KeyMsg(cur'[n]))
             \/ /\ KeepRing /\ chan' = CutChan(n, torn, keep)
                /\ AmAuthority(n, f.peers) => members[n] \subseteq f.peers
      BY <2>3, <2>5 DEF RotateIf
    <2>7. Arm(n, f.peers, torn, keep, sess')
      BY <2>1, <2>2, <2>4, <2>6 DEF Arm
    <2> QED BY <2>7
  <1>5. CASE OnPeerJoined(n)
    <2> DEFINE mem == members[n] \cup {f.user}
               torn == Offered(n, {f.user})
    <2>1. Receive(n, "PeerJoined") /\ members' = [members EXCEPT ![n] = mem]
      BY <1>5 DEF OnPeerJoined, f
    <2>2. mem \subseteq Joined \ {n}
      BY <1>1, <1>3, <2>1 DEF FrameOk, Receive, f
    <2>3. PICK keep \in BOOLEAN :
            RotateIf(AmAuthority(n, mem) /\ cur[n] # NoKey, n, room_gen[n], mem,
                     link \ Pairs(n, torn), ForgetSess(n, torn), CutChan(n, torn, keep))
      BY <1>5 DEF OnPeerJoined, f
    <2>4. members[n] \ mem \subseteq torn
      OBVIOUS
    <2>5. members[n] \subseteq mem
      OBVIOUS
    <2> HIDE DEF mem, torn
    <2>6. /\ link' = link \ Pairs(n, torn) /\ sess' = ForgetSess(n, torn)
          /\ \/ /\ AmAuthority(n, mem) /\ Adopt(n, Mint(n, room_gen[n] + 1))
                /\ chan' = SendEach(CutChan(n, torn, keep), link', sess', n, mem, KeyMsg(cur'[n]))
             \/ /\ KeepRing /\ chan' = CutChan(n, torn, keep)
                /\ AmAuthority(n, mem) => members[n] \subseteq mem
      BY <2>3, <2>5 DEF RotateIf
    <2>7. Arm(n, mem, torn, keep, sess')
      BY <2>1, <2>2, <2>4, <2>6 DEF Arm
    <2> QED BY <2>7
  <1>6. CASE OnPeerLeft(n)
    <2> DEFINE mem == members[n] \ {f.user}
               torn == {f.user}
    <2>1. Receive(n, "PeerLeft") /\ members' = [members EXCEPT ![n] = mem]
      BY <1>6 DEF OnPeerLeft, f
    <2>2. mem \subseteq Joined \ {n}
      BY <1>1
    <2>3. PICK keep \in BOOLEAN :
            RotateIf(AmAuthority(n, mem), n, room_gen[n], mem,
                     link \ Pairs(n, torn), ForgetSess(n, torn), CutChan(n, torn, keep))
      BY <1>6 DEF OnPeerLeft, f
    <2>4. members[n] \ mem \subseteq torn
      OBVIOUS
    <2> HIDE DEF mem, torn
    <2>5. /\ link' = link \ Pairs(n, torn) /\ sess' = ForgetSess(n, torn)
          /\ \/ /\ AmAuthority(n, mem) /\ Adopt(n, Mint(n, room_gen[n] + 1))
                /\ chan' = SendEach(CutChan(n, torn, keep), link', sess', n, mem, KeyMsg(cur'[n]))
             \/ /\ KeepRing /\ chan' = CutChan(n, torn, keep)
                /\ AmAuthority(n, mem) => members[n] \subseteq mem
      BY <2>3 DEF RotateIf
    <2>6. Arm(n, mem, torn, keep, sess')
      BY <2>1, <2>2, <2>4, <2>5 DEF Arm
    <2> QED BY <2>6
  <1>7. CASE OnRekey(n)
    <2> DEFINE mem == members[n]
               torn == Offered(n, members[n])
    <2>1. Receive(n, "Rekey") /\ members' = [members EXCEPT ![n] = mem]
      BY <1>1, <1>7 DEF OnRekey
    <2>2. mem \subseteq Joined \ {n}
      BY <1>1
    <2>3. PICK keep \in BOOLEAN :
            RotateIf(AmAuthority(n, mem), n, room_gen[n], mem,
                     link \ Pairs(n, torn), sess, CutChan(n, torn, keep))
      BY <1>7 DEF OnRekey
    <2>4. members[n] \ mem \subseteq torn
      OBVIOUS
    <2>5. members[n] \subseteq mem
      OBVIOUS
    <2> HIDE DEF mem, torn
    <2>6. /\ link' = link \ Pairs(n, torn) /\ sess' = sess
          /\ \/ /\ AmAuthority(n, mem) /\ Adopt(n, Mint(n, room_gen[n] + 1))
                /\ chan' = SendEach(CutChan(n, torn, keep), link', sess', n, mem, KeyMsg(cur'[n]))
             \/ /\ KeepRing /\ chan' = CutChan(n, torn, keep)
                /\ AmAuthority(n, mem) => members[n] \subseteq mem
      BY <2>3, <2>5 DEF RotateIf
    <2>7. Arm(n, mem, torn, keep, sess')
      BY <2>1, <2>2, <2>4, <2>6 DEF Arm
    <2> QED BY <2>7
  <1> QED BY <1>4, <1>5, <1>6, <1>7

LEMMA FramesStay ==
  ASSUME ~SameTick, StayInv, NEW n \in Node,
         OnRoster(n) \/ OnPeerJoined(n) \/ OnPeerLeft(n) \/ OnRekey(n)
  PROVE  StayInv'
  <1>1. PICK mem, torn, ss : \E keep \in BOOLEAN : Arm(n, mem, torn, keep, ss)
    BY FrameArms
  <1>2. PICK keep \in BOOLEAN : Arm(n, mem, torn, keep, ss)
    BY <1>1
  <1> QED BY <1>2, FrameStays DEF Arm

-----------------------------------------------------------------------------
(***************************************************************************)
(* Mesh events.                                                            *)
(***************************************************************************)
\* What waits still waits, but for the event that was taken.
Taken(n, p) ==
  \A i, j \in Node : \A x :
    Waits(chan[i][j], x) /\ ~(i = p /\ j = n /\ x = Head(chan[p][n])) => Waits(chan'[i][j], x)

LEMMA EventFacts ==
  ASSUME StayInv, NEW n \in Node, NEW p \in Node, NEW t, Event(n, p, t),
         UNCHANGED <<link, sess>>
  PROVE  /\ People' /\ Stays' /\ n \in Joined /\ p \in Joined /\ UNCHANGED status
         /\ Joined' = Joined /\ (\A a : First(a)' <=> First(a))
         /\ t # "Reply" /\ Taken(n, p) => Links'
  <1>1. /\ UNCHANGED <<room, inbox, status, online, members, budget>>
        /\ status[n] = "in" /\ chan[p][n] # <<>> /\ Head(chan[p][n]).t = t
    BY DEF Event, server_vars
  <1>2. Joined' = Joined /\ (\A a : First(a)' <=> First(a))
    BY <1>1, StillFirst
  <1>3. People' /\ Stays'
    BY <1>1, <1>2 DEF StayInv, People, Stays, FrameOk
  <1>4. n \in Joined /\ p \in Joined
    BY <1>1, EventGiven DEF StayInv
  <1>5. ASSUME t # "Reply", Taken(n, p) PROVE Links'
    <2>1. \A i, j \in Node : Waits(chan[j][i], Reply) => Waits(chan'[j][i], Reply)
      BY <1>1, <1>5, MessageKinds DEF Taken
    <2> QED BY <1>1, <2>1 DEF StayInv, Links
  <1> QED BY <1>1, <1>2, <1>3, <1>4, <1>5

\* A pair whose keys stay and whose queues lose at most the event taken.
LEMMA HandedPopped ==
  ASSUME NEW n \in Node, NEW p \in Node, Taken(n, p), NEW a \in Node, NEW x \in Node,
         Handed(a, x), cur'[a] = cur[a], cur'[x] = cur[x], room_gen'[a] = room_gen[a],
         room_gen'[x] = room_gen[x],
         Head(chan[p][n]).t # "Reply",
         n = a /\ p = x => Head(chan[p][n]).t # "Secure",
         n = x /\ p = a => Head(chan[p][n]) # KeyMsg(cur[a])
  PROVE  Handed(a, x)'
  <1>1. Waits(chan[x][a], Reply) => Waits(chan'[x][a], Reply)
    BY MessageKinds DEF Taken
  <1>2. Waits(chan[x][a], Secure) => Waits(chan'[x][a], Secure)
    BY MessageKinds DEF Taken
  <1>3. Waits(chan[a][x], KeyMsg(cur[a])) => Waits(chan'[a][x], KeyMsg(cur[a]))
    BY DEF Taken
  <1> QED BY <1>1, <1>2, <1>3 DEF Handed

LEMMA ReportedPopped ==
  ASSUME NEW n \in Node, NEW p \in Node, Taken(n, p), NEW a \in Node, NEW x \in Node,
         Reported(a, x), Rings, Rings', room_gen[a] <= room_gen'[a], room_gen'[x] = room_gen[x],
         n = x /\ p = a => Head(chan[p][n]).t # "Secure",
         n = a /\ p = x => Head(chan[p][n]) # GenMsg(room_gen[x])
  PROVE  Reported(a, x)'
  <1>1. Waits(chan[a][x], Secure) => Waits(chan'[a][x], Secure)
    BY MessageKinds DEF Taken
  <1>2. Waits(chan[x][a], GenMsg(room_gen[x])) => Waits(chan'[x][a], GenMsg(room_gen[x]))
    BY DEF Taken
  <1>3. room_gen[x] \in Nat /\ room_gen[a] \in Nat /\ room_gen'[a] \in Nat
    BY DEF Rings
  <1>4. room_gen[x] <= room_gen[a] => room_gen'[x] <= room_gen'[a]
    BY <1>3
  <1> QED BY <1>1, <1>2, <1>4 DEF Reported

LEMMA RestTaken ==
  ASSUME NEW S, Chans(chan, S), NEW n \in Node, NEW p \in Node, chan[p][n] # <<>>,
         chan' = Rest(n, p)
  PROVE  Taken(n, p)
  BY RestKeeps DEF Taken

LEMMA SendTaken ==
  ASSUME NEW S, Chans(chan, S), NEW n \in Node, NEW p \in Node, chan[p][n] # <<>>,
         NEW lk, NEW ss, NEW peers, NEW m,
         chan' = SendEach(Rest(n, p), lk, ss, n, peers, m)
  PROVE  Taken(n, p)
  <1>1. Chans(Rest(n, p), S)
    BY RestAllowed
  <1>2. ASSUME NEW i \in Node, NEW j \in Node, NEW x, Waits(chan[i][j], x),
               ~(i = p /\ j = n /\ x = Head(chan[p][n]))
        PROVE  Waits(chan'[i][j], x)
    <2>1. Waits(Rest(n, p)[i][j], x)
      BY <1>2, RestKeeps
    <2> QED BY <1>1, <2>1, SendKeeps
  <1> QED BY <1>2 DEF Taken

\* The message sent waits, when the session and the link are there.
LEMMA SentWaits ==
  ASSUME NEW S, Chans(chan, S), NEW n \in Node, NEW p \in Node, chan[p][n] # <<>>,
         NEW lk, NEW ss, NEW peers, NEW m, NEW x \in Node, To(lk, ss, n, peers, x),
         chan' = SendEach(Rest(n, p), lk, ss, n, peers, m)
  PROVE  Waits(chan'[n][x], m)
  <1>1. Chans(Rest(n, p), S)
    BY RestAllowed
  <1> DEFINE r == Rest(n, p)
  <1> HIDE DEF r
  <1>2. Chans(r, S)
    BY <1>1 DEF r
  <1>3. SendEach(r, lk, ss, n, peers, m)[n][x] = Append(r[n][x], m)
    BY <1>2, SendQueue
  <1>4. r[n][x] \in Seq(S[n][x])
    BY <1>1 DEF Chans, r
  <1>5. chan'[n][x] = Append(r[n][x], m)
    BY <1>3 DEF r
  <1> QED BY <1>4, <1>5, WaitsAppend

LEMMA SecureAuthorityStays ==
  ASSUME ~SameTick, StayInv, NEW n \in Node, NEW p \in Node, OnSecureAuthority(n, p)
  PROVE  StayInv'
  <1>1. /\ Event(n, p, "Secure") /\ AmAuthority(n, members[n]) /\ UNCHANGED <<link, sess>>
        /\ chan' = SendEach(Rest(n, p), link, sess, n, {p}, KeyMsg(cur'[n]))
        /\ chan[p][n] # <<>> /\ Head(chan[p][n]).t = "Secure" /\ members' = members
    BY DEF OnSecureAuthority, Event
  <1>2. /\ Typed /\ Rings /\ People /\ Links /\ Labels /\ Promises
        /\ Chans(chan, Given) /\ Chans(chan, AnyMsg) /\ InStep
    BY DEF StayInv, Typed
  <1>3. Taken(n, p)
    BY <1>1, <1>2, SendTaken
  <1>4. /\ People' /\ Stays' /\ n \in Joined /\ p \in Joined /\ UNCHANGED status
        /\ Joined' = Joined /\ (\A a : First(a)' <=> First(a)) /\ Links'
    BY <1>1, <1>3, EventFacts
  <1>5. Typed'
    BY <1>2, EventTyped
  <1>6. /\ Labels' /\ Promises' /\ cur'[n] \in Key
        /\ \A m \in Node : m # n => cur'[m] = cur[m] /\ room_gen'[m] = room_gen[m]
        /\ \A m \in Node : room_gen[m] <= room_gen'[m]
        /\ cur[n] # NoKey => cur'[n] = cur[n] /\ room_gen'[n] = room_gen[n]
        /\ cur[n] = NoKey => room_gen[n] = 0
    <2>1. CASE cur[n] = NoKey
      <3>1. room_gen[n] = 0
        BY <1>2, <2>1, KeyFacts DEF Labels, LabelOk
      <3>2. MaxOf(room_gen[n], 1) = 0 + 1 /\ room_gen[n] <= 0 /\ 0 \in Nat
        BY <3>1 DEF MaxOf
      <3>3. Adopt(n, Mint(n, 0 + 1))
        BY <2>1, <3>2 DEF OnSecureAuthority
      <3> QED BY <1>2, <1>4, <2>1, <3>1, <3>2, <3>3, MintStays
    <2>2. CASE cur[n] # NoKey
      <3>1. KeepRing /\ cur[n] \in Key
        BY <1>2, <2>2 DEF OnSecureAuthority, Rings
      <3> QED BY <1>2, <1>4, <2>2, <3>1, KeepStays
    <2> QED BY <2>1, <2>2
  <1>7. Chans(chan', Given')
    <2>1. \A i, j \in Node : Given[i][j] \subseteq Given'[i][j]
      BY <1>2, <1>4, <1>5, <1>6, GivenGrows DEF Typed
    <2>2. Chans(Rest(n, p), Given')
      BY <1>1, <1>2, <2>1, EventGiven, ChansGrow
    <2>3. cur'[n] \in GivenKeys(n)'
      <3>1. /\ cur'[n].gen = room_gen'[n] /\ room_gen'[n] \in Nat
            /\ First(n)' => cur'[n].auth = n
        BY <1>5, <1>6, KeyFacts DEF Labels, LabelOk, Typed, Rings
      <3> QED BY <1>6, <3>1 DEF GivenKeys
    <2>4. KeyMsg(cur'[n]) \in Given'[n][p]
      <3>1. Given'[n][p] = Sent(GivenKeys(n)')
        BY <1>4 DEF Given
      <3> QED BY <2>3, <3>1, SentFacts
    <2> QED BY <1>1, <2>2, <2>4, SendAllowed
  <1>8. ASSUME NEW a \in Node, NEW x \in Node, First(a)', <<a, x>> \in link'
        PROVE  Handed(a, x)' /\ Reported(a, x)'
    <2>1. First(a) /\ <<a, x>> \in link /\ a \in members[x] /\ x \in members[a]
      BY <1>1, <1>2, <1>4, <1>8 DEF Links
    <2>2. Handed(a, x) /\ Reported(a, x)
      BY <1>2, <2>1 DEF InStep
    <2>3. x # n
      BY <1>1, <1>2, <1>4, <2>1, KnowsFirst DEF People
    <2>4. Reported(a, x)'
      BY <1>1, <1>2, <1>3, <1>5, <1>6, <2>2, <2>3, ReportedPopped, MessageKinds DEF Typed
    <2>5. CASE a = n /\ x = p
      <3>1. x \in sess[a] \/ Waits(chan'[x][a], Reply)
        BY <1>1, <1>4, <1>8 DEF Links
      <3>2. ASSUME x \in sess[a] PROVE Waits(chan'[n][x], KeyMsg(cur'[n]))
        <4>1. To(link, sess, n, {p}, x)
          BY <2>1, <2>5, <3>2 DEF To
        <4> QED BY <1>1, <1>2, <4>1, SentWaits
      <3> QED BY <1>6, <2>4, <2>5, <3>1, <3>2, KeyFacts DEF Handed
    <2>6. CASE a = n /\ x # p /\ cur[n] = NoKey
      <3>1. ~(room_gen[a] > ROOM_GEN_BOUND)
        BY <1>6, <2>6, GroupConstants
      <3>2. Waits(chan[x][a], Reply) \/ Waits(chan[x][a], Secure)
        BY <2>2, <2>6, <3>1 DEF Handed
      <3> QED BY <1>3, <2>4, <2>6, <3>2 DEF Taken, Handed
    <2>7. CASE ~(a = n /\ x = p) /\ ~(a = n /\ x # p /\ cur[n] = NoKey)
      <3>1. /\ cur'[a] = cur[a] /\ cur'[x] = cur[x] /\ room_gen'[a] = room_gen[a]
            /\ room_gen'[x] = room_gen[x]
        BY <1>6, <2>3, <2>7
      <3>2. /\ Head(chan[p][n]).t # "Reply" /\ ~(n = a /\ p = x)
            /\ Head(chan[p][n]) # KeyMsg(cur[a])
        BY <1>1, <2>7, MessageKinds
      <3>3. Handed(a, x)'
        BY <1>3, <2>2, <3>1, <3>2, HandedPopped
      <3> QED BY <2>4, <3>3
    <2> QED BY <2>5, <2>6, <2>7
  <1> QED BY <1>4, <1>5, <1>6, <1>7, <1>8 DEF StayInv, InStep

LEMMA SecureMemberStays ==
  ASSUME ~Overtake, StayInv, NEW n \in Node, NEW p \in Node, OnSecureMember(n, p)
  PROVE  StayInv'
  <1> DEFINE rep == IsAuthorityPeer(p, n, members[n]) /\ cur[n] # NoKey
  <1>1. /\ Event(n, p, "Secure") /\ ~AmAuthority(n, members[n]) /\ UNCHANGED <<link, sess>>
        /\ chan[p][n] # <<>> /\ Head(chan[p][n]).t = "Secure" /\ KeepRing
        /\ rep => chan' = SendEach(Rest(n, p), link, sess, n, {p}, GenMsg(cur[n].gen))
        /\ ~rep => chan' = Rest(n, p)
    BY DEF OnSecureMember, Event
  <1>2. /\ Typed /\ Rings /\ People /\ Links /\ Labels /\ Promises
        /\ Chans(chan, Given) /\ Chans(chan, AnyMsg) /\ InStep
    BY DEF StayInv, Typed
  <1>3. Taken(n, p)
    BY <1>1, <1>2, SendTaken, RestTaken
  <1>4. /\ People' /\ Stays' /\ n \in Joined /\ p \in Joined /\ UNCHANGED status
        /\ Joined' = Joined /\ (\A a : First(a)' <=> First(a)) /\ Links'
    BY <1>1, <1>3, EventFacts
  <1>5. Typed'
    BY <1>2, EventTyped
  <1>6. /\ Labels' /\ Promises' /\ cur' = cur /\ room_gen' = room_gen
        /\ \A m \in Node : room_gen[m] <= room_gen'[m]
    BY <1>1, <1>2, <1>4, KeepStays
  <1>7. Chans(chan', Given')
    <2>1. \A i, j \in Node : Given[i][j] \subseteq Given'[i][j]
      BY <1>2, <1>4, <1>5, <1>6, GivenGrows DEF Typed
    <2>2. Chans(Rest(n, p), Given')
      BY <1>1, <1>2, <2>1, EventGiven, ChansGrow
    <2>3. rep => GenMsg(cur[n].gen) \in Given'[n][p]
      <3>1. Given'[n][p] = Sent(GivenKeys(n)')
        BY <1>4 DEF Given
      <3>2. cur[n].gen \in Nat
        BY <1>2 DEF Labels, LabelOk, Rings
      <3> QED BY <3>1, <3>2, SentFacts
    <2> QED BY <1>1, <2>2, <2>3, SendAllowed
  <1>8. ASSUME NEW a \in Node, NEW x \in Node, First(a)', <<a, x>> \in link'
        PROVE  Handed(a, x)' /\ Reported(a, x)'
    <2>1. First(a) /\ <<a, x>> \in link /\ a \in members[x] /\ x \in members[a] /\ a \in sess[x]
      BY <1>1, <1>2, <1>4, <1>8 DEF Links
    <2>2. Handed(a, x) /\ Reported(a, x)
      BY <1>2, <2>1 DEF InStep
    <2>3. a # n
      BY <1>1, <1>2, <2>1, FirstFacts
    <2>4. Handed(a, x)'
      <3>1. Head(chan[p][n]).t # "Reply" /\ Head(chan[p][n]) # KeyMsg(cur[a])
        BY <1>1, MessageKinds
      <3> QED BY <1>3, <1>6, <2>2, <2>3, <3>1, HandedPopped
    <2>5. CASE x = n /\ p = a
      <3>1. IsAuthorityPeer(a, n, members[n])
        BY <1>2, <1>4, <2>1, <2>5, KnowsFirst DEF People
      <3>2. cur[n].gen = room_gen[n] /\ room_gen[a] \in Nat
        BY <1>2 DEF Labels, LabelOk, Rings
      <3>3. CASE cur[n] = NoKey
        <4>1. room_gen[n] <= room_gen[a]
          BY <3>2, <3>3, KeyFacts
        <4> QED BY <1>6, <2>4, <2>5, <4>1 DEF Reported
      <3>4. CASE cur[n] # NoKey
        <4>1. To(link, sess, n, {p}, a)
          BY <2>1, <2>5 DEF To
        <4>2. chan' = SendEach(Rest(n, p), link, sess, n, {p}, GenMsg(room_gen[n]))
          BY <1>1, <2>5, <3>1, <3>2, <3>4
        <4>3. Waits(chan'[n][a], GenMsg(room_gen[n]))
          BY <1>1, <1>2, <4>1, <4>2, SentWaits
        <4> QED BY <1>6, <2>4, <2>5, <4>3 DEF Reported
      <3> QED BY <3>3, <3>4
    <2>6. CASE ~(x = n /\ p = a)
      <3>1. Reported(a, x)'
        BY <1>2, <1>3, <1>5, <1>6, <2>2, <2>3, <2>6, ReportedPopped DEF Typed
      <3> QED BY <2>4, <3>1
    <2> QED BY <2>5, <2>6
  <1> QED BY <1>4, <1>5, <1>6, <1>7, <1>8 DEF StayInv, InStep

\* A key that is not better than the one a node has, of the same authority or
\* a smaller one, is that key or an older one.
LEMMA NotBetter ==
  ASSUME NEW k \in Key, NEW c \in Key \cup {NoKey}, ~Better(k, c),
         c # NoKey => c.auth \in Node /\ k.auth <= c.auth
  PROVE  c = k \/ k.gen < c.gen
  <1>1. c \in Key /\ c # NoKey
    BY DEF Better
  <1>2. k.gen \in Nat /\ c.gen \in Nat /\ k.auth \in Nat /\ c.auth \in Nat
    BY <1>1, KeyFacts, RoomAudioConstants
  <1>3. ~(k.gen > c.gen) /\ ~(k.gen = c.gen /\ k.auth < c.auth)
    BY DEF Better
  <1>4. CASE k.gen = c.gen
    <2>1. k.auth = c.auth
      BY <1>1, <1>2, <1>3, <1>4
    <2> QED BY <1>1, <1>4, <2>1 DEF Key
  <1>5. CASE k.gen # c.gen
    BY <1>2, <1>3, <1>5
  <1> QED BY <1>4, <1>5

LEMMA NoNewer ==
  ASSUME NEW k \in Key, NEW c \in Key, \/ k.gen < c.gen
                                       \/ k.auth = c.auth /\ k.gen <= c.gen
  PROVE  ~Better(k, c)
  <1>1. /\ k.gen \in Nat /\ c.gen \in Nat /\ k.auth \in Nat /\ c.auth \in Nat /\ c # NoKey
    BY KeyFacts, RoomAudioConstants
  <1>2. ~(k.gen > c.gen) /\ ~(k.gen = c.gen /\ k.auth < c.auth)
    BY <1>1
  <1> QED BY <1>1, <1>2 DEF Better

LEMMA RoomKeyStays ==
  ASSUME ~SameTick, StayInv, NEW n \in Node, NEW p \in Node, OnRoomKey(n, p)
  PROVE  StayInv'
  <1> DEFINE h == Head(chan[p][n])
             k == h.key
             new == [gen |-> k.gen, auth |-> p]
  <1>1. /\ Event(n, p, "RoomKey") /\ UNCHANGED <<link, sess>> /\ chan' = Rest(n, p)
        /\ chan[p][n] # <<>> /\ h.t = "RoomKey" /\ members' = members
        /\ \/ IsAuthorityPeer(p, n, members[n]) /\ Adopt(n, new)
           \/ /\ KeepRing
              /\ IsAuthorityPeer(p, n, members[n]) => ~(k.gen <= room_gen[n] + ROOM_GEN_BOUND)
    BY DEF OnRoomKey, Event
  <1>2. /\ Typed /\ Rings /\ People /\ Links /\ Labels /\ Promises
        /\ Chans(chan, Given) /\ Chans(chan, AnyMsg) /\ InStep
    BY DEF StayInv, Typed
  <1>3. Taken(n, p)
    BY <1>1, <1>2, RestTaken
  <1>4. /\ People' /\ Stays' /\ n \in Joined /\ p \in Joined /\ UNCHANGED status
        /\ Joined' = Joined /\ (\A a : First(a)' <=> First(a)) /\ Links'
    BY <1>1, <1>3, EventFacts
  <1>5. Typed'
    BY <1>2, EventTyped
  <1>6. k \in GivenKeys(p) /\ h = KeyMsg(k) /\ k \in Key /\ k.gen <= room_gen[p]
    BY <1>1, <1>2, EventGiven DEF GivenKeys
  <1>7. new \in Key /\ new.gen = k.gen /\ new.auth = p /\ k.gen \in Nat
    BY <1>6, KeyFacts DEF Key
  <1> HIDE DEF h, k, new
  <1>8. ASSUME IsAuthorityPeer(p, n, members[n]), Better(new, cur[n]), Adopt(n, new)
        PROVE  /\ Labels' /\ Promises'
               /\ cur'[n] = new /\ room_gen'[n] = k.gen /\ room_gen[n] <= k.gen
               /\ \A m \in Node : m # n => cur'[m] = cur[m] /\ room_gen'[m] = room_gen[m]
    <2>1. Take(n, new)
      BY <1>8 DEF Adopt
    <2>2. /\ cur' = [cur EXCEPT ![n] = new] /\ room_gen' = [room_gen EXCEPT ![n] = new.gen]
          /\ room_gen[n] <= new.gen /\ Promises'
      BY <1>2, <1>7, <1>8, <2>1, TakeSteps
    <2>3. cur \in [Node -> Key \cup {NoKey}] /\ room_gen \in [Node -> Nat]
      BY <1>2 DEF Rings
    <2>4. /\ cur'[n] = new /\ room_gen'[n] = k.gen /\ room_gen[n] <= k.gen
          /\ \A m \in Node : m # n => cur'[m] = cur[m] /\ room_gen'[m] = room_gen[m]
      BY <1>7, <2>2, <2>3
    <2>5. ~First(n)
      BY <1>2, <1>4, <1>8, FirstFacts
    <2>6. ASSUME NEW m \in Node PROVE LabelOk(m)'
      <3>1. CASE m = n
        BY <1>4, <1>7, <2>4, <2>5, <3>1 DEF LabelOk
      <3>2. CASE m # n
        BY <1>2, <1>4, <2>4, <3>2 DEF LabelOk, Labels
      <3> QED BY <3>1, <3>2
    <2> QED BY <2>2, <2>4, <2>6 DEF Labels
  <1>9. ASSUME KeepRing
        PROVE  Labels' /\ Promises' /\ cur' = cur /\ room_gen' = room_gen
    BY <1>2, <1>4, <1>9, KeepStays
  <1>10. \/ /\ IsAuthorityPeer(p, n, members[n]) /\ Better(new, cur[n]) /\ Adopt(n, new)
         \/ /\ KeepRing
            /\ \/ ~IsAuthorityPeer(p, n, members[n])
               \/ ~(k.gen <= room_gen[n] + ROOM_GEN_BOUND)
               \/ ~Better(new, cur[n])
    BY <1>1 DEF Adopt
  <1>11. /\ Labels' /\ Promises'
         /\ \A m \in Node : m # n => cur'[m] = cur[m] /\ room_gen'[m] = room_gen[m]
         /\ \A m \in Node : room_gen[m] <= room_gen'[m]
    <2>1. \A m \in Node : room_gen[m] \in Nat
      BY <1>2 DEF Rings
    <2>2. CASE IsAuthorityPeer(p, n, members[n]) /\ Better(new, cur[n]) /\ Adopt(n, new)
      <3>1. \A m \in Node : room_gen[m] <= room_gen'[m]
        BY <1>8, <2>1, <2>2
      <3> QED BY <1>8, <2>2, <3>1
    <2>3. CASE KeepRing
      BY <1>9, <2>1, <2>3
    <2> QED BY <1>10, <2>2, <2>3
  <1>12. Chans(chan', Given')
    <2>1. \A i, j \in Node : Given[i][j] \subseteq Given'[i][j]
      BY <1>2, <1>4, <1>5, <1>11, GivenGrows DEF Typed
    <2> QED BY <1>1, <1>2, <2>1, EventGiven, ChansGrow
  <1>13. ASSUME NEW a \in Node, NEW x \in Node, First(a)', <<a, x>> \in link'
         PROVE  Handed(a, x)' /\ Reported(a, x)'
    <2>1. /\ First(a) /\ <<a, x>> \in link /\ a \in members[x] /\ x \in members[a] /\ a # x
          /\ a \in Joined
      <3>1. First(a) /\ <<a, x>> \in link /\ a \in members[x] /\ x \in members[a]
        BY <1>1, <1>2, <1>4, <1>13 DEF Links
      <3> QED BY <1>2, <3>1, FirstFacts DEF People
    <2>2. Handed(a, x) /\ Reported(a, x)
      BY <1>2, <2>1 DEF InStep
    <2>3. h.t # "Reply" /\ h.t # "Secure" /\ \A g : h # GenMsg(g)
      BY <1>1, MessageKinds
    <2>4. CASE /\ cur'[x] = cur[x] /\ cur'[a] = cur[a] /\ room_gen'[a] = room_gen[a]
               /\ room_gen'[x] = room_gen[x] /\ ~(n = x /\ p = a /\ h = KeyMsg(cur[a]))
      <3>1. Handed(a, x)'
        BY <1>3, <2>2, <2>3, <2>4, HandedPopped DEF h
      <3>2. Reported(a, x)'
        BY <1>2, <1>3, <1>5, <1>11, <2>2, <2>3, <2>4, ReportedPopped DEF Typed, h
      <3> QED BY <3>1, <3>2
    <2>5. CASE n = x /\ p = a
      <3>1. IsAuthorityPeer(p, n, members[n])
        BY <1>2, <1>4, <2>1, <2>5, KnowsFirst DEF People
      <3>2. /\ room_gen[a] \in Nat /\ room_gen[n] \in Nat /\ cur[n].gen = room_gen[n]
            /\ cur[a].gen = room_gen[a]
            /\ cur[a] # NoKey => cur[a].auth = a
            /\ cur[n] # NoKey => cur[n].auth \in Joined
            /\ room_gen'[a] = room_gen[a] /\ cur'[a] = cur[a]
        BY <1>2, <1>11, <2>1, <2>5 DEF Labels, LabelOk, Rings
      <3>3. /\ cur[n] \in Key \cup {NoKey} /\ cur[a] \in Key \cup {NoKey}
        BY <1>2 DEF Rings
      <3>4. ASSUME h = KeyMsg(cur[a]) PROVE k = cur[a]
        BY <1>6, <3>4 DEF KeyMsg
      <3>5. ASSUME k = cur[a] PROVE new = cur[a] /\ cur[a] # NoKey
        <4>1. cur[a] # NoKey /\ cur[a] \in Key
          BY <1>6, <3>5, KeyFacts
        <4> QED BY <1>7, <2>5, <3>2, <3>5, <4>1 DEF Key
      <3>6. CASE Better(new, cur[n]) /\ Adopt(n, new)
        <4>1. cur'[n] = new /\ room_gen'[n] = k.gen
          BY <1>8, <3>1, <3>6
        <4>2. Reported(a, x)'
          BY <1>6, <2>5, <3>2, <4>1 DEF Reported
        <4>3. Handed(a, x)'
          <5>1. CASE new = cur[a] /\ cur[a] # NoKey
            BY <2>5, <3>2, <4>1, <5>1 DEF Handed
          <5>2. CASE cur[a] # NoKey /\ cur[n] = cur[a]
            <6>1. cur[n] \in Key /\ new.auth = cur[n].auth /\ new.gen <= cur[n].gen
              BY <1>6, <1>7, <2>5, <3>2, <3>3, <5>2
            <6> QED BY <1>7, <3>6, <6>1, NoNewer
          <5>3. CASE cur[a] # NoKey /\ room_gen[a] < room_gen[n]
            <6>1. k.gen < cur[n].gen
              BY <1>6, <1>7, <2>5, <3>2, <5>3
            <6>2. cur[n] # NoKey
              BY <1>7, <6>1, KeyFacts
            <6> QED BY <1>7, <3>3, <3>6, <6>1, <6>2, NoNewer
          <5>4. CASE /\ cur[a] # NoKey /\ Waits(chan[a][n], KeyMsg(cur[a]))
                     /\ ~(new = cur[a])
            <6>1. Waits(chan'[a][n], KeyMsg(cur[a]))
              BY <1>3, <2>5, <3>4, <3>5, <5>4 DEF Taken, h
            <6> QED BY <2>5, <3>2, <5>4, <6>1 DEF Handed
          <5>5. CASE room_gen[a] > ROOM_GEN_BOUND
            BY <3>2, <5>5 DEF Handed
          <5>6. CASE Waits(chan[n][a], Reply) \/ Waits(chan[n][a], Secure)
            <6>1. Waits(chan'[n][a], Reply) \/ Waits(chan'[n][a], Secure)
              BY <1>3, <2>1, <2>5, <5>6 DEF Taken
            <6> QED BY <2>5, <6>1 DEF Handed
          <5> QED BY <2>2, <2>5, <5>1, <5>2, <5>3, <5>4, <5>5, <5>6 DEF Handed
        <4> QED BY <4>2, <4>3
      <3>7. CASE KeepRing /\ h = KeyMsg(cur[a])
        <4>1. cur' = cur /\ room_gen' = room_gen
          BY <1>9, <3>7
        <4>2. Reported(a, x)'
          BY <1>2, <1>3, <1>5, <1>11, <2>2, <2>3, <4>1, ReportedPopped DEF Typed, h
        <4>3. new = cur[a] /\ cur[a] # NoKey /\ k = cur[a]
          BY <3>4, <3>5, <3>7
        <4>4. CASE ~Better(new, cur[n])
          <5>1. cur[n] # NoKey => cur[n].auth \in Node /\ new.auth <= cur[n].auth
            BY <1>7, <2>1, <2>5, <3>2 DEF First, Joined
          <5>2. cur[n] = new \/ new.gen < cur[n].gen
            BY <1>7, <3>3, <4>4, <5>1, NotBetter
          <5>3. cur[n] = cur[a] \/ room_gen[a] < room_gen[n]
            BY <3>2, <4>3, <5>2
          <5> QED BY <2>5, <4>1, <4>2, <4>3, <5>3 DEF Handed
        <4>5. CASE ~(k.gen <= room_gen[n] + ROOM_GEN_BOUND)
          <5>1. k.gen = room_gen[a]
            BY <3>2, <4>3
          <5>2. room_gen[a] > ROOM_GEN_BOUND
            BY <3>2, <4>5, <5>1, GroupConstants
          <5> QED BY <2>5, <3>2, <4>2, <5>2 DEF Handed
        <4> QED BY <1>10, <3>1, <3>6, <4>4, <4>5
      <3>8. CASE KeepRing /\ h # KeyMsg(cur[a])
        BY <1>9, <2>4, <3>8
      <3> QED BY <1>10, <3>6, <3>7, <3>8
    <2>6. CASE n = x /\ p # a
      <3>1. ~IsAuthorityPeer(p, n, members[n])
        BY <1>2, <1>4, <2>1, <2>6, KnowsFirst DEF People
      <3> QED BY <1>9, <1>10, <2>4, <2>6, <3>1
    <2>7. CASE n = a
      <3>1. ~IsAuthorityPeer(p, n, members[n])
        BY <1>2, <1>4, <2>1, <2>7, FirstFacts
      <3> QED BY <1>9, <1>10, <2>1, <2>4, <2>7, <3>1
    <2>8. CASE n # a /\ n # x
      BY <1>11, <2>4, <2>8
    <2> QED BY <2>5, <2>6, <2>7, <2>8
  <1> QED BY <1>4, <1>5, <1>11, <1>12, <1>13 DEF StayInv, InStep

LEMMA RoomGenStays ==
  ASSUME ~SameTick, StayInv, NEW n \in Node, NEW p \in Node, OnRoomGen(n, p)
  PROVE  StayInv'
  <1> DEFINE h == Head(chan[p][n])
             g == h.key.gen
             cond == /\ AmAuthority(n, members[n]) /\ p \in members[n]
                     /\ g > room_gen[n] /\ g <= room_gen[n] + ROOM_GEN_BOUND
  <1>1. /\ Event(n, p, "RoomGen") /\ UNCHANGED <<link, sess>>
        /\ chan[p][n] # <<>> /\ h.t = "RoomGen" /\ members' = members
        /\ RotateIf(cond, n, g, members[n], link, sess, Rest(n, p))
    BY DEF OnRoomGen, Event, RotateIf
  <1>2. /\ Typed /\ Rings /\ People /\ Links /\ Labels /\ Promises
        /\ Chans(chan, Given) /\ Chans(chan, AnyMsg) /\ InStep
    BY DEF StayInv, Typed
  <1> HIDE DEF cond, g, h
  <1>3. \/ /\ cond /\ Adopt(n, Mint(n, g + 1))
           /\ chan' = SendEach(Rest(n, p), link, sess, n, members[n], KeyMsg(cur'[n]))
        \/ ~cond /\ KeepRing /\ chan' = Rest(n, p)
    BY <1>1 DEF RotateIf
  <1>4. Taken(n, p)
    BY <1>1, <1>2, <1>3, SendTaken, RestTaken
  <1>5. /\ People' /\ Stays' /\ n \in Joined /\ p \in Joined /\ UNCHANGED status
        /\ Joined' = Joined /\ (\A a : First(a)' <=> First(a)) /\ Links'
    BY <1>1, <1>4, EventFacts
  <1>6. Typed'
    BY <1>2, EventTyped
  <1>7. g \in Nat /\ room_gen[n] \in Nat
    <2>1. h \in Sent(GivenKeys(p))
      BY <1>1, <1>2, <1>5, EventGiven DEF Given, h
    <2> QED BY <1>1, <1>2, <2>1, SentFacts DEF Rings, g
  <1>8. ASSUME cond, Adopt(n, Mint(n, g + 1))
        PROVE  /\ Labels' /\ Promises'
               /\ cur'[n] = Mint(n, g + 1) /\ cur'[n] \in Key /\ room_gen'[n] = g + 1
               /\ \A m \in Node : m # n => cur'[m] = cur[m] /\ room_gen'[m] = room_gen[m]
               /\ \A m \in Node : room_gen[m] <= room_gen'[m]
    <2>1. room_gen[n] <= g
      BY <1>7, <1>8 DEF cond
    <2> QED BY <1>2, <1>5, <1>7, <1>8, <2>1, MintStays
  <1>9. ASSUME KeepRing
        PROVE  /\ Labels' /\ Promises' /\ cur' = cur /\ room_gen' = room_gen
               /\ \A m \in Node : room_gen[m] <= room_gen'[m]
    BY <1>2, <1>5, <1>9, KeepStays
  <1>10. /\ Labels' /\ Promises'
         /\ \A m \in Node : m # n => cur'[m] = cur[m] /\ room_gen'[m] = room_gen[m]
         /\ \A m \in Node : room_gen[m] <= room_gen'[m]
    BY <1>3, <1>8, <1>9
  <1>11. Chans(chan', Given')
    <2>1. \A i, j \in Node : Given[i][j] \subseteq Given'[i][j]
      BY <1>2, <1>5, <1>6, <1>10, GivenGrows DEF Typed
    <2>2. Chans(Rest(n, p), Given')
      BY <1>1, <1>2, <2>1, EventGiven, ChansGrow
    <2>3. CASE /\ cond /\ Adopt(n, Mint(n, g + 1))
               /\ chan' = SendEach(Rest(n, p), link, sess, n, members[n], KeyMsg(cur'[n]))
      <3>1. /\ cur'[n] \in Key /\ cur'[n].auth = n /\ cur'[n].gen = g + 1 /\ room_gen'[n] = g + 1
        BY <1>8, <2>3 DEF Mint
      <3>2. cur'[n] \in GivenKeys(n)'
        BY <1>7, <3>1 DEF GivenKeys
      <3>3. ASSUME NEW q \in Node, q \in members[n] PROVE KeyMsg(cur'[n]) \in Given'[n][q]
        <4>1. q \in Joined' /\ n \in Joined'
          BY <1>2, <1>5, <3>3 DEF People
        <4>2. Given'[n][q] = Sent(GivenKeys(n)')
          BY <4>1 DEF Given
        <4> QED BY <3>2, <4>2, SentFacts
      <3> QED BY <2>2, <2>3, <3>3, SendAllowed
    <2>4. CASE chan' = Rest(n, p)
      BY <2>2, <2>4
    <2> QED BY <1>3, <2>3, <2>4
  <1>12. ASSUME NEW a \in Node, NEW x \in Node, First(a)', <<a, x>> \in link'
         PROVE  Handed(a, x)' /\ Reported(a, x)'
    <2>1. First(a) /\ <<a, x>> \in link /\ a \in members[x] /\ x \in members[a]
      BY <1>1, <1>2, <1>5, <1>12 DEF Links
    <2>2. Handed(a, x) /\ Reported(a, x)
      BY <1>2, <2>1 DEF InStep
    <2>3. h.t # "Reply" /\ h.t # "Secure" /\ \A k : h # KeyMsg(k)
      BY <1>1, MessageKinds
    <2>4. a # x
      BY <1>2, <2>1 DEF People
    <2>5. /\ AmAuthority(a, members[a])
          /\ x = n => ~AmAuthority(n, members[n])
      BY <1>2, <1>5, <2>1, FirstFacts, KnowsFirst DEF People
    <2>6. room_gen'[x] = room_gen[x] /\ cur'[x] = cur[x]
      BY <1>3, <1>9, <1>10, <2>5 DEF cond
    <2>7. Handed(a, x)'
      <3>1. CASE cur'[a] = cur[a] /\ room_gen'[a] = room_gen[a]
        BY <1>4, <2>2, <2>3, <2>6, <3>1, HandedPopped DEF h
      <3>2. CASE /\ a = n /\ cond /\ Adopt(n, Mint(n, g + 1))
                 /\ chan' = SendEach(Rest(n, p), link, sess, n, members[n], KeyMsg(cur'[n]))
        <4>1. x \in sess[a] \/ Waits(chan'[x][a], Reply)
          BY <1>1, <1>5, <1>12 DEF Links
        <4>2. ASSUME x \in sess[a] PROVE Waits(chan'[n][x], KeyMsg(cur'[n]))
          <5>1. To(link, sess, n, members[n], x)
            BY <2>1, <3>2, <4>2 DEF To
          <5> QED BY <1>1, <1>2, <3>2, <5>1, SentWaits
        <4>3. cur'[n] # NoKey
          BY <1>8, <3>2, KeyFacts
        <4> QED BY <3>2, <4>1, <4>2, <4>3 DEF Handed
      <3> QED BY <1>3, <1>9, <1>10, <3>1, <3>2
    <2>8. Reported(a, x)'
      <3>1. CASE ~(n = a /\ p = x /\ h = GenMsg(room_gen[x]))
        BY <1>2, <1>4, <1>6, <1>10, <2>2, <2>3, <2>6, <3>1, ReportedPopped DEF Typed, h
      <3>2. CASE n = a /\ p = x /\ h = GenMsg(room_gen[x])
        <4>1. g = room_gen[x]
          BY <3>2 DEF g, GenMsg
        <4>2. CASE cond /\ Adopt(n, Mint(n, g + 1))
          <5>1. room_gen'[x] <= room_gen'[a]
            BY <1>7, <1>8, <2>6, <3>2, <4>1, <4>2
          <5> QED BY <5>1 DEF Reported
        <4>3. CASE KeepRing /\ ~cond
          <5>1. \/ room_gen[x] <= room_gen[a] \/ room_gen[x] > ROOM_GEN_BOUND
            <6>1. \/ ~(g > room_gen[n]) \/ ~(g <= room_gen[n] + ROOM_GEN_BOUND)
              BY <2>1, <2>5, <3>2, <4>3 DEF cond
            <6> QED BY <1>7, <3>2, <4>1, <6>1, GroupConstants
          <5>2. room_gen' = room_gen
            BY <1>9, <4>3
          <5> QED BY <5>1, <5>2 DEF Reported
        <4> QED BY <1>3, <4>2, <4>3
      <3> QED BY <3>1, <3>2
    <2> QED BY <2>7, <2>8
  <1> QED BY <1>5, <1>6, <1>10, <1>11, <1>12 DEF StayInv, InStep

LEMMA PromoteStays ==
  ASSUME StayInv, NEW n \in Node, NEW g, OnPromote(n, g)
  PROVE  StayInv'
  <1>1. /\ UNCHANGED <<room, inbox, status, online, members, budget, link, sess, chan>>
        /\ cur' = cur /\ room_gen' = room_gen
    BY DEF OnPromote, server_vars, mesh_vars
  <1>2. Joined' = Joined /\ \A a : First(a)' <=> First(a)
    BY <1>1, StillFirst
  <1>3. Typed'
    <2>1. Rings'
      BY PromoteRings DEF StayInv, Typed
    <2> QED BY <1>1, <2>1 DEF StayInv, Typed
  <1>4. Promises'
    BY PromotePromises DEF StayInv
  <1>5. Chans(chan', Given')
    <2>1. \A p \in Node : room_gen[p] <= room_gen'[p]
      BY <1>1 DEF StayInv, Typed, Rings
    <2>2. \A i, j \in Node : Given[i][j] \subseteq Given'[i][j]
      BY <1>2, <1>3, <2>1, GivenGrows DEF Typed, StayInv
    <2> QED BY <1>1, <2>2, ChansGrow DEF StayInv
  <1>6. People' /\ Stays' /\ Links' /\ Labels'
    BY <1>1, <1>2 DEF StayInv, People, Stays, Links, Labels, LabelOk, FrameOk
  <1>7. InStep'
    BY <1>1, <1>2 DEF StayInv, InStep, Handed, Reported
  <1> QED BY <1>3, <1>4, <1>5, <1>6, <1>7 DEF StayInv

-----------------------------------------------------------------------------
(***************************************************************************)
(* Links, handshakes and the room.                                         *)
(***************************************************************************)
\* A step that leaves the keys and the lists alone.
LEMMA OthersStay ==
  ASSUME StayInv, UNCHANGED <<ring_vars, members>>, Typed', People', Stays', Links',
         Joined \subseteq Joined', \A a \in Joined : First(a)' => First(a),
         Chans(chan', Given),
         \A a, x \in Node : First(a) /\ <<a, x>> \in link' => Handed(a, x)' /\ Reported(a, x)'
  PROVE  StayInv'
  <1>1. /\ Rings /\ Rings' /\ People /\ Labels /\ Promises
        /\ cur' = cur /\ room_gen' = room_gen /\ send' = send /\ timers' = timers
    BY DEF StayInv, Typed, ring_vars
  <1>2. ASSUME NEW m \in Node PROVE LabelOk(m)'
    <2>1. LabelOk(m)
      BY <1>1 DEF Labels
    <2>2. m \in Joined \/ cur[m] = NoKey
      BY <2>1 DEF LabelOk
    <2> QED BY <1>1, <2>1, <2>2 DEF LabelOk
  <1>3. Promises'
    BY <1>1 DEF Promises, PromiseOk
  <1>4. Chans(chan', Given')
    <2>1. \A p \in Node : room_gen[p] <= room_gen'[p]
      BY <1>1 DEF Rings
    <2>2. \A i, j \in Node : Given[i][j] \subseteq Given'[i][j]
      BY <1>1, <2>1, GivenGrows
    <2> QED BY <2>2, ChansGrow
  <1>5. ASSUME NEW a \in Node, NEW x \in Node, First(a)', <<a, x>> \in link'
        PROVE  Handed(a, x)' /\ Reported(a, x)'
    <2>1. a \in members[x]
      BY <1>5 DEF Links
    <2>2. First(a)
      BY <1>1, <1>5, <2>1 DEF People
    <2> QED BY <1>5, <2>2
  <1> QED BY <1>2, <1>3, <1>4, <1>5 DEF StayInv, Labels, InStep

LEMMA InboxOk ==
  ASSUME People, Joined \subseteq Joined', inbox' = [m \in Node |-> inbox'[m]],
         \A m \in Node : \/ inbox'[m] = inbox[m] \/ inbox'[m] = <<>>
                         \/ \E f \in AnyFrame : /\ FrameOk(m, f)'
                                                /\ inbox'[m] \in {Append(inbox[m], f), <<f>>}
  PROVE  /\ inbox' \in [Node -> Seq(AnyFrame)]
         /\ \A m \in Node : \A i \in 1 .. Len(inbox'[m]) : FrameOk(m, inbox[m][i])'
  <1>1. ASSUME NEW m \in Node
        PROVE  /\ inbox'[m] \in Seq(AnyFrame)
               /\ \A i \in 1 .. Len(inbox'[m]) : FrameOk(m, inbox[m][i])'
    <2>1. /\ inbox[m] \in Seq(AnyFrame)
          /\ \A i \in 1 .. Len(inbox[m]) : FrameOk(m, inbox[m][i])
      BY DEF People
    <2>2. \A i \in 1 .. Len(inbox[m]) : FrameOk(m, inbox[m][i]) /\ inbox'[m][i] = inbox[m][i]
            => FrameOk(m, inbox[m][i])'
      BY DEF FrameOk
    <2>3. CASE inbox'[m] = inbox[m]
      BY <2>1, <2>2, <2>3
    <2>4. CASE inbox'[m] = <<>>
      BY <2>4
    <2>5. CASE \E f \in AnyFrame : /\ FrameOk(m, f)'
                                   /\ inbox'[m] \in {Append(inbox[m], f), <<f>>}
      <3>1. PICK f \in AnyFrame : FrameOk(m, f)' /\ inbox'[m] \in {Append(inbox[m], f), <<f>>}
        BY <2>5
      <3>2. CASE inbox'[m] = <<f>>
        <4>1. <<f>> \in Seq(AnyFrame) /\ Len(<<f>>) = 1 /\ <<f>>[1] = f
          OBVIOUS
        <4>2. \A i \in 1 .. Len(inbox'[m]) : inbox'[m][i] = f
          BY <3>2, <4>1
        <4>3. \A i \in 1 .. Len(inbox'[m]) : FrameOk(m, inbox[m][i])'
          BY <3>1, <4>2 DEF FrameOk
        <4> QED BY <3>2, <4>1, <4>3
      <3>3. CASE inbox'[m] = Append(inbox[m], f)
        <4>1. /\ Append(inbox[m], f) \in Seq(AnyFrame)
              /\ Len(Append(inbox[m], f)) = Len(inbox[m]) + 1 /\ Len(inbox[m]) \in Nat
              /\ \A i \in 1 .. Len(inbox[m]) : Append(inbox[m], f)[i] = inbox[m][i]
              /\ Append(inbox[m], f)[Len(inbox[m]) + 1] = f
          BY <2>1
        <4>2. \A i \in 1 .. Len(inbox'[m]) :
                 inbox'[m][i] = f \/ (i \in 1 .. Len(inbox[m]) /\ inbox'[m][i] = inbox[m][i])
          BY <3>3, <4>1
        <4>3. \A i \in 1 .. Len(inbox'[m]) : FrameOk(m, inbox[m][i])'
          BY <2>1, <2>2, <3>1, <4>2 DEF FrameOk
        <4> QED BY <3>3, <4>1, <4>3
      <3> QED BY <3>1, <3>2, <3>3
    <2> QED BY <2>3, <2>4, <2>5
  <1>2. inbox' \in [Node -> Seq(AnyFrame)]
    <2>1. \A m \in Node : inbox'[m] \in Seq(AnyFrame)
      BY <1>1
    <2> QED BY <2>1
  <1> QED BY <1>1, <1>2

LEMMA TellQueue ==
  ASSUME People, NEW n, NEW m, NEW k \in Node
  PROVE  Tell(n, m)[k] = inbox[k] \/ Tell(n, m)[k] = Append(inbox[k], m)
  BY DEF Tell

LEMMA Frames ==
  /\ \A ps \in SUBSET Node : Roster(ps) \in AnyFrame /\ Roster(ps).t = "Roster" /\ Roster(ps).peers = ps
  /\ \A u \in Node : /\ PeerJoined(u) \in AnyFrame /\ PeerJoined(u).t = "PeerJoined"
                     /\ PeerJoined(u).user = u
                     /\ PeerLeft(u) \in AnyFrame /\ PeerLeft(u).t = "PeerLeft" /\ PeerLeft(u).user = u
  /\ Rekey \in AnyFrame /\ Rekey.t = "Rekey"
  BY RoomAudioConstants DEF AnyFrame, Roster, PeerJoined, PeerLeft, Rekey

\* A change of the room that does not touch the mesh.
LEMMA RoomStays ==
  ASSUME StayInv, UNCHANGED <<ring_vars, members, mesh_vars>>, Typed', People', Stays',
         Joined \subseteq Joined', \A a \in Joined : First(a)' => First(a)
  PROVE  StayInv'
  <1>1. /\ link' = link /\ sess' = sess /\ chan' = chan /\ members' = members
        /\ cur' = cur /\ room_gen' = room_gen /\ Links /\ InStep /\ Chans(chan, Given)
    BY DEF StayInv, ring_vars, mesh_vars
  <1>2. Links' /\ Chans(chan', Given)
    BY <1>1 DEF Links
  <1>3. \A a, x \in Node : First(a) /\ <<a, x>> \in link' => Handed(a, x)' /\ Reported(a, x)'
    BY <1>1 DEF InStep, Handed, Reported
  <1> QED BY <1>2, <1>3, OthersStay

LEMMA LostOrRekey ==
  ASSUME StayInv, RekeyRoom \/ \E n \in Node : SignalingLost(n) \/ ServerNotices(n) \/ Rejoin(n)
  PROVE  StayInv'
  <1>1. /\ UNCHANGED <<ring_vars, members, mesh_vars, status>> /\ People /\ Stays
    BY DEF StayInv, RekeyRoom, SignalingLost, ServerNotices, Rejoin
  <1>2. Typed'
    BY OtherTyped DEF StayInv
  <1>3. Joined' = Joined /\ \A a : First(a)' <=> First(a)
    BY <1>1, StillFirst
  <1>4. room \subseteq Joined /\ room \subseteq Node
    BY <1>1 DEF People, Joined
  <1>5. Stays'
    <2>1. \/ budget' = budget
          \/ /\ budget' = [budget EXCEPT !.reconnects = budget.reconnects - 1] /\ budget.reconnects > 0
          \/ /\ budget' = [budget EXCEPT !.rekeys = budget.rekeys - 1] /\ budget.rekeys > 0
      BY DEF RekeyRoom, SignalingLost, ServerNotices, Rejoin
    <2>2. budget' \in ScenarioType /\ budget'.leavers = budget.leavers /\ budget'.founders = budget.founders
      BY <1>1, <2>1 DEF Stays, ScenarioType
    <2> QED BY <1>1, <2>2 DEF Stays
  <1>6. ASSUME inbox' = [m \in Node |-> inbox'[m]],
               \A m \in Node : \/ inbox'[m] = inbox[m] \/ inbox'[m] = <<>>
                               \/ \E f \in AnyFrame : /\ FrameOk(m, f)'
                                                      /\ inbox'[m] \in {Append(inbox[m], f), <<f>>},
               online' \subseteq room', room' \subseteq Node, \A n \in room' : status[n] = "in"
        PROVE  People'
    BY <1>1, <1>3, <1>6, InboxOk DEF People
  <1>7. ASSUME NEW n \in Node, Rejoin(n) PROVE People'
    <2>1. /\ online' = online \cup {n} /\ room' = room \cup {n} /\ status[n] = "in"
          /\ inbox' = [Tell(n, PeerJoined(n)) EXCEPT ![n] = <<Roster(room \ {n})>>]
      BY <1>7 DEF Rejoin
    <2>2. inbox' = [m \in Node |-> IF m = n THEN <<Roster(room \ {n})>> ELSE Tell(n, PeerJoined(n))[m]]
      BY <2>1 DEF Tell
    <2>3. ASSUME NEW m \in Node, m # n
          PROVE  inbox'[m] = inbox[m] \/ (m # n /\ inbox'[m] = Append(inbox[m], PeerJoined(n)))
      BY <1>1, <2>2, <2>3, TellQueue
    <2>4. ASSUME NEW f, f = Roster(room \ {n}) PROVE FrameOk(n, f)' /\ f \in AnyFrame
      <3>1. f.peers = room \ {n} /\ f.t = "Roster" /\ f \in AnyFrame
        BY <1>4, <2>4, Frames
      <3> QED BY <1>3, <1>4, <3>1 DEF FrameOk
    <2>5. \A m \in Node : m # n => FrameOk(m, PeerJoined(n))' /\ PeerJoined(n) \in AnyFrame
      BY <1>3, <2>1, Frames DEF FrameOk, Joined
    <2>6. inbox' = [m \in Node |-> inbox'[m]] /\ inbox'[n] = <<Roster(room \ {n})>>
      BY <2>2
    <2>7. online' \subseteq room' /\ room' \subseteq Node /\ \A m \in room' : status[m] = "in"
      BY <1>1, <2>1 DEF People
    <2>8. \E f \in AnyFrame : FrameOk(n, f)' /\ inbox'[n] \in {Append(inbox[n], f), <<f>>}
      BY <2>4, <2>6
    <2>9. \A m \in Node : \/ inbox'[m] = inbox[m] \/ inbox'[m] = <<>>
                           \/ \E f \in AnyFrame : /\ FrameOk(m, f)'
                                                  /\ inbox'[m] \in {Append(inbox[m], f), <<f>>}
      BY <2>3, <2>5, <2>8
    <2> QED BY <1>6, <2>6, <2>7, <2>9
  <1>8. ASSUME NEW n \in Node, ServerNotices(n) PROVE People'
    <2>1. /\ online' = online /\ room' = room \ {n} /\ n \notin online
          /\ inbox' = Tell(n, PeerLeft(n))
      BY <1>8 DEF ServerNotices
    <2>2. \A m \in Node : FrameOk(m, PeerLeft(n))' /\ PeerLeft(n) \in AnyFrame
      BY Frames DEF FrameOk
    <2>3. inbox' = [m \in Node |-> inbox'[m]]
      BY <2>1 DEF Tell
    <2>4. \A m \in Node : inbox'[m] = inbox[m] \/ inbox'[m] = Append(inbox[m], PeerLeft(n))
      BY <1>1, <2>1, TellQueue
    <2>5. online' \subseteq room' /\ room' \subseteq Node /\ \A m \in room' : status[m] = "in"
      BY <1>1, <2>1 DEF People
    <2> QED BY <1>6, <2>2, <2>3, <2>4, <2>5
  <1>9. ASSUME NEW n \in Node, SignalingLost(n) PROVE People'
    <2>1. /\ online' = online \ {n} /\ room' = room /\ inbox' = [inbox EXCEPT ![n] = <<>>]
      BY <1>9 DEF SignalingLost
    <2>2. inbox' = [m \in Node |-> inbox'[m]] /\ \A m \in Node : inbox'[m] = inbox[m] \/ inbox'[m] = <<>>
      BY <1>1, <2>1 DEF People
    <2>3. online' \subseteq room' /\ room' \subseteq Node /\ \A m \in room' : status[m] = "in"
      BY <1>1, <2>1 DEF People
    <2> QED BY <1>6, <2>2, <2>3
  <1>10. ASSUME RekeyRoom PROVE People'
    <2>1. /\ online' = online /\ room' = room /\ inbox' = Tell(0, Rekey)
      BY <1>10 DEF RekeyRoom
    <2>2. \A m \in Node : FrameOk(m, Rekey)' /\ Rekey \in AnyFrame
      BY Frames DEF FrameOk
    <2>3. inbox' = [m \in Node |-> inbox'[m]]
      BY <2>1 DEF Tell
    <2>4. \A m \in Node : inbox'[m] = inbox[m] \/ inbox'[m] = Append(inbox[m], Rekey)
      BY <1>1, <2>1, TellQueue
    <2>5. online' \subseteq room' /\ room' \subseteq Node /\ \A m \in room' : status[m] = "in"
      BY <1>1, <2>1 DEF People
    <2> QED BY <1>6, <2>2, <2>3, <2>4, <2>5
  <1>11. People'
    BY <1>7, <1>8, <1>9, <1>10
  <1> QED BY <1>1, <1>2, <1>3, <1>5, <1>11, RoomStays

LEMMA JoinStays ==
  ASSUME StayInv, NEW n \in Node, JoinRoom(n)
  PROVE  StayInv'
  <1>1. /\ UNCHANGED <<ring_vars, members, mesh_vars, budget>> /\ People /\ Stays
        /\ online' = online \cup {n} /\ room' = room \cup {n} /\ status[n] = "out"
        /\ status' = [status EXCEPT ![n] = "in"]
        /\ inbox' = [Tell(n, PeerJoined(n)) EXCEPT ![n] = <<Roster(room)>>]
    BY DEF StayInv, JoinRoom
  <1>2. Typed'
    BY OtherTyped DEF StayInv
  <1>3. /\ Joined \subseteq Joined' /\ \A a \in Joined : First(a)' => First(a)
    BY <1>1, FirstBack DEF People
  <1>4. /\ status' \in [Node -> {"out", "in", "gone"}] /\ status'[n] = "in"
        /\ \A m \in Node : m # n => status'[m] = status[m]
    BY <1>1 DEF People
  <1>5. n \in Joined' /\ room \subseteq Joined /\ room \subseteq Node /\ n \notin room
    BY <1>1, <1>4 DEF People, Joined
  <1>6. Stays'
    <2>1. \A a \in budget.founders \ budget.leavers : status'[a] = "in"
      BY <1>1, <1>4 DEF Stays, ScenarioType
    <2>2. \A x \in Node : status'[x] = "gone" => x \in budget.leavers
      BY <1>1, <1>4 DEF Stays
    <2> QED BY <1>1, <2>1, <2>2 DEF Stays
  <1>7. People'
    <2>1. inbox' = [m \in Node |-> IF m = n THEN <<Roster(room)>> ELSE Tell(n, PeerJoined(n))[m]]
      BY <1>1 DEF Tell
    <2>2. \A m \in Node : m # n => inbox'[m] = inbox[m] \/ inbox'[m] = Append(inbox[m], PeerJoined(n))
      BY <1>1, <2>1, TellQueue
    <2>3. ASSUME NEW f, f = Roster(room) PROVE FrameOk(n, f)' /\ f \in AnyFrame
      <3>1. f.peers = room /\ f.t = "Roster" /\ f \in AnyFrame
        BY <1>5, <2>3, Frames
      <3> QED BY <1>3, <1>5, <3>1 DEF FrameOk
    <2>4. \A m \in Node : m # n => FrameOk(m, PeerJoined(n))' /\ PeerJoined(n) \in AnyFrame
      BY <1>5, Frames DEF FrameOk
    <2>5. inbox' = [m \in Node |-> inbox'[m]] /\ inbox'[n] = <<Roster(room)>>
      BY <2>1
    <2>6. /\ inbox' \in [Node -> Seq(AnyFrame)]
          /\ \A m \in Node : \A i \in 1 .. Len(inbox'[m]) : FrameOk(m, inbox[m][i])'
      <3>1. \E f \in AnyFrame : FrameOk(n, f)' /\ inbox'[n] \in {Append(inbox[n], f), <<f>>}
        BY <2>3, <2>5
      <3>2. \A m \in Node : \/ inbox'[m] = inbox[m] \/ inbox'[m] = <<>>
                             \/ \E f \in AnyFrame : /\ FrameOk(m, f)'
                                                    /\ inbox'[m] \in {Append(inbox[m], f), <<f>>}
        BY <2>2, <2>4, <3>1
      <3> QED BY <1>1, <1>3, <2>5, <3>2, InboxOk
    <2>7. online' \subseteq room' /\ room' \subseteq Node /\ \A m \in room' : status'[m] = "in"
      BY <1>1, <1>4 DEF People
    <2>8. members' \in [Node -> SUBSET Node] /\ \A m \in Node : members'[m] \subseteq Joined' \ {m}
      BY <1>1, <1>3 DEF People
    <2> QED BY <1>4, <2>6, <2>7, <2>8 DEF People
  <1> QED BY <1>1, <1>2, <1>3, <1>6, <1>7, RoomStays

\* What is left of the links when the connections of n to ps are closed.
LEMMA LinksCut ==
  ASSUME Links, InStep, NEW n \in Node, NEW ps, NEW keep \in BOOLEAN,
         UNCHANGED <<ring_vars, members>>, link' \subseteq link \ Pairs(n, ps),
         chan' = CutChan(n, ps, keep),
         sess' = sess \/ (sess' = ForgetSess(n, ps) /\ link' = link \ Pairs(n, ps))
  PROVE  /\ Links'
         /\ \A a, x \in Node : First(a) /\ <<a, x>> \in link' => Handed(a, x)' /\ Reported(a, x)'
  <1>1. \A i, j \in Node : <<i, j>> \in link' =>
          /\ <<i, j>> \in link /\ ~(i = n /\ j \in ps) /\ ~(j = n /\ i \in ps)
          /\ chan'[i][j] = chan[i][j] /\ chan'[j][i] = chan[j][i]
    <2>1. ASSUME NEW i \in Node, NEW j \in Node, <<i, j>> \in link'
          PROVE  /\ <<i, j>> \in link /\ ~(i = n /\ j \in ps) /\ ~(j = n /\ i \in ps)
                 /\ chan'[i][j] = chan[i][j] /\ chan'[j][i] = chan[j][i]
      <3>1. <<i, j>> \in link /\ <<i, j>> \notin Pairs(n, ps) /\ <<j, i>> \notin Pairs(n, ps)
        BY <2>1, PairsFacts
      <3>2. chan'[i][j] = chan[i][j] /\ chan'[j][i] = chan[j][i]
        BY <3>1, CutQueue
      <3> QED BY <3>1, <3>2, PairsFacts
    <2> QED BY <2>1
  <1>2. /\ sess \in [Node -> SUBSET Node] /\ sess' \in [Node -> SUBSET Node]
        /\ \A i, j \in Node : <<i, j>> \in link' => /\ j \in sess[i] => j \in sess'[i]
                                                    /\ i \in sess[j] => i \in sess'[j]
    BY <1>1 DEF ForgetSess, Links
  <1>3. Links'
    <2>1. link' \subseteq Node \X Node /\ members' = members
      BY DEF Links
    <2> QED BY <1>1, <1>2, <2>1 DEF Links
  <1>4. ASSUME NEW a \in Node, NEW x \in Node, First(a), <<a, x>> \in link'
        PROVE  Handed(a, x)' /\ Reported(a, x)'
    <2>1. Handed(a, x) /\ Reported(a, x)
      BY <1>1, <1>4 DEF InStep
    <2> QED BY <1>1, <1>4, <2>1 DEF Handed, Reported, ring_vars
  <1> QED BY <1>3, <1>4

LEMMA LeaveStays ==
  ASSUME StayInv, NEW n \in Node, LeaveRoom(n)
  PROVE  StayInv'
  <1>1. /\ UNCHANGED <<ring_vars, members, budget>> /\ People /\ Stays /\ Links /\ InStep
        /\ Chans(chan, Given)
        /\ n \in budget.leavers /\ n \in room /\ online' = online \ {n} /\ room' = room \ {n}
        /\ status' = [status EXCEPT ![n] = "gone"]
        /\ inbox' = [Tell(n, PeerLeft(n)) EXCEPT ![n] = <<>>]
        /\ link' = link \ Pairs(n, Node) /\ sess' = ForgetSess(n, Node)
        /\ (\E keep \in BOOLEAN : chan' = CutChan(n, Node, keep))
    BY DEF StayInv, LeaveRoom
  <1>2. Typed'
    BY OtherTyped DEF StayInv
  <1>3. Joined \subseteq Joined' /\ \A a \in Joined : First(a)' => First(a)
    BY <1>1, FirstBack DEF People
  <1>4. /\ status' \in [Node -> {"out", "in", "gone"}] /\ status'[n] = "gone"
        /\ \A m \in Node : m # n => status'[m] = status[m]
    BY <1>1 DEF People
  <1>5. Stays'
    <2>1. \A a \in budget.founders \ budget.leavers : status'[a] = "in"
      BY <1>1, <1>4 DEF Stays, ScenarioType
    <2>2. \A x \in Node : status'[x] = "gone" => x \in budget.leavers
      BY <1>1, <1>4 DEF Stays
    <2> QED BY <1>1, <2>1, <2>2 DEF Stays
  <1>6. People'
    <2>1. inbox' = [m \in Node |-> IF m = n THEN <<>> ELSE Tell(n, PeerLeft(n))[m]]
      BY <1>1 DEF Tell
    <2>2. \A m \in Node : m # n => inbox'[m] = inbox[m] \/ inbox'[m] = Append(inbox[m], PeerLeft(n))
      BY <1>1, <2>1, TellQueue
    <2>3. \A m \in Node : FrameOk(m, PeerLeft(n))' /\ PeerLeft(n) \in AnyFrame
      BY Frames DEF FrameOk
    <2>4. inbox' = [m \in Node |-> inbox'[m]] /\ inbox'[n] = <<>>
      BY <2>1
    <2>5. \A m \in Node : \/ inbox'[m] = inbox[m] \/ inbox'[m] = <<>>
                           \/ \E f \in AnyFrame : /\ FrameOk(m, f)'
                                                  /\ inbox'[m] \in {Append(inbox[m], f), <<f>>}
      BY <2>2, <2>3, <2>4
    <2>6. /\ inbox' \in [Node -> Seq(AnyFrame)]
          /\ \A m \in Node : \A i \in 1 .. Len(inbox'[m]) : FrameOk(m, inbox[m][i])'
      BY <1>1, <1>3, <2>4, <2>5, InboxOk
    <2>7. online' \subseteq room' /\ room' \subseteq Node /\ \A m \in room' : status'[m] = "in"
      BY <1>1, <1>4 DEF People
    <2>8. members' \in [Node -> SUBSET Node] /\ \A m \in Node : members'[m] \subseteq Joined' \ {m}
      BY <1>1, <1>3 DEF People
    <2> QED BY <1>4, <2>6, <2>7, <2>8 DEF People
  <1>7. PICK keep \in BOOLEAN : chan' = CutChan(n, Node, keep)
    BY <1>1
  <1>8. Chans(chan', Given)
    BY <1>1, <1>7, CutAllowed
  <1>9. /\ Links'
        /\ \A a, x \in Node : First(a) /\ <<a, x>> \in link' => Handed(a, x)' /\ Reported(a, x)'
    BY <1>1, <1>7, LinksCut
  <1> QED BY <1>1, <1>2, <1>3, <1>5, <1>6, <1>8, <1>9, OthersStay

LEMMA LinkFailsStays ==
  ASSUME StayInv, NEW i \in Node, NEW j \in Node, LinkFails(i, j)
  PROVE  StayInv'
  <1>1. /\ UNCHANGED <<ring_vars, members, server_vars, sess>> /\ People /\ Stays /\ Links /\ InStep
        /\ Chans(chan, Given) /\ <<i, j>> \in link /\ link' = link \ {<<i, j>>}
        /\ budget.fails > 0 /\ budget' = [budget EXCEPT !.fails = budget.fails - 1]
    BY DEF StayInv, LinkFails
  <1>2. Typed'
    BY OtherTyped DEF StayInv
  <1>3. /\ status' = status /\ room' = room /\ inbox' = inbox /\ online' = online
        /\ Joined' = Joined /\ \A a : First(a)' <=> First(a)
    BY <1>1, StillFirst DEF server_vars
  <1>4. People'
    BY <1>1, <1>3 DEF People, FrameOk
  <1>5. Stays'
    <2>1. budget' \in ScenarioType /\ budget'.leavers = budget.leavers /\ budget'.founders = budget.founders
      BY <1>1 DEF Stays, ScenarioType
    <2> QED BY <1>1, <1>3, <2>1 DEF Stays
  <1>6. PICK keep \in BOOLEAN : chan' = CutChan(i, {j}, keep)
    BY DEF LinkFails
  <1>7. <<j, i>> \notin link
    <2>1. ASSUME <<j, i>> \in link PROVE FALSE
      <3>1. i < j /\ j < i /\ i \in Nat /\ j \in Nat
        BY <1>1, <2>1, RoomAudioConstants DEF Links
      <3> QED BY <3>1
    <2> QED BY <2>1
  <1>8. link' \subseteq link \ Pairs(i, {j})
    BY <1>1, <1>7 DEF Pairs
  <1>9. /\ Links'
        /\ \A a, x \in Node : First(a) /\ <<a, x>> \in link' => Handed(a, x)' /\ Reported(a, x)'
    BY <1>1, <1>6, <1>8, LinksCut
  <1>10. Chans(chan', Given)
    BY <1>1, <1>6, CutAllowed
  <1> QED BY <1>1, <1>2, <1>3, <1>4, <1>5, <1>9, <1>10, OthersStay

LEMMA ConnectStays ==
  ASSUME StayInv, NEW i \in Node, NEW j \in Node, Connect(i, j)
  PROVE  StayInv'
  <1>1. /\ UNCHANGED <<ring_vars, members, server_vars, budget>> /\ People /\ Stays /\ Links /\ InStep
        /\ Chans(chan, Given) /\ i < j /\ i \in room /\ j \in room /\ i # j
        /\ j \in members[i] /\ i \in members[j] /\ link' = link \cup {<<i, j>>}
        /\ sess' = [sess EXCEPT ![i] = sess[i] \ {j}, ![j] = sess[j] \cup {i}]
        /\ chan' = [chan EXCEPT ![i][j] = Append(chan[i][j], Secure),
                                ![j][i] = Append(chan[j][i], Reply)]
    <2>1. i # j
      BY RoomAudioConstants DEF Connect
    <2> QED BY <2>1 DEF StayInv, Connect
  <1>2. Typed'
    BY OtherTyped DEF StayInv
  <1>3. /\ status' = status /\ room' = room /\ inbox' = inbox /\ online' = online
        /\ Joined' = Joined /\ (\A a : First(a)' <=> First(a)) /\ i \in Joined /\ j \in Joined
    BY <1>1, StillFirst DEF server_vars, People, Joined
  <1>4. People' /\ Stays'
    BY <1>1, <1>3 DEF People, Stays, FrameOk
  <1>5. Chans(chan', Given)
    BY <1>1, <1>3, GivenFacts, ConnectAllowed
  <1>6. /\ chan'[i][j] = Append(chan[i][j], Secure) /\ chan'[j][i] = Append(chan[j][i], Reply)
        /\ \A a, b \in Node : ~(a = i /\ b = j) /\ ~(a = j /\ b = i) => chan'[a][b] = chan[a][b]
    <2>1. chan = [a \in Node |-> [b \in Node |-> chan[a][b]]]
      BY <1>1 DEF Chans
    <2> QED BY <1>1, <2>1
  <1>7. /\ chan[i][j] \in Seq(Given[i][j]) /\ chan[j][i] \in Seq(Given[j][i])
    BY <1>1 DEF Chans
  <1>8. /\ Waits(chan'[i][j], Secure) /\ Waits(chan'[j][i], Reply)
        /\ \A a, b \in Node : \A x : Waits(chan[a][b], x) => Waits(chan'[a][b], x)
    <2>1. /\ Waits(Append(chan[i][j], Secure), Secure)
          /\ \A x : Waits(chan[i][j], x) => Waits(Append(chan[i][j], Secure), x)
      BY <1>7, WaitsAppend
    <2>2. /\ Waits(Append(chan[j][i], Reply), Reply)
          /\ \A x : Waits(chan[j][i], x) => Waits(Append(chan[j][i], Reply), x)
      BY <1>7, WaitsAppend
    <2>3. ASSUME NEW a \in Node, NEW b \in Node, NEW x, Waits(chan[a][b], x)
          PROVE  Waits(chan'[a][b], x)
      BY <1>6, <2>1, <2>2, <2>3
    <2> QED BY <1>6, <2>1, <2>2, <2>3
  <1>9. /\ sess' \in [Node -> SUBSET Node] /\ i \in sess'[j]
        /\ \A a, b \in Node : ~(a = i /\ b = j) /\ b \in sess[a] => b \in sess'[a]
    BY <1>1 DEF Links
  <1>10. ASSUME NEW a \in Node, NEW b \in Node, <<a, b>> \in link'
         PROVE  /\ a < b /\ b \in members'[a] /\ a \in members'[b]
                /\ a \in sess'[b] /\ (b \in sess'[a] \/ Waits(chan'[b][a], Reply))
    <2>1. CASE a = i /\ b = j
      BY <1>1, <1>8, <1>9, <2>1
    <2>2. CASE ~(a = i /\ b = j)
      <3>1. <<a, b>> \in link
        BY <1>1, <1>10, <2>2
      <3>2. a < b /\ ~(b = i /\ a = j)
        BY <1>1, <3>1, RoomAudioConstants DEF Links
      <3> QED BY <1>1, <1>8, <1>9, <2>2, <3>1, <3>2 DEF Links
    <2> QED BY <2>1, <2>2
  <1>11. Links'
    <2>1. link' \subseteq Node \X Node
      BY <1>1 DEF Links
    <2> QED BY <1>9, <1>10, <2>1 DEF Links
  <1>12. ASSUME NEW a \in Node, NEW b \in Node, First(a), <<a, b>> \in link'
         PROVE  Handed(a, b)' /\ Reported(a, b)'
    <2>1. CASE a = i /\ b = j
      BY <1>8, <2>1 DEF Handed, Reported
    <2>2. CASE ~(a = i /\ b = j)
      <3>1. Handed(a, b) /\ Reported(a, b)
        BY <1>1, <1>12, <2>2 DEF InStep
      <3> QED BY <1>1, <1>8, <3>1, PairKept DEF ring_vars
    <2> QED BY <2>1, <2>2
  <1> QED BY <1>1, <1>2, <1>3, <1>4, <1>5, <1>11, <1>12, OthersStay

LEMMA ReplyStays ==
  ASSUME StayInv, NEW i \in Node, NEW j \in Node, ReplyArrives(i, j)
  PROVE  StayInv'
  <1>1. /\ UNCHANGED <<ring_vars, members, server_vars, budget, link>> /\ People /\ Stays /\ Links
        /\ InStep /\ Chans(chan, Given) /\ sess' = [sess EXCEPT ![i] = sess[i] \cup {j}]
    BY DEF StayInv, ReplyArrives
  <1>2. PICK x \in 1 .. Len(chan[j][i]) :
          chan[j][i][x] = Reply /\ chan' = [chan EXCEPT ![j][i][x] = Secure]
    BY DEF ReplyArrives
  <1>3. Typed'
    BY OtherTyped DEF StayInv
  <1>4. /\ status' = status /\ room' = room /\ inbox' = inbox /\ online' = online
        /\ Joined' = Joined /\ (\A a : First(a)' <=> First(a))
    BY <1>1, StillFirst DEF server_vars
  <1>5. People' /\ Stays'
    BY <1>1, <1>4 DEF People, Stays, FrameOk
  <1>6. chan[j][i] \in Seq(Given[j][i]) /\ chan = [a \in Node |-> [b \in Node |-> chan[a][b]]]
    BY <1>1 DEF Chans
  <1>7. Chans(chan', Given)
    <2>1. Reply \in Given[j][i]
      BY <1>2, <1>6
    <2> QED BY <1>1, <2>1, GivenFacts, ReplyAllowed
  <1>8. /\ chan'[j][i] = [chan[j][i] EXCEPT ![x] = Secure]
        /\ \A a, b \in Node : ~(a = j /\ b = i) => chan'[a][b] = chan[a][b]
    BY <1>2, <1>6
  <1>9. /\ Waits(chan'[j][i], Secure)
        /\ \A m : Waits(chan[j][i], m) /\ m # Reply => Waits(chan'[j][i], m)
    <2>1. Len(chan'[j][i]) = Len(chan[j][i]) /\ chan'[j][i][x] = Secure
          /\ \A y \in 1 .. Len(chan[j][i]) : y # x => chan'[j][i][y] = chan[j][i][y]
      BY <1>2, <1>6, <1>8
    <2> QED BY <1>2, <2>1 DEF Waits
  <1>10. /\ sess' \in [Node -> SUBSET Node] /\ j \in sess'[i]
         /\ \A a, b \in Node : b \in sess[a] => b \in sess'[a]
    BY <1>1 DEF Links
  <1>11. Links'
    <2>1. ASSUME NEW a \in Node, NEW b \in Node, <<a, b>> \in link'
          PROVE  b \in sess'[a] \/ Waits(chan'[b][a], Reply)
      BY <1>1, <1>8, <1>10, <2>1 DEF Links
    <2> QED BY <1>1, <1>10, <2>1 DEF Links
  <1>12. ASSUME NEW a \in Node, NEW b \in Node, First(a), <<a, b>> \in link'
         PROVE  Handed(a, b)' /\ Reported(a, b)'
    <2>1. Handed(a, b) /\ Reported(a, b)
      BY <1>1, <1>12 DEF InStep
    <2> QED BY <1>1, <1>8, <1>9, <2>1, PairKept DEF ring_vars
  <1> QED BY <1>1, <1>3, <1>4, <1>5, <1>7, <1>11, <1>12, OthersStay

LEMMA SameStays ==
  ASSUME StayInv, UNCHANGED vars
  PROVE  StayInv'
  <1>1. Joined' = Joined /\ \A a : First(a)' <=> First(a)
    BY StillFirst DEF vars
  <1>2. Typed' /\ People' /\ Stays' /\ Links'
    <2>1. Typed'
      BY OtherTyped DEF StayInv
    <2> QED BY <1>1, <2>1 DEF StayInv, vars, People, Stays, Links, FrameOk
  <1> QED BY <1>1, <1>2, RoomStays DEF vars, ring_vars, mesh_vars

-----------------------------------------------------------------------------
LEMMA StepStays ==
  ASSUME ~SameTick, ~Overtake, StayInv, [Next]_vars
  PROVE  StayInv'
  <1>1. ASSUME NEW n \in Node, Handle(n) PROVE StayInv'
    <2>1. CASE OnRoster(n) \/ OnPeerJoined(n) \/ OnPeerLeft(n) \/ OnRekey(n)
      BY <2>1, FramesStay
    <2>2. CASE \E p \in Node : OnSecureAuthority(n, p) \/ OnSecureMember(n, p)
      BY <2>2, SecureAuthorityStays, SecureMemberStays
    <2>3. CASE \E p \in Node : OnRoomKey(n, p) \/ OnRoomGen(n, p)
      BY <2>3, RoomKeyStays, RoomGenStays
    <2>4. CASE \E p \in Node : ReplyArrives(n, p) \/ Connect(n, p)
      BY <2>4, ReplyStays, ConnectStays
    <2>5. CASE \E g : OnPromote(n, g)
      BY <2>5, PromoteStays
    <2> QED BY <1>1, <2>1, <2>2, <2>3, <2>4, <2>5 DEF Handle
  <1>2. ASSUME NEW n \in Node,
               \/ JoinRoom(n) \/ LeaveRoom(n) \/ SignalingLost(n)
               \/ ServerNotices(n) \/ Rejoin(n)
               \/ \E p \in Node : LinkFails(n, p)
        PROVE  StayInv'
    BY <1>2, JoinStays, LeaveStays, LostOrRekey, LinkFailsStays
  <1>3. CASE RekeyRoom \/ UNCHANGED vars
    BY <1>3, LostOrRekey, SameStays
  <1> QED BY <1>1, <1>2, <1>3 DEF Next

LEMMA InitStays ==
  ASSUME AuthorityStays
  PROVE  Init => StayInv
  <1> SUFFICES ASSUME Init PROVE StayInv
    OBVIOUS
  <1>1. PICK sc \in Scenario : InitWith(sc.founders) /\ budget = sc
    BY DEF Init
  <1> DEFINE F == sc.founders
  <1>2. F \in SUBSET Node /\ sc \in ScenarioType
    BY GroupConstants DEF ScenarioType
  <1>3. \A x \in sc.leavers : \E a \in sc.founders \ sc.leavers : a < x
    BY DEF AuthorityStays
  <1> HIDE DEF F
  <1>4. InitWith(F)
    BY <1>1 DEF F
  <1>5. /\ status = [n \in Node |-> IF n \in F THEN "in" ELSE "out"]
        /\ room = F /\ online = F /\ inbox = [n \in Node |-> <<>>]
        /\ members = [n \in Node |-> Formed(F, n, F \ {n}, {})]
        /\ link = {e \in F \X F : e[1] < e[2]}
        /\ sess = [n \in Node |-> Formed(F, n, F \ {n}, {})]
        /\ send = [n \in Node |-> Formed(F, n, FirstKey(F), NoKey)]
        /\ cur = [n \in Node |-> Formed(F, n, FirstKey(F), NoKey)]
        /\ room_gen = [n \in Node |-> Formed(F, n, 1, 0)]
        /\ timers = [n \in Node |-> <<>>]
        /\ chan = [i \in Node |-> [j \in Node |-> <<>>]]
    BY <1>4 DEF InitWith
  <1>6. Joined = F
    BY <1>2, <1>5 DEF Joined
  <1>7. People
    <2>1. <<>> \in Seq(AnyFrame) /\ Len(<<>>) = 0
      OBVIOUS
    <2>2. \A n \in Node : Formed(F, n, F \ {n}, {}) \in SUBSET Node
                          /\ Formed(F, n, F \ {n}, {}) \subseteq F \ {n}
      BY <1>2 DEF Formed
    <2>3. /\ status \in [Node -> {"out", "in", "gone"}] /\ \A n \in room : status[n] = "in"
          /\ online \subseteq room /\ room \subseteq Node
      BY <1>2, <1>5
    <2>4. /\ members \in [Node -> SUBSET Node] /\ \A n \in Node : members[n] \subseteq Joined \ {n}
      BY <1>5, <1>6, <2>2
    <2>5. /\ inbox \in [Node -> Seq(AnyFrame)] /\ \A n \in Node : inbox[n] = <<>>
      BY <1>5, <2>1
    <2> QED BY <2>1, <2>3, <2>4, <2>5 DEF People
  <1>8. Stays
    BY <1>1, <1>2, <1>3, <1>5 DEF Stays, F
  <1>9. ASSUME NEW i \in Node, NEW j \in Node, <<i, j>> \in link
        PROVE  i \in F /\ j \in F /\ i < j /\ i # j /\ Settled(F)
    <2>1. i \in F /\ j \in F /\ i < j
      BY <1>5, <1>9
    <2>2. i # j
      BY <2>1, RoomAudioConstants
    <2> QED BY <2>1, <2>2 DEF Settled
  <1>10. Links
    <2>1. \A n \in Node : Formed(F, n, F \ {n}, {}) \in SUBSET Node
      BY <1>2 DEF Formed
    <2>2. sess \in [Node -> SUBSET Node]
      BY <1>5, <2>1
    <2>3. link \subseteq Node \X Node
      BY <1>2, <1>5
    <2>4. ASSUME NEW i \in Node, NEW j \in Node, <<i, j>> \in link
          PROVE  i < j /\ j \in members[i] /\ i \in members[j] /\ i \in sess[j] /\ j \in sess[i]
      BY <1>5, <1>9, <2>4 DEF Formed
    <2> QED BY <2>2, <2>3, <2>4 DEF Links
  <1>11. \A n \in Node : \/ /\ n \in F /\ Settled(F) /\ cur[n] = FirstKey(F) /\ room_gen[n] = 1
                         \/ cur[n] = NoKey /\ room_gen[n] = 0
    BY <1>5 DEF Formed
  <1>12. Labels
    <2>1. ASSUME NEW n \in Node PROVE LabelOk(n)
      <3>1. CASE cur[n] = NoKey /\ room_gen[n] = 0
        BY <3>1, KeyFacts DEF LabelOk
      <3>2. CASE n \in F /\ Settled(F) /\ cur[n] = FirstKey(F) /\ room_gen[n] = 1
        <4>1. /\ FirstKey(F).gen = 1 /\ FirstKey(F).auth \in F /\ \A f \in F : FirstKey(F).auth <= f
          BY <1>2, <3>2, FounderKey
        <4>2. First(n) => FirstKey(F).auth = n
          <5>1. First(n) => n <= FirstKey(F).auth
            BY <1>6, <4>1 DEF First
          <5>2. FirstKey(F).auth <= n /\ n \in Nat /\ FirstKey(F).auth \in Nat
            BY <1>2, <3>2, <4>1, RoomAudioConstants
          <5> QED BY <5>1, <5>2
        <4> QED BY <1>6, <3>2, <4>1, <4>2 DEF LabelOk
      <3> QED BY <1>11, <3>1, <3>2
    <2> QED BY <2>1 DEF Labels
  <1>13. Promises
    BY <1>5 DEF Promises, PromiseOk
  <1>14. Chans(chan, Given)
    <2>1. \A i, j \in Node : <<>> \in Seq(Given[i][j])
      OBVIOUS
    <2> QED BY <1>5, <2>1 DEF Chans
  <1>15. InStep
    <2>1. ASSUME NEW a \in Node, NEW n \in Node, <<a, n>> \in link
          PROVE  Handed(a, n) /\ Reported(a, n)
      <3>1. a \in F /\ n \in F /\ Settled(F)
        BY <1>9, <2>1
      <3>2. cur[a] = FirstKey(F) /\ cur[n] = FirstKey(F) /\ room_gen[a] = 1 /\ room_gen[n] = 1
        BY <1>5, <3>1 DEF Formed
      <3>3. FirstKey(F) # NoKey
        BY <1>2, <3>1, FounderKey, KeyFacts
      <3> QED BY <3>2, <3>3 DEF Handed, Reported
    <2> QED BY <2>1 DEF InStep
  <1> QED BY <1>7, <1>8, <1>10, <1>12, <1>13, <1>14, <1>15, InitTyped DEF StayInv

\* No generation is further away than a late authority accepts.
InReach == \A n \in Node : room_gen[n] <= ROOM_GEN_BOUND

LEMMA QuietKey ==
  ASSUME StayInv, InReach, Quiet, NEW a \in Joined, First(a), NEW n \in room
  PROVE  /\ a \in room /\ send[n] = cur[n] /\ cur[n] = cur[a]
         /\ n # a => cur[a] # NoKey
  <1>1. People /\ Links /\ InStep /\ Promises /\ n \in Node /\ a \in Node /\ n \in Joined /\ status[n] = "in"
    BY DEF StayInv, People, Joined
  <1>2. a \in room /\ status[a] = "in"
    BY <1>1 DEF Quiet, First
  <1>3. send[n] = cur[n]
    BY <1>1 DEF Quiet, Promises, PromiseOk
  <1>4. ASSUME n # a PROVE cur[n] = cur[a] /\ cur[a] # NoKey
    <2>1. <<a, n>> \in link
      BY <1>1, <1>2, <1>4, FirstFacts DEF Quiet
    <2>2. chan[n][a] = <<>> /\ chan[a][n] = <<>>
      BY <1>1, <1>2 DEF Quiet
    <2>3. /\ \A m : ~Waits(chan[n][a], m) /\ ~Waits(chan[a][n], m)
      BY <2>2 DEF Waits
    <2>4. Handed(a, n) /\ Reported(a, n)
      BY <1>1, <2>1 DEF InStep
    <2>5. /\ room_gen[a] \in Nat /\ room_gen[n] \in Nat
          /\ room_gen[a] <= ROOM_GEN_BOUND /\ room_gen[n] <= ROOM_GEN_BOUND
      BY <1>1 DEF StayInv, Typed, Rings, InReach
    <2>6. room_gen[n] <= room_gen[a]
      BY <2>3, <2>4, <2>5, GroupConstants DEF Reported
    <2>7. ~(room_gen[a] > ROOM_GEN_BOUND) /\ ~(room_gen[a] < room_gen[n])
      BY <2>5, <2>6, GroupConstants
    <2> QED BY <2>3, <2>4, <2>7 DEF Handed
  <1> QED BY <1>2, <1>3, <1>4

LEMMA QuietOneKey ==
  ASSUME StayInv, InReach
  PROVE  OneKeyWhenQuiet
  <1> SUFFICES ASSUME Quiet, NEW m \in room, NEW n \in room, m # n
               PROVE  cur[n] # NoKey /\ cur[n] = cur[m] /\ send[n] = cur[n]
    BY DEF OneKeyWhenQuiet, OneKey
  <1>1. m \in Joined
    BY DEF StayInv, People, Joined
  <1>2. PICK a \in Joined : First(a)
    BY <1>1, SomeFirst DEF StayInv
  <1>3. /\ send[n] = cur[n] /\ cur[n] = cur[a] /\ (n # a => cur[a] # NoKey)
    BY <1>2, QuietKey
  <1>4. cur[m] = cur[a] /\ (m # a => cur[a] # NoKey)
    BY <1>2, QuietKey
  <1> QED BY <1>3, <1>4

\* Once things settle, the members of a room seal with one key, their newest:
\* any number of nodes, joins, departures, rekeys, lost connections and broken
\* links, in any order, as long as the founder with the smallest id stays, no
\* timer tick fires two grace timers, no report overtakes a Reply and no
\* generation is past what a late authority accepts.
THEOREM OneKeyOnceSettled ==
  ASSUME AuthorityStays, ~SameTick, ~Overtake
  PROVE  Spec => [](InReach => OneKeyWhenQuiet)
  <1>1. Init => StayInv
    BY InitStays
  <1>2. StayInv /\ [Next]_vars => StayInv'
    BY StepStays
  <1>3. StayInv => (InReach => OneKeyWhenQuiet)
    BY QuietOneKey
  <1> QED BY <1>1, <1>2, <1>3, PTL DEF Spec

-----------------------------------------------------------------------------
(***************************************************************************)
(* Who holds the key of the first.                                         *)
(***************************************************************************)
\* What a step may leave in a queue: what waited in it, the key of a node that
\* has the receiver on its list, and messages that carry no key.
Waiting(i, j) == {chan[i][j][x] : x \in 1 .. Len(chan[i][j])}
Keyless == {Secure, Reply} \cup {GenMsg(g) : g \in Nat}
NewKey(i, j) == IF j \in members'[i] THEN {KeyMsg(cur'[i])} ELSE {}

Flow == [i \in Node |-> [j \in Node |-> Waiting(i, j) \cup Keyless \cup NewKey(i, j)]]

\* Every key a node holds was minted.
KnownOk ==
  /\ known \in [Node -> SUBSET Key]
  /\ \A x \in Node : \A k \in known[x] : k.gen <= room_gen[k.auth]

\* Whoever has the newest key of the first, or has it coming, is on its list.
Has(a, x) == cur[a] \in known[x] \/ Waits(chan[a][x], KeyMsg(cur[a]))

Holders ==
  \A a, x \in Node : First(a) /\ x # a /\ cur[a] # NoKey /\ Has(a, x) => x \in members[a]

\* How keys move in a step.
KeyFrom(k, x) ==
  \/ k \in known[x]
  \/ /\ k.gen <= room_gen'[k.auth]
     /\ k.auth = x \/ (First(k.auth) => Waits(chan[k.auth][x], KeyMsg(k)))

FirstMoves(a) ==
  \/ cur'[a] = cur[a] /\ members[a] \subseteq members'[a]
  \/ cur'[a].gen > room_gen[a]

KeyFlow ==
  /\ Chans(chan', Flow)
  /\ known' \in [Node -> SUBSET Key]
  /\ \A x \in Node : \A k \in known'[x] : KeyFrom(k, x)
  /\ \A p \in Node : room_gen[p] <= room_gen'[p]
  /\ \A a \in Node : First(a)' => IF First(a) THEN FirstMoves(a) ELSE cur'[a] = NoKey

LEMMA WaitsFlow ==
  ASSUME Chans(chan', Flow), NEW i \in Node, NEW j \in Node, NEW k, Waits(chan'[i][j], KeyMsg(k))
  PROVE  Waits(chan[i][j], KeyMsg(k)) \/ (k = cur'[i] /\ j \in members'[i])
  <1>1. chan'[i][j] \in Seq(Waiting(i, j) \cup Keyless \cup NewKey(i, j))
    BY DEF Chans, Flow
  <1> DEFINE S == Waiting(i, j) \cup Keyless \cup NewKey(i, j)
  <1>2. chan'[i][j] \in Seq(S)
    BY <1>1
  <1> HIDE DEF S
  <1>3. PICK x \in 1 .. Len(chan'[i][j]) : chan'[i][j][x] = KeyMsg(k)
    BY DEF Waits
  <1>4. KeyMsg(k) \in S
    BY <1>2, <1>3
  <1>5. KeyMsg(k) \notin Keyless
    BY DEF Keyless, KeyMsg, Secure, Reply, GenMsg
  <1>6. CASE KeyMsg(k) \in Waiting(i, j)
    BY <1>6 DEF Waiting, Waits
  <1>7. CASE KeyMsg(k) \in NewKey(i, j)
    BY <1>7, MessageKinds DEF NewKey
  <1> QED BY <1>4, <1>5, <1>6, <1>7 DEF S

\* A waiting key of a node is one it may hand out.
LEMMA WaitsGiven ==
  ASSUME Chans(chan, Given), NEW i \in Node, NEW j \in Node, NEW k, Waits(chan[i][j], KeyMsg(k))
  PROVE  k \in GivenKeys(i)
  <1>1. chan[i][j] \in Seq(Given[i][j])
    BY DEF Chans
  <1>2. KeyMsg(k) \in Given[i][j]
    BY <1>1 DEF Waits
  <1> QED BY <1>2, GivenFacts, MessageKinds

LEMMA HoldersStay ==
  ASSUME StayInv, StayInv', KnownOk, Holders, KeyFlow
  PROVE  KnownOk' /\ Holders'
  <1>1. /\ Rings /\ Rings' /\ Labels' /\ Chans(chan, Given)
    BY DEF StayInv, Typed
  <1>2. ASSUME NEW x \in Node, NEW k \in known'[x] PROVE k.gen <= room_gen'[k.auth]
    <2>1. k \in Key /\ k.auth \in Node /\ k.gen \in Nat
      BY KeyFacts DEF KeyFlow
    <2>2. CASE k \in known[x]
      <3>1. k.gen <= room_gen[k.auth] /\ room_gen[k.auth] <= room_gen'[k.auth]
        BY <2>1, <2>2 DEF KnownOk, KeyFlow
      <3>2. room_gen[k.auth] \in Nat /\ room_gen'[k.auth] \in Nat
        BY <1>1, <2>1 DEF Rings
      <3> QED BY <2>1, <3>1, <3>2
    <2>3. CASE k \notin known[x]
      BY <2>3 DEF KeyFlow, KeyFrom
    <2> QED BY <2>2, <2>3
  <1>3. ASSUME NEW a \in Node, NEW x \in Node, First(a)', x # a, cur'[a] # NoKey, Has(a, x)'
        PROVE  x \in members'[a]
    <2>1. First(a) /\ FirstMoves(a)
      BY <1>3 DEF KeyFlow
    <2>2. cur'[a].auth = a
      BY <1>1, <1>3 DEF Labels, LabelOk
    <2>3. ASSUME Has(a, x), cur'[a] = cur[a], members[a] \subseteq members'[a]
          PROVE  x \in members'[a]
      BY <1>3, <2>1, <2>3 DEF Holders
    <2>4. cur'[a].gen \in Nat /\ room_gen[a] \in Nat
      <3>1. cur'[a] \in Key
        BY <1>1, <1>3 DEF Rings
      <3> QED BY <1>1, <3>1, KeyFacts DEF Rings
    <2>5. ASSUME cur'[a].gen <= room_gen[a]
          PROVE  cur'[a] = cur[a] /\ members[a] \subseteq members'[a]
      BY <2>1, <2>4, <2>5 DEF FirstMoves
    <2>6. ASSUME Waits(chan[a][x], KeyMsg(cur'[a])) PROVE x \in members'[a]
      <3>1. cur'[a].gen <= room_gen[a]
        BY <1>1, <2>6, WaitsGiven DEF GivenKeys
      <3>2. cur'[a] = cur[a]
        BY <2>5, <3>1
      <3> QED BY <2>3, <2>5, <2>6, <3>1, <3>2 DEF Has
    <2>7. CASE Waits(chan'[a][x], KeyMsg(cur'[a]))
      BY <2>6, <2>7, WaitsFlow DEF KeyFlow
    <2>8. CASE cur'[a] \in known'[x]
      <3>1. KeyFrom(cur'[a], x)
        BY <2>8 DEF KeyFlow
      <3>2. CASE cur'[a] \in known[x]
        <4>1. cur'[a].gen <= room_gen[a]
          BY <2>2, <3>2 DEF KnownOk
        <4>2. cur'[a] = cur[a]
          BY <2>5, <4>1
        <4> QED BY <2>3, <2>5, <3>2, <4>1, <4>2 DEF Has
      <3>3. CASE cur'[a] \notin known[x]
        BY <1>3, <2>1, <2>2, <2>6, <3>1, <3>3 DEF KeyFrom
      <3> QED BY <3>2, <3>3
    <2> QED BY <1>3, <2>7, <2>8 DEF Has
  <1>4. KnownOk'
    BY <1>2 DEF KnownOk, KeyFlow
  <1> QED BY <1>3, <1>4 DEF Holders

\* Queues start within the flow, and taking, cutting and sending stay in it.
LEMMA FlowStart ==
  ASSUME StayInv
  PROVE  /\ Chans(chan, Flow)
         /\ \A i, j \in Node : Secure \in Flow[i][j] /\ Reply \in Flow[i][j]
         /\ \A i, j \in Node : \A g \in Nat : GenMsg(g) \in Flow[i][j]
         /\ \A i, j \in Node : j \in members'[i] => KeyMsg(cur'[i]) \in Flow[i][j]
  <1>1. Chans(chan, Given)
    BY DEF StayInv
  <1>2. ASSUME NEW i \in Node, NEW j \in Node PROVE chan[i][j] \in Seq(Flow[i][j])
    <2> DEFINE S == Waiting(i, j) \cup Keyless \cup NewKey(i, j)
               q == chan[i][j]
    <2>1. q \in Seq(Given[i][j])
      BY <1>1 DEF Chans
    <2>2. \A x \in 1 .. Len(q) : q[x] \in S
      BY DEF Waiting
    <2> HIDE DEF S, q
    <2>3. q \in Seq(S)
      BY <2>1, <2>2
    <2> QED BY <2>3 DEF S, q, Flow
  <1>3. Chans(chan, Flow)
    BY <1>1, <1>2 DEF Chans
  <1> QED BY <1>3 DEF Flow, Keyless, NewKey

\* A step that leaves the keys alone and takes nobody off the list of the first.
LEMMA SameKeysFlow ==
  ASSUME StayInv, KnownOk, cur' = cur, room_gen' = room_gen, known' = known,
         \A a \in Joined : First(a)' => First(a),
         \A a \in Node : First(a) => members[a] \subseteq members'[a],
         Chans(chan', Flow)
  PROVE  KeyFlow
  <1>1. Rings /\ Labels
    BY DEF StayInv, Typed
  <1>2. \A p \in Node : room_gen[p] <= room_gen'[p]
    BY <1>1 DEF Rings
  <1>3. ASSUME NEW a \in Node, First(a)', ~First(a) PROVE cur'[a] = NoKey
    <2>1. a \notin Joined
      BY <1>3
    <2> QED BY <1>1, <2>1 DEF Labels, LabelOk
  <1>4. \A a \in Node : First(a)' => IF First(a) THEN FirstMoves(a) ELSE cur'[a] = NoKey
    BY <1>3 DEF FirstMoves
  <1> QED BY <1>2, <1>4 DEF KeyFlow, KnownOk, KeyFrom

LEMMA OthersFlow ==
  ASSUME StayInv, KnownOk,
         \/ RekeyRoom \/ UNCHANGED vars
         \/ \E n \in Node : \/ SignalingLost(n) \/ ServerNotices(n) \/ Rejoin(n)
                            \/ JoinRoom(n) \/ LeaveRoom(n)
                            \/ \E p \in Node : LinkFails(n, p) \/ Connect(n, p) \/ ReplyArrives(n, p)
                            \/ \E g : OnPromote(n, g)
  PROVE  KeyFlow
  <1>1. UNCHANGED <<cur, room_gen, known, members>>
    <2>1. ASSUME NEW n \in Node, SignalingLost(n) \/ ServerNotices(n) \/ Rejoin(n)
                                 \/ JoinRoom(n) \/ LeaveRoom(n)
          PROVE  UNCHANGED <<cur, room_gen, known, members>>
      BY <2>1 DEF SignalingLost, ServerNotices, Rejoin, JoinRoom, LeaveRoom, ring_vars, hist_vars
    <2>2. ASSUME NEW n \in Node, NEW p \in Node, LinkFails(n, p) \/ Connect(n, p) \/ ReplyArrives(n, p)
          PROVE  UNCHANGED <<cur, room_gen, known, members>>
      BY <2>2 DEF LinkFails, Connect, ReplyArrives, ring_vars, hist_vars
    <2>3. ASSUME NEW n \in Node, NEW g, OnPromote(n, g) PROVE UNCHANGED <<cur, room_gen, known, members>>
      BY <2>3 DEF OnPromote
    <2>4. CASE RekeyRoom \/ UNCHANGED vars
      BY <2>4 DEF RekeyRoom, vars, ring_vars, hist_vars
    <2> QED BY <2>1, <2>2, <2>3, <2>4
  <1>2. People /\ Chans(chan, Given) /\ Chans(chan, Flow)
    BY FlowStart DEF StayInv
  <1>3. \A a \in Joined : First(a)' => First(a)
    <2>1. CASE \E n \in Node : JoinRoom(n) \/ LeaveRoom(n)
      BY <1>2, <2>1, FirstBack DEF JoinRoom, LeaveRoom, People
    <2>2. CASE status' = status
      BY <2>2, StillFirst
    <2> QED BY <2>1, <2>2 DEF RekeyRoom, SignalingLost, ServerNotices, Rejoin, LinkFails, Connect,
                              ReplyArrives, OnPromote, vars, server_vars
  <1>4. Chans(chan', Flow)
    <2>1. ASSUME NEW n \in Node, LeaveRoom(n) PROVE Chans(chan', Flow)
      BY <1>2, <2>1, CutAllowed DEF LeaveRoom
    <2>2. ASSUME NEW n \in Node, NEW p \in Node, LinkFails(n, p) PROVE Chans(chan', Flow)
      BY <1>2, <2>2, CutAllowed DEF LinkFails
    <2>3. ASSUME NEW n \in Node, NEW p \in Node, Connect(n, p) PROVE Chans(chan', Flow)
      <3>1. Secure \in Flow[n][p] /\ Reply \in Flow[p][n]
        BY FlowStart
      <3> QED BY <1>2, <2>3, <3>1, ConnectAllowed
    <2>4. ASSUME NEW n \in Node, NEW p \in Node, ReplyArrives(n, p) PROVE Chans(chan', Flow)
      <3>1. Secure \in Flow[p][n]
        BY FlowStart
      <3> QED BY <1>2, <2>4, <3>1, ReplyAllowed
    <2>5. CASE chan' = chan
      BY <1>2, <2>5
    <2> QED BY <2>1, <2>2, <2>3, <2>4, <2>5 DEF RekeyRoom, SignalingLost, ServerNotices, Rejoin,
                                                JoinRoom, OnPromote, vars, mesh_vars
  <1> QED BY <1>1, <1>3, <1>4, SameKeysFlow

\* A node that mints above what it has.
LEMMA MintFlow ==
  ASSUME ~SameTick, StayInv, KnownOk, UNCHANGED status, NEW n \in Joined,
         NEW g \in Nat, room_gen[n] <= g, Adopt(n, Mint(n, g + 1)),
         \A m \in Node : m # n => members'[m] = members[m],
         Chans(chan', Flow)
  PROVE  KeyFlow
  <1>1. Typed /\ Rings /\ Labels /\ Promises /\ n \in Node
    BY DEF StayInv, Typed, Joined
  <1>2. /\ cur'[n] = Mint(n, g + 1) /\ room_gen'[n] = g + 1
        /\ \A m \in Node : m # n => cur'[m] = cur[m]
        /\ \A m \in Node : room_gen[m] <= room_gen'[m]
    BY <1>1, MintStays
  <1>3. known' = [known EXCEPT ![n] = known[n] \cup {Mint(n, g + 1)}]
    BY <1>1, MintSteps
  <1>4. Mint(n, g + 1) \in Key /\ Mint(n, g + 1).gen = g + 1 /\ Mint(n, g + 1).auth = n
    BY <1>1, MintIsKey DEF Mint
  <1>5. g + 1 <= room_gen'[n] /\ g + 1 > room_gen[n]
    <2>1. room_gen[n] \in Nat
      BY <1>1 DEF Rings
    <2> QED BY <1>2, <2>1
  <1>6. /\ known' \in [Node -> SUBSET Key]
        /\ \A x \in Node : \A k \in known'[x] : k \in known[x] \/ (x = n /\ k = Mint(n, g + 1))
    <2> DEFINE K == Mint(n, g + 1)
    <2>1. known' = [known EXCEPT ![n] = known[n] \cup {K}] /\ K \in Key
      BY <1>3, <1>4
    <2> HIDE DEF K
    <2>2. /\ known' \in [Node -> SUBSET Key]
          /\ \A x \in Node : \A k \in known'[x] : k \in known[x] \/ (x = n /\ k = K)
      BY <1>1, <2>1 DEF KnownOk
    <2> QED BY <2>2 DEF K
  <1>7. \A x \in Node : \A k \in known'[x] : KeyFrom(k, x)
    BY <1>2, <1>4, <1>5, <1>6 DEF KeyFrom
  <1>8. \A a \in Node : First(a)' => IF First(a) THEN FirstMoves(a) ELSE cur'[a] = NoKey
    <2>1. \A a : First(a)' <=> First(a)
      BY StillFirst
    <2>2. \A a \in Node : FirstMoves(a)
      BY <1>2, <1>4, <1>5 DEF FirstMoves
    <2> QED BY <2>1, <2>2
  <1> QED BY <1>2, <1>6, <1>7, <1>8 DEF KeyFlow

\* Arms of the engine loop.
LEMMA FramesFlow ==
  ASSUME ~SameTick, StayInv, KnownOk, NEW n \in Node,
         OnRoster(n) \/ OnPeerJoined(n) \/ OnPeerLeft(n) \/ OnRekey(n)
  PROVE  KeyFlow
  <1>1. PICK mem, torn, ss : \E keep \in BOOLEAN : Arm(n, mem, torn, keep, ss)
    BY FrameArms
  <1>2. PICK keep \in BOOLEAN : Arm(n, mem, torn, keep, ss)
    BY <1>1
  <1> DEFINE ch == CutChan(n, torn, keep)
  <1>3. /\ People /\ Stays /\ Rings /\ (\E t : Receive(n, t))
        /\ mem \subseteq Joined \ {n} /\ members' = [members EXCEPT ![n] = mem]
        /\ \/ /\ Adopt(n, Mint(n, room_gen[n] + 1))
              /\ chan' = SendEach(ch, link', ss, n, mem, KeyMsg(cur'[n]))
           \/ /\ KeepRing /\ chan' = ch
              /\ AmAuthority(n, mem) => members[n] \subseteq mem
    BY <1>2 DEF Arm, StayInv, Typed
  <1>4. /\ n \in Joined /\ UNCHANGED status /\ members'[n] = mem
        /\ \A m \in Node : m # n => members'[m] = members[m]
    BY <1>3, ReceivePeople
  <1>5. Chans(ch, Flow)
    BY FlowStart, CutAllowed
  <1> HIDE DEF ch
  <1>6. CASE /\ Adopt(n, Mint(n, room_gen[n] + 1))
             /\ chan' = SendEach(ch, link', ss, n, mem, KeyMsg(cur'[n]))
    <2>1. \A p \in Node : p \in mem => KeyMsg(cur'[n]) \in Flow[n][p]
      BY <1>4, FlowStart
    <2>2. Chans(chan', Flow)
      BY <1>5, <1>6, <2>1, SendAllowed
    <2>3. room_gen[n] \in Nat /\ room_gen[n] <= room_gen[n]
      BY <1>3 DEF Rings
    <2> QED BY <1>4, <1>6, <2>2, <2>3, MintFlow
  <1>7. CASE KeepRing /\ chan' = ch /\ (AmAuthority(n, mem) => members[n] \subseteq mem)
    <2>1. cur' = cur /\ room_gen' = room_gen /\ known' = known
      BY <1>7 DEF KeepRing, ring_vars, hist_vars
    <2>2. \A a : First(a)' <=> First(a)
      BY <1>4, StillFirst
    <2>3. First(n) => AmAuthority(n, mem)
      BY <1>3, FirstFacts DEF AmAuthority
    <2>4. \A a \in Node : First(a) => members[a] \subseteq members'[a]
      BY <1>4, <1>7, <2>3
    <2>5. Chans(chan', Flow)
      BY <1>5, <1>7
    <2> QED BY <2>1, <2>2, <2>4, <2>5, SameKeysFlow
  <1> QED BY <1>3, <1>6, <1>7

LEMMA SecureFlow ==
  ASSUME ~SameTick, StayInv, KnownOk, NEW n \in Node, NEW p \in Node,
         OnSecureAuthority(n, p) \/ OnSecureMember(n, p)
  PROVE  KeyFlow
  <1>1. /\ chan[p][n] # <<>> /\ members' = members /\ UNCHANGED <<status, link, sess>>
    BY DEF OnSecureAuthority, OnSecureMember, Event, server_vars
  <1>2. /\ Typed /\ Rings /\ People /\ Links /\ Labels /\ Promises
        /\ Chans(chan, Given) /\ Chans(chan, Flow)
    BY FlowStart DEF StayInv, Typed
  <1>3. Chans(Rest(n, p), Flow) /\ n \in Joined
    BY <1>1, <1>2, RestAllowed, EventGiven
  <1>4. \A a : First(a)' <=> First(a)
    BY <1>1, StillFirst
  <1>5. CASE OnSecureAuthority(n, p)
    <2>1. To(link, sess, n, {p}, p) => p \in members'[n]
      BY <1>1, <1>2 DEF To, Links
    <2>2. To(link, sess, n, {p}, p) => KeyMsg(cur'[n]) \in Flow[n][p]
      BY <2>1, FlowStart
    <2>3. Chans(chan', Flow)
      <3>1. chan' = SendEach(Rest(n, p), link, sess, n, {p}, KeyMsg(cur'[n]))
        BY <1>5 DEF OnSecureAuthority
      <3> QED BY <1>3, <2>2, <3>1, SendAllowed DEF To
    <2>4. CASE cur[n] = NoKey
      <3>1. room_gen[n] = 0
        BY <1>2, <2>4, KeyFacts DEF Labels, LabelOk
      <3>2. MaxOf(room_gen[n], 1) = 0 + 1 /\ room_gen[n] <= 0 /\ 0 \in Nat
        BY <3>1 DEF MaxOf
      <3>3. Adopt(n, Mint(n, 0 + 1))
        BY <1>5, <2>4, <3>2 DEF OnSecureAuthority
      <3> QED BY <1>1, <1>3, <2>3, <3>2, <3>3, MintFlow
    <2>5. CASE cur[n] # NoKey
      <3>1. cur' = cur /\ room_gen' = room_gen /\ known' = known
        BY <1>5, <2>5 DEF OnSecureAuthority, KeepRing, ring_vars, hist_vars
      <3> QED BY <1>1, <1>4, <2>3, <3>1, SameKeysFlow
    <2> QED BY <2>4, <2>5
  <1>6. CASE OnSecureMember(n, p)
    <2>1. cur' = cur /\ room_gen' = room_gen /\ known' = known
      BY <1>6 DEF OnSecureMember, KeepRing, ring_vars, hist_vars
    <2>2. GenMsg(cur[n].gen) \in Flow[n][p]
      <3>1. cur[n].gen \in Nat
        BY <1>2 DEF Labels, LabelOk, Rings
      <3> QED BY <3>1, FlowStart
    <2>3. Chans(chan', Flow)
      <3>1. \/ chan' = SendEach(Rest(n, p), link, sess, n, {p}, GenMsg(cur[n].gen))
            \/ chan' = Rest(n, p)
        BY <1>6 DEF OnSecureMember
      <3> QED BY <1>3, <2>2, <3>1, SendAllowed
    <2> QED BY <1>1, <1>4, <2>1, <2>3, SameKeysFlow
  <1> QED BY <1>5, <1>6

LEMMA RoomGenFlow ==
  ASSUME ~SameTick, StayInv, KnownOk, NEW n \in Node, NEW p \in Node, OnRoomGen(n, p)
  PROVE  KeyFlow
  <1> DEFINE g == Head(chan[p][n]).key.gen
  <1>1. /\ chan[p][n] # <<>> /\ Head(chan[p][n]).t = "RoomGen" /\ members' = members /\ UNCHANGED status
        /\ \/ /\ g > room_gen[n] /\ Adopt(n, Mint(n, g + 1))
              /\ chan' = SendEach(Rest(n, p), link, sess, n, members[n], KeyMsg(cur'[n]))
           \/ KeepRing /\ chan' = Rest(n, p)
    BY DEF OnRoomGen, RotateIf, Event, server_vars
  <1>2. Rings /\ Chans(chan, Given) /\ Chans(chan, Flow) /\ Chans(chan, AnyMsg)
    BY FlowStart DEF StayInv, Typed
  <1>3. Chans(Rest(n, p), Flow) /\ n \in Joined
    BY <1>1, <1>2, RestAllowed, EventGiven
  <1>4. g \in Nat
    <2>1. Head(chan[p][n]) \in AnyMsg[p][n]
      BY <1>1, <1>2, RestAllowed
    <2> QED BY <1>1, <2>1, SentFacts DEF AnyMsg
  <1> HIDE DEF g
  <1>5. CASE /\ g > room_gen[n] /\ Adopt(n, Mint(n, g + 1))
             /\ chan' = SendEach(Rest(n, p), link, sess, n, members[n], KeyMsg(cur'[n]))
    <2>1. \A q \in Node : q \in members[n] => KeyMsg(cur'[n]) \in Flow[n][q]
      BY <1>1, FlowStart
    <2>2. Chans(chan', Flow)
      BY <1>3, <1>5, <2>1, SendAllowed
    <2>3. room_gen[n] <= g
      <3>1. room_gen[n] \in Nat
        BY <1>2 DEF Rings
      <3> QED BY <1>4, <1>5, <3>1
    <2> QED BY <1>1, <1>3, <1>4, <1>5, <2>2, <2>3, MintFlow
  <1>6. CASE KeepRing /\ chan' = Rest(n, p)
    <2>1. cur' = cur /\ room_gen' = room_gen /\ known' = known
      BY <1>6 DEF KeepRing, ring_vars, hist_vars
    <2>2. \A a : First(a)' <=> First(a)
      BY <1>1, StillFirst
    <2> QED BY <1>1, <1>3, <1>6, <2>1, <2>2, SameKeysFlow
  <1> QED BY <1>1, <1>5, <1>6

LEMMA RoomKeyFlow ==
  ASSUME ~SameTick, StayInv, KnownOk, NEW n \in Node, NEW p \in Node, OnRoomKey(n, p)
  PROVE  KeyFlow
  <1> DEFINE h == Head(chan[p][n])
             k == [gen |-> h.key.gen, auth |-> p]
  <1>1. /\ chan[p][n] # <<>> /\ h.t = "RoomKey" /\ members' = members /\ UNCHANGED status
        /\ chan' = Rest(n, p)
        /\ \/ IsAuthorityPeer(p, n, members[n]) /\ Adopt(n, k)
           \/ KeepRing
    BY DEF OnRoomKey, Event, server_vars
  <1>2. /\ Typed /\ Rings /\ People /\ Labels /\ Promises
        /\ Chans(chan, Given) /\ Chans(chan, Flow)
    BY FlowStart DEF StayInv, Typed
  <1>3. Chans(chan', Flow)
    BY <1>1, <1>2, RestAllowed
  <1>4. \A a : First(a)' <=> First(a)
    BY <1>1, StillFirst
  <1>5. /\ p \in Joined /\ h = KeyMsg(h.key) /\ h.key \in GivenKeys(p)
    BY <1>1, <1>2, EventGiven
  <1>6. /\ k \in Key /\ k.gen <= room_gen[p] /\ k.auth = p /\ (First(p) => h = KeyMsg(k))
    <2>1. h.key \in Key /\ h.key.gen <= room_gen[p] /\ (First(p) => h.key.auth = p)
      BY <1>5 DEF GivenKeys
    <2>2. h.key = [gen |-> h.key.gen, auth |-> h.key.auth]
      BY <2>1 DEF Key
    <2> QED BY <1>5, <2>1, <2>2 DEF Key
  <1>7. First(p) => Waits(chan[p][n], KeyMsg(k))
    <2>1. chan[p][n] \in Seq(Given[p][n])
      BY <1>2 DEF Chans
    <2>2. Waits(chan[p][n], h)
      BY <1>1, <2>1, WaitsTail
    <2> QED BY <1>6, <2>2
  <1> HIDE DEF h, k
  <1>8. CASE KeepRing
    <2>1. cur' = cur /\ room_gen' = room_gen /\ known' = known
      BY <1>8 DEF KeepRing, ring_vars, hist_vars
    <2> QED BY <1>1, <1>3, <1>4, <2>1, SameKeysFlow
  <1>9. CASE IsAuthorityPeer(p, n, members[n]) /\ Better(k, cur[n]) /\ Take(n, k)
    <2>1. /\ cur' = [cur EXCEPT ![n] = k] /\ room_gen' = [room_gen EXCEPT ![n] = k.gen]
          /\ room_gen[n] <= k.gen /\ known' = [known EXCEPT ![n] = known[n] \cup {k}]
      BY <1>2, <1>6, <1>9, TakeSteps
    <2>2. ~First(n)
      BY <1>2, <1>5, <1>9, FirstFacts
    <2>3. \A q \in Node : room_gen[q] <= room_gen'[q]
      BY <1>2, <2>1 DEF Rings
    <2>4. /\ known' \in [Node -> SUBSET Key]
          /\ \A x \in Node : \A y \in known'[x] : y \in known[x] \/ (x = n /\ y = k)
      BY <1>6, <2>1 DEF KnownOk
    <2>5. k.gen <= room_gen'[p]
      <3>1. p \in Node /\ k.gen \in Nat
        BY <1>5, <1>6, KeyFacts DEF Joined
      <3>2. room_gen[p] \in Nat /\ room_gen'[p] \in Nat
        BY <1>2, <1>6, <2>1, <3>1, KeyFacts DEF Rings
      <3>3. room_gen[p] <= room_gen'[p]
        BY <2>3, <3>1
      <3> QED BY <1>6, <3>1, <3>2, <3>3
    <2>6. \A x \in Node : \A y \in known'[x] : KeyFrom(y, x)
      BY <1>6, <1>7, <2>4, <2>5 DEF KeyFrom
    <2>7. \A a \in Node : a # n => FirstMoves(a)
      BY <1>1, <1>2, <2>1 DEF Rings, FirstMoves
    <2> QED BY <1>3, <1>4, <2>2, <2>3, <2>4, <2>6, <2>7 DEF KeyFlow
  <1> QED BY <1>1, <1>8, <1>9 DEF Adopt

-----------------------------------------------------------------------------
(***************************************************************************)
(* The lists, once the frames that wait are handled.                       *)
(***************************************************************************)
Adds(f, x) == (f.t = "PeerJoined" /\ f.user = x) \/ (f.t = "Roster" /\ x \in f.peers)
Removes(f, x) == (f.t = "PeerLeft" /\ f.user = x) \/ (f.t = "Roster" /\ x \notin f.peers)

\* With q handled, x is not on the list.
Forgets(q, mem, x) ==
  \/ x \notin mem /\ \A i \in 1 .. Len(q) : ~Adds(q[i], x)
  \/ \E i \in 1 .. Len(q) : Removes(q[i], x) /\ \A j \in 1 .. Len(q) : j > i => ~Adds(q[j], x)

\* Nobody connected keeps a node on its list that the room does not have.
Lists == \A a \in online : \A x \in Node \ (room \cup {a}) : Forgets(inbox[a], members[a], x)

LEMMA ForgetsAppend ==
  ASSUME NEW D, NEW q \in Seq(D), NEW mem, NEW x, NEW f,
         \/ Removes(f, x)
         \/ Forgets(q, mem, x) /\ ~Adds(f, x)
  PROVE  Forgets(Append(q, f), mem, x)
  <1> DEFINE r == Append(q, f)
  <1>1. /\ Len(r) = Len(q) + 1 /\ Len(q) \in Nat /\ r[Len(q) + 1] = f
        /\ \A i \in 1 .. Len(q) : r[i] = q[i]
    OBVIOUS
  <1> HIDE DEF r
  <1>2. CASE Removes(f, x)
    <2>1. Len(q) + 1 \in 1 .. Len(r) /\ \A j \in 1 .. Len(r) : ~(j > Len(q) + 1)
      BY <1>1
    <2> QED BY <1>1, <1>2, <2>1 DEF Forgets, r
  <1>3. \A i \in 1 .. Len(r) : i \in 1 .. Len(q) \/ i = Len(q) + 1
    BY <1>1
  <1>4. CASE ~Adds(f, x) /\ x \notin mem /\ \A i \in 1 .. Len(q) : ~Adds(q[i], x)
    BY <1>1, <1>3, <1>4 DEF Forgets, r
  <1>5. ASSUME ~Adds(f, x), NEW i \in 1 .. Len(q), Removes(q[i], x),
               \A j \in 1 .. Len(q) : j > i => ~Adds(q[j], x)
        PROVE  Forgets(Append(q, f), mem, x)
    <2>1. i \in 1 .. Len(r) /\ Removes(r[i], x)
      BY <1>1, <1>5
    <2>2. \A j \in 1 .. Len(r) : j > i => ~Adds(r[j], x)
      BY <1>1, <1>3, <1>5
    <2> QED BY <2>1, <2>2 DEF Forgets, r
  <1> QED BY <1>2, <1>4, <1>5 DEF Forgets

LEMMA ForgetsTail ==
  ASSUME NEW D, NEW q \in Seq(D), q # <<>>, NEW mem, NEW new, NEW x, Forgets(q, mem, x),
         Removes(Head(q), x) => x \notin new,
         x \notin mem /\ ~Adds(Head(q), x) => x \notin new
  PROVE  Forgets(Tail(q), new, x)
  <1> DEFINE r == Tail(q)
  <1>1. /\ Len(q) \in Nat \ {0} /\ Len(r) = Len(q) - 1 /\ Head(q) = q[1]
        /\ \A i \in 1 .. Len(q) - 1 : r[i] = q[i + 1]
    OBVIOUS
  <1> HIDE DEF r
  <1>2. \A i \in 1 .. Len(r) : i + 1 \in 1 .. Len(q) /\ r[i] = q[i + 1] /\ i + 1 > 1
    BY <1>1
  <1>3. 1 \in 1 .. Len(q)
    BY <1>1
  <1>4. CASE x \notin mem /\ \A i \in 1 .. Len(q) : ~Adds(q[i], x)
    <2>1. x \notin new
      BY <1>1, <1>3, <1>4
    <2> QED BY <1>2, <1>4, <2>1 DEF Forgets, r
  <1>5. ASSUME NEW i \in 1 .. Len(q), Removes(q[i], x),
               \A j \in 1 .. Len(q) : j > i => ~Adds(q[j], x)
        PROVE  Forgets(Tail(q), new, x)
    <2>1. CASE i = 1
      <3>1. x \notin new
        BY <1>1, <1>5, <2>1
      <3>2. \A j \in 1 .. Len(r) : ~Adds(r[j], x)
        BY <1>2, <1>5, <2>1
      <3> QED BY <3>1, <3>2 DEF Forgets, r
    <2>2. CASE i # 1
      <3>1. i - 1 \in 1 .. Len(r) /\ r[i - 1] = q[i]
        BY <1>1, <2>2
      <3>2. \A j \in 1 .. Len(r) : j > i - 1 => j + 1 > i
        OBVIOUS
      <3>3. \A j \in 1 .. Len(r) : j > i - 1 => ~Adds(r[j], x)
        BY <1>2, <1>5, <3>2
      <3> QED BY <1>5, <3>1, <3>3 DEF Forgets, r
    <2> QED BY <2>1, <2>2
  <1> QED BY <1>4, <1>5 DEF Forgets

\* A roster without x is all it takes.
LEMMA ForgetsOne ==
  ASSUME NEW f, NEW mem, NEW x, Removes(f, x)
  PROVE  Forgets(<<f>>, mem, x)
  <1>1. Len(<<f>>) = 1 /\ <<f>>[1] = f
    OBVIOUS
  <1>2. 1 \in 1 .. Len(<<f>>) /\ \A j \in 1 .. Len(<<f>>) : ~(j > 1)
    BY <1>1
  <1> QED BY <1>1, <1>2 DEF Forgets

LEMMA FrameLists ==
  ASSUME People, Lists, NEW n \in Node,
         OnRoster(n) \/ OnPeerJoined(n) \/ OnPeerLeft(n) \/ OnRekey(n)
  PROVE  Lists'
  <1>1. /\ UNCHANGED <<room, online>> /\ n \in online /\ inbox[n] # <<>>
        /\ inbox' = [inbox EXCEPT ![n] = Tail(inbox[n])]
        /\ inbox \in [Node -> Seq(AnyFrame)] /\ members \in [Node -> SUBSET Node]
    BY DEF People, OnRoster, OnPeerJoined, OnPeerLeft, OnRekey, Receive
  <1>2. inbox'[n] = Tail(inbox[n]) /\ \A m \in Node : m # n => inbox'[m] = inbox[m]
    BY <1>1
  <1> DEFINE f == Head(inbox[n])
  <1>3. /\ \A m \in Node : m # n => members'[m] = members[m]
        /\ \/ f.t = "Roster" /\ members'[n] = f.peers
           \/ f.t = "PeerJoined" /\ members'[n] = members[n] \cup {f.user}
           \/ f.t = "PeerLeft" /\ members'[n] = members[n] \ {f.user}
           \/ f.t = "Rekey" /\ members'[n] = members[n]
    BY <1>1 DEF OnRoster, OnPeerJoined, OnPeerLeft, OnRekey, Receive
  <1> HIDE DEF f
  <1>4. ASSUME NEW x
        PROVE  /\ Removes(f, x) => x \notin members'[n]
               /\ x \notin members[n] /\ ~Adds(f, x) => x \notin members'[n]
    BY <1>3 DEF Adds, Removes
  <1>5. ASSUME NEW a \in online, NEW x \in Node \ (room \cup {a})
        PROVE  Forgets(inbox'[a], members'[a], x)
    <2>1. Forgets(inbox[a], members[a], x) /\ a \in Node
      BY DEF Lists, People
    <2>2. CASE a = n
      <3>1. inbox[n] \in Seq(AnyFrame)
        BY <1>1
      <3>2. Forgets(Tail(inbox[n]), members'[n], x)
        BY <1>1, <1>4, <2>1, <2>2, <3>1, ForgetsTail DEF f
      <3> QED BY <1>2, <2>2, <3>2
    <2>3. CASE a # n
      BY <1>2, <1>3, <2>1, <2>3
    <2> QED BY <2>2, <2>3
  <1> QED BY <1>1, <1>5 DEF Lists

LEMMA RoomLists ==
  ASSUME People, Lists,
         \/ RekeyRoom
         \/ \E n \in Node : \/ SignalingLost(n) \/ ServerNotices(n) \/ Rejoin(n)
                            \/ JoinRoom(n) \/ LeaveRoom(n)
  PROVE  Lists'
  <1>1. /\ members' = members /\ online \subseteq room /\ room \subseteq Node
        /\ inbox \in [Node -> Seq(AnyFrame)] /\ \A m \in room : status[m] = "in"
    BY DEF People, RekeyRoom, SignalingLost, ServerNotices, Rejoin, JoinRoom, LeaveRoom
  <1>2. \A u, x : /\ u # x => ~Adds(PeerJoined(u), x)
                  /\ ~Adds(PeerLeft(u), x) /\ ~Adds(Rekey, x) /\ Removes(PeerLeft(x), x)
    BY DEF Adds, Removes, PeerJoined, PeerLeft, Rekey
  <1>3. \A ps, x : x \notin ps => Removes(Roster(ps), x)
    BY DEF Removes, Roster
  <1>4. ASSUME NEW n, NEW m, NEW a \in online, a # n
        PROVE  Tell(n, m)[a] = Append(inbox[a], m) /\ inbox[a] \in Seq(AnyFrame)
    BY <1>1, <1>4 DEF Tell
  <1>5. ASSUME NEW n, NEW m, NEW a \in online, a # n, NEW x \in Node \ {a},
               Removes(m, x) \/ (x \notin room /\ ~Adds(m, x))
        PROVE  Forgets(Tell(n, m)[a], members[a], x)
    <2> DEFINE q == inbox[a]
               mem == members[a]
    <2>1. x \notin room => Forgets(q, mem, x)
      BY <1>5 DEF Lists
    <2>2. Tell(n, m)[a] = Append(q, m) /\ q \in Seq(AnyFrame)
      BY <1>4, <1>5
    <2> HIDE DEF q, mem
    <2>3. Removes(m, x) \/ (Forgets(q, mem, x) /\ ~Adds(m, x))
      BY <1>5, <2>1
    <2>4. Forgets(Append(q, m), mem, x)
      BY <2>2, <2>3, ForgetsAppend
    <2> QED BY <2>2, <2>4 DEF q, mem
  <1>6. ASSUME NEW n \in Node, JoinRoom(n) \/ Rejoin(n) PROVE Lists'
    <2>1. online' = online \cup {n} /\ room' = room \cup {n}
      BY <1>1, <1>6 DEF JoinRoom, Rejoin
    <2>2. \E ps : ps \subseteq room /\ inbox' = [Tell(n, PeerJoined(n)) EXCEPT ![n] = <<Roster(ps)>>]
      BY <1>6 DEF JoinRoom, Rejoin
    <2>3. PICK ps : ps \subseteq room /\ inbox' = [Tell(n, PeerJoined(n)) EXCEPT ![n] = <<Roster(ps)>>]
      BY <2>2
    <2>4. inbox' = [k \in Node |-> IF k = n THEN <<Roster(ps)>> ELSE Tell(n, PeerJoined(n))[k]]
      BY <2>3 DEF Tell
    <2>5. ASSUME NEW a \in online', NEW x \in Node \ (room' \cup {a})
          PROVE  Forgets(inbox'[a], members'[a], x)
      <3>1. CASE a = n
        <4>1. Forgets(<<Roster(ps)>>, members[a], x)
          BY <1>3, <2>1, <2>3, <2>5, ForgetsOne
        <4> QED BY <1>1, <2>4, <3>1, <4>1
      <3>2. CASE a # n
        <4>1. a \in online /\ x \notin room /\ n # x /\ a \in Node
          BY <1>1, <2>1, <3>2
        <4>2. Forgets(Tell(n, PeerJoined(n))[a], members[a], x)
          BY <1>2, <1>5, <3>2, <4>1
        <4> QED BY <1>1, <2>4, <3>2, <4>1, <4>2
      <3> QED BY <3>1, <3>2
    <2> QED BY <2>5 DEF Lists
  <1>7. ASSUME NEW n \in Node, LeaveRoom(n) PROVE Lists'
    <2>1. /\ online' = online \ {n} /\ room' = room \ {n}
          /\ inbox' = [Tell(n, PeerLeft(n)) EXCEPT ![n] = <<>>]
      BY <1>7 DEF LeaveRoom
    <2>2. ASSUME NEW a \in online', NEW x \in Node \ (room' \cup {a})
          PROVE  Forgets(inbox'[a], members'[a], x)
      <3>1. a \in online /\ a # n /\ a \in Node /\ (x = n \/ x \notin room)
        BY <1>1, <2>1
      <3>2. Forgets(Tell(n, PeerLeft(n))[a], members[a], x)
        BY <1>2, <1>5, <3>1
      <3>3. inbox'[a] = Tell(n, PeerLeft(n))[a]
        BY <2>1, <3>1 DEF Tell
      <3> QED BY <1>1, <3>2, <3>3
    <2> QED BY <2>2 DEF Lists
  <1>8. ASSUME NEW n \in Node, ServerNotices(n) PROVE Lists'
    <2>1. /\ online' = online /\ room' = room \ {n} /\ n \notin online
          /\ inbox' = Tell(n, PeerLeft(n))
      BY <1>8 DEF ServerNotices
    <2>2. ASSUME NEW a \in online', NEW x \in Node \ (room' \cup {a})
          PROVE  Forgets(inbox'[a], members'[a], x)
      <3>1. a \in online /\ a # n /\ (x = n \/ x \notin room)
        BY <2>1
      <3>2. Forgets(Tell(n, PeerLeft(n))[a], members[a], x)
        BY <1>2, <1>5, <3>1
      <3> QED BY <1>1, <2>1, <3>2
    <2> QED BY <2>2 DEF Lists
  <1>9. ASSUME NEW n \in Node, SignalingLost(n) PROVE Lists'
    <2>1. online' = online \ {n} /\ room' = room /\ inbox' = [inbox EXCEPT ![n] = <<>>]
      BY <1>9 DEF SignalingLost
    <2>2. \A a \in online' : a \in online /\ inbox'[a] = inbox[a]
      BY <1>1, <2>1
    <2> QED BY <1>1, <2>1, <2>2 DEF Lists
  <1>10. ASSUME RekeyRoom PROVE Lists'
    <2>1. online' = online /\ room' = room /\ inbox' = Tell(0, Rekey)
      BY <1>10 DEF RekeyRoom
    <2>2. 0 \notin Node
      BY RoomAudioConstants
    <2>3. ASSUME NEW a \in online, NEW x \in Node \ (room \cup {a})
          PROVE  Forgets(inbox'[a], members'[a], x)
      BY <1>1, <1>2, <1>5, <2>1, <2>2
    <2> QED BY <2>1, <2>3 DEF Lists
  <1> QED BY <1>6, <1>7, <1>8, <1>9, <1>10

-----------------------------------------------------------------------------
SecrecyInv == StayInv /\ KnownOk /\ Holders /\ Lists

LEMMA SecrecySteps ==
  ASSUME ~SameTick, ~Overtake, SecrecyInv, [Next]_vars
  PROVE  SecrecyInv'
  <1>1. StayInv /\ KnownOk /\ Holders /\ Lists /\ People
    BY DEF SecrecyInv, StayInv
  <1>2. StayInv'
    BY <1>1, StepStays
  <1>3. ASSUME NEW n \in Node,
               OnRoster(n) \/ OnPeerJoined(n) \/ OnPeerLeft(n) \/ OnRekey(n)
        PROVE  KeyFlow /\ Lists'
    BY <1>1, <1>3, FramesFlow, FrameLists
  <1>4. ASSUME NEW n \in Node, NEW p \in Node,
               \/ OnSecureAuthority(n, p) \/ OnSecureMember(n, p)
               \/ OnRoomKey(n, p) \/ OnRoomGen(n, p)
        PROVE  KeyFlow /\ Lists'
    <2>1. KeyFlow
      BY <1>1, <1>4, SecureFlow, RoomKeyFlow, RoomGenFlow
    <2>2. UNCHANGED <<room, online, inbox, members>>
      BY <1>4 DEF OnSecureAuthority, OnSecureMember, OnRoomKey, OnRoomGen, Event, server_vars
    <2> QED BY <1>1, <2>1, <2>2 DEF Lists
  <1>5. ASSUME NEW n \in Node, NEW p \in Node,
               LinkFails(n, p) \/ Connect(n, p) \/ ReplyArrives(n, p)
        PROVE  KeyFlow /\ Lists'
    <2>1. KeyFlow
      BY <1>1, <1>5, OthersFlow
    <2>2. UNCHANGED <<room, online, inbox, members>>
      BY <1>5 DEF LinkFails, Connect, ReplyArrives, server_vars
    <2> QED BY <1>1, <2>1, <2>2 DEF Lists
  <1>6. ASSUME NEW n \in Node, NEW g, OnPromote(n, g) PROVE KeyFlow /\ Lists'
    <2>1. KeyFlow
      BY <1>1, <1>6, OthersFlow
    <2>2. UNCHANGED <<room, online, inbox, members>>
      BY <1>6 DEF OnPromote, server_vars
    <2> QED BY <1>1, <2>1, <2>2 DEF Lists
  <1>7. ASSUME NEW n \in Node,
               \/ SignalingLost(n) \/ ServerNotices(n) \/ Rejoin(n)
               \/ JoinRoom(n) \/ LeaveRoom(n)
        PROVE  KeyFlow /\ Lists'
    BY <1>1, <1>7, OthersFlow, RoomLists
  <1>8. ASSUME RekeyRoom PROVE KeyFlow /\ Lists'
    BY <1>1, <1>8, OthersFlow, RoomLists
  <1>9. ASSUME UNCHANGED vars PROVE KeyFlow /\ Lists'
    <2>1. KeyFlow
      BY <1>1, <1>9, OthersFlow
    <2> QED BY <1>1, <1>9, <2>1 DEF vars, Lists
  <1>10. KeyFlow /\ Lists'
    <2>1. ASSUME NEW n \in Node, Handle(n) PROVE KeyFlow /\ Lists'
      BY <1>3, <1>4, <1>5, <1>6, <2>1 DEF Handle
    <2> QED BY <1>5, <1>7, <1>8, <1>9, <2>1 DEF Next
  <1>11. KnownOk' /\ Holders'
    BY <1>1, <1>2, <1>10, HoldersStay
  <1> QED BY <1>2, <1>10, <1>11 DEF SecrecyInv

LEMMA SecrecyInit ==
  ASSUME AuthorityStays
  PROVE  Init => SecrecyInv
  <1> SUFFICES ASSUME Init PROVE SecrecyInv
    OBVIOUS
  <1>1. PICK sc \in Scenario : InitWith(sc.founders)
    BY DEF Init
  <1> DEFINE F == sc.founders
  <1>2. F \in SUBSET Node
    BY GroupConstants DEF ScenarioType
  <1> HIDE DEF F
  <1>3. InitWith(F)
    BY <1>1 DEF F
  <1>4. /\ room = F /\ online = F /\ inbox = [n \in Node |-> <<>>]
        /\ members = [n \in Node |-> Formed(F, n, F \ {n}, {})]
        /\ cur = [n \in Node |-> Formed(F, n, FirstKey(F), NoKey)]
        /\ room_gen = [n \in Node |-> Formed(F, n, 1, 0)]
        /\ known = [n \in Node |-> Formed(F, n, {FirstKey(F)}, {})]
        /\ chan = [i \in Node |-> [j \in Node |-> <<>>]]
    BY <1>3 DEF InitWith
  <1>5. StayInv
    BY InitStays
  <1>6. ASSUME NEW x \in Node, NEW k \in known[x]
        PROVE  x \in F /\ Settled(F) /\ k = FirstKey(F)
    BY <1>4, <1>6 DEF Formed
  <1>7. KnownOk
    <2>1. ASSUME Settled(F) PROVE FirstKey(F) \in Key /\ FirstKey(F).gen <= room_gen[FirstKey(F).auth]
      <3>1. /\ FirstKey(F) \in Key /\ FirstKey(F).gen = 1 /\ FirstKey(F).auth \in F
        BY <1>2, <2>1, FounderKey
      <3>2. room_gen[FirstKey(F).auth] = 1
        BY <1>2, <1>4, <2>1, <3>1 DEF Formed
      <3> QED BY <3>1, <3>2
    <2>2. \A x \in Node : known[x] \subseteq Key
      BY <1>6, <2>1
    <2>3. known \in [Node -> SUBSET Key]
      BY <1>4, <2>2
    <2> QED BY <1>6, <2>1, <2>3 DEF KnownOk
  <1>8. Holders
    <2> SUFFICES ASSUME NEW a \in Node, NEW x \in Node, x # a, cur[a] # NoKey, Has(a, x)
                 PROVE  x \in members[a]
      BY DEF Holders
    <2>1. a \in F /\ Settled(F)
      BY <1>4 DEF Formed
    <2>2. cur[a] \in known[x]
      BY <1>4 DEF Has, Waits
    <2>3. x \in F
      BY <1>6, <2>2
    <2> QED BY <1>4, <2>1, <2>3 DEF Formed
  <1>9. Lists
    <2> SUFFICES ASSUME NEW a \in online, NEW x \in Node \ (room \cup {a})
                 PROVE  Forgets(inbox[a], members[a], x)
      BY DEF Lists
    <2>1. a \in Node /\ x \notin members[a]
      BY <1>2, <1>4 DEF Formed
    <2>2. inbox[a] = <<>> /\ Len(<<>>) = 0
      BY <1>4, <2>1
    <2> QED BY <2>1, <2>2 DEF Forgets
  <1> QED BY <1>5, <1>7, <1>8, <1>9 DEF SecrecyInv

LEMMA QuietSecrecy ==
  ASSUME SecrecyInv, InReach
  PROVE  ForwardSecrecy
  <1> SUFFICES ASSUME Quiet, NEW n \in room, NEW x \in Node, status[x] = "gone"
               PROVE  send[n] \notin known[x]
    BY DEF ForwardSecrecy
  <1>1. StayInv /\ KnownOk /\ Holders /\ Lists /\ People
    BY DEF SecrecyInv, StayInv
  <1>2. n \in Joined /\ n \in Node
    BY <1>1 DEF People, Joined
  <1>3. PICK a \in Joined : First(a)
    BY <1>1, <1>2, SomeFirst DEF StayInv
  <1>4. send[n] = cur[a] /\ a \in room /\ a \in Node /\ status[a] = "in"
    BY <1>1, <1>3, QuietKey DEF Joined, First
  <1>5. x \notin room /\ x # a /\ a \in online /\ inbox[a] = <<>>
    BY <1>1, <1>4 DEF People, Quiet
  <1>6. x \notin members[a]
    <2>1. Forgets(inbox[a], members[a], x)
      BY <1>1, <1>5 DEF Lists
    <2>2. Len(<<>>) = 0
      OBVIOUS
    <2> QED BY <1>5, <2>1, <2>2 DEF Forgets
  <1>7. cur[a] \in known[x] => cur[a] # NoKey
    BY <1>1, KeyFacts DEF KnownOk
  <1> QED BY <1>1, <1>3, <1>4, <1>5, <1>6, <1>7 DEF Holders, Has

\* Once things settle, nobody seals audio with a key a departed member holds,
\* under the same conditions: whoever has or is being sent the newest key of
\* the authority is on its list, and whoever has left is off it once the frames
\* that wait are handled.
THEOREM NothingForTheDeparted ==
  ASSUME AuthorityStays, ~SameTick, ~Overtake
  PROVE  Spec => [](InReach => ForwardSecrecy)
  <1>1. Init => SecrecyInv
    BY SecrecyInit
  <1>2. SecrecyInv /\ [Next]_vars => SecrecyInv'
    BY SecrecySteps
  <1>3. SecrecyInv => (InReach => ForwardSecrecy)
    BY QuietSecrecy
  <1> QED BY <1>1, <1>2, <1>3, PTL DEF Spec
=============================================================================

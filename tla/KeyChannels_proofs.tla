------------------------- MODULE KeyChannels_proofs -------------------------
(***************************************************************************)
(* The two keyed channels of a node.                                       *)
(*                                                                         *)
(* For every number of nodes, ring slots and generations: the key ring of a *)
(* node always takes the key it mints, and (when no two grace timers expire *)
(* in one tick) its sealing key lags the staged one only while a promotion  *)
(* is outstanding, and a burst no longer than the ring loses no frame.      *)
(* For every window size and every number of frames: the anti-replay        *)
(* bitmap of a pairwise session is exact, and it delivers at most once.     *)
(***************************************************************************)
EXTENDS KeyRing, PairSession, RoomAudio_proofs

-----------------------------------------------------------------------------
(***************************************************************************)
(* Types, and the counter above every key of the ring.                     *)
(***************************************************************************)
\* The inductive invariant: no key of the ring, and no sealing key, is above
\* room_gen.
RingInv ==
  /\ TypeOK
  /\ \A k \in Ring(cur, prev) \cup {send} : k.gen <= room_gen

LEMMA InitRing == Init => RingInv
  BY KeyFacts, RoomAudioConstants DEF Init, RingInv, TypeOK, Ring, NoKey

LEMMA AdoptKeepsRing ==
  ASSUME RingInv, NEW k \in Key, Adopt(k)
  PROVE  RingInv'
  <1> USE DEF RingInv
  <1>1. cur' = k /\ prev' = PrevAfterStage(cur, prev) /\ room_gen' = MaxOf(room_gen, k.gen)
    BY DEF Adopt
  <1>2. room_gen' \in Nat /\ room_gen <= room_gen' /\ k.gen <= room_gen'
    BY <1>1, KeyFacts DEF TypeOK, MaxOf
  <1>3. /\ prev' \in Seq(Key)
        /\ Len(prev') <= ROOM_KEY_PREV_SLOTS
        /\ \A i \in 1..Len(prev') : prev'[i] \in Ring(cur, prev)
    BY <1>1, StageType DEF TypeOK
  <1>4. send' \in {send, k}
    <2>1. CASE send = NoKey
      <3>1. send' = SendAfterPromote(send, k, prev', k.gen)
        BY <2>1 DEF Adopt
      <3> QED BY <1>3, <3>1, PromoteFromRing, KeyFacts
    <2>2. CASE send # NoKey
      BY <2>2 DEF Adopt
    <2> QED BY <2>1, <2>2
  <1>5. timers' \in Seq(SUBSET Nat)
    <2>1. CASE send = NoKey
      BY <2>1 DEF Adopt, TypeOK
    <2>2. CASE send # NoKey
      <3>1. PICK same \in BOOLEAN : /\ same => SameTick /\ timers # <<>>
                                    /\ timers' = Schedule(timers, k.gen, same)
        BY <2>2 DEF Adopt
      <3>2. k.gen \in Nat
        BY KeyFacts
      <3> QED BY <3>1, <3>2, ScheduleType DEF TypeOK
    <2> QED BY <2>1, <2>2
  <1>6. TypeOK'
    BY <1>1, <1>2, <1>3, <1>4, <1>5 DEF TypeOK
  <1>7. \A x \in Ring(cur', prev') : x = k \/ x \in Ring(cur, prev)
    BY <1>1, <1>3 DEF Ring
  <1>8. \A x \in Ring(cur, prev) \cup {send} : x.gen \in Nat
    BY KeyFacts DEF TypeOK, Ring
  <1>9. \A x \in Ring(cur', prev') \cup {send'} : x.gen <= room_gen'
    BY <1>2, <1>4, <1>7, <1>8 DEF TypeOK
  <1> QED BY <1>6, <1>9

LEMMA PromoteKeepsRing ==
  ASSUME RingInv, NEW g, Promote(g)
  PROVE  RingInv'
  <1> USE DEF RingInv
  <1>1. UNCHANGED <<cur, prev, room_gen>>
    BY DEF Promote
  <1>2. send' \in Ring(cur, prev) \cup {send}
    BY PromoteFromRing DEF Promote, TypeOK
  <1>3. Ring(cur, prev) \subseteq Key
    BY DEF Ring, TypeOK
  <1>4. timers' \in Seq(SUBSET Nat)
    BY FireTimerType DEF Promote, TypeOK
  <1>5. TypeOK'
    BY <1>1, <1>2, <1>3, <1>4 DEF TypeOK
  <1> QED BY <1>1, <1>2, <1>5

\* The key ring of RoomAudio is well typed and bounded, and the counter of the
\* coordinator is never behind a key it holds.
THEOREM RingInvariant == Spec => []RingInv
  <1>1. RingInv /\ [Next]_ringVars => RingInv'
    <2> SUFFICES ASSUME RingInv, [Next]_ringVars PROVE RingInv'
      OBVIOUS
    <2>1. ASSUME NEW g \in Gen, NEW a \in Node, Adopt([gen |-> g, auth |-> a])
          PROVE  RingInv'
      <3>1. [gen |-> g, auth |-> a] \in Key
        BY RingConstants DEF Key
      <3> QED BY <2>1, <3>1, AdoptKeepsRing
    <2>2. ASSUME NEW g \in Gen, Promote(g) PROVE RingInv'
      BY <2>2, PromoteKeepsRing
    <2>3. CASE UNCHANGED ringVars
      BY <2>3 DEF ringVars, RingInv, TypeOK, Ring
    <2> QED BY <2>1, <2>2, <2>3 DEF Next
  <1> QED BY InitRing, <1>1, PTL DEF Spec

\* Every variable of a node's key ring keeps its type.
THEOREM TypeCorrect == Spec => []TypeOK
  <1>1. RingInv => TypeOK
    BY DEF RingInv
  <1> QED BY <1>1, RingInvariant, PTL

\* rotate() ignores whether adopt() took the key it just minted; it may: a
\* key at room_gen + 1 is always taken.
THEOREM MintAlwaysTaken == Spec => []MintIsTaken
  <1>1. RingInv => MintIsTaken
    <2> SUFFICES ASSUME RingInv PROVE MintIsTaken
      OBVIOUS
    <2>1. cur # NoKey => cur \in Ring(cur, prev)
      BY DEF Ring
    <2>2. cur # NoKey => cur.gen \in Nat /\ cur.gen <= room_gen
      BY <2>1, KeyFacts DEF RingInv, TypeOK
    <2>3. \A a \in Node : Better([gen |-> room_gen + 1, auth |-> a], cur)
      BY <2>2 DEF Better, RingInv, TypeOK
    <2> QED BY <2>3 DEF MintIsTaken, RingInv
  <1> QED BY <1>1, RingInvariant, PTL

-----------------------------------------------------------------------------
(***************************************************************************)
(* The grace period.                                                       *)
(***************************************************************************)
\* With one timer per tick, the last outstanding promotion is that of the
\* newest key, and a node that holds a key seals with one.
GraceInv ==
  /\ send = NoKey => cur = NoKey /\ timers = <<>>
  /\ timers = <<>> => send = cur
  /\ \A i \in 1..Len(timers) : \E g \in Nat : timers[i] = {g}
  /\ timers # <<>> => cur # NoKey /\ timers[Len(timers)] = {cur.gen}

LEMMA InitGrace == Init => GraceInv
  BY DEF Init, GraceInv

LEMMA AdoptKeepsGrace ==
  ASSUME ~SameTick, RingInv, GraceInv, NEW k \in Key, Adopt(k)
  PROVE  GraceInv'
  <1>1. cur' = k /\ k # NoKey /\ k.gen \in Nat
    BY KeyFacts DEF Adopt
  <1>2. CASE send = NoKey
    <2>1. prev' \in Seq(Key)
      BY StageType DEF Adopt, RingInv, TypeOK
    <2>2. send' = k
      BY <1>1, <1>2, <2>1, PromoteFromRing DEF Adopt
    <2>3. timers' = <<>>
      BY <1>2 DEF Adopt, GraceInv
    <2> QED BY <1>1, <2>2, <2>3 DEF GraceInv
  <1>3. CASE send # NoKey
    <2>1. send' = send /\ timers' = Append(timers, {k.gen})
      BY <1>3 DEF Adopt, Schedule
    <2>2. timers \in Seq(SUBSET Nat) /\ {k.gen} \in SUBSET Nat
      BY <1>1 DEF RingInv, TypeOK
    <2>3. Len(timers') = Len(timers) + 1 /\ timers'[Len(timers')] = {k.gen}
      BY <2>1, <2>2
    <2>4. timers' # <<>>
      BY <2>2, <2>3
    <2>5. \A i \in 1..Len(timers) : timers'[i] = timers[i]
      BY <2>1, <2>2
    <2>6. \A i \in 1..Len(timers') : \E g \in Nat : timers'[i] = {g}
      BY <1>1, <2>2, <2>3, <2>5 DEF GraceInv
    <2> QED BY <1>1, <1>3, <2>1, <2>3, <2>4, <2>6 DEF GraceInv
  <1> QED BY <1>2, <1>3

LEMMA PromoteKeepsGrace ==
  ASSUME RingInv, GraceInv, NEW g, Promote(g)
  PROVE  GraceInv'
  <1>1. cur' = cur /\ timers # <<>> /\ timers \in Seq(SUBSET Nat)
    BY DEF Promote, RingInv, TypeOK
  <1>2. Len(timers) \in Nat \ {0} /\ Head(timers) = timers[1]
    BY <1>1
  <1>3. Head(timers) = {g}
    BY <1>2 DEF Promote, GraceInv
  <1>4. timers' = Tail(timers)
    BY <1>3 DEF Promote, FireTimer
  <1>5. Len(timers') = Len(timers) - 1 /\ \A i \in 1..Len(timers') : timers'[i] = timers[i + 1]
    BY <1>1, <1>4
  <1>6. \A i \in 1..Len(timers') : \E x \in Nat : timers'[i] = {x}
    BY <1>2, <1>5 DEF GraceInv
  <1>7. send # NoKey /\ cur # NoKey /\ timers[Len(timers)] = {cur.gen}
    BY <1>1 DEF GraceInv
  <1>8. send' # NoKey
    BY <1>7, PromoteFromRing DEF Promote, RingInv, TypeOK, Ring
  <1>9. CASE Len(timers) = 1
    <2>1. timers' = <<>>
      BY <1>1, <1>4, <1>9
    <2>2. cur.gen = g
      BY <1>2, <1>3, <1>7, <1>9
    <2>3. send' = cur
      BY <1>7, <2>2, PromoteFromRing DEF Promote, RingInv, TypeOK
    <2> QED BY <1>1, <1>7, <2>1, <2>3 DEF GraceInv
  <1>10. CASE Len(timers) # 1
    <2>1. timers' # <<>> /\ timers'[Len(timers')] = {cur.gen}
      BY <1>2, <1>5, <1>7, <1>10
    <2> QED BY <1>1, <1>6, <1>7, <1>8, <2>1 DEF GraceInv
  <1> QED BY <1>9, <1>10

LEMMA NextKeepsGrace ==
  ASSUME ~SameTick
  PROVE  RingInv /\ GraceInv /\ [Next]_ringVars => GraceInv'
  <1> SUFFICES ASSUME RingInv, GraceInv, [Next]_ringVars PROVE GraceInv'
    OBVIOUS
  <1>1. ASSUME NEW g \in Gen, NEW a \in Node, Adopt([gen |-> g, auth |-> a])
        PROVE  GraceInv'
    <2>1. [gen |-> g, auth |-> a] \in Key
      BY RingConstants DEF Key
    <2> QED BY <1>1, <2>1, AdoptKeepsGrace
  <1>2. ASSUME NEW g \in Gen, Promote(g) PROVE GraceInv'
    BY <1>2, PromoteKeepsGrace
  <1>3. CASE UNCHANGED ringVars
    BY <1>3 DEF ringVars, GraceInv
  <1> QED BY <1>1, <1>2, <1>3 DEF Next

\* If every grace timer gets a tick of its own, the sealing key lags the
\* newest key only while a promotion is outstanding (adopt, promote).
THEOREM GraceOnly ==
  ASSUME ~SameTick
  PROVE  Spec => []LagsOnlyByGrace
  <1>1. GraceInv => LagsOnlyByGrace
    BY DEF GraceInv, LagsOnlyByGrace
  <1> QED BY InitGrace, NextKeepsGrace, <1>1, RingInvariant, PTL DEF Spec

-----------------------------------------------------------------------------
(***************************************************************************)
(* A burst of rekeys.                                                      *)
(***************************************************************************)
\* The j-th newest key of a ring, the staged one first.
Slot(c, p, j) == IF j = 0 THEN c ELSE p[j]

\* The keys whose promotion is outstanding are the newest ones, in order; the
\* ring holds as many as it has slots for, and a key sealed with is no older
\* than the one staged before the first of them.
BurstInv ==
  LET n == Len(timers) IN
  /\ n <= Len(prev) \/ Len(prev) = ROOM_KEY_PREV_SLOTS
  /\ \A j \in 0..(n - 1) : j <= Len(prev) => timers[n - j] = {Slot(cur, prev, j).gen}
  /\ n <= ROOM_KEY_PREV_SLOTS /\ send # NoKey =>
       \E j \in 0..n : j <= Len(prev) /\ send = Slot(cur, prev, j)

LEMMA InitBurst == Init => BurstInv
  BY RoomAudioConstants DEF Init, BurstInv

\* promote() takes the newest key of the generation.
LEMMA PromoteNewest ==
  ASSUME NEW s, NEW c \in Key, NEW p \in Seq(Key), NEW m \in 0..Len(p)
  PROVE  \E j \in 0..m : SendAfterPromote(s, c, p, Slot(c, p, m).gen) = Slot(c, p, j)
  <1> DEFINE g == Slot(c, p, m).gen
             hits == {i \in 1..Len(p) : p[i].gen = g}
             first == CHOOSE i \in hits : \A j \in hits : i <= j
  <1>1. CASE c.gen = g
    BY <1>1, KeyFacts DEF SendAfterPromote, Slot
  <1>2. CASE c.gen # g
    <2>1. m # 0 /\ m \in hits
      BY <1>2 DEF Slot
    <2>2. first \in hits /\ first <= m
      <3>1. hits \subseteq Nat
        OBVIOUS
      <3> HIDE DEF hits
      <3>2. \E i \in hits : \A j \in hits : i <= j
        BY <2>1, <3>1, LeastElement
      <3> QED BY <2>1, <3>2
    <2>3. SendAfterPromote(s, c, p, g) = p[first]
      BY <1>2, <2>1 DEF SendAfterPromote
    <2>4. first \in 1..m
      BY <2>2
    <2> HIDE DEF first, g
    <2>5. p[first] = Slot(c, p, first) /\ first \in 0..m
      BY <2>4 DEF Slot
    <2> QED BY <2>3, <2>5 DEF g
  <1> QED BY <1>1, <1>2

\* stage() moves every key one slot on, as far as there are slots.
LEMMA StageShifts ==
  ASSUME NEW k \in Key, NEW c \in Key, NEW p \in Seq(Key), Len(p) <= ROOM_KEY_PREV_SLOTS
  PROVE  LET q == PrevAfterStage(c, p) IN
         /\ q \in Seq(Key)
         /\ Len(q) = IF Len(p) < ROOM_KEY_PREV_SLOTS THEN Len(p) + 1 ELSE ROOM_KEY_PREV_SLOTS
         /\ \A j \in 0..Len(p) : j + 1 <= Len(q) => Slot(k, q, j + 1) = Slot(c, p, j)
  <1> DEFINE q == PrevAfterStage(c, p)
             r == <<c>> \o p
             M == ROOM_KEY_PREV_SLOTS
  <1>1. M \in Nat /\ Len(p) <= M /\ c # NoKey
    BY RoomAudioConstants, KeyFacts
  <1>2. /\ r \in Seq(Key) /\ Len(r) = Len(p) + 1
        /\ r[1] = c /\ \A j \in 1..Len(p) : r[j + 1] = p[j]
    OBVIOUS
  <1>3. q = Truncate(r, M)
    BY <1>1 DEF PrevAfterStage
  <1> HIDE DEF q, r, M
  <1>4. /\ q \in Seq(Key) /\ \A i \in 1..Len(q) : q[i] = r[i]
        /\ Len(q) = IF Len(p) < M THEN Len(p) + 1 ELSE M
    <2>1. q \in Seq(Key) /\ \A i \in 1..Len(q) : q[i] = r[i]
      BY <1>1, <1>2, <1>3, TruncateType
    <2>2. CASE Len(r) <= M
      <3>1. q = r
        BY <1>3, <2>2 DEF Truncate
      <3> QED BY <1>1, <1>2, <2>1, <2>2, <3>1
    <2>3. CASE Len(r) > M
      <3>1. q = SubSeq(r, 1, M)
        BY <1>1, <1>2, <1>3, <2>3 DEF Truncate
      <3>2. Len(q) = M
        BY <1>1, <1>2, <2>3, <3>1
      <3> QED BY <1>1, <1>2, <2>1, <2>3, <3>2
    <2> QED BY <1>1, <1>2, <2>2, <2>3
  <1>5. \A j \in 0..Len(p) : j + 1 <= Len(q) => Slot(k, q, j + 1) = Slot(c, p, j)
    <2> SUFFICES ASSUME NEW j \in 0..Len(p), j + 1 <= Len(q)
                 PROVE  q[j + 1] = Slot(c, p, j)
      BY DEF Slot
    <2>1. q[j + 1] = r[j + 1]
      BY <1>4
    <2>2. r[j + 1] = Slot(c, p, j)
      BY <1>2 DEF Slot
    <2> QED BY <2>1, <2>2
  <1> QED BY <1>4, <1>5 DEF q, M

LEMMA AdoptKeepsBurst ==
  ASSUME ~SameTick, RingInv, GraceInv, BurstInv, NEW k \in Key, Adopt(k)
  PROVE  BurstInv'
  <1> DEFINE n == Len(timers)
             M == ROOM_KEY_PREV_SLOTS
  <1>1. cur' = k /\ prev' = PrevAfterStage(cur, prev) /\ k.gen \in Nat /\ k # NoKey
    BY KeyFacts DEF Adopt
  <1>2. /\ prev \in Seq(Key) /\ Len(prev) <= M /\ M \in Nat /\ timers \in Seq(SUBSET Nat)
        /\ cur \in Key \cup {NoKey}
    BY RoomAudioConstants DEF RingInv, TypeOK
  <1>3. CASE send = NoKey
    <2>1. timers' = <<>> /\ cur = NoKey
      BY <1>3 DEF Adopt, GraceInv
    <2>2. prev' = prev
      BY <1>1, <2>1 DEF PrevAfterStage
    <2>3. send' = k
      BY <1>1, <1>2, <1>3, <2>2, PromoteFromRing DEF Adopt
    <2> QED BY <1>1, <1>2, <2>1, <2>2, <2>3 DEF BurstInv, Slot
  <1>4. CASE send # NoKey
    <2>1. send' = send /\ timers' = Append(timers, {k.gen})
      BY <1>4 DEF Adopt, Schedule
    <2>2. /\ n \in Nat /\ Len(timers') = n + 1 /\ timers'[n + 1] = {k.gen}
          /\ \A i \in 1..n : timers'[i] = timers[i]
      BY <1>1, <1>2, <2>1
    <2>3. cur \in Key
      <3>1. n # 0 => cur # NoKey
        BY <1>2 DEF GraceInv
      <3>2. n = 0 => send = cur
        BY <1>2 DEF GraceInv
      <3> QED BY <1>2, <1>4, <3>1, <3>2
    <2>4. /\ prev' \in Seq(Key)
          /\ Len(prev') = IF Len(prev) < M THEN Len(prev) + 1 ELSE M
          /\ \A j \in 0..Len(prev) : j + 1 <= Len(prev') => Slot(k, prev', j + 1) = Slot(cur, prev, j)
      BY <1>1, <1>2, <2>3, StageShifts
    <2> HIDE DEF n, M
    <2>5. n + 1 <= Len(prev') \/ Len(prev') = M
      BY <1>2, <2>2, <2>4 DEF BurstInv, n, M
    <2>6. ASSUME NEW j \in 0..n, j <= Len(prev')
          PROVE  timers'[n + 1 - j] = {Slot(k, prev', j).gen}
      <3>1. CASE j = 0
        BY <2>2, <3>1 DEF Slot
      <3>2. CASE j # 0
        <4>1. /\ j - 1 \in 0..(n - 1) /\ j - 1 \in 0..Len(prev) /\ n + 1 - j \in 1..n
              /\ n + 1 - j = n - (j - 1) /\ (j - 1) + 1 = j
          BY <1>2, <2>2, <2>4, <2>6, <3>2
        <4>2. timers[n - (j - 1)] = {Slot(cur, prev, j - 1).gen}
          BY <4>1 DEF BurstInv, n
        <4>3. Slot(k, prev', j) = Slot(cur, prev, j - 1)
          BY <2>4, <2>6, <4>1
        <4> QED BY <2>2, <4>1, <4>2, <4>3
      <3> QED BY <3>1, <3>2
    <2>7. ASSUME n + 1 <= M
          PROVE  \E j \in 0..(n + 1) : j <= Len(prev') /\ send' = Slot(k, prev', j)
      <3>1. PICK j \in 0..n : j <= Len(prev) /\ send = Slot(cur, prev, j)
        BY <1>2, <1>4, <2>2, <2>7 DEF BurstInv, n, M
      <3>2. j \in 0..Len(prev) /\ j + 1 <= Len(prev') /\ j + 1 \in 0..(n + 1)
        BY <1>2, <2>2, <2>4, <2>7, <3>1
      <3>3. send' = Slot(k, prev', j + 1)
        BY <2>1, <2>4, <3>1, <3>2
      <3> QED BY <3>2, <3>3
    <2>8. (n + 1) - 1 = n
      BY <2>2
    <2> QED BY <1>1, <2>2, <2>5, <2>6, <2>7, <2>8 DEF BurstInv, M
  <1> QED BY <1>3, <1>4

LEMMA PromoteKeepsBurst ==
  ASSUME RingInv, GraceInv, BurstInv, NEW g, Promote(g)
  PROVE  BurstInv'
  <1> DEFINE n == Len(timers)
             M == ROOM_KEY_PREV_SLOTS
  <1>1. /\ cur' = cur /\ prev' = prev /\ timers # <<>> /\ timers \in Seq(SUBSET Nat)
        /\ prev \in Seq(Key) /\ Len(prev) <= M /\ M \in Nat
        /\ send' = SendAfterPromote(send, cur, prev, g)
    BY RoomAudioConstants DEF Promote, RingInv, TypeOK
  <1>2. n \in Nat \ {0} /\ timers[1] = {g}
    BY <1>1 DEF Promote, GraceInv
  <1>3. timers' = Tail(timers)
    BY <1>1, <1>2 DEF Promote, FireTimer
  <1>4. Len(timers') = n - 1 /\ \A i \in 1..(n - 1) : timers'[i] = timers[i + 1]
    BY <1>1, <1>3
  <1>5. cur \in Key
    BY <1>1 DEF GraceInv, RingInv, TypeOK
  <1> HIDE DEF n, M
  <1>6. n - 1 <= Len(prev) \/ Len(prev) = M
    BY <1>1, <1>2 DEF BurstInv, n, M
  <1>7. ASSUME NEW j \in 0..((n - 1) - 1), j <= Len(prev)
        PROVE  timers'[(n - 1) - j] = {Slot(cur, prev, j).gen}
    <2>1. j \in 0..(n - 1) /\ (n - 1) - j \in 1..(n - 1) /\ ((n - 1) - j) + 1 = n - j
      BY <1>2
    <2>2. timers[n - j] = {Slot(cur, prev, j).gen}
      BY <1>7, <2>1 DEF BurstInv, n
    <2> QED BY <1>4, <2>1, <2>2
  <1>8. ASSUME n - 1 <= M
        PROVE  \E j \in 0..(n - 1) : j <= Len(prev) /\ send' = Slot(cur, prev, j)
    <2>1. n - 1 \in 0..(n - 1) /\ n - 1 \in 0..Len(prev) /\ n - (n - 1) = 1
      BY <1>1, <1>2, <1>6, <1>8
    <2>2. g = Slot(cur, prev, n - 1).gen
      BY <1>2, <2>1 DEF BurstInv, n
    <2>3. \E j \in 0..(n - 1) : send' = Slot(cur, prev, j)
      BY <1>1, <1>5, <2>1, <2>2, PromoteNewest
    <2> QED BY <1>1, <1>2, <2>1, <2>3
  <1> QED BY <1>1, <1>4, <1>6, <1>7, <1>8 DEF BurstInv, M

\* However many keys are rotated in, a node can open what its like seals while no
\* more promotions are outstanding than the ring has slots: the number of slots
\* (ROOM_KEY_PREV_SLOTS) is the length of a burst that loses no frame.
THEOREM BurstSurvived ==
  ASSUME ~SameTick
  PROVE  Spec => []BurstStaysOpenable
  <1>1. RingInv /\ GraceInv /\ BurstInv /\ [Next]_ringVars => BurstInv'
    <2> SUFFICES ASSUME RingInv, GraceInv, BurstInv, [Next]_ringVars PROVE BurstInv'
      OBVIOUS
    <2>1. ASSUME NEW g \in Gen, NEW a \in Node, Adopt([gen |-> g, auth |-> a])
          PROVE  BurstInv'
      <3>1. [gen |-> g, auth |-> a] \in Key
        BY RingConstants DEF Key
      <3> QED BY <2>1, <3>1, AdoptKeepsBurst
    <2>2. CASE UNCHANGED ringVars
      BY <2>2 DEF ringVars, BurstInv
    <2> QED BY <2>1, <2>2, PromoteKeepsBurst DEF Next
  <1>2. RingInv /\ GraceInv /\ BurstInv => BurstStaysOpenable
    <2> SUFFICES ASSUME RingInv, GraceInv, BurstInv, Len(timers) <= ROOM_KEY_PREV_SLOTS
                 PROVE  LET frame == SealOutbound(send, cur)
                        IN  frame.kind # "drop" /\ OpenInbound(cur, prev, frame)
      BY DEF BurstStaysOpenable
    <2>1. CASE send = NoKey
      BY <2>1 DEF GraceInv, SealOutbound, OpenInbound
    <2>2. CASE send # NoKey
      <3>1. PICK j \in 0..Len(timers) : j <= Len(prev) /\ send = Slot(cur, prev, j)
        BY <2>2 DEF BurstInv
      <3>2. send \in Ring(cur, prev)
        BY <2>2, <3>1 DEF Slot, Ring
      <3> QED BY <2>2, <3>2 DEF SealOutbound, OpenInbound
    <2> QED BY <2>1, <2>2
  <1> QED BY InitGrace, InitBurst, NextKeepsGrace, <1>1, <1>2, RingInvariant, PTL DEF Spec

-----------------------------------------------------------------------------
(***************************************************************************)
(* The pairwise session.                                                   *)
(***************************************************************************)
LEMMA InitInv == PairInit => SessionInv
  BY SessionConstants DEF PairInit, SessionInv, PairTypeOK, WindowExact, Ctr

LEMMA SealKeepsInv == SessionInv /\ SealFrame => SessionInv'
  BY SessionConstants DEF SessionInv, PairTypeOK, WindowExact, Ctr, SealFrame

\* The heart of the matter: replay_mark shifts the bitmap exactly as far as
\* recv_max moves, and marks the opened number.
LEMMA OpenKeepsWindow ==
  ASSUME SessionInv, NEW c \in Ctr, OpenFrame(c)
  PROVE  WindowExact'
  <1>1. CASE c > recv_max
    <2>1. recv_max' = c /\ opened' = opened \cup {c}
      BY <1>1 DEF OpenFrame, ReplayMark
    <2>2. recv_window' = {d \in 0..WINDOW - 1 : d - (c - recv_max) \in recv_window} \cup {0}
      BY <1>1 DEF OpenFrame, ReplayMark, Shifted
    <2>3. \A x \in opened' : x <= recv_max'
      BY <1>1, <2>1 DEF SessionInv, PairTypeOK, WindowExact, Ctr
    <2>4. ASSUME NEW d \in 0..WINDOW - 1
          PROVE  d \in recv_window' <=> recv_max' - d \in opened'
      <3>1. CASE d = 0
        BY <2>1, <2>2, <3>1 DEF SessionInv, PairTypeOK, Ctr
      <3>2. CASE d # 0
        <4>1. d \in recv_window' <=> d - (c - recv_max) \in recv_window
          BY <2>2, <3>2
        <4>2. recv_max' - d \in opened' <=> c - d \in opened
          BY <2>1, <3>2, SessionConstants DEF Ctr
        <4>3. CASE d >= c - recv_max
          <5>1. d - (c - recv_max) \in 0..WINDOW - 1
            BY <1>1, <4>3, SessionConstants DEF SessionInv, PairTypeOK, Ctr
          <5>2. recv_max - (d - (c - recv_max)) = c - d
            BY SessionConstants DEF SessionInv, PairTypeOK, Ctr
          <5> QED BY <4>1, <4>2, <5>1, <5>2 DEF SessionInv, WindowExact
        <4>4. CASE d < c - recv_max
          BY <4>1, <4>2, <4>4, SessionConstants DEF SessionInv, PairTypeOK, WindowExact, Ctr
        <4> QED BY <4>3, <4>4, SessionConstants DEF SessionInv, PairTypeOK, Ctr
      <3> QED BY <3>1, <3>2
    <2> QED BY <2>3, <2>4 DEF WindowExact
  <1>2. CASE ~(c > recv_max)
    <2>1. recv_max' = recv_max /\ opened' = opened \cup {c}
      BY <1>2 DEF OpenFrame, ReplayMark
    <2>2. recv_max - c \in 0..WINDOW - 1
      BY <1>2, SessionConstants DEF OpenFrame, ReplayOk, SessionInv, PairTypeOK, Ctr
    <2>3. recv_window' = recv_window \cup {recv_max - c}
      BY <1>2, <2>2 DEF OpenFrame, ReplayMark
    <2> QED
      BY <1>2, <2>1, <2>2, <2>3, SessionConstants DEF SessionInv, PairTypeOK, WindowExact, Ctr
  <1> QED BY <1>1, <1>2

LEMMA OpenKeepsInv == ASSUME SessionInv, NEW c \in Ctr, OpenFrame(c) PROVE SessionInv'
  <1>1. PairTypeOK'
    <2>1. recv_window' \subseteq 0..WINDOW - 1
      <3>1. CASE c > recv_max
        <4>1. recv_window' = Shifted(c - recv_max) \cup {0}
          BY <3>1 DEF OpenFrame, ReplayMark
        <4>2. Shifted(c - recv_max) \subseteq 0..WINDOW - 1 /\ 0 \in 0..WINDOW - 1
          BY SessionConstants DEF Shifted
        <4> QED BY <4>1, <4>2
      <3>2. CASE ~(c > recv_max)
        BY <3>2 DEF SessionInv, PairTypeOK, OpenFrame, ReplayMark
      <3> QED BY <3>1, <3>2
    <2>2. recv_max' \in Ctr
      BY DEF SessionInv, PairTypeOK, OpenFrame, ReplayMark
    <2>3. opened' \in SUBSET sealed'
      BY DEF SessionInv, PairTypeOK, OpenFrame
    <2> QED BY <2>1, <2>2, <2>3 DEF SessionInv, PairTypeOK, OpenFrame
  <1>2. WindowExact'
    BY OpenKeepsWindow
  <1>3. \A x \in sealed' : x < send_ctr'
    BY DEF SessionInv, OpenFrame
  <1> QED BY <1>1, <1>2, <1>3 DEF SessionInv

\* Session::open and seal keep the bitmap exact, whatever is lost, repeated,
\* reordered or altered on the way, for any window size.
THEOREM SessionInvariant == PairSpec => []SessionInv
  <1>1. SessionInv /\ [PairNext]_pairVars => SessionInv'
    <2> SUFFICES ASSUME SessionInv, [PairNext]_pairVars PROVE SessionInv'
      OBVIOUS
    <2>1. CASE SealFrame
      BY <2>1, SealKeepsInv
    <2>2. ASSUME NEW c \in Ctr, OpenFrame(c) PROVE SessionInv'
      BY <2>2, OpenKeepsInv
    <2>3. CASE UNCHANGED pairVars
      BY <2>3 DEF pairVars, SessionInv, PairTypeOK, WindowExact
    <2> QED BY <2>1, <2>2, <2>3 DEF PairNext, OpenAltered
  <1> QED BY InitInv, <1>1, PTL DEF PairSpec

\* A late frame is refused only when it is older than the window or was
\* opened before (replay_ok).
THEOREM LateFrames == PairSpec => []LateFrameAccepted
  <1>1. SessionInv => LateFrameAccepted
    BY SessionConstants DEF SessionInv, PairTypeOK, WindowExact, LateFrameAccepted, ReplayOk, Ctr
  <1> QED BY <1>1, SessionInvariant, PTL

\* The session implements at-most-once delivery: no counter seals two frames,
\* no frame is handed up twice, and none that the peer did not seal.
THEOREM AtMostOnceDelivery == PairSpec => DeliversAtMostOnce
  <1>1. PairInit => A!Init
    BY DEF PairInit, A!Init
  <1>2. SessionInv /\ [PairNext]_pairVars => [A!Next]_<<sealed, opened, handed>>
    <2> SUFFICES ASSUME SessionInv, [PairNext]_pairVars PROVE [A!Next]_<<sealed, opened, handed>>
      OBVIOUS
    <2>1. CASE SealFrame
      <3>1. send_ctr \in Ctr /\ send_ctr \notin sealed
        BY DEF SessionInv, PairTypeOK, Ctr
      <3> QED BY <2>1, <3>1 DEF SealFrame, A!Next, A!SealFresh
    <2>2. ASSUME NEW c \in Ctr, OpenFrame(c) PROVE [A!Next]_<<sealed, opened, handed>>
      <3>1. c \in sealed \ opened
        BY <2>2, SessionConstants DEF OpenFrame, ReplayOk, SessionInv, PairTypeOK, WindowExact, Ctr
      <3> QED BY <2>2, <3>1 DEF OpenFrame, A!Next, A!OpenOnce
    <2>3. CASE UNCHANGED pairVars
      BY <2>3 DEF pairVars
    <2> QED BY <2>1, <2>2, <2>3 DEF PairNext, OpenAltered
  <1> QED BY <1>1, <1>2, SessionInvariant, PTL DEF PairSpec, DeliversAtMostOnce, A!Spec
=============================================================================

-------------------------- MODULE RoomAudio_proofs --------------------------
(***************************************************************************)
(* What the operators of RoomAudio return, for the proofs about one key     *)
(* ring (KeyChannels_proofs) and about the rings of a room                  *)
(* (GroupKey_proofs).                                                      *)
(***************************************************************************)
EXTENDS RoomAudio, WellFoundedInduction, TLAPS

LEMMA KeyFacts ==
  /\ NoKey \notin Key
  /\ \A k \in Key : k.gen \in Nat \ {0} /\ k.auth \in Node /\ k # NoKey
  /\ NoKey.gen = 0
  BY DEF Key, NoKey

\* A non-empty set of naturals has a least element.
LEMMA LeastElement ==
  ASSUME NEW T, T \subseteq Nat, T # {}
  PROVE  \E i \in T : \A j \in T : i <= j
  <1> DEFINE R == OpToRel(<, Nat)
  <1>1. IsWellFoundedOn(R, Nat)
    BY NatLessThanWellFounded
  <1>2. \A x, y \in Nat : y < x => <<y, x>> \in R
    BY DEF OpToRel
  <1> HIDE DEF R
  <1>3. PICK x \in T : \A y \in T : ~(<<y, x>> \in R)
    BY <1>1, WFMin
  <1>4. ASSUME NEW y \in T PROVE x <= y
    <2>1. x \in Nat /\ y \in Nat
      OBVIOUS
    <2>2. ~(y < x)
      BY <1>2, <1>3, <2>1
    <2> QED BY <2>1, <2>2
  <1> QED BY <1>4

LEMMA TruncateType ==
  ASSUME NEW s \in Seq(Key), NEW n \in Nat
  PROVE  /\ Truncate(s, n) \in Seq(Key)
         /\ Len(Truncate(s, n)) <= n
         /\ Len(Truncate(s, n)) <= Len(s)
         /\ \A i \in 1..Len(Truncate(s, n)) : Truncate(s, n)[i] = s[i]
  <1>1. CASE Len(s) <= n
    BY <1>1 DEF Truncate
  <1>2. CASE Len(s) > n
    <2>1. Truncate(s, n) = SubSeq(s, 1, n)
      BY <1>2 DEF Truncate
    <2> QED BY <1>2, <2>1
  <1> QED BY <1>1, <1>2

\* The ring after staging: only the staged key and former ones, bounded.
LEMMA StageType ==
  ASSUME NEW c \in Key \cup {NoKey}, NEW p \in Seq(Key),
         Len(p) <= ROOM_KEY_PREV_SLOTS
  PROVE  /\ PrevAfterStage(c, p) \in Seq(Key)
         /\ Len(PrevAfterStage(c, p)) <= ROOM_KEY_PREV_SLOTS
         /\ \A i \in 1..Len(PrevAfterStage(c, p)) :
              PrevAfterStage(c, p)[i] \in Ring(c, p)
  <1>1. CASE c = NoKey
    <2>1. PrevAfterStage(c, p) = p
      BY <1>1 DEF PrevAfterStage
    <2>2. \A i \in 1..Len(p) : p[i] \in Ring(c, p)
      BY KeyFacts DEF Ring
    <2> QED BY <2>1, <2>2
  <1>2. CASE c # NoKey
    <2> DEFINE q == <<c>> \o p
    <2>1. q \in Seq(Key) /\ Len(q) = Len(p) + 1
      BY <1>2
    <2>2. \A i \in 1..Len(q) : q[i] = c \/ \E j \in 1..Len(p) : q[i] = p[j]
      BY <1>2
    <2>3. \A i \in 1..Len(q) : q[i] \in Ring(c, p)
      BY <1>2, <2>2, KeyFacts DEF Ring
    <2>4. PrevAfterStage(c, p) = Truncate(q, ROOM_KEY_PREV_SLOTS)
      BY <1>2 DEF PrevAfterStage
    <2> HIDE DEF q
    <2> QED BY <2>1, <2>3, <2>4, TruncateType, RoomAudioConstants
  <1> QED BY <1>1, <1>2

\* promote() picks the send key from the ring or leaves it.
LEMMA PromoteFromRing ==
  ASSUME NEW s, NEW c \in Key \cup {NoKey}, NEW p \in Seq(Key), NEW g
  PROVE  /\ SendAfterPromote(s, c, p, g) \in Ring(c, p) \cup {s}
         /\ c # NoKey /\ c.gen = g => SendAfterPromote(s, c, p, g) = c
  <1> DEFINE hits == {i \in 1..Len(p) : p[i].gen = g}
             first == CHOOSE i \in hits : \A j \in hits : i <= j
  <1>1. CASE c # NoKey /\ c.gen = g
    BY <1>1 DEF SendAfterPromote, Ring
  <1>2. CASE ~(c # NoKey /\ c.gen = g) /\ hits = {}
    BY <1>2 DEF SendAfterPromote
  <1>3. CASE ~(c # NoKey /\ c.gen = g) /\ hits # {}
    <2>1. SendAfterPromote(s, c, p, g) = p[first]
      BY <1>3 DEF SendAfterPromote
    <2>2. \E i \in hits : \A j \in hits : i <= j
      <3>1. hits \subseteq Nat
        OBVIOUS
      <3> HIDE DEF hits
      <3> QED BY <1>3, <3>1, LeastElement
    <2>3. first \in hits
      BY <2>2
    <2> HIDE DEF first
    <2>4. p[first] \in Key
      BY <2>3
    <2> QED BY <1>3, <2>1, <2>3, <2>4, KeyFacts DEF Ring
  <1> QED BY <1>1, <1>2, <1>3

\* The queue of grace timers stays a queue of sets of generations.
LEMMA ScheduleType ==
  ASSUME NEW D, NEW ts \in Seq(SUBSET D), NEW g \in D, NEW same \in BOOLEAN,
         same => ts # <<>>
  PROVE  Schedule(ts, g, same) \in Seq(SUBSET D)
  <1>1. CASE same
    <2>1. Len(ts) \in 1..Len(ts) /\ ts[Len(ts)] \in SUBSET D
      BY <1>1
    <2>2. Schedule(ts, g, same) = [ts EXCEPT ![Len(ts)] = ts[Len(ts)] \cup {g}]
      BY <1>1 DEF Schedule
    <2> QED BY <2>1, <2>2
  <1>2. CASE ~same
    BY <1>2 DEF Schedule
  <1> QED BY <1>1, <1>2

LEMMA FireTimerType ==
  ASSUME NEW D, NEW ts \in Seq(SUBSET D), ts # <<>>, NEW g
  PROVE  FireTimer(ts, g) \in Seq(SUBSET D)
  BY DEF FireTimer
=============================================================================

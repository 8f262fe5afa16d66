------------------------------ MODULE KeyRing ------------------------------
(***************************************************************************)
(* The group-audio keys of one node (crypto.rs RoomAudio, and adopt of      *)
(* RoomKeyCoordinator): the newest staged key, a short ring of superseded   *)
(* ones that still open frames, the key outbound audio is sealed with, and  *)
(* the grace timers that move the sealing key forward.                      *)
(*                                                                         *)
(* Keys offered to the ring come from anywhere: this specification is what  *)
(* a node promises whatever the other nodes send it.                        *)
(***************************************************************************)
EXTENDS RoomAudio

CONSTANTS
    SameTick,   \* two grace timers can expire in one timer tick
    Gen         \* generations that are offered; a bound for TLC only

ASSUME RingConstants ==
    /\ SameTick \in BOOLEAN
    /\ Gen \subseteq Nat \ {0}

VARIABLES
    send,      \* key outbound audio is sealed with
    cur,       \* newest staged key
    prev,      \* superseded keys, newest first
    room_gen,  \* highest generation minted or adopted
    timers     \* generations awaiting promotion, one set per timer tick

ringVars == <<send, cur, prev, room_gen, timers>>

-----------------------------------------------------------------------------
Init ==
    /\ send = NoKey
    /\ cur = NoKey
    /\ prev = <<>>
    /\ room_gen = 0
    /\ timers = <<>>

\* adopt(k), accepted: stage it, raise room_gen, and promote at once when
\* nothing is being sealed yet, else after the grace.
Adopt(k) ==
    /\ Better(k, cur)
    /\ cur' = k
    /\ prev' = PrevAfterStage(cur, prev)
    /\ room_gen' = MaxOf(room_gen, k.gen)
    /\ IF send = NoKey
       THEN /\ send' = SendAfterPromote(send, k, prev', k.gen)
            /\ UNCHANGED timers
       ELSE /\ UNCHANGED send
            /\ \E same \in BOOLEAN :
                 /\ same => SameTick /\ timers # <<>>
                 /\ timers' = Schedule(timers, k.gen, same)

\* A grace period has elapsed: promote that generation.
Promote(g) ==
    /\ timers # <<>>
    /\ g \in Head(timers)
    /\ send' = SendAfterPromote(send, cur, prev, g)
    /\ timers' = FireTimer(timers, g)
    /\ UNCHANGED <<cur, prev, room_gen>>

Next ==
    \/ \E g \in Gen, a \in Node : Adopt([gen |-> g, auth |-> a])
    \/ \E g \in Gen : Promote(g)

Spec == Init /\ [][Next]_ringVars

-----------------------------------------------------------------------------
(***************************************************************************)
(* Properties.                                                             *)
(***************************************************************************)
\* Every part of RoomAudio and of the coordinator's counter has its type, and
\* prev never outgrows its slots.
TypeOK ==
    /\ send \in Key \cup {NoKey}
    /\ cur \in Key \cup {NoKey}
    /\ prev \in Seq(Key)
    /\ Len(prev) <= ROOM_KEY_PREV_SLOTS
    /\ room_gen \in Nat
    /\ timers \in Seq(SUBSET Nat)

\* A node that rotates mints at room_gen + 1 and never looks at whether its
\* own ring took the key: no staged, superseded or sealing key is ever above
\* room_gen, so the mint is always taken.
MintIsTaken ==
    /\ \A k \in Ring(cur, prev) \cup {send} : k.gen <= room_gen
    /\ \A a \in Node : Better([gen |-> room_gen + 1, auth |-> a], cur)

\* The sealing key lags the staged one by a grace period and no longer: with
\* no promotion outstanding the node seals with its newest key, and it never
\* holds keys without sealing with one.
LagsOnlyByGrace == timers = <<>> => send = cur

\* A rekey burst as long as the ring has slots loses no frame: while at most
\* that many promotions are outstanding, what a node seals can be opened by
\* every node whose ring looks like its own.
BurstStaysOpenable ==
    Len(timers) <= ROOM_KEY_PREV_SLOTS =>
        LET frame == SealOutbound(send, cur)
        IN  frame.kind # "drop" /\ OpenInbound(cur, prev, frame)
=============================================================================

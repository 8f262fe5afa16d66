----------------------------- MODULE RoomAudio -----------------------------
(***************************************************************************)
(* The rules of crypto.rs RoomAudio as operators on its three fields: s is  *)
(* the sealing key, c the newest staged key, p the superseded keys that     *)
(* still open frames, newest first.                                        *)
(*                                                                         *)
(* A key is the pair (generation, minting authority).  User ids are         *)
(* numbers, compared as the code compares the strings.  Generation 0 and    *)
(* user 0 do not exist: they stand for None.                                *)
(***************************************************************************)
EXTENDS Integers, Sequences

CONSTANTS
    Node,                 \* user ids
    ROOM_KEY_PREV_SLOTS   \* superseded keys that stay open-capable

ASSUME RoomAudioConstants ==
    /\ Node \subseteq Nat \ {0}
    /\ ROOM_KEY_PREV_SLOTS \in Nat

NoKey == [gen |-> 0, auth |-> 0]
Key   == [gen : Nat \ {0}, auth : Node]

\* Mutant: an adopted key does not raise the counter.
MaxOfFirst(a, b) == a

MaxOf(a, b) == IF a >= b THEN a ELSE b

\* Mutant: two keys of one generation are not told apart.
BetterByGenOnly(k, c) == c = NoKey \/ k.gen > c.gen

\* stage() takes k: nothing staged yet, a newer generation, or the same
\* generation from a smaller authority.
Better(k, c) ==
    \/ c = NoKey
    \/ k.gen > c.gen
    \/ k.gen = c.gen /\ k.auth < c.auth

\* Mutant: one slot too few.
TruncateOffByOne(s, n) == IF Len(s) < n THEN s ELSE SubSeq(s, 1, n - 1)

Truncate(s, n) == IF Len(s) <= n THEN s ELSE SubSeq(s, 1, n)

\* prev after a better key was staged over c.
PrevAfterStage(c, p) ==
    IF c = NoKey THEN p ELSE Truncate(<<c>> \o p, ROOM_KEY_PREV_SLOTS)

\* Keys that open inbound frames.
Ring(c, p) == ({c} \cup {p[i] : i \in 1..Len(p)}) \ {NoKey}

\* Mutant: cur is not searched.
SendAfterPromotePrevOnly(s, c, p, g) ==
    LET hits == {i \in 1..Len(p) : p[i].gen = g}
    IN  IF hits = {} THEN s ELSE p[CHOOSE i \in hits : \A j \in hits : i <= j]

\* The send key after promote(g): the first key of that generation in cur,
\* then prev; unchanged when none is left.
SendAfterPromote(s, c, p, g) ==
    LET hits == {i \in 1..Len(p) : p[i].gen = g}
    IN  IF c # NoKey /\ c.gen = g THEN c
        ELSE IF hits = {} THEN s
        ELSE p[CHOOSE i \in hits : \A j \in hits : i <= j]

\* What seal_outbound emits: a frame under the send key, nothing while a key
\* is staged but not yet promoted, plaintext only without any key.
SealOutbound(s, c) ==
    IF s # NoKey THEN [kind |-> "sealed", key |-> s]
    ELSE IF c # NoKey THEN [kind |-> "drop", key |-> NoKey]
    ELSE [kind |-> "raw", key |-> NoKey]

\* Whether open_inbound plays a frame.
OpenInbound(c, p, frame) ==
    \/ frame.kind = "raw" /\ c = NoKey
    \/ frame.kind = "sealed" /\ frame.key \in Ring(c, p)

\* timers after a promotion of g is scheduled: its own tick, or the tick of
\* the timer scheduled just before.
Schedule(ts, g, same) ==
    IF same THEN [ts EXCEPT ![Len(ts)] = @ \cup {g}] ELSE Append(ts, {g})

\* timers after the promotion of g fired.
FireTimer(ts, g) ==
    IF Head(ts) = {g} THEN Tail(ts) ELSE [ts EXCEPT ![1] = @ \ {g}]
=============================================================================

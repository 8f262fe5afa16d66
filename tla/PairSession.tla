---------------------------- MODULE PairSession ----------------------------
(***************************************************************************)
(* One direction of a pairwise session (crypto.rs Session): the sender      *)
(* numbers its frames, the receiver keeps the highest number it opened and  *)
(* a bitmap of the WINDOW numbers below it.  Between them frames may be     *)
(* lost, repeated, reordered or altered; an altered one fails to decrypt.   *)
(*                                                                         *)
(* recv_window is the set of positions of the bits that are 1; position d   *)
(* stands for number recv_max - d.  The counter is a u64: the model stops   *)
(* at MaxCtr, long before it would wrap.                                   *)
(***************************************************************************)
EXTENDS Integers

CONSTANTS
    WINDOW,    \* bits of the anti-replay bitmap (64)
    MaxCtr     \* bound: frames sealed in a session

ASSUME SessionConstants ==
    /\ WINDOW \in Nat \ {0}
    /\ MaxCtr \in Nat

VARIABLES
    send_ctr,      \* number of the next frame
    recv_max,      \* highest number opened
    recv_window,   \* bits set in the bitmap
    sealed,        \* frames on their way, numbers of
    opened,        \* history: numbers handed up
    handed         \* history: how many frames were handed up

pairVars == <<send_ctr, recv_max, recv_window, sealed, opened, handed>>

Ctr == 0..MaxCtr

PairInit ==
    /\ send_ctr = 0
    /\ recv_max = 0
    /\ recv_window = {}
    /\ sealed = {}
    /\ opened = {}
    /\ handed = 0

\* seal(): the frame takes the counter, the counter moves on.
SealFrame ==
    /\ send_ctr < MaxCtr
    /\ send_ctr' = send_ctr + 1
    /\ sealed' = sealed \cup {send_ctr}
    /\ UNCHANGED <<recv_max, recv_window, opened, handed>>

\* Mutant: a number just below the window passes.
ReplayOkOffByOne(c) ==
    \/ c > recv_max
    \/ recv_max - c <= WINDOW /\ recv_max - c \notin recv_window

\* replay_ok(c): above everything seen, or in the window and not yet marked.
ReplayOk(c) ==
    \/ c > recv_max
    \/ recv_max - c < WINDOW /\ recv_max - c \notin recv_window

\* recv_window << shift: bits shifted out are gone.
Shifted(shift) == {d \in 0..WINDOW - 1 : d - shift \in recv_window}

\* replay_mark(c).
ReplayMark(c) ==
    IF c > recv_max
    THEN /\ recv_window' = Shifted(c - recv_max) \cup {0}
         /\ recv_max' = c
    ELSE /\ recv_window' = recv_window \cup ({recv_max - c} \cap (0..WINDOW - 1))
         /\ UNCHANGED recv_max

\* open() of an intact frame.
OpenFrame(c) ==
    /\ c \in sealed
    /\ ReplayOk(c)
    /\ ReplayMark(c)
    /\ opened' = opened \cup {c}
    /\ handed' = handed + 1
    /\ UNCHANGED <<send_ctr, sealed>>

\* Mutant: the number is marked before the frame is decrypted.
OpenAlteredMarks(c) ==
    /\ ReplayOk(c)
    /\ ReplayMark(c)
    /\ UNCHANGED <<send_ctr, sealed, opened, handed>>

\* open() of an altered frame, whatever number it carries: it passes the
\* window, fails to decrypt and leaves no mark.
OpenAltered(c) ==
    /\ ReplayOk(c)
    /\ UNCHANGED pairVars

PairNext == SealFrame \/ \E c \in Ctr : OpenFrame(c) \/ OpenAltered(c)

PairSpec == PairInit /\ [][PairNext]_pairVars

-----------------------------------------------------------------------------
(***************************************************************************)
(* Properties.                                                             *)
(***************************************************************************)
\* Both counters and the bitmap have their types; the receiver is never ahead
\* of the sender.
PairTypeOK ==
    /\ send_ctr \in Ctr
    /\ recv_max \in Ctr
    /\ recv_window \in SUBSET (0..WINDOW - 1)
    /\ sealed \in SUBSET Ctr
    /\ opened \in SUBSET sealed
    /\ handed \in Nat

\* The bitmap is exact: within the window a bit is set if and only if that
\* number was opened, so no frame passes twice and none that is late by less
\* than the window is refused for another's sake.
WindowExact ==
    /\ \A c \in opened : c <= recv_max
    /\ \A d \in 0..WINDOW - 1 : d \in recv_window <=> recv_max - d \in opened

\* Both together, with what keeps them: every number sealed is below the
\* counter.
SessionInv ==
    /\ PairTypeOK
    /\ WindowExact
    /\ \A c \in sealed : c < send_ctr

A == INSTANCE AtMostOnce WITH Number <- Ctr

\* The session implements at-most-once delivery of what the peer sealed, with
\* a number never used for two frames.
DeliversAtMostOnce == A!Spec

\* A frame not opened yet and late by less than the window still gets
\* through, whatever altered or repeated frames came before it.
LateFrameAccepted ==
    \A c \in sealed \ opened : recv_max - c < WINDOW => ReplayOk(c)
=============================================================================

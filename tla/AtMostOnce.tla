----------------------------- MODULE AtMostOnce -----------------------------
(***************************************************************************)
(* What a pairwise session promises to the control channel above it: a      *)
(* sequence number is used for one frame only, and a frame is handed up at  *)
(* most once, and only if the peer sealed it.                               *)
(***************************************************************************)
EXTENDS Naturals

CONSTANT Number   \* sequence numbers

VARIABLES
    sealed,   \* numbers of the frames the sender has sealed
    opened,   \* numbers of the frames the receiver has handed up
    handed    \* how many frames it has handed up

Init == sealed = {} /\ opened = {} /\ handed = 0

SealFresh(c) ==
    /\ c \notin sealed
    /\ sealed' = sealed \cup {c}
    /\ UNCHANGED <<opened, handed>>

OpenOnce(c) ==
    /\ c \in sealed \ opened
    /\ opened' = opened \cup {c}
    /\ handed' = handed + 1
    /\ UNCHANGED sealed

Next == \E c \in Number : SealFresh(c) \/ OpenOnce(c)

Spec == Init /\ [][Next]_<<sealed, opened, handed>>
=============================================================================

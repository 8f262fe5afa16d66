---------------------------- MODULE MCChannelDir ----------------------------
(***************************************************************************)
(* ChannelDir on small rooms.                                              *)
(***************************************************************************)
EXTENDS ChannelDir

Scene(N, o, f) == [nodes |-> N, ops |-> o, faults |-> f]

\* Three members switch and delete; two do so more often; a link breaks, a
\* signaling connection is lost or a process restarts around a switch.
Rooms == {Scene({1, 2, 3}, 2, 0), Scene({1, 2}, 3, 0), Scene({1, 2}, 1, 1)}

-----------------------------------------------------------------------------
\* Directories, and the lists members exchange: each channel once.
Lists == {s \in BoundedSeq(Name, 3) :
            \A k, l \in DOMAIN s : Canon(s[k]) = Canon(s[l]) => k = l}

\* One turn of the loop of merge_channels().
Pushed(d, n) ==
    IF Len(d) >= MAX_CHANNELS \/ Listed(d, Canon(n)) THEN d ELSE Append(d, n)

\* On short lists Without is the library's filter, and MergeChannels is the loop
\* of the source.
ASSUME RetainIsAFilter ==
    \A s \in BoundedSeq(Name, 3), C \in SUBSET ChannelsOf(SetToSeq(Name)) :
        Without(s, C) = SelectSeq(s, LAMBDA n : Canon(n) \notin C)

ASSUME MergeIsTheLoop ==
    \A d, add \in Lists :
        Len(d) <= MAX_CHANNELS => MergeChannels(d, add) = FoldLeft(Pushed, d, add)
=============================================================================

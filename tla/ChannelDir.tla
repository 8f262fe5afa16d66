----------------------------- MODULE ChannelDir -----------------------------
(***************************************************************************)
(* Radio channels of a room (companion-core: ChanState, the channel arms    *)
(* of the engine loop in lib.rs, the announcements in mesh.rs).             *)
(*                                                                         *)
(* A client is tuned to one channel, announces it to every peer and hears   *)
(* only the peers whose announced channel is its own.  A directory of the    *)
(* channels anyone created is merged from peer to peer; a deleted channel    *)
(* leaves a tombstone that keeps directories from bringing it back.         *)
(*                                                                         *)
(* The gate `heard` is written by the data channel's callback, the member   *)
(* list `row` by the engine loop, later: a frame passes through dc[i][j]    *)
(* (in order), then through the event queue of j.  Joins and departures     *)
(* come over signaling, which nothing orders against the data channels.     *)
(*                                                                         *)
(* A name is ten times its channel plus the way it is written (" Alpha",    *)
(* "alpha"): canon_channel() trims and lowers.  Names are valid here: the   *)
(* shell refuses empty and overlong ones.                                  *)
(***************************************************************************)
EXTENDS Integers, Sequences, SequencesExt, FiniteSets

CONSTANTS
    Node,             \* ids of the members
    Name,             \* names users type
    Overtaken,        \* an announcement on open may leave after a later one
    MAX_CHANNELS,     \* entries of a directory
    MAX_TOMBSTONES,   \* tombstones set on a peer's word
    Scenario          \* bound: who is in the room, how often users switch or
                      \* delete a channel, how often links break, signaling
                      \* connections are lost and processes restart

DEFAULT_CHANNEL == 0

ASSUME ChannelConstants ==
    /\ Node \subseteq Nat /\ IsFiniteSet(Node)
    /\ Name \subseteq Nat /\ DEFAULT_CHANNEL \in Name
    /\ Overtaken \in BOOLEAN
    /\ MAX_CHANNELS \in Nat \ {0} /\ MAX_TOMBSTONES \in Nat
    /\ Scenario \subseteq [nodes : SUBSET Node, ops : Nat, faults : Nat]

VARIABLES
    mine,      \* my_channel, and ChanState.mine
    dir,       \* known_channels, and ChanState.dir
    removed,   \* removed_channels, in canonical form
    heard,     \* ChanState.peers: channel a peer announced, or None
    row,       \* members: channel shown for a member, or None for no member
    open,      \* open[i][j]: the data channel to j has opened at i
    late,      \* late[i][j]: announcements of i to j still with their own task
    dc,        \* dc[i][j]: frames from i that j has yet to read
    ev,        \* mesh events of the engine loop
    inbox,     \* frames of the server
    budget     \* what is left of the scenario

vars == <<mine, dir, removed, heard, row, open, late, dc, ev, inbox, budget>>

None == 0 - 1

Canon(n) == n - (n % 10)

Listed(d, c) == \E k \in DOMAIN d : Canon(d[k]) = c

ChannelMsg(n)  == [t |-> "Channel", name |-> n, names |-> <<>>]
ChannelsMsg(d) == [t |-> "Channels", name |-> None, names |-> d]
RemovedMsg(c)  == [t |-> "ChannelRemoved", name |-> c, names |-> <<>>]
Event(j, m)    == [peer |-> j, msg |-> m]

Here == budget.nodes

\* A room that has settled on the default channel.
Init ==
    /\ budget \in Scenario
    /\ mine = [i \in Node |-> DEFAULT_CHANNEL]
    /\ dir = [i \in Node |-> <<DEFAULT_CHANNEL>>]
    /\ removed = [i \in Node |-> {}]
    /\ heard = [i \in Node |-> [j \in Node |->
                  IF i # j /\ {i, j} \subseteq Here THEN DEFAULT_CHANNEL ELSE None]]
    /\ row = heard
    /\ open = [i \in Node |-> [j \in Node |-> i # j /\ {i, j} \subseteq Here]]
    /\ late = [i \in Node |-> [j \in Node |-> {}]]
    /\ dc = [i \in Node |-> [j \in Node |-> <<>>]]
    /\ ev = [i \in Node |-> <<>>]
    /\ inbox = [i \in Node |-> <<>>]

-----------------------------------------------------------------------------
(***************************************************************************)
(* The directory.                                                          *)
(***************************************************************************)
\* retain(): what is left of s without the channels C, in its order.
Without(s, C) ==
    LET kept == {k \in DOMAIN s : Canon(s[k]) \notin C}
        place(k) == Cardinality({l \in kept : l <= k})
    IN [n \in 1 .. Cardinality(kept) |-> s[CHOOSE k \in kept : place(k) = n]]

ChannelsOf(d) == {Canon(d[k]) : k \in DOMAIN d}

\* merge_channels(): unknown channels are appended while there is room.
MergeChannels(d, add) ==
    LET new == Without(add, ChannelsOf(d))
        room == MAX_CHANNELS - Len(d)
    IN d \o SubSeq(new, 1, IF Len(new) < room THEN Len(new) ELSE room)

\* remove_from_dir().
RemoveFromDir(d, c) == Without(d, {c})

\* channel_in_use(): I or a member of my list is tuned to c.
ChannelInUse(i, c) ==
    \/ Canon(mine[i]) = c
    \/ \E j \in Node : row[i][j] # None /\ Canon(row[i][j]) = c

\* tombstone_allowed(): for channels of the directory, while there is room.
TombstoneAllowed(i, c) ==
    /\ Listed(dir[i], c)
    /\ Cardinality(removed[i]) < MAX_TOMBSTONES

\* A channel that may be deleted here: not the base channel, not in use.
Deletable(i, c) == c # DEFAULT_CHANNEL /\ ~ChannelInUse(i, c)

\* broadcast_*: to every peer whose data channel has opened.
Broadcast(q, i, msgs) ==
    [q EXCEPT ![i] = [j \in Node |-> IF open[i][j] THEN q[i][j] \o msgs ELSE q[i][j]]]

\* hears(): the receive gate; a peer that announced nothing is on the default.
Hears(i, j) ==
    Canon(mine[i]) = Canon(IF heard[i][j] = None THEN DEFAULT_CHANNEL ELSE heard[i][j])

-----------------------------------------------------------------------------
(***************************************************************************)
(* Commands of the user.                                                   *)
(***************************************************************************)
Op == budget.ops > 0 /\ budget' = [budget EXCEPT !.ops = @ - 1]

\* SetChannel: tune, clear the tombstone, announce, and put the channel into
\* the directory.
SetChannel(i, n) ==
    /\ Op
    /\ n # mine[i]
    /\ mine' = [mine EXCEPT ![i] = n]
    /\ removed' = [removed EXCEPT ![i] = @ \ {Canon(n)}]
    /\ LET d == MergeChannels(dir[i], <<n>>)
           told == <<ChannelMsg(n)>> \o (IF d # dir[i] THEN <<ChannelsMsg(d)>> ELSE <<>>)
       IN /\ dir' = [dir EXCEPT ![i] = d]
          /\ dc' = Broadcast(dc, i, told)
    /\ UNCHANGED <<heard, row, open, late, ev, inbox>>

\* RemoveChannel: drop it here, set the tombstone, tell everyone.
RemoveChannel(i, c) ==
    /\ Op
    /\ Deletable(i, c)
    /\ removed' = [removed EXCEPT ![i] = @ \cup {c}]
    /\ dir' = [dir EXCEPT ![i] = RemoveFromDir(@, c)]
    /\ dc' = Broadcast(dc, i, <<RemovedMsg(c)>>)
    /\ UNCHANGED <<mine, heard, row, open, late, ev, inbox>>

-----------------------------------------------------------------------------
(***************************************************************************)
(* Data channels and the events they raise.                                *)
(***************************************************************************)
Members(i) == {j \in Node : row[i][j] # None}

\* Mutant: only the channel is announced.
AnnouncedChannel(i) == <<ChannelMsg(mine[i])>>

Announced(i) == <<ChannelMsg(mine[i]), ChannelsMsg(dir[i])>>

\* The data channel opens at i: it announces its channel and its directory.
\* Each announcement is sent by a task of its own.
Open(i, j) ==
    /\ j \in Members(i) /\ i \in Members(j)
    /\ ~open[i][j]
    /\ open' = [open EXCEPT ![i][j] = TRUE]
    /\ IF Overtaken
         THEN late' = [late EXCEPT ![i][j] = ToSet(Announced(i))] /\ UNCHANGED dc
         ELSE dc' = [dc EXCEPT ![i][j] = @ \o Announced(i)] /\ UNCHANGED late
    /\ UNCHANGED <<mine, dir, removed, heard, row, ev, inbox, budget>>

\* The task of a late announcement gets its turn.
SendLate(i, j) ==
    /\ \E m \in late[i][j] :
         /\ late' = [late EXCEPT ![i][j] = @ \ {m}]
         /\ dc' = [dc EXCEPT ![i][j] = Append(@, m)]
    /\ UNCHANGED <<mine, dir, removed, heard, row, open, ev, inbox, budget>>

\* dispatch_inner(): the gate moves at once, the engine loop is told.
Receive(i, j) ==
    /\ dc[j][i] # <<>>
    /\ LET m == Head(dc[j][i])
       IN /\ heard' = IF m.t = "Channel" THEN [heard EXCEPT ![i][j] = m.name] ELSE heard
          /\ ev' = [ev EXCEPT ![i] = Append(@, Event(j, m))]
    /\ dc' = [dc EXCEPT ![j][i] = Tail(@)]
    /\ UNCHANGED <<mine, dir, removed, row, open, late, inbox, budget>>

Has(i, t) == ev[i] # <<>> /\ Head(ev[i]).msg.t = t

\* PeerChannel: the member's row follows the gate.
OnPeerChannel(i) ==
    /\ Has(i, "Channel")
    /\ LET e == Head(ev[i])
       IN row' = IF row[i][e.peer] # None
                   THEN [row EXCEPT ![i][e.peer] = e.msg.name] ELSE row
    /\ ev' = [ev EXCEPT ![i] = Tail(@)]
    /\ UNCHANGED <<mine, dir, removed, heard, open, late, dc, inbox, budget>>

\* What a peer's directory may add: nothing with a tombstone here.
Accepted(i, names) == Without(names, removed[i])

\* Mutant: every directory is passed on.
PassedOnAlways(d, old) == <<ChannelsMsg(d)>>

\* A directory that grew is passed on.
PassedOn(d, old) == IF d # old THEN <<ChannelsMsg(d)>> ELSE <<>>

\* PeerChannels: merge, pass on.
OnPeerChannels(i) ==
    /\ Has(i, "Channels")
    /\ \E add \in {Accepted(i, Head(ev[i]).msg.names)} :
       \E d \in {MergeChannels(dir[i], add)} :
          /\ dir' = [dir EXCEPT ![i] = d]
          /\ dc' = Broadcast(dc, i, PassedOn(d, dir[i]))
    /\ ev' = [ev EXCEPT ![i] = Tail(@)]
    /\ UNCHANGED <<mine, removed, heard, row, open, late, inbox, budget>>

\* A peer's deletion is honored once, unless the channel is in use here.
Honors(i, c) == Deletable(i, c) /\ TombstoneAllowed(i, c) /\ c \notin removed[i]

\* PeerChannelRemoved: drop, set the tombstone, pass on.
OnPeerChannelRemoved(i) ==
    /\ Has(i, "ChannelRemoved")
    /\ LET c == Canon(Head(ev[i]).msg.name)
       IN IF Honors(i, c)
            THEN /\ removed' = [removed EXCEPT ![i] = @ \cup {c}]
                 /\ dir' = [dir EXCEPT ![i] = RemoveFromDir(@, c)]
                 /\ dc' = Broadcast(dc, i, <<RemovedMsg(c)>>)
            ELSE UNCHANGED <<removed, dir, dc>>
    /\ ev' = [ev EXCEPT ![i] = Tail(@)]
    /\ UNCHANGED <<mine, heard, row, open, late, inbox, budget>>

-----------------------------------------------------------------------------
(***************************************************************************)
(* Joins, departures and broken links.                                     *)
(***************************************************************************)
\* The links of i to the nodes J go: what is in flight is lost.
ClosedAll(i, J) ==
    LET Cut(f, x) == [a \in Node |-> [b \in Node |->
                        IF (a = i /\ b \in J) \/ (b = i /\ a \in J) THEN x ELSE f[a][b]]]
    IN open' = Cut(open, FALSE) /\ late' = Cut(late, {}) /\ dc' = Cut(dc, <<>>)

Closed(i, j) == ClosedAll(i, {j})

\* Mutant: a member that joins is shown on the default channel.
SeedDefault(i, j) == DEFAULT_CHANNEL

\* The channel shown for a member that joins: its last announcement, if any.
Seed(i, j) == IF heard[i][j] = None THEN DEFAULT_CHANNEL ELSE heard[i][j]

\* PeerJoined(j): a row for it; the smaller id rebuilds the link.
OnPeerJoined(i) ==
    /\ inbox[i] # <<>> /\ Head(inbox[i]).t = "PeerJoined"
    /\ LET j == Head(inbox[i]).user
       IN /\ row' = [row EXCEPT ![i][j] = Seed(i, j)]
          /\ IF i < j THEN Closed(i, j) ELSE UNCHANGED <<open, late, dc>>
    /\ inbox' = [inbox EXCEPT ![i] = Tail(@)]
    /\ UNCHANGED <<mine, dir, removed, heard, ev, budget>>

\* Roster: known members keep their row, the others get one, and the links to
\* larger ids are rebuilt.
OnRoster(i) ==
    /\ inbox[i] # <<>> /\ Head(inbox[i]).t = "Roster"
    /\ row' = [row EXCEPT ![i] = [j \in Node |->
                  IF j = i \/ j \notin Here THEN None
                  ELSE IF row[i][j] # None THEN row[i][j] ELSE Seed(i, j)]]
    /\ ClosedAll(i, {j \in Node : i < j})
    /\ inbox' = [inbox EXCEPT ![i] = Tail(@)]
    /\ UNCHANGED <<mine, dir, removed, heard, ev, budget>>

\* PeerLeft(j): its row, its announcement and its link go.
OnPeerLeft(i) ==
    /\ inbox[i] # <<>> /\ Head(inbox[i]).t = "PeerLeft"
    /\ LET j == Head(inbox[i]).user
       IN /\ row' = [row EXCEPT ![i][j] = None]
          /\ heard' = [heard EXCEPT ![i][j] = None]
          /\ Closed(i, j)
    /\ inbox' = [inbox EXCEPT ![i] = Tail(@)]
    /\ UNCHANGED <<mine, dir, removed, ev, budget>>

Fault == budget.faults > 0 /\ budget' = [budget EXCEPT !.faults = @ - 1]

\* A link breaks; the watchdog builds it again (Open).
Break(i, j) ==
    /\ Fault
    /\ open[i][j]
    /\ Closed(i, j)
    /\ UNCHANGED <<mine, dir, removed, heard, row, ev, inbox>>

\* The server's news of j: a roster for j itself, the frames ts for the others.
News(j, ts) ==
    inbox' = [i \in Node |->
                IF i = j THEN <<[t |-> "Roster", user |-> j]>>
                ELSE IF i \in Here THEN inbox[i] \o [k \in DOMAIN ts |-> [t |-> ts[k], user |-> j]]
                ELSE <<>>]

\* The signaling connection of j is lost and comes back under the same id.  The
\* others hear of the loss if the server noticed it before j was back.
Reconnect(j) ==
    /\ Fault
    /\ \E ts \in {<<"PeerJoined">>, <<"PeerLeft", "PeerJoined">>} : News(j, ts)
    /\ UNCHANGED <<mine, dir, removed, heard, row, open, late, dc, ev>>

\* The process of j ends and starts again: it forgets everything.
Restart(j) ==
    /\ Fault
    /\ mine' = [mine EXCEPT ![j] = DEFAULT_CHANNEL]
    /\ dir' = [dir EXCEPT ![j] = <<DEFAULT_CHANNEL>>]
    /\ removed' = [removed EXCEPT ![j] = {}]
    /\ heard' = [heard EXCEPT ![j] = [i \in Node |-> None]]
    /\ row' = [row EXCEPT ![j] = [i \in Node |-> None]]
    /\ ClosedAll(j, Node)
    /\ ev' = [ev EXCEPT ![j] = <<>>]
    /\ News(j, <<"PeerLeft", "PeerJoined">>)

-----------------------------------------------------------------------------
Loop(i) ==
    \/ OnPeerChannel(i) \/ OnPeerChannels(i) \/ OnPeerChannelRemoved(i)
    \/ OnRoster(i) \/ OnPeerJoined(i) \/ OnPeerLeft(i)

Progress == \E i \in Here :
    \/ Loop(i)
    \/ \E j \in Here \ {i} : Open(i, j) \/ SendLate(i, j) \/ Receive(i, j)

Next ==
    \/ Progress
    \/ \E i \in Here :
         \/ \E n \in Name : SetChannel(i, n) \/ RemoveChannel(i, Canon(n))
         \/ \E j \in Here : Break(i, j)
         \/ Reconnect(i) \/ Restart(i)

\* The loops serve their sources and links are built again, in any order.
Spec == Init /\ [][Next]_vars /\ WF_vars(Progress)

-----------------------------------------------------------------------------
\* Every variable has its type; directories list a channel once and keep to
\* their limit.
TypeOK ==
    /\ mine \in [Node -> Name]
    /\ \A i \in Node :
         /\ Len(dir[i]) <= MAX_CHANNELS
         /\ \A k, l \in DOMAIN dir[i] : Canon(dir[i][k]) = Canon(dir[i][l]) => k = l
         /\ removed[i] \subseteq {Canon(n) : n \in Name}
    /\ heard \in [Node -> [Node -> Name \cup {None}]]
    /\ row \in [Node -> [Node -> Name \cup {None}]]
    /\ open \in [Node -> [Node -> BOOLEAN]]

Quiet ==
    /\ \A i \in Here : ev[i] = <<>> /\ inbox[i] = <<>>
    /\ \A i, j \in Here : i # j => open[i][j] /\ dc[i][j] = <<>> /\ late[i][j] = {}

\* Once nothing is on its way, two members hear each other exactly when they
\* are tuned to the same channel, and each is shown on the channel it is on
\* (announcements, the gate in read_track and the member list).
GateIsTrue ==
    Quiet => \A i \in Here : \A j \in Here \ {i} :
               /\ Hears(i, j) <=> Canon(mine[i]) = Canon(mine[j])
               /\ row[i][j] = mine[j]

\* What is deleted here stays deleted: a directory that was under way cannot
\* bring a channel with a tombstone back, and tuning in to it clears both.
NoZombie == \A i \in Node : \A c \in removed[i] : ~Listed(dir[i], c)

\* The directories are sound: what is deleted here stays deleted, and once
\* nothing is on its way, a channel of one directory is in every other one, but
\* for those who deleted it and for directories that are full or were full
\* before a deletion (what a full one turned away is not offered to it again).
DirectoriesAgree ==
    /\ TypeOK
    /\ NoZombie
    /\ Quiet => \A i, j \in Here : \A k \in DOMAIN dir[i] :
               LET c == Canon(dir[i][k])
               IN \/ Listed(dir[j], c) \/ c \in removed[j]
                  \/ Len(dir[j]) + Cardinality(removed[j]) >= MAX_CHANNELS

\* Passing on directories and deletions comes to an end: the room falls silent.
FallsSilent == <>[]Quiet
=============================================================================

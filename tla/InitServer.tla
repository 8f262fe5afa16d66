----------------------------- MODULE InitServer -----------------------------
(***************************************************************************)
(* The signaling server of subraum (server/init): WebSocket tasks that      *)
(* share the map of rooms.  One task per socket runs handle_socket: it      *)
(* admits a join, relays frames between the members of a room and, when     *)
(* its read loop ends, removes its handle and tells the others.  Every      *)
(* frame to a client goes through a bounded queue that a writer task        *)
(* drains; all sends are try_send, so a full queue loses the frame.         *)
(*                                                                         *)
(* One step is one critical section under the rooms lock.  Two handlers go  *)
(* on after theirs: Rekey (the rekeys lock, then the rooms lock) and a Join *)
(* that sends TURN credentials once it has released the lock; each of those *)
(* is two steps.  A socket is used once: it starts connected, not joined.   *)
(*                                                                         *)
(* The far end is modelled as far as the member list goes: view[s] is the   *)
(* `members` map of the client at socket s, changed only by the frames the  *)
(* writer delivers.                                                        *)
(***************************************************************************)
EXTENDS Integers, Sequences, FiniteSets

CONSTANTS
    Socket,        \* WebSocket connections
    User,          \* user_id values
    Room,          \* room names
    Secret,        \* join secrets
    None,          \* no socket, user, room or secret
    WARN_CAP,      \* soft cap: from this size on everyone is warned
    HARD_CAP,      \* hard cap: a join that would exceed it is refused
    PEER_CHAN,     \* capacity of a socket's outbound queue
    MSG_RATE_MAX,  \* frames a socket may send per rate window
    TURN,          \* whether TURN credentials are configured
    ServerScenario \* bounds: frames a socket has sent in vain, rate windows to come

ASSUME ServerConstants ==
    /\ None \notin Socket \cup User \cup Room \cup Secret
    /\ IsFiniteSet(User)
    /\ HARD_CAP \in Nat \ {0}
    /\ WARN_CAP \in Nat
    /\ PEER_CHAN \in Nat \ {0}
    /\ MSG_RATE_MAX \in Nat
    /\ TURN \in BOOLEAN

ASSUME ServerBounds ==
    ServerScenario \subseteq [Socket -> [sent : 0..MSG_RATE_MAX, windows : Nat]]

VARIABLES
    rooms,      \* keys of AppState.rooms
    handle,     \* handle[r][u]: the socket whose PeerHandle is in room r as u
    rekeys,     \* AppState.rekeys per room: no stamp, within / past cooldown
    loop,       \* where the task of a socket is
    me,         \* user_id a socket joined as (None: not joined)
    place,      \* room it joined
    secret,     \* secret it joined with, kept in its PeerHandle
    win,        \* win_count: frames admitted in the current rate window
    windows,    \* rate windows a socket may still open (bounds the model)
    queue,      \* outbound mpsc queue of a socket
    writer,     \* the writer task of a socket can still write
    view,       \* members known to the client at the far end
    rostered,   \* that client has received a Roster
    lost        \* history: a frame for this socket met a full queue

room_vars   == <<rooms, handle, rekeys>>
socket_vars == <<loop, me, place, secret, win, windows>>
wire_vars   == <<queue, writer, view, rostered, lost>>
vars == <<rooms, handle, rekeys, loop, me, place, secret, win, windows,
          queue, writer, view, rostered, lost>>

\* Frames about nobody, about one user, and the list of a room's members.
Plain  == {"Error", "RoomFull", "Warn", "Rekey", "Turn"}
OfUser == {"PeerJoined", "PeerLeft", "Relay", "Ptt"}
Frame  == [t : Plain, user : {None}, peers : {{}}]
          \cup [t : OfUser, user : User, peers : {{}}]
          \cup [t : {"Roster"}, user : {None}, peers : SUBSET User]

Msg(t)         == [t |-> t, user |-> None, peers |-> {}]
MsgOf(t, u)    == [t |-> t, user |-> u, peers |-> {}]
RosterMsg(ps)  == [t |-> "Roster", user |-> None, peers |-> ps]

Members(r) == {u \in User : handle[r][u] # None}

Init ==
    /\ rooms = {}
    /\ handle = [r \in Room |-> [u \in User |-> None]]
    /\ rekeys = [r \in Room |-> "none"]
    /\ loop = [s \in Socket |-> "run"]
    /\ me = [s \in Socket |-> None]
    /\ place = [s \in Socket |-> None]
    /\ secret = [s \in Socket |-> None]
    /\ \E b \in ServerScenario : /\ win = [s \in Socket |-> b[s].sent]
                                 /\ windows = [s \in Socket |-> b[s].windows]
    /\ queue = [s \in Socket |-> <<>>]
    /\ writer = [s \in Socket |-> TRUE]
    /\ view = [s \in Socket |-> {}]
    /\ rostered = [s \in Socket |-> FALSE]
    /\ lost = [s \in Socket |-> FALSE]

-----------------------------------------------------------------------------
(***************************************************************************)
(* Sending.  out[t] is the sequence of frames one critical section sends    *)
(* to socket t.  A frame that meets a full queue is dropped; a queue whose  *)
(* writer is gone refuses everything.                                      *)
(***************************************************************************)
Nothing == [t \in Socket |-> <<>>]

TrySend(q, ms) ==
    LET all == q \o ms
    IN  IF Len(all) <= PEER_CHAN THEN all ELSE SubSeq(all, 1, PEER_CHAN)

SendAll(out) ==
    /\ queue' = [t \in Socket |->
                   IF writer[t] THEN TrySend(queue[t], out[t]) ELSE queue[t]]
    /\ lost' = [t \in Socket |->
                   \/ lost[t]
                   \/ writer[t] /\ Len(queue[t]) + Len(out[t]) > PEER_CHAN]
    /\ UNCHANGED <<writer, view, rostered>>

SendTo(S, m) == SendAll([t \in Socket |-> IF t \in S THEN <<m>> ELSE <<>>])

\* Sockets whose handles are in room r, except the handle under user u.
Others(r, u) == {t \in Socket : \E v \in User \ {u} : handle[r][v] = t}
Everyone(r)  == {t \in Socket : \E v \in User : handle[r][v] = t}

-----------------------------------------------------------------------------
(***************************************************************************)
(* The per-socket rate limit: a frame past MSG_RATE_MAX of the window is    *)
(* dropped before it is parsed, which changes nothing else.                *)
(***************************************************************************)
\* Mutant: the cap is never applied.
AdmitUncapped(s) ==
    /\ loop[s] = "run"
    /\ win[s] <= MSG_RATE_MAX
    /\ win' = [win EXCEPT ![s] = @ + 1]
    /\ UNCHANGED windows

Admit(s) ==
    /\ loop[s] = "run"
    /\ win[s] < MSG_RATE_MAX
    /\ win' = [win EXCEPT ![s] = @ + 1]
    /\ UNCHANGED windows

NewWindow(s) ==
    /\ loop[s] = "run"
    /\ win[s] > 0
    /\ windows[s] > 0
    /\ win' = [win EXCEPT ![s] = 0]
    /\ windows' = [windows EXCEPT ![s] = @ - 1]
    /\ UNCHANGED <<room_vars, loop, me, place, secret, wire_vars>>

-----------------------------------------------------------------------------
(***************************************************************************)
(* Join.  A frame that fails a check made before the lock (protocol,        *)
(* field lengths, room token) or that does not parse as a current join ends *)
(* the loop with an error frame.  Under the lock: a full room, or a         *)
(* user_id held under another secret, ends it too.  Otherwise the old       *)
(* connection under that user_id is superseded, the handle inserted, the    *)
(* others told, and the joiner gets its Roster, then Warn, then Turn.       *)
(***************************************************************************)
JoinRefused(s) ==
    /\ Admit(s)
    /\ me[s] = None
    /\ loop' = [loop EXCEPT ![s] = "ended"]
    /\ SendTo({s}, Msg("Error"))
    /\ UNCHANGED <<room_vars, me, place, secret>>

\* Mutant: the cap check is off by one.
RoomIsFullOffByOne(r, u) == Cardinality(Members(r)) > HARD_CAP /\ u \notin Members(r)

RoomIsFull(r, u) == Cardinality(Members(r)) >= HARD_CAP /\ u \notin Members(r)

TakeoverOk(r, u, sec) == u \in Members(r) => secret[handle[r][u]] = sec

JoinFull(s, r, u) ==
    /\ Admit(s)
    /\ me[s] = None
    /\ RoomIsFull(r, u)
    /\ rooms' = rooms \cup {r}
    /\ loop' = [loop EXCEPT ![s] = "ended"]
    /\ SendTo({s}, Msg("RoomFull"))
    /\ UNCHANGED <<handle, rekeys, me, place, secret>>

JoinIdInUse(s, r, u, sec) ==
    /\ Admit(s)
    /\ me[s] = None
    /\ ~RoomIsFull(r, u)
    /\ ~TakeoverOk(r, u, sec)
    /\ rooms' = rooms \cup {r}
    /\ loop' = [loop EXCEPT ![s] = "ended"]
    /\ SendTo({s}, Msg("Error"))
    /\ UNCHANGED <<handle, rekeys, me, place, secret>>

\* Mutants: the roster is taken after the joiner was inserted; not filled.
JoinRosterWithSelf(r, u) == Members(r) \cup {u}
JoinRosterEmpty(r, u) == {}

\* The peers a joiner is told of: the room after the removal of its old
\* handle, before the insertion of the new one.
JoinRoster(r, u) == Members(r) \ {u}

\* The joiner's own frames.
Greeting(r, u, warn) == <<RosterMsg(JoinRoster(r, u))>> \o warn

\* What a successful join of s as u in r puts on the queue of socket t.
JoinFrames(s, r, u, t) ==
    LET size == Cardinality(Members(r) \cup {u})
        warn == IF size >= WARN_CAP THEN <<Msg("Warn")>> ELSE <<>>
    IN  CASE t = s              -> Greeting(r, u, warn)
          [] t = handle[r][u]   -> <<Msg("Error")>>
          [] t \in Others(r, u) -> <<MsgOf("PeerJoined", u)>> \o warn
          [] OTHER              -> <<>>

Join(s, r, u, sec) ==
    /\ Admit(s)
    /\ me[s] = None
    /\ ~RoomIsFull(r, u)
    /\ TakeoverOk(r, u, sec)
    /\ rooms' = rooms \cup {r}
    /\ handle' = [handle EXCEPT ![r][u] = s]
    /\ me' = [me EXCEPT ![s] = u]
    /\ place' = [place EXCEPT ![s] = r]
    /\ secret' = [secret EXCEPT ![s] = sec]
    /\ SendAll([t \in Socket |-> JoinFrames(s, r, u, t)])
    /\ loop' = [loop EXCEPT ![s] = IF TURN THEN "turn" ELSE @]
    /\ UNCHANGED rekeys

\* With TURN configured the join ends, outside the lock, with credentials.
JoinTurn(s) ==
    /\ loop[s] = "turn"
    /\ loop' = [loop EXCEPT ![s] = "run"]
    /\ SendTo({s}, Msg("Turn"))
    /\ UNCHANGED <<room_vars, me, place, secret, win, windows>>

-----------------------------------------------------------------------------
(***************************************************************************)
(* Other frames.                                                           *)
(***************************************************************************)
\* A frame that does not parse, or a second join: an error, nothing else.
BadFrame(s) ==
    /\ Admit(s)
    /\ SendTo({s}, Msg("Error"))
    /\ UNCHANGED <<room_vars, loop, me, place, secret>>

\* A frame without effect: anything but a join from a socket that has not
\* joined, an oversized or undeliverable relay, a rekey within the cooldown.
IgnoredFrame(s) ==
    /\ Admit(s)
    /\ UNCHANGED <<room_vars, loop, me, place, secret, wire_vars>>

\* Offer, Answer and Ice: relay_to one user of the sender's room.
RelayTo(s, to) ==
    /\ Admit(s)
    /\ me[s] # None
    /\ place[s] \in rooms
    /\ to \in Members(place[s])
    /\ SendTo({handle[place[s]][to]}, MsgOf("Relay", me[s]))
    /\ UNCHANGED <<room_vars, loop, me, place, secret>>

Ptt(s) ==
    /\ Admit(s)
    /\ me[s] # None
    /\ place[s] \in rooms
    /\ SendTo(Others(place[s], me[s]), MsgOf("Ptt", me[s]))
    /\ UNCHANGED <<room_vars, loop, me, place, secret>>

\* Rekey, first critical section: stamp the room unless it is cooling down.
RekeyStamp(s) ==
    /\ Admit(s)
    /\ me[s] # None
    /\ rekeys[place[s]] # "hot"
    /\ rekeys' = [rekeys EXCEPT ![place[s]] = "hot"]
    /\ loop' = [loop EXCEPT ![s] = "rekey"]
    /\ UNCHANGED <<rooms, handle, me, place, secret, wire_vars>>

\* Rekey, second critical section: tell the whole room, the sender included.
RekeyBroadcast(s) ==
    /\ loop[s] = "rekey"
    /\ loop' = [loop EXCEPT ![s] = "run"]
    /\ SendTo(IF place[s] \in rooms THEN Everyone(place[s]) ELSE {}, Msg("Rekey"))
    /\ UNCHANGED <<room_vars, me, place, secret, win, windows>>

\* REKEY_COOLDOWN after the last stamp of room r.
Cooldown(r) ==
    /\ rekeys[r] = "hot"
    /\ rekeys' = [rekeys EXCEPT ![r] = "cool"]
    /\ UNCHANGED <<rooms, handle, socket_vars, wire_vars>>

-----------------------------------------------------------------------------
(***************************************************************************)
(* The end of a socket.                                                    *)
(***************************************************************************)
\* Leave, a Close frame, a stream error or WS_IDLE_TIMEOUT ends the loop.
EndLoop(s) ==
    /\ loop[s] = "run"
    /\ loop' = [loop EXCEPT ![s] = "ended"]
    /\ UNCHANGED <<room_vars, me, place, secret, win, windows, wire_vars>>

\* Mutants: any handle under the user_id passes for one's own; only a handle
\* that can still be written to does.
MineByName(s) == handle[place[s]][me[s]] # None
MineIfWritable(s) == handle[place[s]][me[s]] = s /\ writer[s]

\* The room still holds this very socket under its user_id.
Mine(s) == handle[place[s]][me[s]] = s

\* Mutant: the last one out leaves the room entry behind.
RoomsAfterLeaveKept(r, u) == rooms

\* The map of rooms once u has left r.
RoomsAfterLeave(r, u) == IF Members(r) = {u} THEN rooms \ {r} ELSE rooms

Cleanup(s) ==
    LET r == place[s] IN
    /\ loop[s] = "ended"
    /\ loop' = [loop EXCEPT ![s] = "closed"]
    /\ IF me[s] # None /\ r \in rooms /\ Mine(s)
       THEN /\ handle' = [handle EXCEPT ![r][me[s]] = None]
            /\ SendTo(Others(r, me[s]), MsgOf("PeerLeft", me[s]))
            /\ rooms' = RoomsAfterLeave(r, me[s])
            /\ rekeys' = [rekeys EXCEPT ![r] = IF Members(r) = {me[s]} THEN "none" ELSE @]
       ELSE UNCHANGED <<room_vars, wire_vars>>
    /\ UNCHANGED <<me, place, secret, win, windows>>

-----------------------------------------------------------------------------
(***************************************************************************)
(* The writer task and the client's member list.                           *)
(***************************************************************************)
\* members after the client's Roster / PeerJoined / PeerLeft arm.
ViewAfter(v, m) ==
    CASE m.t = "Roster"     -> m.peers
      [] m.t = "PeerJoined" -> v \cup {m.user}
      [] m.t = "PeerLeft"   -> v \ {m.user}
      [] OTHER              -> v

Write(s) ==
    /\ writer[s]
    /\ queue[s] # <<>>
    /\ queue' = [queue EXCEPT ![s] = Tail(@)]
    /\ view' = [view EXCEPT ![s] = ViewAfter(@, Head(queue[s]))]
    /\ rostered' = [rostered EXCEPT ![s] = @ \/ Head(queue[s]).t = "Roster"]
    /\ UNCHANGED <<room_vars, socket_vars, writer, lost>>

\* The connection breaks under the writer, or a closed socket's writer is
\* aborted by the flush timeout: what is queued is gone.  The read loop
\* learns of it only when its own stream fails.
WriterGone(s) ==
    /\ writer[s]
    /\ writer' = [writer EXCEPT ![s] = FALSE]
    /\ queue' = [queue EXCEPT ![s] = <<>>]
    /\ UNCHANGED <<room_vars, socket_vars, view, rostered, lost>>

-----------------------------------------------------------------------------
JoinStep(s) ==
    \E r \in Room, u \in User :
        \/ JoinFull(s, r, u)
        \/ \E sec \in Secret : Join(s, r, u, sec) \/ JoinIdInUse(s, r, u, sec)

FrameStep(s) ==
    \/ BadFrame(s)
    \/ IgnoredFrame(s)
    \/ Ptt(s)
    \/ RekeyStamp(s)
    \/ \E to \in User : RelayTo(s, to)

Next ==
    \/ \E s \in Socket :
         \/ NewWindow(s)
         \/ JoinRefused(s)
         \/ JoinStep(s)
         \/ JoinTurn(s)
         \/ FrameStep(s)
         \/ RekeyBroadcast(s)
         \/ EndLoop(s)
         \/ Cleanup(s)
         \/ Write(s)
         \/ WriterGone(s)
    \/ \E r \in Room : Cooldown(r)

Spec == Init /\ [][Next]_vars

\* A task that has left its loop runs its cleanup, one in the middle of a
\* handler finishes it, and a connected client is written to.
Fairness == \A s \in Socket : /\ WF_vars(Cleanup(s))
                              /\ WF_vars(JoinTurn(s))
                              /\ WF_vars(RekeyBroadcast(s))
                              /\ WF_vars(Write(s))

FairSpec == Spec /\ Fairness

-----------------------------------------------------------------------------
(***************************************************************************)
(* Properties.                                                             *)
(***************************************************************************)
\* Every variable has its type (the shared state of AppState and the local
\* state of handle_socket).
TypeOK ==
    /\ rooms \in SUBSET Room
    /\ handle \in [Room -> [User -> Socket \cup {None}]]
    /\ rekeys \in [Room -> {"none", "hot", "cool"}]
    /\ loop \in [Socket -> {"run", "turn", "rekey", "ended", "closed"}]
    /\ me \in [Socket -> User \cup {None}]
    /\ place \in [Socket -> Room \cup {None}]
    /\ secret \in [Socket -> Secret \cup {None}]
    /\ win \in [Socket -> 0..MSG_RATE_MAX]
    /\ windows \in [Socket -> Nat]
    /\ queue \in [Socket -> Seq(Frame)]
    /\ writer \in [Socket -> BOOLEAN]
    /\ view \in [Socket -> SUBSET User]
    /\ rostered \in [Socket -> BOOLEAN]
    /\ lost \in [Socket -> BOOLEAN]

\* No outbound queue ever holds more than PEER_CHAN frames, and no room more
\* than HARD_CAP members, whatever the order of joins, takeovers and cleanups:
\* a takeover replaces a handle and is let in even when the room is full.
BoundsRespected ==
    /\ \A s \in Socket : Len(queue[s]) <= PEER_CHAN
    /\ \A r \in Room : Cardinality(Members(r)) <= HARD_CAP

\* The map of rooms holds exactly the rooms with a member: neither a refused
\* join (which creates the entry before it is refused) nor the cleanup of
\* superseded sockets leaves an empty room behind, which the session reaper
\* would take for a live one.
NoEmptyRoom == \A r \in Room : r \in rooms <=> Members(r) # {}

\* A handle in a room always belongs to a socket whose task has yet to run
\* its cleanup and which joined that room under that user_id: no ghost
\* member stays behind whom no task would ever remove.
NoGhostMember ==
    \A r \in Room, u \in User :
        LET s == handle[r][u] IN
        s # None => loop[s] # "closed" /\ me[s] = u /\ place[s] = r

\* A live member loses its place only by its own cleanup, or to a join that
\* presents the same secret; a superseded socket's cleanup never evicts the
\* connection that replaced it.
OnlyOwnerEvicts ==
    [][\A r \in Room, u \in User :
         LET s == handle[r][u]
             t == handle'[r][u]
         IN  s # None /\ t # s =>
               \/ t = None /\ loop[s] = "ended" /\ loop'[s] = "closed"
               \/ t # None /\ secret'[t] = secret[s]]_vars

\* A queued frame that makes the client know of u, or forget u.
Adds(m, u)  == \/ m.t = "PeerJoined" /\ m.user = u
               \/ m.t = "Roster" /\ u \in m.peers
Drops(m, u) == \/ m.t = "PeerLeft" /\ m.user = u
               \/ m.t = "Roster" /\ u \notin m.peers

\* u is in the list of the client at s once its queue is delivered.
WillSee(s, u) ==
    LET q == queue[s] IN
    \/ \E i \in 1..Len(q) : /\ Adds(q[i], u)
                            /\ \A j \in (i + 1)..Len(q) : ~Drops(q[j], u)
    \/ /\ u \in view[s]
       /\ \A j \in 1..Len(q) : ~Drops(q[j], u)

InSync(r, u) ==
    LET s == handle[r][u] IN
    \A v \in User : WillSee(s, v) <=> v \in Members(r) \ {u}

\* No hidden participants: the frames delivered to and queued for a connected
\* member add up to exactly the other members of its room, as long as none
\* of them met a full queue.
NoHiddenParticipants ==
    \A r \in Room, u \in User :
        LET s == handle[r][u] IN
        s # None /\ writer[s] /\ ~lost[s] => InSync(r, u)

\* The client at s, connected and not overrun, is wrong about v: it lists v
\* while v is not in the room, or the other way round.
WrongAbout(s, v) ==
    /\ me[s] # None
    /\ Mine(s) /\ writer[s] /\ ~lost[s]
    /\ v \in view[s] <=> v \notin Members(place[s]) \ {me[s]}

\* No client stays wrong about a participant: joins and departures, which are
\* announced only once, reach whoever stays connected.
ListsCatchUp == \A s \in Socket, v \in User : []<>~WrongAbout(s, v)
=============================================================================

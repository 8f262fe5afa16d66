------------------------- MODULE InitServer_proofs -------------------------
(***************************************************************************)
(* For any number of sockets, users and rooms, and any caps: the server's   *)
(* shared state is well typed, no ghost member and no empty room is ever    *)
(* left behind, a member loses its place only by its own cleanup or to a    *)
(* join with its secret, no queue and no room exceeds its cap, and the      *)
(* frames a member has been sent add up to the membership of its room.      *)
(***************************************************************************)
EXTENDS InitServer, FiniteSetTheorems, TLAPS

-----------------------------------------------------------------------------
(***************************************************************************)
(* Sending keeps the queues well typed.                                    *)
(***************************************************************************)
LEMMA TrySendType ==
  ASSUME NEW q \in Seq(Frame), NEW ms \in Seq(Frame)
  PROVE  TrySend(q, ms) \in Seq(Frame)
  <1>1. q \o ms \in Seq(Frame)
    OBVIOUS
  <1>2. CASE Len(q \o ms) <= PEER_CHAN
    BY <1>1, <1>2 DEF TrySend
  <1>3. CASE ~(Len(q \o ms) <= PEER_CHAN)
    <2>1. TrySend(q, ms) = SubSeq(q \o ms, 1, PEER_CHAN)
      BY <1>3 DEF TrySend
    <2>2. PEER_CHAN \in Nat /\ PEER_CHAN <= Len(q \o ms)
      BY <1>1, <1>3, ServerConstants
    <2> HIDE DEF TrySend
    <2> QED BY <1>1, <2>1, <2>2
  <1> QED BY <1>2, <1>3

\* The types of the outbound side.
WireType ==
  /\ queue \in [Socket -> Seq(Frame)]
  /\ writer \in [Socket -> BOOLEAN]
  /\ view \in [Socket -> SUBSET User]
  /\ rostered \in [Socket -> BOOLEAN]
  /\ lost \in [Socket -> BOOLEAN]

LEMMA SendAllType ==
  ASSUME WireType, NEW out \in [Socket -> Seq(Frame)], SendAll(out)
  PROVE  WireType'
  <1>1. queue' \in [Socket -> Seq(Frame)]
    <2>1. \A t \in Socket : (IF writer[t] THEN TrySend(queue[t], out[t]) ELSE queue[t]) \in Seq(Frame)
      BY TrySendType DEF WireType
    <2> QED BY <2>1 DEF SendAll
  <1>2. lost' \in [Socket -> BOOLEAN]
    BY DEF SendAll
  <1> QED BY <1>1, <1>2 DEF WireType, SendAll

LEMMA FrameTypes ==
  /\ \A t \in Plain : Msg(t) \in Frame
  /\ \A t \in OfUser, u \in User : MsgOf(t, u) \in Frame
  /\ \A ps \in SUBSET User : RosterMsg(ps) \in Frame
  /\ \A m \in Frame : /\ m.t = "PeerJoined" => m.user \in User
                     /\ m.peers \in SUBSET User
  BY DEF Frame, Plain, OfUser, Msg, MsgOf, RosterMsg

LEMMA SendToType ==
  ASSUME WireType, NEW S, NEW m \in Frame, SendTo(S, m)
  PROVE  WireType'
  <1> DEFINE out == [t \in Socket |-> IF t \in S THEN <<m>> ELSE <<>>]
  <1>1. out \in [Socket -> Seq(Frame)]
    OBVIOUS
  <1>2. SendAll(out)
    BY DEF SendTo
  <1> HIDE DEF out
  <1> QED BY <1>1, <1>2, SendAllType

LEMMA JoinFramesType ==
  ASSUME NEW s \in Socket, NEW r \in Room, NEW u \in User
  PROVE  [t \in Socket |-> JoinFrames(s, r, u, t)] \in [Socket -> Seq(Frame)]
  <1> SUFFICES ASSUME NEW t \in Socket PROVE JoinFrames(s, r, u, t) \in Seq(Frame)
    OBVIOUS
  <1> DEFINE warn == IF Cardinality(Members(r) \cup {u}) >= WARN_CAP THEN <<Msg("Warn")>> ELSE <<>>
  <1>1. warn \in Seq(Frame)
    BY FrameTypes DEF Plain, OfUser
  <1>2. <<RosterMsg(Members(r) \ {u})>> \in Seq(Frame)
    BY FrameTypes DEF Members
  <1>3. <<Msg("Error")>> \in Seq(Frame) /\ <<MsgOf("PeerJoined", u)>> \in Seq(Frame)
    BY FrameTypes DEF Plain, OfUser
  <1>4. JoinFrames(s, r, u, t) \in
          {<<RosterMsg(Members(r) \ {u})>> \o warn, <<Msg("Error")>>,
           <<MsgOf("PeerJoined", u)>> \o warn, <<>>}
    BY DEF JoinFrames, Greeting, JoinRoster
  <1> HIDE DEF warn
  <1>5. /\ <<RosterMsg(Members(r) \ {u})>> \o warn \in Seq(Frame)
        /\ <<MsgOf("PeerJoined", u)>> \o warn \in Seq(Frame)
    BY <1>1, <1>2, <1>3
  <1>6. <<>> \in Seq(Frame)
    OBVIOUS
  <1> QED BY <1>3, <1>4, <1>5, <1>6, Zenon

-----------------------------------------------------------------------------
(***************************************************************************)
(* The inductive invariant.                                                *)
(***************************************************************************)
\* A socket has a user_id exactly when it has a room.
Joined == \A s \in Socket : me[s] = None <=> place[s] = None

ServerInv ==
  /\ TypeOK
  /\ Joined
  /\ NoGhostMember
  /\ NoEmptyRoom

\* The types of what a socket's task keeps, and of the map of rooms.
TaskType ==
  /\ rooms \in SUBSET Room
  /\ handle \in [Room -> [User -> Socket \cup {None}]]
  /\ rekeys \in [Room -> {"none", "hot", "cool"}]
  /\ loop \in [Socket -> {"run", "turn", "rekey", "ended", "closed"}]
  /\ me \in [Socket -> User \cup {None}]
  /\ place \in [Socket -> Room \cup {None}]
  /\ secret \in [Socket -> Secret \cup {None}]
  /\ win \in [Socket -> 0..MSG_RATE_MAX]
  /\ windows \in [Socket -> Nat]

LEMMA TypeSplit == TypeOK <=> TaskType /\ WireType
  BY DEF TypeOK, TaskType, WireType

LEMMA InitServerInv == Init => ServerInv
  <1> SUFFICES ASSUME Init PROVE ServerInv
    OBVIOUS
  <1>1. TaskType
    BY ServerConstants, ServerBounds DEF Init, TaskType
  <1>2. WireType
    BY DEF Init, WireType
  <1>3. Joined /\ NoGhostMember
    BY DEF Init, Joined, NoGhostMember
  <1>4. NoEmptyRoom
    BY DEF Init, NoEmptyRoom, Members
  <1> QED BY <1>1, <1>2, <1>3, <1>4, TypeSplit DEF ServerInv

\* A step that leaves the rooms alone and closes no socket.
Quiet ==
  /\ UNCHANGED <<rooms, handle, me, place>>
  /\ \A s \in Socket : loop'[s] = "closed" => loop[s] = "closed"

LEMMA QuietKeeps ==
  ASSUME ServerInv, Quiet
  PROVE  Joined' /\ NoGhostMember' /\ NoEmptyRoom'
  <1>1. Joined'
    BY DEF ServerInv, Quiet, Joined
  <1>2. NoGhostMember'
    BY DEF ServerInv, Quiet, NoGhostMember, TypeOK
  <1>3. NoEmptyRoom'
    BY DEF ServerInv, Quiet, NoEmptyRoom, Members
  <1> QED BY <1>1, <1>2, <1>3

LEMMA AdmitType ==
  ASSUME TaskType, NEW s \in Socket, Admit(s)
  PROVE  win' \in [Socket -> 0..MSG_RATE_MAX] /\ windows' \in [Socket -> Nat]
  <1>1. win[s] + 1 \in 0..MSG_RATE_MAX
    BY ServerConstants DEF TaskType, Admit
  <1> QED BY <1>1 DEF TaskType, Admit

-----------------------------------------------------------------------------
(***************************************************************************)
(* The steps that change the rooms.                                        *)
(***************************************************************************)
\* A refused join may have created the room's entry, but only of a room that
\* has a member.
LEMMA RefusedKeeps ==
  ASSUME ServerInv, NEW s \in Socket, NEW r \in Room, NEW u \in User,
         Members(r) # {},
         rooms' = rooms \cup {r}, UNCHANGED <<handle, me, place>>,
         loop' = [loop EXCEPT ![s] = "ended"]
  PROVE  Joined' /\ NoGhostMember' /\ NoEmptyRoom'
  <1>1. rooms' = rooms
    BY DEF ServerInv, NoEmptyRoom
  <1>2. Quiet
    BY <1>1 DEF Quiet, ServerInv, TypeOK
  <1> QED BY <1>2, QuietKeeps

\* A socket that has not joined has no handle anywhere.
LEMMA NotJoinedNoHandle ==
  ASSUME ServerInv, NEW s \in Socket, me[s] = None
  PROVE  \A r \in Room, u \in User : handle[r][u] # s
  BY ServerConstants DEF ServerInv, NoGhostMember

LEMMA JoinKeeps ==
  ASSUME ServerInv, NEW s \in Socket, NEW r \in Room, NEW u \in User,
         NEW sec \in Secret, Join(s, r, u, sec)
  PROVE  Joined' /\ NoGhostMember' /\ NoEmptyRoom'
  <1> USE DEF ServerInv
  <1>1. /\ rooms' = rooms \cup {r}
        /\ handle' = [handle EXCEPT ![r][u] = s]
        /\ me' = [me EXCEPT ![s] = u]
        /\ place' = [place EXCEPT ![s] = r]
        /\ me[s] = None
        /\ loop[s] = "run"
        /\ loop' = [loop EXCEPT ![s] = IF TURN THEN "turn" ELSE loop[s]]
    BY DEF Join, Admit
  <1>2. /\ handle \in [Room -> [User -> Socket \cup {None}]]
        /\ me \in [Socket -> User \cup {None}]
        /\ place \in [Socket -> Room \cup {None}]
        /\ loop \in [Socket -> {"run", "turn", "rekey", "ended", "closed"}]
    BY DEF TypeOK
  <1>3. \A x \in Room, y \in User :
          handle'[x][y] = IF x = r /\ y = u THEN s ELSE handle[x][y]
    BY <1>1, <1>2
  <1>4. Joined'
    BY <1>1, <1>2, ServerConstants DEF Joined
  <1>5. NoGhostMember'
    <2> SUFFICES ASSUME NEW x \in Room, NEW y \in User, handle'[x][y] # None
                 PROVE  /\ loop'[handle'[x][y]] # "closed"
                        /\ me'[handle'[x][y]] = y
                        /\ place'[handle'[x][y]] = x
      BY DEF NoGhostMember
    <2>1. CASE x = r /\ y = u
      BY <1>1, <1>2, <1>3, <2>1
    <2>2. CASE ~(x = r /\ y = u)
      <3>1. handle'[x][y] = handle[x][y] /\ handle[x][y] \in Socket
        BY <1>2, <1>3, <2>2
      <3>2. handle[x][y] # s
        BY <1>1, NotJoinedNoHandle
      <3> QED BY <1>1, <1>2, <3>1, <3>2 DEF NoGhostMember
    <2> QED BY <2>1, <2>2
  <1>6. NoEmptyRoom'
    <2> SUFFICES ASSUME NEW x \in Room PROVE x \in rooms' <=> \E y \in User : handle'[x][y] # None
      BY DEF NoEmptyRoom, Members
    <2>1. CASE x = r
      BY <1>1, <1>3, <2>1, ServerConstants
    <2>2. CASE x # r
      BY <1>1, <1>3, <2>2 DEF NoEmptyRoom, Members
    <2> QED BY <2>1, <2>2
  <1> QED BY <1>4, <1>5, <1>6

LEMMA CleanupKeeps ==
  ASSUME ServerInv, NEW s \in Socket, Cleanup(s)
  PROVE  Joined' /\ NoGhostMember' /\ NoEmptyRoom'
  <1> USE DEF ServerInv
  <1> DEFINE r == place[s]
             u == me[s]
  <1>1. /\ handle \in [Room -> [User -> Socket \cup {None}]]
        /\ me \in [Socket -> User \cup {None}]
        /\ place \in [Socket -> Room \cup {None}]
        /\ loop \in [Socket -> {"run", "turn", "rekey", "ended", "closed"}]
        /\ loop' = [loop EXCEPT ![s] = "closed"]
        /\ UNCHANGED <<me, place>>
    BY DEF TypeOK, Cleanup
  <1>2. Joined'
    BY <1>1 DEF Joined
  <1>3. CASE u # None /\ r \in rooms /\ Mine(s)
    <2>1. u \in User /\ r \in Room
      BY <1>1, <1>3 DEF TypeOK
    <2>2. /\ handle' = [handle EXCEPT ![r][u] = None]
          /\ rooms' = RoomsAfterLeave(r, u)
      BY <1>3 DEF Cleanup
    <2>3. \A x \in Room, y \in User :
            handle'[x][y] = IF x = r /\ y = u THEN None ELSE handle[x][y]
      BY <1>1, <2>1, <2>2
    <2>4. NoGhostMember'
      <3> SUFFICES ASSUME NEW x \in Room, NEW y \in User, handle'[x][y] # None
                   PROVE  /\ loop'[handle'[x][y]] # "closed"
                          /\ me'[handle'[x][y]] = y
                          /\ place'[handle'[x][y]] = x
        BY DEF NoGhostMember
      <3>1. handle'[x][y] = handle[x][y] /\ ~(x = r /\ y = u) /\ handle[x][y] \in Socket
        BY <1>1, <2>3
      <3>2. handle[x][y] # s
        BY <3>1 DEF NoGhostMember
      <3> QED BY <1>1, <3>1, <3>2 DEF NoGhostMember
    <2>5. NoEmptyRoom'
      <3> SUFFICES ASSUME NEW x \in Room PROVE x \in rooms' <=> \E y \in User : handle'[x][y] # None
        BY DEF NoEmptyRoom, Members
      <3>1. CASE x # r
        BY <2>2, <2>3, <3>1 DEF NoEmptyRoom, Members, RoomsAfterLeave
      <3>2. CASE x = r /\ Members(r) = {u}
        BY <2>2, <2>3, <3>2 DEF Members, RoomsAfterLeave
      <3>3. CASE x = r /\ Members(r) # {u}
        <4>1. u \in Members(r)
          BY <1>3, <2>1, ServerConstants DEF Members, Mine
        <4>2. PICK y \in Members(r) : y # u
          BY <3>3, <4>1
        <4>3. y \in User /\ handle'[x][y] # None
          BY <2>3, <3>3, <4>2 DEF Members
        <4> QED BY <1>3, <2>2, <3>3, <4>3 DEF RoomsAfterLeave
      <3> QED BY <3>1, <3>2, <3>3
    <2> QED BY <1>2, <2>4, <2>5
  <1>4. CASE ~(u # None /\ r \in rooms /\ Mine(s))
    <2>1. UNCHANGED <<rooms, handle>>
      BY <1>4 DEF Cleanup, room_vars
    <2>2. \A x \in Room, y \in User : handle[x][y] # s
      BY <1>4, ServerConstants DEF NoGhostMember, NoEmptyRoom, Members, Mine
    <2>3. NoGhostMember'
      BY <1>1, <2>1, <2>2 DEF NoGhostMember
    <2>4. NoEmptyRoom'
      BY <2>1 DEF NoEmptyRoom, Members
    <2> QED BY <1>2, <2>3, <2>4
  <1> QED BY <1>3, <1>4

-----------------------------------------------------------------------------
(***************************************************************************)
(* Types, one step per action.                                             *)
(***************************************************************************)
LEMMA NextKeepsType ==
  ASSUME ServerInv, [Next]_vars
  PROVE  TypeOK'
  <1>0. TaskType /\ WireType
    BY TypeSplit DEF ServerInv
  <1> SUFFICES TaskType' /\ WireType'
    BY DEF TypeOK, TaskType, WireType
  <1> USE DEF room_vars, socket_vars, wire_vars
  <1>1. ASSUME NEW s \in Socket, NewWindow(s) PROVE TaskType' /\ WireType'
    <2>1. windows[s] - 1 \in Nat /\ 0 \in 0..MSG_RATE_MAX
      BY <1>0, <1>1, ServerConstants DEF NewWindow, TaskType
    <2> QED BY <1>0, <1>1, <2>1 DEF NewWindow, TaskType, WireType
  <1>2. ASSUME NEW s \in Socket, JoinRefused(s) PROVE TaskType' /\ WireType'
    <2>1. TaskType'
      BY <1>0, <1>2, AdmitType DEF JoinRefused, TaskType
    <2>2. WireType'
      BY <1>0, <1>2, SendToType, FrameTypes DEF JoinRefused, Plain, OfUser
    <2> QED BY <2>1, <2>2
  <1>3. ASSUME NEW s \in Socket, NEW r \in Room, NEW u \in User, JoinFull(s, r, u)
        PROVE  TaskType' /\ WireType'
    <2>1. TaskType'
      BY <1>0, <1>3, AdmitType DEF JoinFull, TaskType
    <2>2. WireType'
      BY <1>0, <1>3, SendToType, FrameTypes DEF JoinFull, Plain, OfUser
    <2> QED BY <2>1, <2>2
  <1>4. ASSUME NEW s \in Socket, NEW r \in Room, NEW u \in User, NEW sec \in Secret,
               JoinIdInUse(s, r, u, sec)
        PROVE  TaskType' /\ WireType'
    <2>1. TaskType'
      BY <1>0, <1>4, AdmitType DEF JoinIdInUse, TaskType
    <2>2. WireType'
      BY <1>0, <1>4, SendToType, FrameTypes DEF JoinIdInUse, Plain, OfUser
    <2> QED BY <2>1, <2>2
  <1>5. ASSUME NEW s \in Socket, NEW r \in Room, NEW u \in User, NEW sec \in Secret,
               Join(s, r, u, sec)
        PROVE  TaskType' /\ WireType'
    <2>1. win' \in [Socket -> 0..MSG_RATE_MAX] /\ windows' \in [Socket -> Nat]
      BY <1>0, <1>5, AdmitType DEF Join
    <2>2. handle' \in [Room -> [User -> Socket \cup {None}]]
      BY <1>0, <1>5 DEF Join, TaskType
    <2>3. loop' \in [Socket -> {"run", "turn", "rekey", "ended", "closed"}]
      BY <1>0, <1>5 DEF Join, TaskType
    <2>4. TaskType'
      BY <1>0, <1>5, <2>1, <2>2, <2>3 DEF Join, TaskType
    <2>5. WireType'
      <3> DEFINE out == [t \in Socket |-> JoinFrames(s, r, u, t)]
      <3>1. out \in [Socket -> Seq(Frame)]
        BY JoinFramesType
      <3>2. SendAll(out)
        BY <1>5 DEF Join
      <3> HIDE DEF out
      <3> QED BY <1>0, <3>1, <3>2, SendAllType
    <2> QED BY <2>4, <2>5
  <1>6. ASSUME NEW s \in Socket, JoinTurn(s) PROVE TaskType' /\ WireType'
    <2>1. TaskType'
      BY <1>0, <1>6 DEF JoinTurn, TaskType
    <2>2. WireType'
      BY <1>0, <1>6, SendToType, FrameTypes DEF JoinTurn, Plain, OfUser
    <2> QED BY <2>1, <2>2
  <1>7. ASSUME NEW s \in Socket, BadFrame(s) PROVE TaskType' /\ WireType'
    <2>1. TaskType'
      BY <1>0, <1>7, AdmitType DEF BadFrame, TaskType
    <2>2. WireType'
      BY <1>0, <1>7, SendToType, FrameTypes DEF BadFrame, Plain, OfUser
    <2> QED BY <2>1, <2>2
  <1>8. ASSUME NEW s \in Socket, IgnoredFrame(s) PROVE TaskType' /\ WireType'
    BY <1>0, <1>8, AdmitType DEF IgnoredFrame, TaskType, WireType
  <1>9. ASSUME NEW s \in Socket, NEW to \in User, RelayTo(s, to) PROVE TaskType' /\ WireType'
    <2>1. TaskType'
      BY <1>0, <1>9, AdmitType DEF RelayTo, TaskType
    <2>2. MsgOf("Relay", me[s]) \in Frame
      BY <1>0, <1>9, FrameTypes DEF RelayTo, TaskType, Plain, OfUser
    <2>3. WireType'
      BY <1>0, <1>9, <2>2, SendToType DEF RelayTo
    <2> QED BY <2>1, <2>3
  <1>10. ASSUME NEW s \in Socket, Ptt(s) PROVE TaskType' /\ WireType'
    <2>1. TaskType'
      BY <1>0, <1>10, AdmitType DEF Ptt, TaskType
    <2>2. MsgOf("Ptt", me[s]) \in Frame
      BY <1>0, <1>10, FrameTypes DEF Ptt, TaskType, Plain, OfUser
    <2>3. WireType'
      BY <1>0, <1>10, <2>2, SendToType DEF Ptt
    <2> QED BY <2>1, <2>3
  <1>11. ASSUME NEW s \in Socket, RekeyStamp(s) PROVE TaskType' /\ WireType'
    BY <1>0, <1>11, AdmitType DEF RekeyStamp, TaskType, WireType
  <1>12. ASSUME NEW s \in Socket, RekeyBroadcast(s) PROVE TaskType' /\ WireType'
    <2>1. TaskType'
      BY <1>0, <1>12 DEF RekeyBroadcast, TaskType
    <2>2. WireType'
      BY <1>0, <1>12, SendToType, FrameTypes DEF RekeyBroadcast, Plain, OfUser
    <2> QED BY <2>1, <2>2
  <1>13. ASSUME NEW s \in Socket, EndLoop(s) PROVE TaskType' /\ WireType'
    BY <1>0, <1>13 DEF EndLoop, TaskType, WireType
  <1>14. ASSUME NEW s \in Socket, Cleanup(s) PROVE TaskType' /\ WireType'
    <2>1. CASE me[s] # None /\ place[s] \in rooms /\ Mine(s)
      <3>1. TaskType'
        <4>1. place[s] \in Room /\ me[s] \in User
          BY <1>0, <2>1 DEF TaskType
        <4>2. handle' \in [Room -> [User -> Socket \cup {None}]]
          <5>1. handle' = [handle EXCEPT ![place[s]][me[s]] = None]
            BY <1>14, <2>1 DEF Cleanup
          <5> QED BY <1>0, <4>1, <5>1 DEF TaskType
        <4>3. rooms' \in SUBSET Room
          BY <1>0, <1>14, <2>1 DEF Cleanup, RoomsAfterLeave, TaskType
        <4>4. rekeys' \in [Room -> {"none", "hot", "cool"}]
          BY <1>0, <1>14, <2>1, <4>1 DEF Cleanup, TaskType
        <4> QED BY <1>0, <1>14, <4>2, <4>3, <4>4 DEF Cleanup, TaskType
      <3>2. MsgOf("PeerLeft", me[s]) \in Frame
        BY <1>0, <2>1, FrameTypes DEF TaskType, Plain, OfUser
      <3>3. WireType'
        BY <1>0, <1>14, <2>1, <3>2, SendToType DEF Cleanup
      <3> QED BY <3>1, <3>3
    <2>2. CASE ~(me[s] # None /\ place[s] \in rooms /\ Mine(s))
      BY <1>0, <1>14, <2>2 DEF Cleanup, TaskType, WireType
    <2> QED BY <2>1, <2>2
  <1>15. ASSUME NEW s \in Socket, Write(s) PROVE TaskType' /\ WireType'
    <2>1. TaskType'
      BY <1>0, <1>15 DEF Write, TaskType
    <2>2. queue[s] \in Seq(Frame) /\ queue[s] # <<>>
      BY <1>0, <1>15 DEF Write, WireType
    <2>3. Tail(queue[s]) \in Seq(Frame) /\ Head(queue[s]) \in Frame
      BY <2>2
    <2>4. ViewAfter(view[s], Head(queue[s])) \in SUBSET User
      <3>1. ASSUME Head(queue[s]).t = "PeerJoined" PROVE Head(queue[s]).user \in User
        BY <2>3, <3>1, FrameTypes
      <3>2. view[s] \in SUBSET User /\ Head(queue[s]).peers \in SUBSET User
        BY <1>0, <2>3, FrameTypes DEF WireType
      <3> QED BY <3>1, <3>2 DEF ViewAfter
    <2>5. WireType'
      BY <1>0, <1>15, <2>3, <2>4 DEF Write, WireType
    <2> QED BY <2>1, <2>5
  <1>16. ASSUME NEW s \in Socket, WriterGone(s) PROVE TaskType' /\ WireType'
    BY <1>0, <1>16 DEF WriterGone, TaskType, WireType
  <1>17. ASSUME NEW r \in Room, Cooldown(r) PROVE TaskType' /\ WireType'
    BY <1>0, <1>17 DEF Cooldown, TaskType, WireType
  <1>18. CASE UNCHANGED vars
    BY <1>0, <1>18 DEF vars, TaskType, WireType
  <1> QED
    BY <1>1, <1>2, <1>3, <1>4, <1>5, <1>6, <1>7, <1>8, <1>9, <1>10, <1>11, <1>12,
       <1>13, <1>14, <1>15, <1>16, <1>17, <1>18 DEF Next, JoinStep, FrameStep

-----------------------------------------------------------------------------
(***************************************************************************)
(* The theorems.                                                           *)
(***************************************************************************)
LEMMA NextKeepsRooms ==
  ASSUME ServerInv, [Next]_vars
  PROVE  Joined' /\ NoGhostMember' /\ NoEmptyRoom'
  <1> USE DEF room_vars, socket_vars, wire_vars
  <1>0. loop \in [Socket -> {"run", "turn", "rekey", "ended", "closed"}]
    BY DEF ServerInv, TypeOK
  <1>1. ASSUME NEW s \in Socket, \/ NewWindow(s) \/ JoinRefused(s) \/ JoinTurn(s)
                                \/ RekeyBroadcast(s) \/ EndLoop(s) \/ Write(s) \/ WriterGone(s)
        PROVE  Quiet
    BY <1>0, <1>1
    DEF Quiet, NewWindow, JoinRefused, JoinTurn, RekeyBroadcast, EndLoop, Write, WriterGone
  <1>2. ASSUME NEW s \in Socket, FrameStep(s) PROVE Quiet
    BY <1>0, <1>2 DEF Quiet, FrameStep, BadFrame, IgnoredFrame, RelayTo, Ptt, RekeyStamp
  <1>3. ASSUME NEW r \in Room, Cooldown(r) PROVE Quiet
    BY <1>3 DEF Quiet, Cooldown
  <1>4. CASE UNCHANGED vars
    <2>1. Quiet
      BY <1>4 DEF Quiet, vars
    <2> QED BY <2>1, QuietKeeps
  <1>5. ASSUME NEW s \in Socket, NEW r \in Room, NEW u \in User, JoinFull(s, r, u)
        PROVE  Joined' /\ NoGhostMember' /\ NoEmptyRoom'
    <2>1. Members(r) # {}
      <3>1. Cardinality(Members(r)) >= HARD_CAP
        BY <1>5 DEF JoinFull, RoomIsFull
      <3>2. HARD_CAP \in Nat /\ HARD_CAP # 0
        BY ServerConstants
      <3>3. Cardinality({}) = 0
        BY FS_EmptySet
      <3> QED BY <3>1, <3>2, <3>3
    <2> QED BY <1>5, <2>1, RefusedKeeps DEF JoinFull
  <1>6. ASSUME NEW s \in Socket, NEW r \in Room, NEW u \in User, NEW sec \in Secret,
               JoinIdInUse(s, r, u, sec)
        PROVE  Joined' /\ NoGhostMember' /\ NoEmptyRoom'
    <2>1. Members(r) # {}
      BY <1>6 DEF JoinIdInUse, TakeoverOk
    <2> QED BY <1>6, <2>1, RefusedKeeps DEF JoinIdInUse
  <1> QED
    BY <1>1, <1>2, <1>3, <1>4, <1>5, <1>6, QuietKeeps, JoinKeeps, CleanupKeeps
    DEF Next, JoinStep

LEMMA ServerInvariant == Spec => []ServerInv
  <1>1. ServerInv /\ [Next]_vars => ServerInv'
    BY NextKeepsType, NextKeepsRooms DEF ServerInv
  <1> QED BY InitServerInv, <1>1, PTL DEF Spec

\* Every variable of the server keeps its type, for any number of sockets,
\* users and rooms and any queue capacity and rate limit.
THEOREM TypeCorrect == Spec => []TypeOK
  <1>1. ServerInv => TypeOK
    BY DEF ServerInv
  <1> QED BY <1>1, ServerInvariant, PTL

\* No member is ever left in a room whose task has already cleaned up
\* (handle_socket).
THEOREM NoGhosts == Spec => []NoGhostMember
  <1>1. ServerInv => NoGhostMember
    BY DEF ServerInv
  <1> QED BY <1>1, ServerInvariant, PTL

\* The map of rooms holds exactly the rooms that have a member.
THEOREM NoEmptyRooms == Spec => []NoEmptyRoom
  <1>1. ServerInv => NoEmptyRoom
    BY DEF ServerInv
  <1> QED BY <1>1, ServerInvariant, PTL

\* Eviction: a step that takes a handle away is the owner's cleanup or a join
\* with the owner's secret (supersede, and the same_channel test of the
\* cleanup).
THEOREM OwnersEvict == Spec => OnlyOwnerEvicts
  <1> DEFINE Fair(r, u) ==
        LET s == handle[r][u]
            t == handle'[r][u]
        IN  s # None /\ t # s =>
              \/ t = None /\ loop[s] = "ended" /\ loop'[s] = "closed"
              \/ t # None /\ secret'[t] = secret[s]
  <1>1. ASSUME ServerInv, [Next]_vars, NEW r \in Room, NEW u \in User
        PROVE  Fair(r, u)
    <2> USE DEF room_vars, socket_vars, wire_vars
    <2>0. /\ handle \in [Room -> [User -> Socket \cup {None}]]
          /\ loop \in [Socket -> {"run", "turn", "rekey", "ended", "closed"}]
          /\ secret \in [Socket -> Secret \cup {None}]
      BY <1>1 DEF ServerInv, TypeOK
    <2>1. CASE handle' = handle
      BY <2>1
    <2>2. ASSUME NEW s \in Socket, NEW x \in Room, NEW y \in User, NEW sec \in Secret,
                 Join(s, x, y, sec)
          PROVE  Fair(r, u)
      <3>1. handle'[r][u] = IF r = x /\ u = y THEN s ELSE handle[r][u]
        BY <2>0, <2>2 DEF Join
      <3>2. secret'[s] = sec
        BY <2>0, <2>2 DEF Join
      <3>3. handle[x][y] # None => secret[handle[x][y]] = sec
        BY <2>2 DEF Join, TakeoverOk, Members
      <3> QED BY <3>1, <3>2, <3>3, ServerConstants
    <2>3. ASSUME NEW s \in Socket, Cleanup(s)
          PROVE  Fair(r, u)
      <3>1. CASE me[s] # None /\ place[s] \in rooms /\ Mine(s)
        <4>1. handle' = [handle EXCEPT ![place[s]][me[s]] = None]
          BY <2>3, <3>1 DEF Cleanup
        <4>2. handle'[r][u] # handle[r][u] => handle'[r][u] = None /\ handle[r][u] = s
          BY <2>0, <3>1, <4>1 DEF Mine
        <4>3. loop[s] = "ended" /\ loop'[s] = "closed"
          BY <2>0, <2>3 DEF Cleanup
        <4> QED BY <4>2, <4>3
      <3>2. CASE ~(me[s] # None /\ place[s] \in rooms /\ Mine(s))
        BY <2>1, <2>3, <3>2 DEF Cleanup
      <3> QED BY <3>1, <3>2
    <2>4. ASSUME NEW s \in Socket, \/ NewWindow(s) \/ JoinRefused(s) \/ JoinTurn(s)
                                  \/ RekeyBroadcast(s) \/ EndLoop(s) \/ Write(s) \/ WriterGone(s)
          PROVE  handle' = handle
      BY <2>4
      DEF NewWindow, JoinRefused, JoinTurn, RekeyBroadcast, EndLoop, Write, WriterGone
    <2>5. ASSUME NEW s \in Socket, FrameStep(s) PROVE handle' = handle
      BY <2>5 DEF FrameStep, BadFrame, IgnoredFrame, RelayTo, Ptt, RekeyStamp
    <2>6. ASSUME NEW s \in Socket, NEW x \in Room, NEW y \in User, NEW sec \in Secret,
                 JoinIdInUse(s, x, y, sec)
          PROVE  handle' = handle
      BY <2>6 DEF JoinIdInUse
    <2>7. ASSUME NEW s \in Socket, NEW x \in Room, NEW y \in User, JoinFull(s, x, y)
          PROVE  handle' = handle
      BY <2>7 DEF JoinFull
    <2>8. ASSUME NEW x \in Room, Cooldown(x) PROVE handle' = handle
      BY <2>8 DEF Cooldown
    <2>9. CASE UNCHANGED vars
      BY <2>1, <2>9 DEF vars
    <2> HIDE DEF Fair
    <2>10. CASE Next
      BY <2>1, <2>2, <2>3, <2>4, <2>5, <2>6, <2>7, <2>8, <2>10 DEF Next, JoinStep
    <2> QED BY <1>1, <2>9, <2>10
  <1>2. ServerInv /\ [Next]_vars => [\A r \in Room, u \in User : Fair(r, u)]_vars
    BY <1>1
  <1> QED BY <1>2, ServerInvariant, PTL DEF Spec, OnlyOwnerEvicts


-----------------------------------------------------------------------------
(***************************************************************************)
(* Who changes the members of a room.                                      *)
(***************************************************************************)
\* Frames that say nothing of who is in a room.
Neutral == {m \in Frame : m.t \notin {"Roster", "PeerJoined", "PeerLeft"}}

LEMMA NeutralFrames ==
  /\ \A t \in Plain : Msg(t) \in Neutral
  /\ \A u \in User : MsgOf("Relay", u) \in Neutral /\ MsgOf("Ptt", u) \in Neutral
  <1>1. \A t \in Plain : Msg(t) \in Frame /\ Msg(t).t = t
    BY DEF Frame, Plain, OfUser, Msg
  <1>2. \A t \in OfUser, u \in User : MsgOf(t, u) \in Frame /\ MsgOf(t, u).t = t
    BY DEF Frame, Plain, OfUser, MsgOf
  <1> QED BY <1>1, <1>2 DEF Neutral, Plain, OfUser

\* A step that is not a join, the cleanup of a socket that still owns its
\* handle, or the work of a writer, keeps every handle and sends at most one
\* frame, which says nothing of who is in a room.
NeutralStep ==
  /\ handle' = handle
  /\ \/ UNCHANGED wire_vars
     \/ \E S \in SUBSET Socket, m \in Neutral : SendTo(S, m)

OwnerCleanup(s) == Cleanup(s) /\ me[s] # None /\ place[s] \in rooms /\ Mine(s)

LEMMA StepKinds ==
  ASSUME TypeOK, [Next]_vars
  PROVE  \/ NeutralStep
         \/ \E s \in Socket, r \in Room, u \in User, sec \in Secret : Join(s, r, u, sec)
         \/ \E s \in Socket : OwnerCleanup(s) \/ Write(s) \/ WriterGone(s)
  <1> USE DEF room_vars
  <1>1. ASSUME NEW s \in Socket, \/ JoinRefused(s) \/ JoinTurn(s) \/ RekeyBroadcast(s)
                                \/ BadFrame(s) \/ Ptt(s) \/ \E to \in User : RelayTo(s, to)
        PROVE  NeutralStep
    <2>1. {s} \in SUBSET Socket
      OBVIOUS
    <2>2. \A r, u : Everyone(r) \in SUBSET Socket /\ Others(r, u) \in SUBSET Socket
      BY DEF Everyone, Others
    <2>3. \A t \in {"Error", "Turn", "Rekey"} : Msg(t) \in Neutral
      BY NeutralFrames DEF Plain
    <2>4. CASE JoinRefused(s) \/ BadFrame(s)
      BY <2>1, <2>3, <2>4 DEF JoinRefused, BadFrame, NeutralStep
    <2>5. CASE JoinTurn(s)
      BY <2>1, <2>3, <2>5 DEF JoinTurn, NeutralStep
    <2>6. CASE RekeyBroadcast(s)
      BY <2>2, <2>3, <2>6 DEF RekeyBroadcast, NeutralStep
    <2>7. CASE Ptt(s)
      <3>1. me[s] \in User
        BY <2>7 DEF Ptt, TypeOK
      <3> QED BY <2>2, <2>7, <3>1, NeutralFrames DEF Ptt, NeutralStep
    <2>8. ASSUME NEW to \in User, RelayTo(s, to) PROVE NeutralStep
      <3>1. me[s] \in User /\ {handle[place[s]][to]} \in SUBSET Socket
        BY <2>8, ServerConstants DEF RelayTo, TypeOK, Members
      <3> QED BY <2>8, <3>1, NeutralFrames DEF RelayTo, NeutralStep
    <2> QED BY <1>1, <2>4, <2>5, <2>6, <2>7, <2>8
  <1>2. ASSUME NEW s \in Socket, NewWindow(s) \/ IgnoredFrame(s) \/ RekeyStamp(s) \/ EndLoop(s)
        PROVE  NeutralStep
    BY <1>2 DEF NewWindow, IgnoredFrame, RekeyStamp, EndLoop, NeutralStep
  <1>3. ASSUME NEW s \in Socket, NEW r \in Room, NEW u \in User, JoinFull(s, r, u)
        PROVE  NeutralStep
    BY <1>3, NeutralFrames DEF JoinFull, NeutralStep, Plain
  <1>4. ASSUME NEW s \in Socket, NEW r \in Room, NEW u \in User, NEW sec \in Secret,
               JoinIdInUse(s, r, u, sec)
        PROVE  NeutralStep
    BY <1>4, NeutralFrames DEF JoinIdInUse, NeutralStep, Plain
  <1>5. ASSUME NEW r \in Room, Cooldown(r) PROVE NeutralStep
    BY <1>5 DEF Cooldown, NeutralStep
  <1>6. ASSUME NEW s \in Socket, Cleanup(s), ~OwnerCleanup(s) PROVE NeutralStep
    BY <1>6 DEF Cleanup, OwnerCleanup, NeutralStep
  <1>7. CASE UNCHANGED vars
    BY <1>7 DEF vars, wire_vars, NeutralStep
  <1> QED
    BY <1>1, <1>2, <1>3, <1>4, <1>5, <1>6, <1>7 DEF Next, JoinStep, FrameStep

\* A join adds the joiner's user_id to its room and changes no other room.
LEMMA JoinMembers ==
  ASSUME TypeOK, NEW s \in Socket, NEW r \in Room, NEW u \in User, NEW sec \in Secret,
         Join(s, r, u, sec)
  PROVE  \A x \in Room : Members(x)' = IF x = r THEN Members(x) \cup {u} ELSE Members(x)
  <1>1. \A x \in Room, y \in User :
          handle'[x][y] = IF x = r /\ y = u THEN s ELSE handle[x][y]
    BY DEF Join, TypeOK
  <1> QED BY <1>1, ServerConstants DEF Members

\* The owner's cleanup removes its user_id and changes no other room.
LEMMA CleanupMembers ==
  ASSUME TypeOK, NEW s \in Socket, OwnerCleanup(s)
  PROVE  \A x \in Room :
           Members(x)' = IF x = place[s] THEN Members(x) \ {me[s]} ELSE Members(x)
  <1>1. me[s] \in User /\ place[s] \in Room
    BY DEF TypeOK, OwnerCleanup
  <1>2. handle' = [handle EXCEPT ![place[s]][me[s]] = None]
    BY DEF Cleanup, OwnerCleanup
  <1>3. \A x \in Room, y \in User :
          handle'[x][y] = IF x = place[s] /\ y = me[s] THEN None ELSE handle[x][y]
    BY <1>1, <1>2 DEF TypeOK
  <1> QED BY <1>1, <1>3, ServerConstants DEF Members

-----------------------------------------------------------------------------
(***************************************************************************)
(* The caps.                                                               *)
(***************************************************************************)
QueuesBounded == \A s \in Socket : Len(queue[s]) <= PEER_CHAN
RoomsBounded  == \A r \in Room : Cardinality(Members(r)) <= HARD_CAP

LEMMA TrySendLength ==
  ASSUME NEW q \in Seq(Frame), NEW ms \in Seq(Frame)
  PROVE  Len(TrySend(q, ms)) <= PEER_CHAN
  <1>1. q \o ms \in Seq(Frame)
    OBVIOUS
  <1>2. CASE Len(q \o ms) <= PEER_CHAN
    BY <1>2 DEF TrySend
  <1>3. CASE ~(Len(q \o ms) <= PEER_CHAN)
    <2>1. TrySend(q, ms) = SubSeq(q \o ms, 1, PEER_CHAN)
      BY <1>3 DEF TrySend
    <2>2. PEER_CHAN \in Nat /\ PEER_CHAN <= Len(q \o ms)
      BY <1>1, <1>3, ServerConstants
    <2> QED BY <1>1, <2>1, <2>2
  <1> QED BY <1>2, <1>3

LEMMA SendAllBounded ==
  ASSUME WireType, QueuesBounded, NEW out \in [Socket -> Seq(Frame)], SendAll(out)
  PROVE  QueuesBounded'
  <1> SUFFICES ASSUME NEW s \in Socket PROVE Len(queue'[s]) <= PEER_CHAN
    BY DEF QueuesBounded
  <1>1. queue'[s] = IF writer[s] THEN TrySend(queue[s], out[s]) ELSE queue[s]
    BY DEF SendAll
  <1>2. queue[s] \in Seq(Frame) /\ out[s] \in Seq(Frame)
    BY DEF WireType
  <1> QED BY <1>1, <1>2, TrySendLength DEF QueuesBounded

LEMMA SendToBounded ==
  ASSUME WireType, QueuesBounded, NEW S, NEW m \in Frame, SendTo(S, m)
  PROVE  QueuesBounded'
  <1> DEFINE out == [t \in Socket |-> IF t \in S THEN <<m>> ELSE <<>>]
  <1>1. out \in [Socket -> Seq(Frame)]
    OBVIOUS
  <1>2. SendAll(out)
    BY DEF SendTo
  <1> HIDE DEF out
  <1> QED BY <1>1, <1>2, SendAllBounded

LEMMA NextKeepsQueues ==
  ASSUME TypeOK, QueuesBounded, [Next]_vars
  PROVE  QueuesBounded'
  <1>0. WireType
    BY TypeSplit
  <1>1. CASE NeutralStep
    BY <1>0, <1>1, SendToBounded DEF NeutralStep, Neutral, wire_vars, QueuesBounded
  <1>2. ASSUME NEW s \in Socket, NEW r \in Room, NEW u \in User, NEW sec \in Secret,
               Join(s, r, u, sec)
        PROVE  QueuesBounded'
    <2> DEFINE out == [t \in Socket |-> JoinFrames(s, r, u, t)]
    <2>1. out \in [Socket -> Seq(Frame)]
      BY JoinFramesType
    <2>2. SendAll(out)
      BY <1>2 DEF Join
    <2> HIDE DEF out
    <2> QED BY <1>0, <2>1, <2>2, SendAllBounded
  <1>3. ASSUME NEW s \in Socket, OwnerCleanup(s) PROVE QueuesBounded'
    <2>1. MsgOf("PeerLeft", me[s]) \in Frame
      BY <1>3, FrameTypes DEF OwnerCleanup, TypeOK, OfUser
    <2> QED BY <1>0, <1>3, <2>1, SendToBounded DEF OwnerCleanup, Cleanup
  <1>4. ASSUME NEW s \in Socket, Write(s) PROVE QueuesBounded'
    <2>1. queue[s] \in Seq(Frame) /\ queue[s] # <<>>
      BY <1>0, <1>4 DEF Write, WireType
    <2>2. Len(Tail(queue[s])) <= Len(queue[s]) /\ Len(Tail(queue[s])) \in Nat /\ Len(queue[s]) \in Nat
      BY <2>1
    <2>3. \A t \in Socket : queue'[t] = IF t = s THEN Tail(queue[s]) ELSE queue[t]
      BY <1>0, <1>4 DEF Write, WireType
    <2>4. Len(Tail(queue[s])) <= PEER_CHAN
      BY <2>2, ServerConstants DEF QueuesBounded
    <2> QED BY <2>3, <2>4 DEF QueuesBounded
  <1>5. ASSUME NEW s \in Socket, WriterGone(s) PROVE QueuesBounded'
    <2>1. \A t \in Socket : queue'[t] = IF t = s THEN <<>> ELSE queue[t]
      BY <1>0, <1>5 DEF WriterGone, WireType
    <2> QED BY <2>1, ServerConstants DEF QueuesBounded
  <1> QED BY <1>1, <1>2, <1>3, <1>4, <1>5, StepKinds

\* A room grows only by a join below the cap; a takeover changes no count.
LEMMA NextKeepsCap ==
  ASSUME TypeOK, RoomsBounded, [Next]_vars
  PROVE  RoomsBounded'
  <1> SUFFICES ASSUME NEW x \in Room PROVE Cardinality(Members(x)') <= HARD_CAP
    BY DEF RoomsBounded
  <1>0. IsFiniteSet(Members(x)) /\ Cardinality(Members(x)) <= HARD_CAP /\ HARD_CAP \in Nat
    BY FS_Subset, ServerConstants DEF Members, RoomsBounded
  <1>1. CASE handle' = handle
    BY <1>0, <1>1 DEF Members
  <1>2. ASSUME NEW s \in Socket, NEW r \in Room, NEW u \in User, NEW sec \in Secret,
               Join(s, r, u, sec)
        PROVE  Cardinality(Members(x)') <= HARD_CAP
    <2>1. CASE x # r \/ u \in Members(r)
      <3>1. Members(x)' = Members(x)
        BY <1>2, <2>1, JoinMembers
      <3> QED BY <1>0, <3>1
    <2>2. CASE x = r /\ u \notin Members(r)
      <3>1. Members(x)' = Members(x) \cup {u}
        BY <1>2, <2>2, JoinMembers
      <3>2. ~(Cardinality(Members(x)) >= HARD_CAP)
        BY <1>2, <2>2 DEF Join, RoomIsFull
      <3>3. Cardinality(Members(x) \cup {u}) = Cardinality(Members(x)) + 1
        BY <1>0, <2>2, FS_AddElement
      <3>4. Cardinality(Members(x)) \in Nat
        BY <1>0, FS_CardinalityType
      <3> QED BY <1>0, <3>1, <3>2, <3>3, <3>4
    <2> QED BY <2>1, <2>2
  <1>3. ASSUME NEW s \in Socket, OwnerCleanup(s)
        PROVE  Cardinality(Members(x)') <= HARD_CAP
    <2>1. Members(x)' \subseteq Members(x)
      BY <1>3, CleanupMembers
    <2>2. /\ Cardinality(Members(x)') <= Cardinality(Members(x))
          /\ Cardinality(Members(x)') \in Nat /\ Cardinality(Members(x)) \in Nat
      BY <1>0, <2>1, FS_Subset, FS_CardinalityType
    <2> QED BY <1>0, <2>2
  <1>4. ASSUME NEW s \in Socket, Write(s) \/ WriterGone(s) PROVE handle' = handle
    BY <1>4 DEF Write, WriterGone, room_vars
  <1> QED BY <1>1, <1>2, <1>3, <1>4, StepKinds DEF NeutralStep

\* No outbound queue exceeds PEER_CHAN frames and no room HARD_CAP members,
\* for any capacities and any number of sockets (the try_send of every frame,
\* the cap check of Join).
THEOREM CapsHold == Spec => []BoundsRespected
  <1>1. Init => QueuesBounded /\ RoomsBounded
    <2> SUFFICES ASSUME Init PROVE QueuesBounded /\ RoomsBounded
      OBVIOUS
    <2>1. QueuesBounded
      BY ServerConstants DEF Init, QueuesBounded
    <2>2. \A r \in Room : Members(r) = {}
      BY DEF Init, Members
    <2>3. RoomsBounded
      BY <2>2, FS_EmptySet, ServerConstants DEF RoomsBounded
    <2> QED BY <2>1, <2>3
  <1>2. TypeOK /\ QueuesBounded /\ RoomsBounded /\ [Next]_vars => (QueuesBounded /\ RoomsBounded)'
    BY NextKeepsQueues, NextKeepsCap
  <1>3. QueuesBounded /\ RoomsBounded <=> BoundsRespected
    BY DEF QueuesBounded, RoomsBounded, BoundsRespected
  <1> QED BY <1>1, <1>2, <1>3, TypeCorrect, PTL DEF Spec

-----------------------------------------------------------------------------
(***************************************************************************)
(* What a client will know once its queue q is delivered over the list w.   *)
(***************************************************************************)
Sees(q, w, v) ==
  \/ \E i \in 1..Len(q) : Adds(q[i], v) /\ \A j \in (i + 1)..Len(q) : ~Drops(q[j], v)
  \/ v \in w /\ \A j \in 1..Len(q) : ~Drops(q[j], v)

LEMMA WillSeeIsSees ==
  \A s \in Socket, v \in User : WillSee(s, v) <=> Sees(queue[s], view[s], v)
  BY DEF WillSee, Sees

\* One more frame at the end of the queue has the last word.
LEMMA SeesAppend ==
  ASSUME NEW q \in Seq(Frame), NEW m \in Frame, NEW w, NEW v
  PROVE  Sees(Append(q, m), w, v) <=> Adds(m, v) \/ (Sees(q, w, v) /\ ~Drops(m, v))
  <1> DEFINE p == Append(q, m)
             n == Len(q)
  <1>1. n \in Nat /\ Len(p) = n + 1 /\ p[n + 1] = m /\ \A i \in 1..n : p[i] = q[i]
    OBVIOUS
  <1> HIDE DEF p, n
  <1>2. ASSUME Adds(m, v) PROVE Sees(p, w, v)
    <2>1. n + 1 \in 1..Len(p) /\ (n + 1 + 1)..Len(p) = {}
      BY <1>1
    <2>2. Adds(p[n + 1], v)
      BY <1>1, <1>2
    <2> QED BY <2>1, <2>2 DEF Sees
  <1>3. ASSUME Sees(q, w, v), ~Drops(m, v) PROVE Sees(p, w, v)
    <2>1. CASE v \in w /\ \A j \in 1..n : ~Drops(q[j], v)
      <3>1. \A j \in 1..Len(p) : ~Drops(p[j], v)
        BY <1>1, <1>3, <2>1
      <3> QED BY <2>1, <3>1 DEF Sees
    <2>2. CASE \E i \in 1..n : Adds(q[i], v) /\ \A j \in (i + 1)..n : ~Drops(q[j], v)
      <3>1. PICK i \in 1..n : Adds(q[i], v) /\ \A j \in (i + 1)..n : ~Drops(q[j], v)
        BY <2>2
      <3>2. i \in 1..Len(p) /\ Adds(p[i], v)
        BY <1>1, <3>1
      <3>3. \A j \in (i + 1)..Len(p) : ~Drops(p[j], v)
        BY <1>1, <1>3, <3>1
      <3> QED BY <3>2, <3>3 DEF Sees
    <2> QED BY <1>3, <2>1, <2>2 DEF Sees, n
  <1>4. ASSUME Sees(p, w, v), ~Adds(m, v) PROVE Sees(q, w, v) /\ ~Drops(m, v)
    <2>1. CASE v \in w /\ \A j \in 1..Len(p) : ~Drops(p[j], v)
      <3>1. (\A j \in 1..n : ~Drops(q[j], v)) /\ ~Drops(m, v)
        BY <1>1, <2>1
      <3> QED BY <2>1, <3>1 DEF Sees, n
    <2>2. CASE \E i \in 1..Len(p) : Adds(p[i], v) /\ \A j \in (i + 1)..Len(p) : ~Drops(p[j], v)
      <3>1. PICK i \in 1..Len(p) : Adds(p[i], v) /\ \A j \in (i + 1)..Len(p) : ~Drops(p[j], v)
        BY <2>2
      <3>2. i \in 1..n /\ Adds(q[i], v)
        BY <1>1, <1>4, <3>1
      <3>3. (\A j \in (i + 1)..n : ~Drops(q[j], v)) /\ ~Drops(m, v)
        BY <1>1, <3>1, <3>2
      <3> QED BY <3>2, <3>3 DEF Sees, n
    <2> QED BY <1>4, <2>1, <2>2 DEF Sees
  <1> QED BY <1>2, <1>3, <1>4 DEF p

\* Delivering the first frame of the queue changes nothing of what the
\* client will know in the end.
LEMMA SeesTail ==
  ASSUME NEW q \in Seq(Frame), q # <<>>, NEW w, NEW v
  PROVE  Sees(Tail(q), ViewAfter(w, Head(q)), v) <=> Sees(q, w, v)
  <1> DEFINE p == Tail(q)
             n == Len(p)
             m == Head(q)
             x == ViewAfter(w, m)
  <1>1. n \in Nat /\ Len(q) = n + 1 /\ q[1] = m /\ \A i \in 1..n : p[i] = q[i + 1]
    OBVIOUS
  <1>2. v \in x <=> Adds(m, v) \/ (v \in w /\ ~Drops(m, v))
    BY DEF ViewAfter, Adds, Drops
  <1> HIDE DEF p, n, m, x
  <1>3. (\A j \in 1..n : ~Drops(p[j], v)) <=> \A j \in 2..Len(q) : ~Drops(q[j], v)
    <2>1. ASSUME \A j \in 2..Len(q) : ~Drops(q[j], v), NEW j \in 1..n PROVE ~Drops(p[j], v)
      <3>1. j + 1 \in 2..Len(q)
        BY <1>1
      <3> QED BY <1>1, <2>1, <3>1
    <2>2. ASSUME \A j \in 1..n : ~Drops(p[j], v), NEW j \in 2..Len(q) PROVE ~Drops(q[j], v)
      <3>1. j - 1 \in 1..n /\ (j - 1) + 1 = j
        BY <1>1
      <3> QED BY <1>1, <2>2, <3>1
    <2> QED BY <2>1, <2>2
  <1>4. ASSUME Sees(p, x, v) PROVE Sees(q, w, v)
    <2>1. CASE v \in x /\ \A j \in 1..n : ~Drops(p[j], v)
      <3>1. CASE Adds(m, v)
        <4>1. 1 \in 1..Len(q) /\ Adds(q[1], v) /\ 1 + 1 = 2
          BY <1>1, <3>1
        <4>2. \A j \in (1 + 1)..Len(q) : ~Drops(q[j], v)
          BY <1>3, <2>1, <4>1
        <4> QED BY <4>1, <4>2 DEF Sees
      <3>2. CASE v \in w /\ ~Drops(m, v)
        <4>1. \A j \in 1..Len(q) : ~Drops(q[j], v)
          BY <1>1, <1>3, <2>1, <3>2
        <4> QED BY <3>2, <4>1 DEF Sees
      <3> QED BY <1>2, <2>1, <3>1, <3>2
    <2>2. CASE \E i \in 1..n : Adds(p[i], v) /\ \A j \in (i + 1)..n : ~Drops(p[j], v)
      <3>1. PICK i \in 1..n : Adds(p[i], v) /\ \A j \in (i + 1)..n : ~Drops(p[j], v)
        BY <2>2
      <3>2. i + 1 \in 1..Len(q) /\ Adds(q[i + 1], v)
        BY <1>1, <3>1
      <3>3. ASSUME NEW j \in ((i + 1) + 1)..Len(q) PROVE ~Drops(q[j], v)
        <4>1. j - 1 \in (i + 1)..n /\ j - 1 \in 1..n /\ (j - 1) + 1 = j
          BY <1>1, <3>1
        <4> QED BY <1>1, <3>1, <4>1
      <3> QED BY <3>2, <3>3 DEF Sees
    <2> QED BY <1>4, <2>1, <2>2 DEF Sees, n
  <1>5. ASSUME Sees(q, w, v) PROVE Sees(p, x, v)
    <2>1. CASE v \in w /\ \A j \in 1..Len(q) : ~Drops(q[j], v)
      <3>1. (\A j \in 2..Len(q) : ~Drops(q[j], v)) /\ ~Drops(m, v)
        BY <1>1, <2>1
      <3> QED BY <1>2, <1>3, <2>1, <3>1 DEF Sees, n
    <2>2. CASE \E i \in 1..Len(q) : Adds(q[i], v) /\ \A j \in (i + 1)..Len(q) : ~Drops(q[j], v)
      <3>1. PICK i \in 1..Len(q) : Adds(q[i], v) /\ \A j \in (i + 1)..Len(q) : ~Drops(q[j], v)
        BY <2>2
      <3>2. CASE i = 1
        <4>1. v \in x /\ \A j \in 2..Len(q) : ~Drops(q[j], v)
          BY <1>1, <1>2, <3>1, <3>2
        <4> QED BY <1>3, <4>1 DEF Sees, n
      <3>3. CASE i # 1
        <4>1. i - 1 \in 1..n /\ Adds(p[i - 1], v)
          BY <1>1, <3>1, <3>3
        <4>2. ASSUME NEW j \in ((i - 1) + 1)..n PROVE ~Drops(p[j], v)
          <5>1. j + 1 \in (i + 1)..Len(q) /\ j \in 1..n
            BY <1>1, <3>1
          <5> QED BY <1>1, <3>1, <5>1
        <4> QED BY <4>1, <4>2 DEF Sees, n
      <3> QED BY <3>2, <3>3
    <2> QED BY <1>5, <2>1, <2>2 DEF Sees
  <1> QED BY <1>4, <1>5 DEF p, x, m

\* The frames a message says nothing of: a neutral one, anything; PeerJoined
\* and PeerLeft, everyone but their user; a Roster, nobody.
LEMMA FrameFacts ==
  /\ \A m \in Neutral, v \in User : ~Adds(m, v) /\ ~Drops(m, v)
  /\ \A u, v \in User : /\ Adds(MsgOf("PeerJoined", u), v) <=> v = u
                        /\ ~Drops(MsgOf("PeerJoined", u), v)
                        /\ ~Adds(MsgOf("PeerLeft", u), v)
                        /\ Drops(MsgOf("PeerLeft", u), v) <=> v = u
  /\ \A ps \in SUBSET User, v \in User : /\ Adds(RosterMsg(ps), v) <=> v \in ps
                                         /\ Drops(RosterMsg(ps), v) <=> v \notin ps
  <1>1. \A m \in Neutral, v \in User : ~Adds(m, v) /\ ~Drops(m, v)
    BY DEF Neutral, Adds, Drops
  <1>2. \A u : /\ MsgOf("PeerJoined", u).t = "PeerJoined" /\ MsgOf("PeerJoined", u).user = u
               /\ MsgOf("PeerLeft", u).t = "PeerLeft" /\ MsgOf("PeerLeft", u).user = u
    BY DEF MsgOf
  <1>3. \A ps : RosterMsg(ps).t = "Roster" /\ RosterMsg(ps).peers = ps
    BY DEF RosterMsg
  <1> QED BY <1>1, <1>2, <1>3 DEF Adds, Drops

\* What a critical section does to a socket that is still written to and has
\* lost nothing: exactly what was sent to it is appended to its queue.
LEMMA SendAllAppends ==
  ASSUME WireType, NEW out \in [Socket -> Seq(Frame)], SendAll(out),
         NEW t \in Socket, writer'[t], ~lost'[t]
  PROVE  /\ writer[t] /\ ~lost[t]
         /\ queue'[t] = queue[t] \o out[t]
         /\ view'[t] = view[t]
  <1>1. writer[t] /\ ~lost[t] /\ ~(Len(queue[t]) + Len(out[t]) > PEER_CHAN) /\ view'[t] = view[t]
    BY DEF SendAll
  <1>2. queue'[t] = TrySend(queue[t], out[t])
    BY <1>1 DEF SendAll
  <1>3. queue[t] \in Seq(Frame) /\ out[t] \in Seq(Frame)
    BY DEF WireType
  <1>4. Len(queue[t] \o out[t]) <= PEER_CHAN
    BY <1>1, <1>3, ServerConstants
  <1> QED BY <1>1, <1>2, <1>4 DEF TrySend

LEMMA SendToAppends ==
  ASSUME WireType, NEW S, NEW m \in Frame, SendTo(S, m),
         NEW t \in Socket, writer'[t], ~lost'[t]
  PROVE  /\ writer[t] /\ ~lost[t]
         /\ queue'[t] = IF t \in S THEN Append(queue[t], m) ELSE queue[t]
         /\ view'[t] = view[t]
  <1> DEFINE out == [x \in Socket |-> IF x \in S THEN <<m>> ELSE <<>>]
  <1>1. out \in [Socket -> Seq(Frame)] /\ out[t] = IF t \in S THEN <<m>> ELSE <<>>
    OBVIOUS
  <1>2. SendAll(out)
    BY DEF SendTo
  <1> HIDE DEF out
  <1>3. writer[t] /\ ~lost[t] /\ queue'[t] = queue[t] \o out[t] /\ view'[t] = view[t]
    BY <1>1, <1>2, SendAllAppends
  <1>4. queue[t] \in Seq(Frame)
    BY DEF WireType
  <1>5. queue[t] \o <<m>> = Append(queue[t], m) /\ queue[t] \o <<>> = queue[t]
    BY <1>4
  <1> QED BY <1>1, <1>3, <1>5

-----------------------------------------------------------------------------
(***************************************************************************)
(* Every step keeps the members' lists in sync.                            *)
(***************************************************************************)
\* The handle of a member is a socket, and no socket holds two.
LEMMA OneHandleEach ==
  ASSUME TypeOK, NoGhostMember, NEW r \in Room, NEW u \in User, handle[r][u] # None
  PROVE  /\ handle[r][u] \in Socket
         /\ \A x \in Room, y \in User : handle[x][y] = handle[r][u] => x = r /\ y = u
  BY DEF TypeOK, NoGhostMember

\* A warning may follow another frame.
LEMMA SeesAfterWarn ==
  ASSUME NEW q \in Seq(Frame), NEW m \in Frame, NEW warn \in {<<>>, <<Msg("Warn")>>},
         NEW w, NEW v \in User
  PROVE  Sees(q \o (<<m>> \o warn), w, v) <=> Adds(m, v) \/ (Sees(q, w, v) /\ ~Drops(m, v))
  <1>1. Append(q, m) \in Seq(Frame)
    OBVIOUS
  <1>2. CASE warn = <<>>
    <2>1. q \o (<<m>> \o warn) = Append(q, m)
      BY <1>2
    <2>2. Sees(Append(q, m), w, v) <=> Adds(m, v) \/ (Sees(q, w, v) /\ ~Drops(m, v))
      BY SeesAppend
    <2> QED BY <2>1, <2>2
  <1>3. CASE warn = <<Msg("Warn")>>
    <2> DEFINE k == Msg("Warn")
    <2>1. k \in Neutral
      BY NeutralFrames DEF Plain
    <2>2. k \in Frame
      BY <2>1 DEF Neutral
    <2> HIDE DEF k
    <2>3. q \o (<<m>> \o <<k>>) = Append(Append(q, m), k)
      BY <2>2
    <2>4. Sees(Append(Append(q, m), k), w, v) <=> Adds(k, v) \/ (Sees(Append(q, m), w, v) /\ ~Drops(k, v))
      BY <1>1, <2>2, SeesAppend
    <2>5. ~Adds(k, v) /\ ~Drops(k, v)
      BY <2>1, FrameFacts
    <2>6. Sees(Append(q, m), w, v) <=> Adds(m, v) \/ (Sees(q, w, v) /\ ~Drops(m, v))
      BY SeesAppend
    <2>7. q \o (<<m>> \o warn) = Append(Append(q, m), k)
      BY <1>3, <2>3 DEF k
    <2> QED BY <2>4, <2>5, <2>6, <2>7
  <1> QED BY <1>2, <1>3

\* The list of the client at t, once delivered, is S.
Knows(t, S) == \A v \in User : Sees(queue[t], view[t], v) <=> v \in S

Synced == \A r \in Room, u \in User :
            LET t == handle[r][u] IN
            t # None /\ writer[t] /\ ~lost[t] => Knows(t, Members(r) \ {u})

LEMMA SyncedIsNoHidden == TypeOK /\ Synced => NoHiddenParticipants
  <1> SUFFICES ASSUME TypeOK, Synced, NEW r \in Room, NEW u \in User,
                      handle[r][u] # None, writer[handle[r][u]], ~lost[handle[r][u]],
                      NEW v \in User
               PROVE  WillSee(handle[r][u], v) <=> v \in Members(r) \ {u}
    BY DEF NoHiddenParticipants, InSync
  <1>1. handle[r][u] \in Socket
    BY DEF TypeOK
  <1>2. Knows(handle[r][u], Members(r) \ {u})
    BY DEF Synced
  <1> QED BY <1>1, <1>2, WillSeeIsSees DEF Knows

LEMMA NeutralKeepsSync ==
  ASSUME TypeOK, Synced, NeutralStep
  PROVE  Synced'
  <1> SUFFICES ASSUME NEW r \in Room, NEW u \in User, NEW t, t = handle'[r][u],
                      t # None, writer'[t], ~lost'[t]
               PROVE  Knows(t, Members(r) \ {u})'
    BY DEF Synced
  <1>0. WireType /\ t \in Socket /\ t = handle[r][u] /\ Members(r)' = Members(r)
    BY TypeSplit DEF NeutralStep, TypeOK, Members
  <1>1. CASE UNCHANGED wire_vars
    BY <1>0, <1>1 DEF wire_vars, Synced, Knows
  <1>2. ASSUME NEW S \in SUBSET Socket, NEW m \in Neutral, SendTo(S, m)
        PROVE  Knows(t, Members(r) \ {u})'
    <2>1. m \in Frame
      BY DEF Neutral
    <2>2. /\ writer[t] /\ ~lost[t]
          /\ queue'[t] = IF t \in S THEN Append(queue[t], m) ELSE queue[t]
          /\ view'[t] = view[t]
      BY <1>0, <1>2, <2>1, SendToAppends
    <2>3. queue[t] \in Seq(Frame)
      BY <1>0 DEF WireType
    <2>4. \A v \in User : Sees(Append(queue[t], m), view[t], v) <=> Sees(queue[t], view[t], v)
      BY <2>1, <2>3, SeesAppend, FrameFacts
    <2>5. Knows(t, Members(r) \ {u})
      BY <1>0, <2>2 DEF Synced
    <2> QED BY <1>0, <2>2, <2>4, <2>5 DEF Knows
  <1> QED BY <1>1, <1>2 DEF NeutralStep

\* Whom a join tells what: the joiner the list of the others, the others of
\* the joiner, each perhaps with a warning.
Told(s, r, u, t, warn) ==
  /\ t = s => JoinFrames(s, r, u, t) = <<RosterMsg(Members(r) \ {u})>> \o warn
  /\ t # s /\ t # handle[r][u] =>
       JoinFrames(s, r, u, t) = IF t \in Others(r, u)
                                THEN <<MsgOf("PeerJoined", u)>> \o warn ELSE <<>>

LEMMA JoinFrameKinds ==
  ASSUME NEW s \in Socket, NEW r \in Room, NEW u \in User, NEW t \in Socket,
         \A x \in Room, y \in User : handle[x][y] # s
  PROVE  \E warn \in {<<>>, <<Msg("Warn")>>} : Told(s, r, u, t, warn)
  <1> DEFINE warn == IF Cardinality(Members(r) \cup {u}) >= WARN_CAP THEN <<Msg("Warn")>> ELSE <<>>
  <1>1. warn \in {<<>>, <<Msg("Warn")>>}
    OBVIOUS
  <1>2. JoinFrames(s, r, u, t) =
          CASE t = s              -> <<RosterMsg(Members(r) \ {u})>> \o warn
            [] t = handle[r][u]   -> <<Msg("Error")>>
            [] t \in Others(r, u) -> <<MsgOf("PeerJoined", u)>> \o warn
            [] OTHER              -> <<>>
    BY DEF JoinFrames, Greeting, JoinRoster
  <1> HIDE DEF warn
  <1>3. t = s => JoinFrames(s, r, u, t) = <<RosterMsg(Members(r) \ {u})>> \o warn
    BY <1>2 DEF Others
  <1>4. t # s /\ t # handle[r][u] =>
          JoinFrames(s, r, u, t) = IF t \in Others(r, u)
                                   THEN <<MsgOf("PeerJoined", u)>> \o warn ELSE <<>>
    BY <1>2
  <1> QED BY <1>1, <1>3, <1>4 DEF Told

LEMMA JoinKeepsSync ==
  ASSUME ServerInv, Synced, NEW s \in Socket, NEW r \in Room, NEW u \in User,
         NEW sec \in Secret, Join(s, r, u, sec)
  PROVE  Synced'
  <1> SUFFICES ASSUME NEW x \in Room, NEW y \in User, NEW t, t = handle'[x][y],
                      t # None, writer'[t], ~lost'[t]
               PROVE  Knows(t, Members(x) \ {y})'
    BY DEF Synced
  <1> DEFINE out == [z \in Socket |-> JoinFrames(s, r, u, z)]
  <1>0. TypeOK /\ NoGhostMember /\ WireType
    BY TypeSplit DEF ServerInv
  <1>1. /\ me[s] = None
        /\ \A a \in Room, b \in User : handle'[a][b] = IF a = r /\ b = u THEN s ELSE handle[a][b]
    BY <1>0 DEF Join, TypeOK
  <1>2. Members(x)' = IF x = r THEN Members(x) \cup {u} ELSE Members(x)
    BY <1>0, JoinMembers
  <1>3. t \in Socket
    <2>1. handle[x][y] \in Socket \cup {None}
      BY <1>0 DEF TypeOK
    <2>2. t = IF x = r /\ y = u THEN s ELSE handle[x][y]
      BY <1>1
    <2> QED BY <2>1, <2>2
  <1>4. /\ writer[t] /\ ~lost[t]
        /\ queue'[t] = queue[t] \o JoinFrames(s, r, u, t)
        /\ view'[t] = view[t]
    <2>1. out \in [Socket -> Seq(Frame)] /\ out[t] = JoinFrames(s, r, u, t)
      BY <1>3, JoinFramesType
    <2>2. SendAll(out)
      BY DEF Join
    <2> HIDE DEF out
    <2>3. writer[t] /\ ~lost[t] /\ queue'[t] = queue[t] \o out[t] /\ view'[t] = view[t]
      BY <1>0, <1>3, <2>1, <2>2, SendAllAppends
    <2> QED BY <2>1, <2>3
  <1> HIDE DEF out
  <1>5. queue[t] \in Seq(Frame)
    BY <1>0, <1>3 DEF WireType
  <1> PICK warn \in {<<>>, <<Msg("Warn")>>} : Told(s, r, u, t, warn)
    <2>1. \A a \in Room, b \in User : handle[a][b] # s
      BY <1>1, NotJoinedNoHandle
    <2> QED BY <1>3, <2>1, JoinFrameKinds
  <1>6. CASE x = r /\ y = u
    <2>1. t = s
      BY <1>1, <1>6
    <2>2. JoinFrames(s, r, u, t) = <<RosterMsg(Members(r) \ {u})>> \o warn
      BY <2>1 DEF Told
    <2>3. Members(r) \ {u} \in SUBSET User
      BY DEF Members
    <2>4. RosterMsg(Members(r) \ {u}) \in Frame
      BY <2>3, FrameTypes
    <2> DEFINE m == RosterMsg(Members(r) \ {u})
    <2>5. queue'[t] = queue[t] \o (<<m>> \o warn) /\ view'[t] = view[t]
      BY <1>4, <2>2
    <2>6. \A v \in User : Adds(m, v) <=> v \in Members(r) \ {u}
      BY <2>3, FrameFacts
    <2>7. \A v \in User : Drops(m, v) <=> v \notin Members(r) \ {u}
      BY <2>3, FrameFacts
    <2> HIDE DEF m
    <2>8. \A v \in User : Sees(queue[t] \o (<<m>> \o warn), view[t], v)
                            <=> Adds(m, v) \/ (Sees(queue[t], view[t], v) /\ ~Drops(m, v))
      BY <1>5, <2>4, SeesAfterWarn DEF m
    <2>9. \A v \in User : Sees(queue'[t], view'[t], v) <=> v \in Members(r) \ {u}
      BY <2>5, <2>6, <2>7, <2>8
    <2> QED BY <1>2, <1>6, <2>9 DEF Knows
  <1>7. CASE ~(x = r /\ y = u)
    <2>1. t = handle[x][y]
      BY <1>1, <1>7
    <2>2. t # s
      BY <1>1, <2>1, NotJoinedNoHandle
    <2>3. \A a \in Room, b \in User : handle[a][b] = t => a = x /\ b = y
      BY <1>0, <2>1, OneHandleEach
    <2>4. t # handle[r][u]
      BY <1>7, <2>3
    <2>5. Knows(t, Members(x) \ {y})
      BY <1>4, <2>1 DEF Synced
    <2>6. CASE x = r
      <3>1. t \in Others(r, u)
        BY <1>3, <1>7, <2>1, <2>6 DEF Others
      <3>2. JoinFrames(s, r, u, t) = <<MsgOf("PeerJoined", u)>> \o warn
        BY <2>2, <2>4, <3>1 DEF Told
      <3>3. MsgOf("PeerJoined", u) \in Frame
        BY FrameTypes DEF OfUser
      <3>4. \A v \in User : Sees(queue'[t], view'[t], v) <=> v = u \/ Sees(queue[t], view[t], v)
        <4> DEFINE m == MsgOf("PeerJoined", u)
        <4>1. queue'[t] = queue[t] \o (<<m>> \o warn) /\ view'[t] = view[t]
          BY <1>4, <3>2
        <4>2. \A v \in User : (Adds(m, v) <=> v = u) /\ ~Drops(m, v)
          BY FrameFacts
        <4> HIDE DEF m
        <4>3. \A v \in User : Sees(queue[t] \o (<<m>> \o warn), view[t], v)
                                <=> Adds(m, v) \/ (Sees(queue[t], view[t], v) /\ ~Drops(m, v))
          BY <1>5, <3>3, SeesAfterWarn DEF m
        <4> QED BY <4>1, <4>2, <4>3
      <3> QED BY <1>2, <1>7, <2>5, <2>6, <3>4 DEF Knows
    <2>7. CASE x # r
      <3>1. t \notin Others(r, u)
        BY <2>3, <2>7 DEF Others
      <3>2. JoinFrames(s, r, u, t) = <<>>
        BY <2>2, <2>4, <3>1 DEF Told
      <3>3. queue'[t] = queue[t]
        BY <1>4, <1>5, <3>2
      <3> QED BY <1>2, <1>4, <2>5, <2>7, <3>3 DEF Knows
    <2> QED BY <2>6, <2>7
  <1> QED BY <1>6, <1>7

LEMMA CleanupKeepsSync ==
  ASSUME ServerInv, Synced, NEW s \in Socket, OwnerCleanup(s)
  PROVE  Synced'
  <1> SUFFICES ASSUME NEW x \in Room, NEW y \in User, NEW t, t = handle'[x][y],
                      t # None, writer'[t], ~lost'[t]
               PROVE  Knows(t, Members(x) \ {y})'
    BY DEF Synced
  <1> DEFINE r == place[s]
             u == me[s]
             m == MsgOf("PeerLeft", u)
  <1>0. TypeOK /\ NoGhostMember /\ WireType
    BY TypeSplit DEF ServerInv
  <1>1. u \in User /\ r \in Room /\ m \in Frame
    BY <1>0, FrameTypes DEF TypeOK, OwnerCleanup, OfUser
  <1>2. /\ handle' = [handle EXCEPT ![r][u] = None]
        /\ SendTo(Others(r, u), m)
    BY DEF OwnerCleanup, Cleanup
  <1>3. \A a \in Room, b \in User : handle'[a][b] = IF a = r /\ b = u THEN None ELSE handle[a][b]
    BY <1>0, <1>1, <1>2 DEF TypeOK
  <1>4. t = handle[x][y] /\ ~(x = r /\ y = u) /\ t \in Socket
    BY <1>0, <1>3 DEF TypeOK
  <1>5. Members(x)' = IF x = r THEN Members(x) \ {u} ELSE Members(x)
    BY <1>0, CleanupMembers
  <1> HIDE DEF m, r, u
  <1>6. /\ writer[t] /\ ~lost[t]
        /\ queue'[t] = IF t \in Others(r, u) THEN Append(queue[t], m) ELSE queue[t]
        /\ view'[t] = view[t]
    BY <1>0, <1>1, <1>2, <1>4, SendToAppends
  <1>7. Knows(t, Members(x) \ {y}) /\ queue[t] \in Seq(Frame)
    BY <1>0, <1>4, <1>6 DEF Synced, WireType
  <1>8. CASE x = r
    <2>1. t \in Others(r, u)
      BY <1>4, <1>8 DEF Others
    <2>2. \A v \in User : Sees(queue'[t], view'[t], v) <=> v # u /\ Sees(queue[t], view[t], v)
      BY <1>1, <1>6, <1>7, <2>1, SeesAppend, FrameFacts DEF m
    <2> QED BY <1>5, <1>7, <1>8, <2>2 DEF Knows
  <1>9. CASE x # r
    <2>1. t \notin Others(r, u)
      BY <1>0, <1>1, <1>4, <1>9, OneHandleEach DEF Others
    <2> QED BY <1>5, <1>6, <1>7, <1>9, <2>1 DEF Knows
  <1> QED BY <1>8, <1>9

LEMMA WriterKeepsSync ==
  ASSUME TypeOK, Synced, NEW s \in Socket, Write(s) \/ WriterGone(s)
  PROVE  Synced'
  <1> SUFFICES ASSUME NEW r \in Room, NEW u \in User, NEW t, t = handle'[r][u],
                      t # None, writer'[t], ~lost'[t]
               PROVE  Knows(t, Members(r) \ {u})'
    BY DEF Synced
  <1>0. WireType /\ handle' = handle
    BY TypeSplit DEF Write, WriterGone, room_vars
  <1>1. t = handle[r][u] /\ t \in Socket /\ Members(r)' = Members(r)
    BY <1>0 DEF TypeOK, Members
  <1>2. writer[t] /\ ~lost[t]
    BY <1>0, <1>1 DEF Write, WriterGone, WireType
  <1>3. Knows(t, Members(r) \ {u}) /\ queue[t] \in Seq(Frame)
    BY <1>0, <1>1, <1>2 DEF Synced, WireType
  <1>4. CASE Write(s) /\ t = s
    <2>1. queue'[t] = Tail(queue[t]) /\ view'[t] = ViewAfter(view[t], Head(queue[t])) /\ queue[t] # <<>>
      BY <1>0, <1>4 DEF Write, WireType
    <2>2. \A v \in User : Sees(queue'[t], view'[t], v) <=> Sees(queue[t], view[t], v)
      BY <1>3, <2>1, SeesTail
    <2> QED BY <1>1, <1>3, <2>2 DEF Knows
  <1>5. CASE t # s
    <2>1. queue'[t] = queue[t] /\ view'[t] = view[t]
      BY <1>0, <1>1, <1>5 DEF Write, WriterGone, WireType
    <2> QED BY <1>1, <1>3, <2>1 DEF Knows
  <1>6. CASE WriterGone(s) /\ t = s
    BY <1>0, <1>1, <1>6 DEF WriterGone, WireType
  <1> QED BY <1>4, <1>5, <1>6

\* No hidden participants: for any number of sockets, users and rooms and any
\* caps, what a connected member that has lost no frame has been sent adds up
\* to exactly the other members of its room (the Roster of Join, PeerJoined
\* and PeerLeft).
THEOREM NobodyHidden == Spec => []NoHiddenParticipants
  <1>1. Init => Synced
    BY DEF Init, Synced
  <1>2. ServerInv /\ Synced /\ [Next]_vars => Synced'
    <2> SUFFICES ASSUME ServerInv, Synced, [Next]_vars PROVE Synced'
      OBVIOUS
    <2>1. TypeOK
      BY DEF ServerInv
    <2> QED BY <2>1, StepKinds, NeutralKeepsSync, JoinKeepsSync, CleanupKeepsSync, WriterKeepsSync
  <1>3. ServerInv /\ Synced => NoHiddenParticipants
    BY SyncedIsNoHidden DEF ServerInv
  <1> QED BY <1>1, <1>2, <1>3, ServerInvariant, PTL DEF Spec
=============================================================================

------------------------------ MODULE GroupKey ------------------------------
(***************************************************************************)
(* Group-audio keying across the nodes of one room (companion-core:         *)
(* RoomKeyCoordinator and the engine loop that drives it, over the mesh).   *)
(*                                                                         *)
(* Each node runs one select! loop over three sources that nothing orders   *)
(* against each other: frames of the signaling server (inbox, FIFO), events *)
(* of its peer connections (chan, FIFO per peer) and grace timers.  One     *)
(* step is one arm of that loop.                                           *)
(*                                                                         *)
(* The server is modelled by what InitServer shows it delivers: one order   *)
(* of joins and departures for everyone.  A link is modelled by what the    *)
(* mesh builds: the smaller id offers; when the data channel opens the      *)
(* larger one holds a session first (Hello) and the smaller one once the    *)
(* Reply arrives; sealed frames follow in order.  Whatever is in flight     *)
(* when a connection is torn down may be lost.                             *)
(***************************************************************************)
EXTENDS RoomAudio, FiniteSets

CONSTANTS
    Scenario,        \* bound: how a behaviour starts and what users do in it
    SameTick,        \* two grace timers can expire in one timer tick
    Overtake,        \* a sealed frame can overtake the Reply sent before it
    ROOM_GEN_BOUND,  \* largest jump of a received generation
    Gen              \* generations the ring of a node is offered: see KR

\* A scenario: the founders, whose room has formed and settled already, the
\* nodes that may leave, and how many "re-encrypt session" requests are made,
\* signaling connections lost and peer connections broken.
ScenarioType == [founders : SUBSET Node, leavers : SUBSET Node,
                 rekeys : Nat, reconnects : Nat, fails : Nat]

ASSUME GroupConstants ==
    /\ IsFiniteSet(Node)
    /\ Scenario \subseteq ScenarioType
    /\ SameTick \in BOOLEAN
    /\ Overtake \in BOOLEAN
    /\ ROOM_GEN_BOUND \in Nat
    /\ Gen \subseteq Nat \ {0}

VARIABLES
    room,      \* server: ids with a handle in the room
    inbox,     \* server frames a node has yet to process
    status,    \* "out" (yet to join), "in", "gone"
    online,    \* nodes with a signaling connection
    members,   \* `members` of the engine loop: the other ids
    send,      \* the key ring of every node: see KeyRing
    cur,
    prev,
    room_gen,
    timers,
    link,      \* pairs <<i, j>>, i < j, with an open data channel
    sess,      \* sess[i]: peers i holds a pairwise session with
    chan,      \* chan[i][j]: mesh events from i that j has yet to process
    known,     \* history: keys a node has ever held
    sealed,    \* history: keys some node has sealed audio with
    before,    \* history: `sealed` when the node joined
    budget     \* what is left of the scenario

server_vars == <<room, inbox, status, online>>
ring_vars   == <<send, cur, prev, room_gen, timers>>
mesh_vars   == <<link, sess, chan>>
hist_vars   == <<known, sealed>>
vars == <<room, inbox, status, online, members, send, cur, prev, room_gen,
          timers, link, sess, chan, known, sealed, before, budget>>

\* Frames of the server, and events of the mesh.
Roster(ps)    == [t |-> "Roster", user |-> 0, peers |-> ps]
PeerJoined(u) == [t |-> "PeerJoined", user |-> u, peers |-> {}]
PeerLeft(u)   == [t |-> "PeerLeft", user |-> u, peers |-> {}]
Rekey         == [t |-> "Rekey", user |-> 0, peers |-> {}]

Secure     == [t |-> "Secure", key |-> NoKey]
Reply      == [t |-> "Reply", key |-> NoKey]
KeyMsg(k)  == [t |-> "RoomKey", key |-> k]
GenMsg(g)  == [t |-> "RoomGen", key |-> [gen |-> g, auth |-> 0]]

\* A room formed by two or more founders has its first key, minted by the
\* smallest of them when its first session came up.
FirstKey(F) == [gen |-> 1, auth |-> CHOOSE a \in F : \A f \in F : a <= f]

Settled(F) == \E i, j \in F : i # j
Formed(F, n, x, y) == IF Settled(F) /\ n \in F THEN x ELSE y

InitWith(F) ==
    /\ room = F
    /\ inbox = [n \in Node |-> <<>>]
    /\ status = [n \in Node |-> IF n \in F THEN "in" ELSE "out"]
    /\ online = F
    /\ members = [n \in Node |-> Formed(F, n, F \ {n}, {})]
    /\ send = [n \in Node |-> Formed(F, n, FirstKey(F), NoKey)]
    /\ cur = [n \in Node |-> Formed(F, n, FirstKey(F), NoKey)]
    /\ prev = [n \in Node |-> <<>>]
    /\ room_gen = [n \in Node |-> Formed(F, n, 1, 0)]
    /\ timers = [n \in Node |-> <<>>]
    /\ link = {e \in F \X F : e[1] < e[2]}
    /\ sess = [n \in Node |-> Formed(F, n, F \ {n}, {})]
    /\ chan = [i \in Node |-> [j \in Node |-> <<>>]]
    /\ known = [n \in Node |-> Formed(F, n, {FirstKey(F)}, {})]
    /\ sealed = IF Settled(F) THEN {FirstKey(F)} ELSE {}
    /\ before = [n \in Node |-> {}]

Init == \E sc \in Scenario : InitWith(sc.founders) /\ budget = sc

-----------------------------------------------------------------------------
(***************************************************************************)
(* Who is the authority, from a node's own member list.                    *)
(***************************************************************************)
AmAuthority(n, mem) == \A m \in mem : n < m

IsAuthorityPeer(from, n, mem) == from < n /\ \A m \in mem : m = from \/ from < m

-----------------------------------------------------------------------------
(***************************************************************************)
(* The key ring of node n.                                                 *)
(***************************************************************************)
KeepRing == UNCHANGED <<ring_vars, hist_vars>>

\* k becomes the staged key of n and is promoted, now or after the grace.
Take(n, k) ==
    /\ cur' = [cur EXCEPT ![n] = k]
    /\ prev' = [prev EXCEPT ![n] = PrevAfterStage(cur[n], @)]
    /\ room_gen' = [room_gen EXCEPT ![n] = MaxOf(@, k.gen)]
    /\ known' = [known EXCEPT ![n] = @ \cup {k}]
    /\ IF send[n] = NoKey
       THEN /\ send' = [send EXCEPT ![n] = k]
            /\ sealed' = sealed \cup {k}
            /\ UNCHANGED timers
       ELSE /\ \E same \in BOOLEAN :
                 /\ same => SameTick /\ timers[n] # <<>>
                 /\ timers' = [timers EXCEPT ![n] = Schedule(@, k.gen, same)]
            /\ UNCHANGED <<send, sealed>>

\* Mutant: any key is taken.
AdoptAny(n, k) == Take(n, k)

\* adopt(k) at n; a key that is not better is a no-op.
Adopt(n, k) == IF Better(k, cur[n]) THEN Take(n, k) ELSE KeepRing

\* A key of generation g minted by n.
Mint(n, g) == [gen |-> g, auth |-> n]

\* A sealed frame from n to each of `peers` it holds a session with (ss[n]);
\* it gets through only while the data channel of the pair is open.
SendEach(ch, lk, ss, n, peers, m) ==
    [ch EXCEPT ![n] = [p \in Node |->
        IF p \in peers \cap ss[n] /\ (<<n, p>> \in lk \/ <<p, n>> \in lk)
        THEN Append(@[p], m) ELSE @[p]]]

\* The tail of an engine arm that may rotate: with the mesh as the arm left
\* it, mint above generation g, adopt, and hand the current key to every
\* secure member; or leave the keys alone.
RotateIf(cond, n, g, mem, lk, ss, ch) ==
    /\ link' = lk
    /\ sess' = ss
    /\ IF cond
       THEN /\ Adopt(n, Mint(n, g + 1))
            /\ chan' = SendEach(ch, lk, ss, n, mem, KeyMsg(cur'[n]))
       ELSE /\ KeepRing
            /\ chan' = ch

-----------------------------------------------------------------------------
(***************************************************************************)
(* Tearing down peer connections of n.  Events of an old connection that    *)
(* had already arrived stay queued (keep), or were still in flight and are  *)
(* lost; a Reply in flight dies with its connection.                        *)
(***************************************************************************)
Pairs(n, ps) == {<<n, p>> : p \in ps} \cup {<<p, n>> : p \in ps}

Arrived(q) ==
    LET rs == {i \in 1..Len(q) : q[i] = Reply}
    IN  IF rs = {} THEN q ELSE SubSeq(q, 1, (CHOOSE i \in rs : \A j \in rs : i <= j) - 1)

CutChan(n, ps, keep) ==
    [i \in Node |-> [j \in Node |->
        IF <<i, j>> \in Pairs(n, ps)
        THEN IF keep THEN Arrived(chan[i][j]) ELSE <<>>
        ELSE chan[i][j]]]

ForgetSess(n, ps) == [sess EXCEPT ![n] = @ \ ps]

\* on_peer for each of ps: only the smaller id rebuilds.
Offered(n, ps) == {p \in ps : n < p}

-----------------------------------------------------------------------------
(***************************************************************************)
(* The room: joins, departures, lost signaling connections, rekey requests. *)
(***************************************************************************)
\* Append m to the inbox of every connected member of the room but n.
Tell(n, m) ==
    [k \in Node |-> IF k \in (room \cap online) \ {n} THEN Append(inbox[k], m) ELSE inbox[k]]

\* A new node joins: its Roster to it, PeerJoined to the others.
JoinRoom(n) ==
    /\ status[n] = "out"
    /\ status' = [status EXCEPT ![n] = "in"]
    /\ online' = online \cup {n}
    /\ room' = room \cup {n}
    /\ inbox' = [Tell(n, PeerJoined(n)) EXCEPT ![n] = <<Roster(room)>>]
    /\ before' = [before EXCEPT ![n] = sealed]
    /\ UNCHANGED <<members, ring_vars, mesh_vars, hist_vars, budget>>

\* The engine stops; its connections close, the server tells the others.
LeaveRoom(n) ==
    /\ n \in budget.leavers
    /\ n \in room \cap online
    /\ status' = [status EXCEPT ![n] = "gone"]
    /\ online' = online \ {n}
    /\ room' = room \ {n}
    /\ inbox' = [Tell(n, PeerLeft(n)) EXCEPT ![n] = <<>>]
    /\ link' = link \ Pairs(n, Node)
    /\ \E keep \in BOOLEAN : chan' = CutChan(n, Node, keep)
    /\ sess' = ForgetSess(n, Node)
    /\ UNCHANGED <<members, ring_vars, hist_vars, before, budget>>

\* The signaling connection of n breaks; the mesh keeps running.
SignalingLost(n) ==
    /\ n \in online
    /\ budget.reconnects > 0
    /\ online' = online \ {n}
    /\ inbox' = [inbox EXCEPT ![n] = <<>>]
    /\ budget' = [budget EXCEPT !.reconnects = @ - 1]
    /\ UNCHANGED <<room, status, members, ring_vars, mesh_vars, hist_vars, before>>

\* The server notices the dead connection before n is back.
ServerNotices(n) ==
    /\ n \in room \ online
    /\ room' = room \ {n}
    /\ inbox' = Tell(n, PeerLeft(n))
    /\ UNCHANGED <<status, online, members, ring_vars, mesh_vars, hist_vars, before, budget>>

\* n reconnects and joins again, superseding its old handle if still there.
Rejoin(n) ==
    /\ status[n] = "in"
    /\ n \notin online
    /\ online' = online \cup {n}
    /\ room' = room \cup {n}
    /\ inbox' = [Tell(n, PeerJoined(n)) EXCEPT ![n] = <<Roster(room \ {n})>>]
    /\ UNCHANGED <<status, members, ring_vars, mesh_vars, hist_vars, before, budget>>

\* A member asks for a rekey; the server sends it to everyone in the room.
RekeyRoom ==
    /\ room \cap online # {}
    /\ budget.rekeys > 0
    /\ inbox' = Tell(0, Rekey)
    /\ budget' = [budget EXCEPT !.rekeys = @ - 1]
    /\ UNCHANGED <<room, status, online, members, ring_vars, mesh_vars, hist_vars, before>>

-----------------------------------------------------------------------------
(***************************************************************************)
(* The engine loop, server frames.                                         *)
(***************************************************************************)
Receive(n, t) ==
    /\ n \in online
    /\ inbox[n] # <<>>
    /\ Head(inbox[n]).t = t
    /\ inbox' = [inbox EXCEPT ![n] = Tail(@)]
    /\ UNCHANGED <<room, status, online, before, budget>>

OnRoster(n) ==
    LET peers == Head(inbox[n]).peers
        gone  == members[n] \ peers
        torn  == gone \cup Offered(n, peers)
    IN  /\ Receive(n, "Roster")
        /\ members' = [members EXCEPT ![n] = peers]
        /\ \E keep \in BOOLEAN :
             RotateIf(gone # {} /\ AmAuthority(n, peers), n, room_gen[n], peers,
                      link \ Pairs(n, torn), ForgetSess(n, torn), CutChan(n, torn, keep))

\* Mutant: a joiner is handed the live key.
OnPeerJoinedNoRotate(n) ==
    LET u    == Head(inbox[n]).user
        torn == Offered(n, {u})
    IN  /\ Receive(n, "PeerJoined")
        /\ members' = [members EXCEPT ![n] = @ \cup {u}]
        /\ \E keep \in BOOLEAN :
             RotateIf(FALSE, n, room_gen[n], {}, link \ Pairs(n, torn),
                      ForgetSess(n, torn), CutChan(n, torn, keep))

OnPeerJoined(n) ==
    LET u    == Head(inbox[n]).user
        mem  == members[n] \cup {u}
        torn == Offered(n, {u})
    IN  /\ Receive(n, "PeerJoined")
        /\ members' = [members EXCEPT ![n] = mem]
        /\ \E keep \in BOOLEAN :
             RotateIf(AmAuthority(n, mem) /\ cur[n] # NoKey, n, room_gen[n], mem,
                      link \ Pairs(n, torn), ForgetSess(n, torn), CutChan(n, torn, keep))

\* Mutant: a departure does not rotate the key.
OnPeerLeftNoRotate(n) ==
    LET u == Head(inbox[n]).user
    IN  /\ Receive(n, "PeerLeft")
        /\ members' = [members EXCEPT ![n] = @ \ {u}]
        /\ \E keep \in BOOLEAN :
             RotateIf(FALSE, n, room_gen[n], {}, link \ Pairs(n, {u}),
                      ForgetSess(n, {u}), CutChan(n, {u}, keep))

OnPeerLeft(n) ==
    LET u   == Head(inbox[n]).user
        mem == members[n] \ {u}
    IN  /\ Receive(n, "PeerLeft")
        /\ members' = [members EXCEPT ![n] = mem]
        /\ \E keep \in BOOLEAN :
             RotateIf(AmAuthority(n, mem), n, room_gen[n], mem,
                      link \ Pairs(n, {u}), ForgetSess(n, {u}), CutChan(n, {u}, keep))

\* mesh.rekey() rebuilds the links n offers but leaves their sessions.
OnRekey(n) ==
    LET torn == Offered(n, members[n])
    IN  /\ Receive(n, "Rekey")
        /\ UNCHANGED members
        /\ \E keep \in BOOLEAN :
             RotateIf(AmAuthority(n, members[n]), n, room_gen[n], members[n],
                      link \ Pairs(n, torn), sess, CutChan(n, torn, keep))

-----------------------------------------------------------------------------
(***************************************************************************)
(* Links and the pairwise handshake.                                       *)
(***************************************************************************)
\* The data channel of i < j opens: i drops any old session and sends Hello,
\* j has its session and a Secure event, the Reply is on its way to i.
Connect(i, j) ==
    /\ i < j
    /\ {i, j} \subseteq room \cap online
    /\ j \in members[i] /\ i \in members[j]
    /\ <<i, j>> \notin link
    /\ link' = link \cup {<<i, j>>}
    /\ sess' = [sess EXCEPT ![i] = @ \ {j}, ![j] = @ \cup {i}]
    /\ chan' = [chan EXCEPT ![i][j] = Append(@, Secure), ![j][i] = Append(@, Reply)]
    /\ UNCHANGED <<server_vars, members, ring_vars, hist_vars, before, budget>>

\* The Reply reaches i: its session is up, the Secure event queued.
ReplyArrives(i, j) ==
    \E x \in 1..Len(chan[j][i]) :
        /\ chan[j][i][x] = Reply
        /\ sess' = [sess EXCEPT ![i] = @ \cup {j}]
        /\ chan' = [chan EXCEPT ![j][i][x] = Secure]
        /\ UNCHANGED <<server_vars, members, ring_vars, hist_vars, before, budget, link>>

\* A peer connection dies by itself; the watchdog will rebuild it.
LinkFails(i, j) ==
    /\ <<i, j>> \in link
    /\ budget.fails > 0
    /\ link' = link \ {<<i, j>>}
    /\ \E keep \in BOOLEAN : chan' = CutChan(i, {j}, keep)
    /\ budget' = [budget EXCEPT !.fails = @ - 1]
    /\ UNCHANGED <<server_vars, members, ring_vars, hist_vars, before, sess>>

-----------------------------------------------------------------------------
(***************************************************************************)
(* The engine loop, mesh events and timers.                                *)
(***************************************************************************)
\* Take the oldest event of peer p.
Event(n, p, t) ==
    /\ status[n] = "in"
    /\ chan[p][n] # <<>>
    /\ Head(chan[p][n]).t = t
    /\ UNCHANGED <<server_vars, members, before, budget>>

Rest(n, p) == [chan EXCEPT ![p][n] = Tail(@)]

\* on_secure, as authority: mint the first key if there is none, hand the
\* current one to p.
OnSecureAuthority(n, p) ==
    /\ Event(n, p, "Secure")
    /\ AmAuthority(n, members[n])
    /\ IF cur[n] = NoKey THEN Adopt(n, Mint(n, MaxOf(room_gen[n], 1))) ELSE KeepRing
    /\ chan' = SendEach(Rest(n, p), link, sess, n, {p}, KeyMsg(cur'[n]))
    /\ UNCHANGED <<link, sess>>

\* Mutants: the generation is not reported; the key itself is sent instead.
OnSecureMemberSilent(n, p) ==
    /\ Event(n, p, "Secure")
    /\ ~AmAuthority(n, members[n])
    /\ chan' = Rest(n, p)
    /\ KeepRing
    /\ UNCHANGED <<link, sess>>
OnSecureMemberSendsKey(n, p) ==
    /\ Event(n, p, "Secure")
    /\ ~AmAuthority(n, members[n])
    /\ chan' = IF cur[n] # NoKey
               THEN SendEach(Rest(n, p), link, sess, n, {p}, KeyMsg(cur[n]))
               ELSE Rest(n, p)
    /\ KeepRing
    /\ UNCHANGED <<link, sess>>

\* The Reply of n to p has yet to arrive.
ReplyPending(n, p) == \E x \in 1..Len(chan[n][p]) : chan[n][p][x] = Reply

\* on_secure, as anyone else: report the live generation to the authority.
\* The Reply leaves from a task of its own (send_ctrl), the report from this
\* one: a report that arrives first finds no session and is lost.
OnSecureMember(n, p) ==
    /\ Event(n, p, "Secure")
    /\ ~AmAuthority(n, members[n])
    /\ \E lost \in BOOLEAN :
         /\ lost => Overtake /\ ReplyPending(n, p)
         /\ chan' = IF IsAuthorityPeer(p, n, members[n]) /\ cur[n] # NoKey /\ ~lost
                    THEN SendEach(Rest(n, p), link, sess, n, {p}, GenMsg(cur[n].gen))
                    ELSE Rest(n, p)
    /\ KeepRing
    /\ UNCHANGED <<link, sess>>

OnRoomKey(n, p) ==
    LET k == Head(chan[p][n]).key IN
    /\ Event(n, p, "RoomKey")
    /\ IF IsAuthorityPeer(p, n, members[n]) /\ k.gen <= room_gen[n] + ROOM_GEN_BOUND
       THEN Adopt(n, [gen |-> k.gen, auth |-> p])
       ELSE KeepRing
    /\ chan' = Rest(n, p)
    /\ UNCHANGED <<link, sess>>

OnRoomGen(n, p) ==
    LET g == Head(chan[p][n]).key.gen IN
    /\ Event(n, p, "RoomGen")
    /\ RotateIf(/\ AmAuthority(n, members[n])
                /\ p \in members[n]
                /\ g > room_gen[n]
                /\ g <= room_gen[n] + ROOM_GEN_BOUND,
                n, g, members[n], link, sess, Rest(n, p))

\* A grace period elapsed.
OnPromote(n, g) ==
    /\ status[n] = "in"
    /\ timers[n] # <<>>
    /\ g \in Head(timers[n])
    /\ send' = [send EXCEPT ![n] = SendAfterPromote(@, cur[n], prev[n], g)]
    /\ sealed' = sealed \cup {send'[n]}
    /\ timers' = [timers EXCEPT ![n] = FireTimer(@, g)]
    /\ UNCHANGED <<server_vars, members, cur, prev, room_gen, mesh_vars, known, before, budget>>

-----------------------------------------------------------------------------
\* Steps that follow from what already happened; the others are the users'.
Handle(n) ==
    \/ OnRoster(n) \/ OnPeerJoined(n) \/ OnPeerLeft(n) \/ OnRekey(n)
    \/ \E p \in Node : \/ OnSecureAuthority(n, p) \/ OnSecureMember(n, p)
                       \/ OnRoomKey(n, p) \/ OnRoomGen(n, p)
                       \/ ReplyArrives(n, p)
                       \/ Connect(n, p)
    \/ \E g \in UNION {timers[n][i] : i \in 1..Len(timers[n])} : OnPromote(n, g)

Next ==
    \/ \E n \in Node : \/ JoinRoom(n) \/ LeaveRoom(n)
                       \/ SignalingLost(n) \/ ServerNotices(n) \/ Rejoin(n)
                       \/ Handle(n)
                       \/ \E p \in Node : LinkFails(n, p)
    \/ RekeyRoom

Spec == Init /\ [][Next]_vars

\* Everything a node has to do it does eventually: tokio polls every ready
\* arm, the watchdog rebuilds a dead link, a lost signaling connection is
\* retried.
Fairness == \A n \in Node : /\ WF_vars(Handle(n))
                            /\ WF_vars(Rejoin(n))

FairSpec == Spec /\ Fairness

-----------------------------------------------------------------------------
(***************************************************************************)
(* Properties.                                                             *)
(***************************************************************************)
\* The receiver of a room key labels it with the sender's id and breaks ties
\* between keys of one generation by that label: this is sound as long as a
\* node only hands out keys it minted itself.  It is what makes the pair
\* (generation, label) name one key, so the other properties of keys rest on
\* it.
HandsOutOwnKeys ==
    \A p, n \in Node : \A i \in 1..Len(chan[p][n]) :
        chan[p][n][i].t = "RoomKey" => chan[p][n][i].key.auth = p

\* Future secrecy: a node never comes to hold a key that sealed audio before
\* it joined.
FutureSecrecy == \A n \in Node : known[n] \cap before[n] = {}

\* Nothing is left to do: everyone connected, nothing queued, all links up.
Quiet ==
    /\ \A n \in Node : status[n] = "in" =>
         /\ n \in room \cap online
         /\ inbox[n] = <<>>
         /\ timers[n] = <<>>
         /\ \A p \in Node : chan[p][n] = <<>>
    /\ \A i, j \in room : i < j => <<i, j>> \in link

\* Two or more members all seal with the same key, their newest.
OneKey ==
    \A m, n \in room : m # n =>
        cur[n] # NoKey /\ cur[n] = cur[m] /\ send[n] = cur[n]

\* Once things settle, the members of a room seal with one key, their newest:
\* whatever order joins, rekeys, departures and link failures came in, nobody
\* is left deaf or unheard.
OneKeyWhenQuiet == Quiet => OneKey

\* Forward secrecy: once things settle, nobody seals audio with a key a
\* departed member holds.
ForwardSecrecy ==
    Quiet => \A n \in room, x \in Node : status[x] = "gone" => send[n] \notin known[x]

\* The room settles on one key: nothing waits forever for a key that was sent
\* only once.
Settles == <>[]OneKey

-----------------------------------------------------------------------------
(***************************************************************************)
(* The keys of one node are a KeyRing.                                     *)
(***************************************************************************)
KR(n) == INSTANCE KeyRing WITH
           send <- send[n], cur <- cur[n], prev <- prev[n],
           room_gen <- room_gen[n], timers <- timers[n]

\* Whatever the other nodes do, the keys of each node go through the steps of
\* the key ring: the engine loop touches them only by adopting a better key
\* and by promoting a staged one.
RingStep == \A n \in Node : KR(n)!Next \/ UNCHANGED KR(n)!ringVars

EachNodeIsAKeyRing ==
    /\ \A n \in Node : KR(n)!Init
    /\ [][RingStep]_vars
=============================================================================

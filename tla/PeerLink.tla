------------------------------ MODULE PeerLink ------------------------------
(***************************************************************************)
(* The link between two members of a room, from the first roster to the     *)
(* lock in the user interface (companion-core: mesh.rs Mesh, crypto.rs       *)
(* PeerCrypto, and the arms of the engine loop in lib.rs that drive them).  *)
(*                                                                         *)
(* Each end holds at most one peer connection (PC) for the other, a         *)
(* pairwise session, a pending handshake, and a row of the member list.     *)
(* Offers, answers and candidates travel through the signaling server in    *)
(* order (sig); handshake frames over the data channel of the PC (dc);      *)
(* reports of PCs and handshakes wait in a queue of the engine loop (ev).   *)
(* Nothing orders these three against each other.                          *)
(*                                                                         *)
(* The WebRTC stack is external: a PC is known by an id, an offer or an      *)
(* answer names the PC it describes, and two PCs connect when each has the  *)
(* other's description and one of them a candidate of the other.  The       *)
(* candidates of a PC are one frame, sent just before or just after its     *)
(* description.  Ids are recycled, so that a behaviour may go on forever.   *)
(***************************************************************************)
EXTENDS Integers, Sequences, FiniteSets

CONSTANTS
    MaxId,             \* bound: ids of peer connections in use at once
    MaxFaults,         \* bound: faults, rekeys and early retries, by weight
    MAX_PENDING_ICE    \* candidates kept until the description arrives

ASSUME LinkConstants ==
    /\ MaxId \in Nat \ {0}
    /\ MaxFaults \in Nat
    /\ MAX_PENDING_ICE \in Nat \ {0}

\* The two ends, in the order of their user ids.
Peer == {1, 2}

Other(p) == 3 - p

\* The glare rule: the smaller user id offers, and opens the handshake.
Offers(p) == p < Other(p)

VARIABLES
    node,      \* node[p]: what the process of p holds, see Node
    sig,       \* sig[p]: frames of the server that p has yet to process
    dc,        \* dc[p]: handshake frames on their way to p's PC
    up,        \* ends with a signaling connection
    room,      \* server: ends with a handle in the room
    faults     \* faults still to come

vars == <<node, sig, dc, up, room, faults>>

Id   == 1..MaxId
NoId == 0

\* A PC: `offering` once its own offer is out, `remote` the PC its remote
\* description names, whether a candidate of that PC was added (others are of
\* no use), the candidates queued, the connection state (New
\* and Connecting are one: the code treats them alike) as last reported, and
\* whether the data channel has opened.
PCType == [id : Id, offering : BOOLEAN, remote : Id \cup {NoId},
           cand : BOOLEAN, pending_ice : SUBSET Id,
           st : {"new", "connected", "disconnected", "failed"},
           open : BOOLEAN]

NoPC == [id |-> NoId]

NewPC(i) == [id |-> i, offering |-> FALSE, remote |-> NoId, cand |-> FALSE,
             pending_ice |-> {}, st |-> "new", open |-> FALSE]

\* A row of `members`.  `down` says down_since is set.
Member(s) == [here |-> TRUE, linked |-> FALSE, secure |-> s, fingerprint |-> NoId,
              down |-> FALSE]
NoMember  == [Member(FALSE) EXCEPT !.here = FALSE]

EventType == [t : {"Up", "Down", "Secure"}, id : Id \cup {NoId}]
Up        == [t |-> "Up", id |-> NoId]
Down      == [t |-> "Down", id |-> NoId]
Secure(i) == [t |-> "Secure", id |-> i]

\* A session and a handshake are known by the PC of the hello they began with.
NodeType == [pc : PCType \cup {NoPC}, sess : Id \cup {NoId},
             pending : Id \cup {NoId}, ev : Seq(EventType),
             mem : [here : BOOLEAN, linked : BOOLEAN, secure : BOOLEAN,
                    fingerprint : Id \cup {NoId}, down : BOOLEAN]]

NewNode == [pc |-> NoPC, sess |-> NoId, pending |-> NoId, ev |-> <<>>,
            mem |-> NoMember]

Frame(t, i) == [t |-> t, id |-> i]

Init ==
    /\ node = [p \in Peer |-> NewNode]
    /\ sig = [p \in Peer |-> <<>>]
    /\ dc = [p \in Peer |-> <<>>]
    /\ up = {}
    /\ room = {}
    /\ faults = MaxFaults

HasPC(n) == n.pc # NoPC

\* HaveLocalOffer: the own offer is out and not answered yet.
HaveLocalOffer(c) == c.offering /\ c.remote = NoId

\* Ids that something still refers to, and one that nothing does.
IdsOf(n) ==
    {n.sess, n.pending, n.mem.fingerprint} \cup {n.ev[k].id : k \in DOMAIN n.ev}
      \cup IF HasPC(n) THEN {n.pc.id, n.pc.remote} \cup n.pc.pending_ice
                       ELSE {}

UsedIds ==
    UNION {IdsOf(node[p]) : p \in Peer}
      \cup UNION {{sig[p][k].id : k \in DOMAIN sig[p]} : p \in Peer}
      \cup UNION {{dc[p][k].id : k \in DOMAIN dc[p]} : p \in Peer}

FreshId == CHOOSE i \in 1..MaxId + 1 : i \notin UsedIds /\ \A j \in 1..i - 1 : j \in UsedIds

-----------------------------------------------------------------------------
(***************************************************************************)
(* What the process does to its own state.                                 *)
(***************************************************************************)
\* peers.remove and pc.close(), which reports Closed before it returns.
Close(n) == [n EXCEPT !.pc = NoPC, !.ev = Append(@, Down)]

\* PeerCrypto::remove.
CryptoRemove(n) == [n EXCEPT !.sess = NoId, !.pending = NoId]

\* Remove a PC with its session, if there is one.
Discard(n) == IF HasPC(n) THEN CryptoRemove(Close(n)) ELSE n

\* ensure(): a PC unless there is one.
Ensure(n, i) == IF HasPC(n) THEN n ELSE [n EXCEPT !.pc = NewPC(i)]

\* offer(): the PC's own offer goes out.
Offer(n) == [n EXCEPT !.pc.offering = TRUE]

\* The description of a PC and its candidates: gathering starts with the local
\* description, before the frame with it is queued.
Described(t, i) == {<<Frame(t, i), Frame("Ice", i)>>, <<Frame("Ice", i), Frame(t, i)>>}

\* on_peer(): the offering end rebuilds its PC, the other one has one ready.
OnPeer(p, n, i) ==
    IF Offers(p) THEN Offer(Ensure(Discard(n), i)) ELSE Ensure(n, i)

OnPeerFrames(p, i) == IF Offers(p) THEN Described("Offer", i) ELSE {<<>>}

\* flush_ice(): the candidates queued so far are added.
FlushIce(n) ==
    [n EXCEPT !.pc.cand = n.pc.remote \in n.pc.pending_ice, !.pc.pending_ice = {}]

\* on_left(): the session goes, and the PC if there is one.
OnLeft(n) == LET m == CryptoRemove(n) IN IF HasPC(m) THEN Close(m) ELSE m

\* Mutant: a PC that waits for an answer is taken for a running negotiation.
NegotiatingWhileNew(c) == c.st = "new"

\* relink() leaves a running negotiation alone; without a remote description
\* nothing runs: the offer or the answer was lost.
Negotiating(c) == c.st = "new" /\ c.remote # NoId

\* relink(): rebuild and offer, whoever offers by the glare rule.
Relink(n, i) == Offer(Ensure(Discard(n), i))

\* The process of p takes a step: its state becomes n, it sends the frames out
\* to the other end, and the rest of its queue is q.  Without a signaling
\* connection at either end a frame is lost; frames for a PC that is gone are
\* too.
Step(p, n, q, out) ==
    /\ node' = [node EXCEPT ![p] = n]
    /\ sig' = [sig EXCEPT ![p] = q,
                          ![Other(p)] = IF up = Peer THEN @ \o out ELSE @]
    /\ dc' = IF n.pc.id # node[p].pc.id THEN [dc EXCEPT ![p] = <<>>] ELSE dc
    /\ UNCHANGED <<up, room>>

Has(p, t) == sig[p] # <<>> /\ Head(sig[p]).t = t

-----------------------------------------------------------------------------
(***************************************************************************)
(* Frames of the signaling server.                                         *)
(***************************************************************************)
\* Roster: a member it no longer lists is dropped as by PeerLeft; one already
\* known keeps its link state, the lock is read again.
OnRoster(p, i) ==
    /\ Has(p, "Roster") \/ Has(p, "EmptyRoster")
    /\ LET n == node[p]
           kept == [n.mem EXCEPT !.secure = n.sess # NoId,
                       !.fingerprint = IF n.sess # NoId THEN @ ELSE NoId]
       IN IF Has(p, "Roster")
            THEN \E out \in OnPeerFrames(p, i) :
                   Step(p, OnPeer(p, [n EXCEPT !.mem = IF @.here THEN kept
                                                       ELSE Member(n.sess # NoId)], i),
                        Tail(sig[p]), out)
            ELSE Step(p, [(IF n.mem.here THEN OnLeft(n) ELSE n) EXCEPT !.mem = NoMember],
                      Tail(sig[p]), <<>>)

\* PeerJoined: a new row, whatever was there before.
OnPeerJoined(p, i) ==
    /\ Has(p, "PeerJoined")
    /\ LET n == [node[p] EXCEPT !.mem = Member(node[p].sess # NoId)]
       IN \E out \in OnPeerFrames(p, i) : Step(p, OnPeer(p, n, i), Tail(sig[p]), out)

OnPeerLeft(p) ==
    /\ Has(p, "PeerLeft")
    /\ Step(p, [OnLeft(node[p]) EXCEPT !.mem = NoMember], Tail(sig[p]), <<>>)

\* Both ends offered: the smaller id keeps its own offer.
IgnoresOffer(p, c) == HaveLocalOffer(c) /\ Offers(p)

\* on_offer() drops a PC that has offered itself or is described already.
Superseded(c) == HaveLocalOffer(c) \/ c.remote # NoId

OnOffer(p, i) ==
    /\ Has(p, "Offer")
    /\ LET n == node[p]
           from == Head(sig[p]).id
           m == Ensure(IF HasPC(n) /\ Superseded(n.pc) THEN Discard(n) ELSE n, i)
       IN IF HasPC(n) /\ IgnoresOffer(p, n.pc)
            THEN Step(p, n, Tail(sig[p]), <<>>)
            ELSE \E out \in Described("Answer", m.pc.id) :
                   Step(p, FlushIce([m EXCEPT !.pc.remote = from]), Tail(sig[p]), out)

\* An answer fits any PC whose own offer is open, also one offered since.
OnAnswer(p) ==
    /\ Has(p, "Answer")
    /\ LET n == node[p]
       IN Step(p, IF HasPC(n) /\ HaveLocalOffer(n.pc)
                    THEN FlushIce([n EXCEPT !.pc.remote = Head(sig[p]).id]) ELSE n,
               Tail(sig[p]), <<>>)

\* add_or_queue_ice(): candidates wait for the description, up to a limit.
AddOrQueueIce(c, i) ==
    IF c.remote # NoId THEN [c EXCEPT !.cand = @ \/ i = c.remote]
    ELSE IF Cardinality(c.pending_ice) < MAX_PENDING_ICE
           THEN [c EXCEPT !.pending_ice = @ \cup {i}]
           ELSE c

OnIce(p) ==
    /\ Has(p, "Ice")
    /\ LET n == node[p]
       IN Step(p, IF HasPC(n)
                    THEN [n EXCEPT !.pc = AddOrQueueIce(@, Head(sig[p]).id)] ELSE n,
               Tail(sig[p]), <<>>)

\* Rekey: the offering end rebuilds the PC.  The session of the old one stays
\* until the handshake on the new one begins.
OnRekey(p, i) ==
    /\ Has(p, "Rekey")
    /\ IF Offers(p) /\ HasPC(node[p])
         THEN \E out \in OnPeerFrames(p, i) :
                Step(p, OnPeer(p, Close(node[p]), i), Tail(sig[p]), out)
         ELSE Step(p, node[p], Tail(sig[p]), <<>>)

-----------------------------------------------------------------------------
(***************************************************************************)
(* The peer connections, as the callbacks of ensure() see them.            *)
(***************************************************************************)
Alive(n) == HasPC(n) /\ n.pc.st # "failed"

\* Each end's PC describes the other's, and one knows a candidate.
Wired ==
    /\ \A p \in Peer : Alive(node[p]) /\ node[p].pc.remote = node[Other(p)].pc.id
    /\ \E p \in Peer : node[p].pc.cand

Local(p, n) == node' = [node EXCEPT ![p] = n]

\* The transport is up, at first or again after an interruption.  Once
\* selected_kind() has classified the pair the callback reports the badge and
\* that the link is up.
Connected(p) ==
    /\ Wired
    /\ node[p].pc.st \in {"new", "disconnected"}
    /\ Local(p, [node[p] EXCEPT !.pc.st = "connected", !.ev = Append(@, Up)])
    /\ UNCHANGED <<sig, dc, up, room, faults>>

\* Nothing is on its way.
Quiet == \A p \in Peer : sig[p] = <<>> /\ dc[p] = <<>> /\ node[p].ev = <<>>

\* Checking gives up, or the other end is gone: a timeout of many seconds, so
\* what is on its way arrives first.
Failed(p) ==
    /\ Alive(node[p]) /\ node[p].pc.remote # NoId
    /\ ~Wired
    /\ Quiet
    /\ Local(p, [node[p] EXCEPT !.pc.st = "failed", !.ev = Append(@, Down)])
    /\ UNCHANGED <<sig, dc, up, room, faults>>

\* Mutant: the new handshake leaves the old session in place.
BeginKeepsSession(n) == [n EXCEPT !.pending = n.pc.id]

\* PeerCrypto::begin(): a new handshake supersedes the session.
Begin(n) == [n EXCEPT !.pending = n.pc.id, !.sess = NoId]

\* The data channel opens.  begin() at the end that opens the
\* handshake: the hello goes out.
Open(p) ==
    /\ Offers(p)
    /\ Wired /\ \A q \in Peer : node[q].pc.st = "connected"
    /\ ~node[p].pc.open
    /\ Local(p, Begin([node[p] EXCEPT !.pc.open = TRUE]))
    /\ dc' = [dc EXCEPT ![Other(p)] = Append(@, Frame("KemHello", node[p].pc.id))]
    /\ UNCHANGED <<sig, up, room, faults>>

\* on_hello(): the responder holds a session and replies over the same channel.
OnHello(p) ==
    /\ dc[p] # <<>> /\ Head(dc[p]).t = "KemHello"
    /\ LET h == Head(dc[p]).id
           q == Other(p)
           r == IF node[q].pc.id = node[p].pc.remote THEN <<Frame("KemReply", h)>> ELSE <<>>
       IN /\ Local(p, [node[p] EXCEPT !.sess = h, !.ev = Append(@, Secure(h))])
          /\ dc' = [dc EXCEPT ![p] = Tail(@), ![q] = @ \o r]
    /\ UNCHANGED <<sig, up, room, faults>>

\* on_reply(): the pending handshake is taken, and gives the session.
OnReply(p) ==
    /\ dc[p] # <<>> /\ Head(dc[p]).t = "KemReply"
    /\ LET h == node[p].pending
       IN Local(p, IF h = NoId THEN node[p]
                   ELSE [node[p] EXCEPT !.pending = NoId, !.sess = h,
                                        !.ev = Append(@, Secure(h))])
    /\ dc' = [dc EXCEPT ![p] = Tail(@)]
    /\ UNCHANGED <<sig, up, room, faults>>

-----------------------------------------------------------------------------
(***************************************************************************)
(* Events of the mesh in the engine loop, and its clock.                    *)
(***************************************************************************)
\* A report that the link is down counts unless the row is down already.
FreshDrop(m) == m.linked \/ ~m.down

\* The row after an event.  A link that comes up reads the lock back.
AfterEvent(m, e, sess) ==
    CASE ~m.here -> m
      [] m.here /\ e.t = "Up" ->
           [m EXCEPT !.linked = TRUE, !.secure = sess # NoId, !.down = FALSE]
      [] m.here /\ e.t = "Down" ->
           IF FreshDrop(m)
             THEN [m EXCEPT !.linked = FALSE, !.secure = FALSE,
                            !.fingerprint = NoId, !.down = TRUE]
             ELSE m
      [] m.here /\ e.t = "Secure" -> [m EXCEPT !.secure = TRUE, !.fingerprint = e.id]

OnEvent(p) ==
    /\ node[p].ev # <<>>
    /\ LET n == node[p]
       IN Local(p, [n EXCEPT !.mem = AfterEvent(@, Head(n.ev), n.sess), !.ev = Tail(@)])
    /\ UNCHANGED <<sig, dc, up, room, faults>>

\* Faults weigh by what they make the two ends do over again.
Fault(w) == faults >= w /\ faults' = faults - w

\* The watchdog would rebuild the link of p.
Rebuilds(p) ==
    LET n == node[p]
    IN n.mem.here /\ ~n.mem.linked /\ ~(HasPC(n) /\ Negotiating(n.pc))

\* The retry intervals outlast whatever is in flight, and the larger id waits
\* long enough for the smaller one to have retried.
Patient(p) ==
    /\ up = Peer /\ Quiet
    /\ Offers(p) \/ ~Rebuilds(Other(p))

\* The net tick finds a member's link down for long enough: relink().
Retry(p) ==
    /\ Rebuilds(p)
    /\ LET n == [node[p] EXCEPT !.mem.down = TRUE]
       IN \E i \in {FreshId} : \E out \in Described("Offer", i) :
            Step(p, Relink(n, i), sig[p], out)

Watchdog(p) == Patient(p) /\ Retry(p) /\ UNCHANGED faults

\* Slow frames make a retry premature.
PrematureRetry(p) == ~Patient(p) /\ Fault(2) /\ Retry(p)

-----------------------------------------------------------------------------
(***************************************************************************)
(* The signaling connection and the faults.                                *)
(***************************************************************************)
\* connect() and Join: a roster for p, PeerJoined for the other end.
SignalingUp(p) ==
    /\ p \notin up
    /\ up' = up \cup {p}
    /\ room' = room \cup {p}
    /\ sig' = [sig EXCEPT ![p] = <<Frame(IF Other(p) \in room THEN "Roster" ELSE "EmptyRoster", NoId)>>,
                          ![Other(p)] = IF Other(p) \in up
                                          THEN Append(@, Frame("PeerJoined", NoId)) ELSE @]
    /\ UNCHANGED <<node, dc, faults>>

\* The socket is lost.  The server notices and tells the other end, or finds
\* out when p comes back.
SocketLost(p) ==
    /\ p \in up
    /\ up' = up \ {p}
    /\ \/ /\ room' = room \ {p}
          /\ sig' = [sig EXCEPT ![p] = <<>>,
                       ![Other(p)] = IF Other(p) \in up
                                       THEN Append(@, Frame("PeerLeft", NoId)) ELSE @]
       \/ /\ room' = room
          /\ sig' = [sig EXCEPT ![p] = <<>>]

SignalingLost(p) == Fault(2) /\ SocketLost(p) /\ UNCHANGED <<node, dc>>

\* The process ends without a word and is started again.  With its new secret
\* the server refuses its id until the old socket is cleaned up: it then joins
\* (SignalingUp) that much later.
Restart(p) ==
    /\ Fault(2)
    /\ SocketLost(p)
    /\ node' = [node EXCEPT ![p] = NewNode]
    /\ dc' = [dc EXCEPT ![p] = <<>>]

\* A relayed frame is lost: a full queue, or the sender's rate limit.
LoseFrame(p) ==
    /\ Fault(1)
    /\ sig[p] # <<>> /\ Head(sig[p]).t \in {"Offer", "Answer", "Ice"}
    /\ sig' = [sig EXCEPT ![p] = Tail(@)]
    /\ UNCHANGED <<node, dc, up, room>>

\* The transport is interrupted for a while.
Disconnected(p) ==
    /\ Fault(1)
    /\ HasPC(node[p]) /\ node[p].pc.st = "connected"
    /\ Local(p, [node[p] EXCEPT !.pc.st = "disconnected", !.ev = Append(@, Down)])
    /\ UNCHANGED <<sig, dc, up, room>>

\* Someone asks for new keys; the server tells everyone.
RekeyAsked ==
    /\ Fault(1)
    /\ up # {}
    /\ sig' = [p \in Peer |-> IF p \in up THEN Append(sig[p], Frame("Rekey", NoId)) ELSE sig[p]]
    /\ UNCHANGED <<node, dc, up, room>>

-----------------------------------------------------------------------------
Serve(p) ==
    /\ \E i \in {FreshId} :
         \/ OnRoster(p, i) \/ OnPeerJoined(p, i) \/ OnPeerLeft(p)
         \/ OnOffer(p, i) \/ OnAnswer(p) \/ OnIce(p) \/ OnRekey(p, i)
    /\ UNCHANGED faults

Handshake(p) == Open(p) \/ OnHello(p) \/ OnReply(p)

\* What the code and the network do by themselves.
Progress ==
    \/ \E p \in Peer :
         \/ Serve(p) \/ OnEvent(p)
         \/ Connected(p) \/ Failed(p) \/ Handshake(p) \/ SignalingUp(p)
         \/ Watchdog(p)

Next ==
    \/ Progress
    \/ \E p \in Peer : PrematureRetry(p) \/ SignalingLost(p) \/ Restart(p)
                         \/ LoseFrame(p) \/ Disconnected(p)
    \/ RekeyAsked

\* The engine loop serves every source, callbacks run, the watchdog ticks, a
\* lost signaling connection is retried: as long as any of this can happen,
\* some of it does.  Nothing is said about which.
Fairness == WF_vars(Progress)

Spec == Init /\ [][Next]_vars /\ Fairness

-----------------------------------------------------------------------------
\* Every variable has its type, with one PC per end and a bounded queue of early
\* candidates; MaxId ids suffice.
TypeOK ==
    /\ node \in [Peer -> NodeType]
    /\ \A p \in Peer : HasPC(node[p]) => Cardinality(node[p].pc.pending_ice) <= MAX_PENDING_ICE
    /\ \A p \in Peer : \A k \in DOMAIN sig[p] : sig[p][k].id \in Id \cup {NoId}
    /\ \A p \in Peer : \A k \in DOMAIN dc[p] : dc[p][k].id \in Id
    /\ up \subseteq Peer /\ room \subseteq Peer
    /\ faults \in 0..MaxFaults

\* A member shown as linked has a live connection: once every report is in, a
\* row says linked only of a PC that is connected (reports do not name the PC
\* they come from, and those of a PC being replaced mix with its successor's).
LinkedIsTrue ==
    \A p \in Peer :
        node[p].ev = <<>> /\ node[p].mem.linked => HasPC(node[p]) /\ node[p].pc.st = "connected"

\* When both ends hold a session it is the same one, so what one seals the
\* other opens; and once nothing is on its way, the fingerprints the two users
\* compare are equal (begin() drops the old session before it offers a new one,
\* and every rebuilt PC discards or clears what belonged to the old one).
OneSession ==
    LET Same(a, b) == a # NoId /\ b # NoId => a = b
        Shown(p) == IF node[p].mem.secure THEN node[p].mem.fingerprint ELSE NoId
    IN /\ Same(node[1].sess, node[2].sess)
       /\ Quiet => Same(Shown(1), Shown(2))

\* What the two users see of their link is true.
LinkIsTrue == TypeOK /\ LinkedIsTrue /\ OneSession

BothUp ==
    /\ \A p \in Peer : node[p].mem.linked /\ node[p].mem.secure
    /\ node[1].sess = node[2].sess /\ node[1].sess # NoId

\* Whatever is lost, dropped, restarted, re-offered or rekeyed, in the end both
\* ends show a link with a lock, over one session (link watchdog, glare rule).
Recovers == <>[]BothUp
=============================================================================

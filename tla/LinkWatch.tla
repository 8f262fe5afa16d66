----------------------------- MODULE LinkWatch -----------------------------
(***************************************************************************)
(* The watchdogs of the engine loop (core lib.rs, net tick every 2 s): a     *)
(* member whose link stays down is rebuilt and, once, named to the user      *)
(* with the reason the link gives (mesh.rs LinkDiag); a node with secure     *)
(* links and no group-audio key says so once per episode.                   *)
(*                                                                         *)
(* Time is in ticks of the interval.  What happens between two ticks has     *)
(* passed for less than a tick at the next one: ages start at Fresh.         *)
(* PeerLink and GroupKey show which events the mesh and the coordinator      *)
(* send; here they come in any order, as many as the bound allows.          *)
(***************************************************************************)
EXTENDS Integers, FiniteSets

CONSTANTS
    Me,                  \* our user id
    Peer,                \* user ids of the others
    RETRY_OFFERER,       \* ticks before the offering side rebuilds a link
    RETRY_ANSWERER,      \* ticks before the other side does
    WARN_AFTER,          \* ticks before the user is told about a dead link
    KEYLESS_WARN_AFTER,  \* ticks without a key before the user is told
    WatchScenario        \* bound: ticks and events

ASSUME WatchConstants ==
    /\ Me \in Nat /\ Peer \subseteq Nat \ {Me}
    /\ {RETRY_OFFERER, RETRY_ANSWERER, WARN_AFTER, KEYLESS_WARN_AFTER} \subseteq Nat \ {0}
    /\ WatchScenario \subseteq [ticks : Nat, events : Nat]

VARIABLES
    watch,      \* members: what the loop keeps about the link of each
    tries,      \* peers of the mesh: the connection and its LinkDiag
    pairs,      \* peers with a pairwise session
    ring,       \* generation().is_some(), keyless_since, keyless_warned
    told,       \* history: see Told
    lwBudget

lwVars == <<watch, tries, pairs, ring, told, lwBudget>>

Fresh == -1
Never == -2

\* Member::new() for an id that is in the room, and an id that is not.
Member(secure) == [here |-> TRUE, linked |-> FALSE, secure |-> secure, down |-> Fresh,
                   retried |-> Never, warned |-> FALSE]
NoMember == [Member(FALSE) EXCEPT !.here = FALSE]

\* A new connection, with what it has learnt and its age; one that the watchdog
\* asked for; and none.
Try(desc) == [st |-> "trying", desc |-> desc, cand |-> FALSE, paired |-> FALSE,
              age |-> Fresh, retry |-> FALSE]
Retried == [Try(FALSE) EXCEPT !.age = 0, !.retry = TRUE]
NoTry == [Try(FALSE) EXCEPT !.st = "none"]

\* History of an outage of p: ticks since it began, how often the user was told,
\* ticks since the last rebuild and the one before; of a keyless episode; and
\* the last warning.
Told == [dark |-> Fresh, times |-> 0, gap |-> Never, spaced |-> TRUE]

LwInit ==
    /\ watch = [p \in Peer |-> NoMember]
    /\ tries = [p \in Peer |-> NoTry]
    /\ pairs = {}
    /\ ring = [key |-> FALSE, since |-> Never, warned |-> FALSE]
    /\ told = [of |-> [p \in Peer |-> Told], stuck |-> 0, keyless |-> 0,
               why |-> "nothing", early |-> FALSE]
    /\ lwBudget \in WatchScenario

Event == lwBudget.events > 0 /\ lwBudget' = [lwBudget EXCEPT !.events = @ - 1]

Offers(p) == Me < p

-----------------------------------------------------------------------------
(***************************************************************************)
(* Frames of the server.                                                   *)
(***************************************************************************)
\* A new stay of p, or an outage that begins.
Began(h) == [h EXCEPT !.dark = Fresh, !.times = 0]
Begins(p) == [told EXCEPT !.of[p] = Began(@)]

\* Mesh::on_peer(): the offering side starts anew, without the old session; the
\* other side sees to it that there is a connection.
OnPeer(p) == IF tries[p].st = "none" \/ Offers(p) THEN Try(FALSE) ELSE tries[p]
Forgets(p) == tries[p].st # "none" /\ Offers(p)

OnPeerJoined(p) ==
    /\ Event
    /\ watch' = [watch EXCEPT ![p] = Member(p \in pairs)]
    /\ tries' = [tries EXCEPT ![p] = OnPeer(p)]
    /\ pairs' = IF Forgets(p) THEN pairs \ {p} ELSE pairs
    /\ told' = Begins(p)
    /\ UNCHANGED ring

OnPeerLeft(p) ==
    /\ Event
    /\ watch' = [watch EXCEPT ![p] = NoMember]
    /\ tries' = [tries EXCEPT ![p] = NoTry]
    /\ pairs' = pairs \ {p}
    /\ UNCHANGED <<ring, told>>

\* A roster after a reconnect: who is known keeps the state of the link.
OnRoster(here) ==
    /\ Event
    /\ LET known(p) == watch[p].here
       IN /\ watch' = [p \in Peer |->
                         IF p \notin here THEN NoMember
                         ELSE IF known(p) THEN [watch[p] EXCEPT !.secure = p \in pairs]
                         ELSE Member(p \in pairs)]
          /\ tries' = [p \in Peer |-> IF p \in here THEN OnPeer(p)
                                      ELSE IF known(p) THEN NoTry ELSE tries[p]]
          /\ pairs' = {p \in pairs : IF p \in here THEN ~Forgets(p) ELSE ~known(p)}
          /\ told' = [told EXCEPT !.of = [p \in Peer |->
                         IF p \in here /\ ~known(p) THEN Began(@[p])
                         ELSE @[p]]]
    /\ UNCHANGED ring

\* rekey(): the offering side starts every link anew.
OnRekey ==
    /\ Event
    /\ tries' = [p \in Peer |-> IF Forgets(p) THEN Try(FALSE) ELSE tries[p]]
    /\ UNCHANGED <<watch, pairs, ring, told>>

\* on_offer(): the offering side keeps to its own offer; else a connection that
\* was negotiated before, or that has an offer out, is replaced.
PeerOffers(p) ==
    /\ Event
    /\ watch[p].here
    /\ LET waiting == tries[p].st = "trying" /\ ~tries[p].desc
       IN IF waiting /\ Offers(p) THEN UNCHANGED <<tries, pairs>>
          ELSE IF waiting /\ ~tries[p].retry
            THEN tries' = [tries EXCEPT ![p].desc = TRUE] /\ UNCHANGED pairs
          ELSE tries' = [tries EXCEPT ![p] = Try(TRUE)] /\ pairs' = pairs \ {p}
    /\ UNCHANGED <<watch, ring, told>>

\* An answer, or a candidate.
Learns(p) ==
    /\ Event
    /\ tries[p].st = "trying"
    /\ \E f \in {"desc", "cand"} : tries' = [tries EXCEPT ![p] = [@ EXCEPT ![f] = TRUE]]
    /\ UNCHANGED <<watch, pairs, ring, told>>

-----------------------------------------------------------------------------
(***************************************************************************)
(* Events of the mesh.                                                     *)
(***************************************************************************)
LinkUp(p) ==
    /\ Event
    /\ watch[p].here /\ tries[p].st = "trying" /\ tries[p].desc
    /\ watch' = [watch EXCEPT ![p] = [@ EXCEPT !.linked = TRUE, !.secure = p \in pairs,
                                               !.down = Never, !.retried = Never, !.warned = FALSE]]
    /\ tries' = [tries EXCEPT ![p] = [@ EXCEPT !.st = "up", !.paired = TRUE]]
    /\ UNCHANGED <<pairs, ring, told>>

\* Mutant: every report of a dead link starts the clock.
FreshDropAlways(m) == TRUE

\* The link was up: this is where the outage begins.
FreshDrop(m) == m.linked \/ m.down = Never

\* Also reported by a connection that was replaced, or dies again.
LinkDown(p) ==
    /\ Event
    /\ watch[p].here
    /\ IF FreshDrop(watch[p])
         THEN watch' = [watch EXCEPT ![p] = [@ EXCEPT !.linked = FALSE, !.secure = FALSE,
                                                      !.down = Fresh]]
         ELSE UNCHANGED watch
    /\ told' = IF watch[p].linked THEN Begins(p) ELSE told
    /\ \/ UNCHANGED tries
       \/ tries[p].desc /\ tries[p].st # "none" /\ tries' = [tries EXCEPT ![p].st = "ended"]
    /\ UNCHANGED <<pairs, ring>>

OnSecure(p) ==
    /\ Event
    /\ watch[p].here /\ tries[p].st \in {"trying", "up"}
    /\ pairs' = pairs \cup {p}
    /\ watch' = [watch EXCEPT ![p].secure = TRUE]
    /\ UNCHANGED <<tries, ring, told>>

\* The first key is staged; a ring never gives up its last key.
KeyArrives ==
    /\ Event
    /\ ~ring.key
    /\ ring' = [ring EXCEPT !.key = TRUE]
    /\ UNCHANGED <<watch, tries, pairs, told>>

-----------------------------------------------------------------------------
(***************************************************************************)
(* The tick.                                                               *)
(***************************************************************************)
Older(age) == IF age = Never THEN Never ELSE age + 1

\* relink_due()
RelinkDue(p, down, try) ==
    LET due == IF Offers(p) THEN RETRY_OFFERER ELSE RETRY_ANSWERER
    IN down >= due /\ try >= due

\* Member m a tick later: is a rebuild due, is a warning.
Aged(m) == [m EXCEPT !.down = Older(@), !.retried = Older(@)]
Retries(p, m) ==
    m.here /\ ~m.linked /\ RelinkDue(p, m.down, IF m.retried = Never THEN m.down ELSE m.retried)
Warns(m) == m.here /\ ~m.linked /\ ~m.warned /\ m.down >= WARN_AFTER

\* relink(): a negotiation that is running is let run.
Relinked(t) == IF t.st = "trying" /\ t.desc THEN t ELSE Retried

\* link_why(), LinkDiag::summary()
Why(t) == CASE t.st = "none" -> "no connection"
            [] t.st # "none" /\ t.paired -> "broke"
            [] t.st # "none" /\ ~t.paired /\ ~t.desc -> "signaling"
            [] t.st # "none" /\ ~t.paired /\ t.desc /\ ~t.cand -> "no candidates"
            [] OTHER -> "blocked"

EpisodeOver(r) == [r EXCEPT !.since = Never, !.warned = FALSE]

\* keyless_warn_due(): the ring after the tick.
Keyless == ~ring.key /\ \E p \in Peer : watch[p].here /\ watch[p].secure
KeylessFor == IF ring.since = Never THEN 0 ELSE ring.since + 1
KeylessWarns == Keyless /\ ~ring.warned /\ KeylessFor >= KEYLESS_WARN_AFTER

NetTick ==
    /\ lwBudget.ticks > 0 /\ lwBudget' = [lwBudget EXCEPT !.ticks = @ - 1]
    /\ ring' = IF Keyless THEN [ring EXCEPT !.since = KeylessFor, !.warned = @ \/ KeylessWarns]
               ELSE EpisodeOver(ring)
    /\ LET aged(p) == Aged(watch[p])
           retry == {p \in Peer : Retries(p, aged(p))}
           warn == {p \in Peer : Warns(aged(p))}
           later(p) == [tries[p] EXCEPT !.age = @ + 1]
           after(p) == IF p \in retry THEN Relinked(later(p)) ELSE later(p)
           rebuilt == {p \in retry : ~(tries[p].st = "trying" /\ tries[p].desc)}
       IN /\ watch' = [p \in Peer |->
                         [aged(p) EXCEPT !.retried = IF p \in retry THEN 0 ELSE @,
                                         !.warned = @ \/ p \in warn]]
          /\ tries' = [p \in Peer |-> after(p)]
          /\ pairs' = pairs \ rebuilt
          /\ \E last \in IF warn = {} THEN {[why |-> told.why, early |-> told.early]}
                         ELSE {[why |-> Why(after(p)),
                                early |-> after(p).retry /\ after(p).age < 2] : p \in warn} :
               told' = [of |-> [p \in Peer |-> LET h == told.of[p] IN
                          [dark |-> IF watch[p].here /\ ~watch[p].linked THEN h.dark + 1 ELSE h.dark,
                           times |-> IF p \in warn THEN h.times + 1 ELSE h.times,
                           gap |-> IF p \in rebuilt THEN 0 ELSE Older(h.gap),
                           spaced |-> h.spaced /\ (p \in rebuilt => \/ h.gap = Never
                                                                  \/ h.gap + 1 >= RETRY_OFFERER)]],
                        stuck |-> IF Keyless THEN told.stuck + 1 ELSE 0,
                        keyless |-> IF ~Keyless THEN 0
                                    ELSE told.keyless + (IF KeylessWarns THEN 1 ELSE 0),
                        why |-> last.why, early |-> last.early]

LwNext ==
    \/ NetTick
    \/ KeyArrives \/ OnRekey
    \/ \E here \in SUBSET Peer : OnRoster(here)
    \/ \E p \in Peer : \/ OnPeerJoined(p) \/ OnPeerLeft(p) \/ PeerOffers(p) \/ Learns(p)
                       \/ LinkUp(p) \/ LinkDown(p) \/ OnSecure(p)

LwSpec == LwInit /\ [][LwNext]_lwVars

-----------------------------------------------------------------------------
\* The user is told about every member whose link stays down for WARN_AFTER,
\* once, however often the dead link is rebuilt, reported dead again or listed in
\* a roster meanwhile ("warn once per dead episode").
DeadLinkIsTold ==
    \A p \in Peer :
      LET h == told.of[p] IN
      /\ watch[p].here /\ ~watch[p].linked /\ h.dark >= WARN_AFTER => h.times > 0
      /\ h.times <= 1

\* Two rebuilds of a link never follow closer than the retry interval, whatever
\* comes and goes between them.
NoRebuildStorm == \A p \in Peer : told.of[p].spaced

\* A warning that blames the signaling is not about an attempt the watchdog has
\* just started itself: it had at least two ticks to be answered.
ReasonHadTime == told.why = "signaling" => ~told.early

\* A node that sees secure links but no key for KEYLESS_WARN_AFTER says so, once
\* per episode and in every episode.
KeylessIsTold ==
    /\ told.stuck > KEYLESS_WARN_AFTER => told.keyless = 1
    /\ told.stuck <= KEYLESS_WARN_AFTER => told.keyless = 0

\* The watchdogs do what the user relies on: outages of a link and of the key
\* are told, once and with a reason that had time to show, and a dead link is
\* rebuilt at the pace its role has.
UserIsTold == DeadLinkIsTold /\ ReasonHadTime /\ KeylessIsTold /\ NoRebuildStorm
=============================================================================

--------------------------- MODULE SessionBroker ---------------------------
(***************************************************************************)
(* PIN-protected sessions of the signaling server: the REST handlers        *)
(* create_session and join_session behind the per-address rate limiter, the *)
(* session store (sessions.rs) and the reaper that sweeps both.             *)
(*                                                                         *)
(* Time is in seconds, as in the code.  A handler reads the clock and takes *)
(* two locks one after the other; the model lets that happen within one     *)
(* second.  The room of a session is named by the session's code; who is in *)
(* it is InitServer's business and changes freely here.                     *)
(***************************************************************************)
EXTENDS Integers, Sequences

CONSTANTS
    Code,                             \* share codes
    Ip,                               \* client addresses
    MAX_AGE_SECS, EMPTY_GRACE_SECS,   \* life of a session
    MAX_ATTEMPTS, LOCK_SECS,          \* wrong PINs before the lock, its length
    SWEEP_SECS,                       \* period of the reaper
    RL_WINDOW,                        \* seconds in a rate-limiter window
    RL_JOIN_MAX,                      \* PIN tries per address per window
    RL_CREATE_MAX,                    \* session creations per address per window
    MaxTime                           \* bound: last second of the clock

ASSUME BrokerConstants ==
    /\ MAX_AGE_SECS \in Nat \ {0}
    /\ EMPTY_GRACE_SECS \in Nat \ {0}
    /\ LOCK_SECS \in Nat
    /\ MaxTime \in Nat
    /\ MAX_ATTEMPTS \in Nat \ {0}
    /\ SWEEP_SECS \in Nat \ {0}
    /\ RL_WINDOW \in Nat \ {0}
    /\ RL_JOIN_MAX \in Nat \ {0}
    /\ RL_CREATE_MAX \in Nat \ {0}

VARIABLES
    now,        \* the clock
    sessions,   \* Sessions.inner, a record for every code
    rate,       \* RateLimiter.inner: address -> window start and count
    due,        \* the reaper is due
    occupied,   \* codes of live sessions whose room has a connected member
    life,       \* history: when a live session was last admitted to, filled, emptied
    guesses,    \* history: times of the latest wrong PINs of a session
    pin_tries   \* history: times of the latest admitted PIN tries of an address

brokerVars == <<now, sessions, rate, due, occupied, life, guesses, pin_tries>>

\* No session under a code; no entry for an address.
NoSession == [live |-> FALSE, created |-> 0, last_active |-> 0, attempts |-> 0, locked_at |-> 0]
NoEntry == [start |-> 0, count |-> 0]

Session(t) == [live |-> TRUE, created |-> t, last_active |-> t, attempts |-> 0, locked_at |-> 0]

Live == {c \in Code : sessions[c].live}

\* The last good PIN (or the creation), and the last time the room had members:
\* from its filling to its emptying (if never, both the creation).
Life(t) == [admitted |-> t, from |-> t, to |-> t]
NoLife == Life(0)

\* The reaper's interval ticks for the first time at once.
BrokerInit ==
    /\ now = 1
    /\ sessions = [c \in Code |-> NoSession]
    /\ rate = [i \in Ip |-> NoEntry]
    /\ due = TRUE
    /\ occupied = {}
    /\ life = [c \in Code |-> NoLife]
    /\ guesses = [c \in Code |-> <<>>]
    /\ pin_tries = [i \in Ip |-> <<>>]

\* The last n elements of s followed by the clock.
Latest(s, n) ==
    LET all == Append(s, now)
    IN  IF Len(all) <= n THEN all ELSE SubSeq(all, Len(all) - n + 1, Len(all))

-----------------------------------------------------------------------------
(***************************************************************************)
(* The rate limiter: one window and one count per address for both kinds of *)
(* request.                                                                *)
(***************************************************************************)
\* bound: counts from here on are not told apart
Saturated == RL_JOIN_MAX + RL_CREATE_MAX + 1

\* The window of entry e has passed.
Expired(e) == now - e.start >= RL_WINDOW

\* The entry e once a request was counted now.
Counted(e) ==
    IF e = NoEntry \/ Expired(e) THEN [start |-> now, count |-> 1]
    ELSE [e EXCEPT !.count = IF @ >= Saturated THEN @ ELSE @ + 1]

\* allow(): the request is counted, then admitted if within max.
Allow(i, max) ==
    /\ rate' = [rate EXCEPT ![i] = Counted(@)]
    /\ rate'[i].count <= max

Refuse(i, max) ==
    /\ rate' = [rate EXCEPT ![i] = Counted(@)]
    /\ rate'[i].count > max

-----------------------------------------------------------------------------
(***************************************************************************)
(* The handlers.                                                           *)
(***************************************************************************)
\* Either handler, turned away by the limiter.
RateLimited(i) ==
    /\ Refuse(i, RL_CREATE_MAX) \/ Refuse(i, RL_JOIN_MAX)
    /\ UNCHANGED <<now, sessions, due, occupied, life, guesses, pin_tries>>

\* create() draws codes until it hits an unused one.
CreateSession(i, c) ==
    /\ Allow(i, RL_CREATE_MAX)
    /\ c \notin Live
    /\ sessions' = [sessions EXCEPT ![c] = Session(now)]
    /\ life' = [life EXCEPT ![c] = Life(now)]
    /\ guesses' = [guesses EXCEPT ![c] = <<>>]
    /\ UNCHANGED <<now, due, occupied, pin_tries>>

\* join_at refuses without looking at the PIN.
Locked(s) == s.attempts >= MAX_ATTEMPTS /\ now < s.locked_at + LOCK_SECS

\* Attempts counted so far, once an expired lock has been lifted.
Attempts(s) == IF s.attempts >= MAX_ATTEMPTS THEN 0 ELSE s.attempts

\* Mutant: a correct PIN restores the guess budget.
AfterGoodPinResets(s) == [s EXCEPT !.attempts = 0, !.last_active = now]

AfterGoodPin(s) == [s EXCEPT !.attempts = Attempts(s), !.last_active = now]

AfterBadPin(s) ==
    LET n == Attempts(s) + 1
    IN  [s EXCEPT !.attempts = n, !.locked_at = IF n >= MAX_ATTEMPTS THEN now ELSE @]

\* A PIN try of address i that the limiter admits.
PinTry(i) ==
    /\ Allow(i, RL_JOIN_MAX)
    /\ pin_tries' = [pin_tries EXCEPT ![i] = Latest(@, 2 * RL_JOIN_MAX + 1)]
    /\ UNCHANGED <<now, due, occupied>>

\* An empty or overlong code or PIN is answered as an unknown code is, without a look
\* at the store: for a live code too, and no guess is charged.
JoinOverlong(i) == PinTry(i) /\ UNCHANGED <<sessions, life, guesses>>

\* NotFound and Locked.
PinRefused(i, c) ==
    /\ PinTry(i)
    /\ c \notin Live \/ Locked(sessions[c])
    /\ UNCHANGED <<sessions, life, guesses>>

PinGood(i, c) ==
    /\ PinTry(i)
    /\ c \in Live
    /\ ~Locked(sessions[c])
    /\ sessions' = [sessions EXCEPT ![c] = AfterGoodPin(@)]
    /\ life' = [life EXCEPT ![c].admitted = now]
    /\ UNCHANGED guesses

PinBad(i, c) ==
    /\ PinTry(i)
    /\ c \in Live
    /\ ~Locked(sessions[c])
    /\ sessions' = [sessions EXCEPT ![c] = AfterBadPin(@)]
    /\ guesses' = [guesses EXCEPT ![c] = Latest(@, MAX_ATTEMPTS + 1)]
    /\ UNCHANGED life

-----------------------------------------------------------------------------
(***************************************************************************)
(* Rooms fill and empty; the clock and the reaper.                         *)
(***************************************************************************)
RoomFills(c) ==
    /\ c \in Live \ occupied
    /\ occupied' = occupied \cup {c}
    /\ life' = [life EXCEPT ![c].from = now]
    /\ UNCHANGED <<now, sessions, rate, due, guesses, pin_tries>>

RoomEmpties(c) ==
    /\ c \in occupied
    /\ occupied' = occupied \ {c}
    /\ life' = [life EXCEPT ![c].to = now]
    /\ UNCHANGED <<now, sessions, rate, due, guesses, pin_tries>>

\* A second passes; the reaper runs within the second it is due.
Second ==
    /\ now < MaxTime
    /\ ~due
    /\ now' = now + 1
    /\ due' = (now' % SWEEP_SECS = 0)
    /\ UNCHANGED <<sessions, rate, occupied, life, guesses, pin_tries>>

\* Whether the sweep keeps session s.
KeptSession(s, busy) ==
    /\ now - s.created < MAX_AGE_SECS
    /\ busy \/ now - s.last_active < EMPTY_GRACE_SECS

\* Mutant: a sweep does not record that it saw members.
SweptUnstamped(s, busy) == IF s.live /\ KeptSession(s, busy) THEN s ELSE NoSession

\* Session s after the sweep.
Swept(s, busy) ==
    IF ~s.live \/ ~KeptSession(s, busy) THEN NoSession
    ELSE IF busy THEN [s EXCEPT !.last_active = now]
    ELSE s

\* The sweep of the reaper: reap, then prune.  The room of a session that is
\* gone is not followed any more; a session that reuses its code has another.
Reap ==
    /\ due
    /\ due' = FALSE
    /\ sessions' = [c \in Code |-> Swept(sessions[c], c \in occupied)]
    /\ rate' = [i \in Ip |-> IF Expired(rate[i]) THEN NoEntry ELSE rate[i]]
    /\ occupied' = {c \in occupied : sessions'[c].live}
    /\ life' = [c \in Code |-> IF sessions'[c].live THEN life[c] ELSE NoLife]
    /\ UNCHANGED <<now, guesses, pin_tries>>

-----------------------------------------------------------------------------
BrokerNext ==
    \/ \E i \in Ip : \/ RateLimited(i) \/ JoinOverlong(i)
                     \/ \E c \in Code : \/ CreateSession(i, c) \/ PinRefused(i, c)
                                        \/ PinGood(i, c) \/ PinBad(i, c)
    \/ \E c \in Code : RoomFills(c) \/ RoomEmpties(c)
    \/ Second
    \/ Reap

BrokerSpec == BrokerInit /\ [][BrokerNext]_brokerVars

-----------------------------------------------------------------------------
(***************************************************************************)
(* Properties.                                                             *)
(***************************************************************************)
\* join_at: more than MAX_ATTEMPTS wrong PINs on one session never fall into
\* one lock period, however locks, expiries and correct PINs interleave.
GuessBudget ==
    \A c \in Code :
        LET g == guesses[c] IN
        Len(g) > MAX_ATTEMPTS => g[Len(g)] - g[Len(g) - MAX_ATTEMPTS] >= LOCK_SECS

Since(t, limit) == now - t >= limit

\* sessions.rs says of EMPTY_GRACE that it is the grace after the room goes
\* empty, and of last_active that it is the last time the room had a member: a
\* session that is reaped below the cap has been empty for the grace.  It does
\* not hold: last_active moves at a sweep and at a good PIN, not when the room
\* empties.
SurvivesGrace ==
    [][\A c \in Live :
         ~sessions'[c].live => \/ Since(sessions[c].created, MAX_AGE_SECS)
                               \/ c \notin occupied /\ Since(life[c].to, EMPTY_GRACE_SECS)]_brokerVars

\* What holds of a reaped session instead.  Below the cap its room is empty, and
\* no good PIN came for the whole grace; and if the room had members for longer
\* than a sweep period, so that a sweep saw them, the grace since they left is
\* cut short by less than one.
ReapsNotEarly(c) ==
    \/ Since(sessions[c].created, MAX_AGE_SECS)
    \/ /\ c \notin occupied
       /\ Since(life[c].admitted, EMPTY_GRACE_SECS)
       /\ life[c].to - life[c].from > SWEEP_SECS => Since(life[c].to, EMPTY_GRACE_SECS - SWEEP_SECS)

\* As the sweep alone takes sessions away, none outlives the cap by more than a
\* sweep period, even one whose room is never empty, nor the grace since the
\* last good PIN and the last member, whatever wrong PINs came.
ReapsNotLate(c) ==
    /\ now - sessions[c].created < MAX_AGE_SECS + SWEEP_SECS
    /\ \/ c \in occupied
       \/ now - life[c].to < EMPTY_GRACE_SECS + SWEEP_SECS
       \/ now - life[c].admitted < EMPTY_GRACE_SECS + SWEEP_SECS

\* reap: what it takes away is due, and what is due goes at the next sweep.
ReapsInTime ==
    [][\A c \in Live : IF sessions'[c].live THEN ReapsNotLate(c)' ELSE ReapsNotEarly(c)]_brokerVars

\* With fixed windows started by the first request of either kind, and entries
\* pruned by the sweep, allow lets an address get no more than two windows'
\* worth of PIN tries through in the span of one window.
TryBudget ==
    \A i \in Ip :
        LET t == pin_tries[i] IN
        Len(t) > 2 * RL_JOIN_MAX => t[Len(t)] - t[1] >= RL_WINDOW

\* Neither a session nor an address yields more PIN guesses than its budget.
PinBudgets == GuessBudget /\ TryBudget
=============================================================================

------------------------- MODULE ServerParts_proofs -------------------------
(***************************************************************************)
(* The parts of the server that share no state with the rooms.  For any     *)
(* codes, addresses, budgets and periods: the reaper takes what is due, in    *)
(* time, neither a session nor an address yields more PIN guesses than its  *)
(* budget.  For any settings, requests, starts and kills: the door opens to *)
(* the invited only, and a fingerprint a client pinned stays good.  For any *)
(* changelogs and clicks: the pages keep what a visitor chose, and the      *)
(* changelog is well formed.                                               *)
(***************************************************************************)
EXTENDS SessionBroker, ServerStart, WebPages, FiniteSetTheorems, SequenceTheorems,
        TLAPS

-----------------------------------------------------------------------------
(***************************************************************************)
(* The session broker: types.                                              *)
(***************************************************************************)
SessionType == [live : BOOLEAN, created : Nat, last_active : Nat,
                attempts : 0..MAX_ATTEMPTS, locked_at : Nat]

EntryType == [start : Nat, count : 0..Saturated]

LifeType == [admitted : Nat, from : Nat, to : Nat]

BrokerType ==
  /\ now \in Nat \ {0}
  /\ sessions \in [Code -> SessionType]
  /\ rate \in [Ip -> EntryType]
  /\ due \in BOOLEAN
  /\ occupied \subseteq Code
  /\ life \in [Code -> LifeType]
  /\ guesses \in [Code -> Seq(Nat)]
  /\ pin_tries \in [Ip -> Seq(Nat)]

\* Latest appends the clock and drops from the front: counted from the end,
\* every element moves up by one.
LEMMA LatestIs ==
  ASSUME now \in Nat, NEW s \in Seq(Nat), NEW n \in Nat \ {0}
  PROVE  /\ Latest(s, n) \in Seq(Nat)
         /\ Len(Latest(s, n)) = IF Len(s) < n THEN Len(s) + 1 ELSE n
         /\ Latest(s, n)[Len(Latest(s, n))] = now
         /\ \A k \in 1..(Len(Latest(s, n)) - 1) :
              Latest(s, n)[Len(Latest(s, n)) - k] = s[Len(s) + 1 - k]
  <1> DEFINE a == Append(s, now)
             m == Len(s)
  <1>1. /\ a \in Seq(Nat) /\ m \in Nat /\ Len(a) = m + 1 /\ a[m + 1] = now
        /\ \A i \in 1..m : a[i] = s[i]
    OBVIOUS
  <1>2. Latest(s, n) = IF Len(a) <= n THEN a ELSE SubSeq(a, Len(a) - n + 1, Len(a))
    BY DEF Latest
  <1> HIDE DEF a, m
  <1>3. CASE m < n
    <2>1. Latest(s, n) = a
      BY <1>1, <1>2, <1>3
    <2>2. \A k \in 1..(Len(a) - 1) : Len(a) - k \in 1..m /\ Len(a) - k = m + 1 - k
      BY <1>1
    <2> QED BY <1>1, <1>3, <2>1, <2>2 DEF m
  <1>4. CASE ~(m < n)
    <2> DEFINE b == SubSeq(a, (m + 1) - n + 1, m + 1)
    <2>1. Latest(s, n) = b
      BY <1>1, <1>2, <1>4
    <2>2. (m + 1) - n + 1 \in 1..(m + 1) /\ m + 1 \in 1..Len(a)
      BY <1>1, <1>4
    <2>3. /\ b \in Seq(Nat) /\ Len(b) = n
          /\ \A i \in 1..n : b[i] = a[(m + 1) - n + i]
      BY <1>1, <1>4, <2>2
    <2> HIDE DEF b
    <2>4. b[n] = now
      BY <1>1, <2>3
    <2>5. ASSUME NEW k \in 1..(n - 1) PROVE b[n - k] = s[m + 1 - k]
      <3>1. n - k \in 1..n /\ (m + 1) - n + (n - k) = m + 1 - k /\ m + 1 - k \in 1..m
        BY <1>1, <1>4
      <3> QED BY <1>1, <2>3, <3>1
    <2> QED BY <1>4, <2>1, <2>3, <2>4, <2>5 DEF m
  <1> QED BY <1>1, <1>3, <1>4

LEMMA CountedType ==
  ASSUME now \in Nat \ {0}, NEW e \in EntryType
  PROVE  /\ Counted(e) \in EntryType
         /\ Counted(e).count >= 1
         /\ Counted(e).start \in 1..now \/ Counted(e).start = e.start
  <1>1. Saturated \in Nat /\ Saturated >= 1
    BY BrokerConstants DEF Saturated
  <1> QED BY <1>1 DEF Counted, EntryType

\* The remainder of the clock goes up by one or, from the last, starts again.
LEMMA NextSecond ==
  ASSUME NEW a \in Nat, NEW b \in Nat \ {0}
  PROVE  /\ a % b \in 0..(b - 1)
         /\ \/ (a + 1) % b = (a % b) + 1
            \/ (a + 1) % b = 0 /\ a % b = b - 1
  OBVIOUS

-----------------------------------------------------------------------------
(***************************************************************************)
(* The life of a session.                                                  *)
(***************************************************************************)
\* Seconds since the last sweep; while one is due, a whole period.
Phase == IF due /\ now % SWEEP_SECS = 0 THEN SWEEP_SECS ELSE now % SWEEP_SECS

LastSweep == now - Phase

\* What session s, with the life l and a room that has members or not, says at
\* the time t when the last sweep was at u.  It was last active no earlier than
\* its last good PIN, or, with a room that has members since before the sweep,
\* than the sweep; without members it was active no later than it was used, and
\* the sweep found it within the cap and the grace.
LifeOk(s, l, busy, u, t) ==
  /\ s.created <= l.admitted /\ l.admitted <= s.last_active /\ s.last_active <= t
  /\ l.to <= t
  /\ u - s.created < MAX_AGE_SECS
  /\ busy /\ l.from < u => s.last_active >= u
  /\ ~busy /\ l.to - l.from > SWEEP_SECS => s.last_active >= l.to - SWEEP_SECS
  /\ ~busy => s.last_active <= l.admitted \/ s.last_active <= l.to
  /\ ~busy => u - l.admitted < EMPTY_GRACE_SECS \/ u - l.to < EMPTY_GRACE_SECS

LivesKept ==
  \A c \in Code :
    sessions[c].live => LifeOk(sessions[c], life[c], c \in occupied, LastSweep, now)

-----------------------------------------------------------------------------
(***************************************************************************)
(* Wrong PINs of a session.                                                *)
(***************************************************************************)
\* Times that never go back, none after t.
Ordered(g, t) ==
  /\ \A i \in 1..Len(g) : g[i] <= t
  /\ \A i, j \in 1..Len(g) : i <= j => g[i] <= g[j]

\* The counted attempts are the latest wrong PINs; the one before them, if any,
\* set a lock that has run out at t; and a full count was reached by the last one,
\* which set the lock.
Counting(s, g, t) ==
  /\ s.attempts <= Len(g)
  /\ s.attempts < Len(g) /\ s.attempts < MAX_ATTEMPTS
       => t - g[Len(g) - s.attempts] >= LOCK_SECS
  /\ s.attempts = MAX_ATTEMPTS => s.locked_at = g[Len(g)]

WithinBudget(g) ==
  Len(g) > MAX_ATTEMPTS => g[Len(g)] - g[Len(g) - MAX_ATTEMPTS] >= LOCK_SECS

GuessInv ==
  \A c \in Code :
    /\ Ordered(guesses[c], now)
    /\ WithinBudget(guesses[c])
    /\ sessions[c].live => Counting(sessions[c], guesses[c], now)

-----------------------------------------------------------------------------
(***************************************************************************)
(* PIN tries of an address.                                                *)
(***************************************************************************)
\* Of the tries t, the latest j fall into the window of entry e: those before
\* are no later than its start, and all but the last RL_JOIN_MAX of those are a
\* whole window earlier.
InWindow(e, t, j) ==
  /\ j <= e.count
  /\ \A k \in j..(Len(t) - 1) : t[Len(t) - k] <= e.start
  /\ \A k \in (j + RL_JOIN_MAX)..(Len(t) - 1) : t[Len(t) - k] + RL_WINDOW <= e.start

\* Without an entry, all but the last RL_JOIN_MAX tries are a window old at u.
Pruned(t, u) ==
  \A k \in RL_JOIN_MAX..(Len(t) - 1) : t[Len(t) - k] + RL_WINDOW <= u

\* What the entry e of an address says of its tries t at the time u.
Charged(e, t, u) ==
  IF e = NoEntry THEN Pruned(t, u)
  ELSE e.start \in 1..u /\ \E j \in 0..RL_JOIN_MAX : InWindow(e, t, j)

\* Among the latest 2 * RL_JOIN_MAX + 1 tries, the first and the last are a
\* window apart; none is after u.
Spread(t, u) ==
  /\ Len(t) <= 2 * RL_JOIN_MAX + 1
  /\ \A k \in 1..Len(t) : t[k] <= u
  /\ Len(t) > 2 * RL_JOIN_MAX => t[Len(t)] - t[1] >= RL_WINDOW

TryInv == \A i \in Ip : Charged(rate[i], pin_tries[i], now) /\ Spread(pin_tries[i], now)

-----------------------------------------------------------------------------
(***************************************************************************)
(* The steps keep the types.                                               *)
(***************************************************************************)
LEMMA BrokerTypeInit == BrokerInit => BrokerType
  <1> SUFFICES ASSUME BrokerInit PROVE BrokerType
    OBVIOUS
  <1>1. NoSession \in SessionType /\ NoEntry \in EntryType
    BY BrokerConstants DEF NoSession, NoEntry, SessionType, EntryType, Saturated
  <1>2. sessions \in [Code -> SessionType] /\ rate \in [Ip -> EntryType]
    BY <1>1 DEF BrokerInit
  <1>3. life \in [Code -> LifeType]
    BY DEF BrokerInit, NoLife, Life, LifeType
  <1>4. guesses \in [Code -> Seq(Nat)] /\ pin_tries \in [Ip -> Seq(Nat)]
    BY DEF BrokerInit
  <1> QED BY <1>2, <1>3, <1>4 DEF BrokerInit, BrokerType

\* What a request does to the entry of its address.
LEMMA AllowType ==
  ASSUME BrokerType, NEW i \in Ip, rate' = [rate EXCEPT ![i] = Counted(rate[i])]
  PROVE  rate' \in [Ip -> EntryType]
  <1>1. Counted(rate[i]) \in EntryType
    BY CountedType DEF BrokerType
  <1> QED BY <1>1 DEF BrokerType

LEMMA TryType ==
  ASSUME BrokerType, NEW i \in Ip, PinTry(i)
  PROVE  /\ rate' \in [Ip -> EntryType] /\ pin_tries' \in [Ip -> Seq(Nat)]
         /\ UNCHANGED <<now, due, occupied>>
  <1>1. rate' \in [Ip -> EntryType]
    BY AllowType DEF PinTry, Allow
  <1>2. Latest(pin_tries[i], 2 * RL_JOIN_MAX + 1) \in Seq(Nat)
    <2>1. 2 * RL_JOIN_MAX + 1 \in Nat \ {0} /\ pin_tries[i] \in Seq(Nat) /\ now \in Nat
      BY BrokerConstants DEF BrokerType
    <2> QED BY <2>1, LatestIs
  <1> QED BY <1>1, <1>2 DEF BrokerType, PinTry

LEMMA AfterPinType ==
  ASSUME now \in Nat, NEW s \in SessionType
  PROVE  /\ AfterGoodPin(s) \in SessionType
         /\ AfterGoodPin(s).live = s.live /\ AfterGoodPin(s).created = s.created
         /\ AfterGoodPin(s).last_active = now
         /\ AfterGoodPin(s).attempts = Attempts(s)
         /\ AfterGoodPin(s).locked_at = s.locked_at
         /\ AfterBadPin(s) \in SessionType
         /\ AfterBadPin(s).live = s.live /\ AfterBadPin(s).created = s.created
         /\ AfterBadPin(s).last_active = s.last_active
         /\ AfterBadPin(s).attempts = Attempts(s) + 1
         /\ Attempts(s) + 1 = MAX_ATTEMPTS => AfterBadPin(s).locked_at = now
  <1>1. Attempts(s) \in 0..MAX_ATTEMPTS /\ Attempts(s) + 1 \in 0..MAX_ATTEMPTS
    BY BrokerConstants DEF SessionType, Attempts
  <1>2. /\ AfterGoodPin(s) \in SessionType
        /\ AfterGoodPin(s).live = s.live /\ AfterGoodPin(s).created = s.created
        /\ AfterGoodPin(s).last_active = now
        /\ AfterGoodPin(s).attempts = Attempts(s)
        /\ AfterGoodPin(s).locked_at = s.locked_at
    BY <1>1 DEF AfterGoodPin, SessionType
  <1>3. /\ AfterBadPin(s) \in SessionType
        /\ AfterBadPin(s).live = s.live /\ AfterBadPin(s).created = s.created
        /\ AfterBadPin(s).last_active = s.last_active
        /\ AfterBadPin(s).attempts = Attempts(s) + 1
    BY <1>1 DEF AfterBadPin, SessionType
  <1>4. Attempts(s) + 1 = MAX_ATTEMPTS => AfterBadPin(s).locked_at = now
    BY <1>1, BrokerConstants DEF AfterBadPin, SessionType
  <1> QED BY <1>2, <1>3, <1>4

\* A session the sweep keeps is younger than the cap and not idle for too
\* long; it keeps the second of its creation.
LEMMA SweptIs ==
  ASSUME now \in Nat, NEW s \in SessionType, NEW c
  PROVE  /\ Swept(s, c \in occupied) \in SessionType
         /\ Swept(s, c \in occupied).live =>
              /\ s.live /\ now - s.created < MAX_AGE_SECS
              /\ Swept(s, c \in occupied).created = s.created
              /\ Swept(s, c \in occupied).last_active \in {s.last_active, now}
              /\ Swept(s, c \in occupied).attempts = s.attempts
              /\ Swept(s, c \in occupied).locked_at = s.locked_at
         /\ s.live /\ ~Swept(s, c \in occupied).live =>
              \/ now - s.created >= MAX_AGE_SECS
              \/ c \notin occupied /\ now - s.last_active >= EMPTY_GRACE_SECS
  <1>1. CASE ~s.live \/ ~KeptSession(s, c \in occupied)
    <2>1. Swept(s, c \in occupied) = NoSession
      BY <1>1 DEF Swept
    <2>2. NoSession \in SessionType /\ ~NoSession.live
      BY BrokerConstants DEF NoSession, SessionType
    <2> QED BY <1>1, <2>1, <2>2, BrokerConstants DEF KeptSession, SessionType
  <1>2. CASE s.live /\ KeptSession(s, c \in occupied) /\ c \in occupied
    <2>1. Swept(s, c \in occupied) = [s EXCEPT !.last_active = now]
      BY <1>2 DEF Swept
    <2>2. [s EXCEPT !.last_active = now] \in SessionType
      BY DEF SessionType
    <2> QED BY <1>2, <2>1, <2>2 DEF KeptSession, SessionType
  <1>3. CASE s.live /\ KeptSession(s, c \in occupied) /\ c \notin occupied
    <2>1. Swept(s, c \in occupied) = s
      BY <1>3 DEF Swept
    <2> QED BY <1>3, <2>1 DEF KeptSession
  <1> QED BY <1>1, <1>2, <1>3 DEF SessionType

LEMMA BrokerTypeKept ==
  ASSUME BrokerType, [BrokerNext]_brokerVars
  PROVE  BrokerType'
  <1>1. ASSUME NEW i \in Ip, RateLimited(i) PROVE BrokerType'
    BY <1>1, AllowType DEF RateLimited, Refuse, BrokerType
  <1>2. ASSUME NEW i \in Ip, NEW c \in Code, CreateSession(i, c) PROVE BrokerType'
    <2>1. rate' \in [Ip -> EntryType]
      BY <1>2, AllowType DEF CreateSession, Allow
    <2>2. Session(now) \in SessionType /\ <<>> \in Seq(Nat) /\ Life(now) \in LifeType
      BY BrokerConstants DEF Session, SessionType, Life, LifeType, BrokerType
    <2> QED BY <1>2, <2>1, <2>2 DEF CreateSession, BrokerType
  <1>3. ASSUME NEW i \in Ip, JoinOverlong(i) \/ \E c \in Code : PinRefused(i, c)
        PROVE  BrokerType'
    BY <1>3, TryType DEF JoinOverlong, PinRefused, BrokerType
  <1>4. ASSUME NEW i \in Ip, NEW c \in Code, PinGood(i, c) PROVE BrokerType'
    <2>1. AfterGoodPin(sessions[c]) \in SessionType
      BY AfterPinType DEF BrokerType
    <2>2. [life EXCEPT ![c].admitted = now] \in [Code -> LifeType]
      BY DEF BrokerType, LifeType
    <2> QED BY <1>4, <2>1, <2>2, TryType DEF PinGood, BrokerType
  <1>5. ASSUME NEW i \in Ip, NEW c \in Code, PinBad(i, c) PROVE BrokerType'
    <2>1. AfterBadPin(sessions[c]) \in SessionType
      BY <1>5, AfterPinType DEF PinBad, BrokerType
    <2>2. Latest(guesses[c], MAX_ATTEMPTS + 1) \in Seq(Nat)
      <3>1. MAX_ATTEMPTS + 1 \in Nat \ {0} /\ guesses[c] \in Seq(Nat) /\ now \in Nat
        BY BrokerConstants DEF BrokerType
      <3> QED BY <3>1, LatestIs
    <2> QED BY <1>5, <2>1, <2>2, TryType DEF PinBad, BrokerType
  <1>6. ASSUME NEW c \in Code, RoomFills(c) \/ RoomEmpties(c) PROVE BrokerType'
    <2>1. /\ [life EXCEPT ![c].from = now] \in [Code -> LifeType]
          /\ [life EXCEPT ![c].to = now] \in [Code -> LifeType]
      BY DEF BrokerType, LifeType
    <2> QED BY <1>6, <2>1 DEF RoomFills, RoomEmpties, BrokerType
  <1>7. CASE Second
    BY <1>7 DEF Second, BrokerType
  <1>8. CASE Reap
    <2>1. \A c \in Code : Swept(sessions[c], c \in occupied) \in SessionType
      <3> SUFFICES ASSUME NEW c \in Code PROVE Swept(sessions[c], c \in occupied) \in SessionType
        OBVIOUS
      <3>1. sessions[c] \in SessionType /\ now \in Nat
        BY DEF BrokerType
      <3> QED BY <3>1, SweptIs
    <2>2. \A i \in Ip : (IF Expired(rate[i]) THEN NoEntry ELSE rate[i]) \in EntryType
      BY BrokerConstants DEF NoEntry, EntryType, Saturated, BrokerType
    <2>3. NoLife \in LifeType
      BY DEF NoLife, Life, LifeType
    <2> QED BY <1>8, <2>1, <2>2, <2>3 DEF Reap, BrokerType
  <1>9. CASE UNCHANGED brokerVars
    BY <1>9 DEF brokerVars, BrokerType
  <1> QED BY <1>1, <1>2, <1>3, <1>4, <1>5, <1>6, <1>7, <1>8, <1>9 DEF BrokerNext

-----------------------------------------------------------------------------
(***************************************************************************)
(* The steps keep the lives of sessions, and reap in time.                 *)
(***************************************************************************)
\* What lies at most d before x.
LEMMA Ago ==
  ASSUME NEW x \in Nat, NEW d \in Nat, NEW r \in 0..d, NEW y, y = x - r
  PROVE  y \in Int /\ y <= x /\ x - y <= d
  OBVIOUS

\* The last sweep moves with a sweep only, and is never more than a period ago.
LEMMA SweepSteps ==
  ASSUME BrokerType, [BrokerNext]_brokerVars
  PROVE  /\ LastSweep \in Int /\ LastSweep <= now /\ now - LastSweep <= SWEEP_SECS
         /\ LastSweep' \in Int /\ LastSweep' <= now' /\ now' - LastSweep' <= SWEEP_SECS
         /\ ~Reap => LastSweep' = LastSweep
         /\ Reap => now' = now /\ LastSweep' \in {LastSweep, now}
         /\ now' \in Nat /\ now <= now'
  <1>1. /\ now \in Nat /\ SWEEP_SECS \in Nat \ {0} /\ now' \in Nat
        /\ due \in BOOLEAN /\ due' \in BOOLEAN
    BY BrokerConstants, BrokerTypeKept DEF BrokerType
  <1> DEFINE a == now % SWEEP_SECS
             b == now' % SWEEP_SECS
             p == Phase
             q == Phase'
             u == LastSweep
             v == LastSweep'
  <1>2. /\ a \in 0..(SWEEP_SECS - 1) /\ b \in 0..(SWEEP_SECS - 1)
        /\ now' = now + 1 => b = a + 1 \/ (b = 0 /\ a = SWEEP_SECS - 1)
    BY <1>1, NextSecond
  <1>3. /\ p = IF due /\ a = 0 THEN SWEEP_SECS ELSE a
        /\ q = IF due' /\ b = 0 THEN SWEEP_SECS ELSE b
        /\ now' = now => a = b
    BY DEF Phase
  <1>4. \/ UNCHANGED <<now, due>> /\ ~Reap
        \/ Second /\ now' = now + 1 /\ ~due /\ due' = (now' % SWEEP_SECS = 0) /\ ~Reap
        \/ Reap /\ now' = now /\ due /\ ~due'
    BY <1>1 DEF BrokerNext, RateLimited, CreateSession, JoinOverlong, PinRefused, PinGood,
       PinBad, PinTry, RoomFills, RoomEmpties, Second, Reap, brokerVars
  <1>5. u = now - p /\ v = now' - q
    BY DEF LastSweep
  <1>6. Second => (due' <=> b = 0)
    BY DEF Second
  <1> HIDE DEF a, b, p, q, u, v
  <1>7. p \in 0..SWEEP_SECS /\ q \in 0..SWEEP_SECS
    BY <1>1, <1>2, <1>3
  <1>8. /\ u \in Int /\ u <= now /\ now - u <= SWEEP_SECS
         /\ v \in Int /\ v <= now' /\ now' - v <= SWEEP_SECS
    <2>1. SWEEP_SECS \in Nat
      BY <1>1
    <2>2. u \in Int /\ u <= now /\ now - u <= SWEEP_SECS
      BY <1>1, <1>5, <1>7, <2>1, Ago
    <2>3. v \in Int /\ v <= now' /\ now' - v <= SWEEP_SECS
      BY <1>1, <1>5, <1>7, <2>1, Ago
    <2> QED BY <2>2, <2>3
  <1>9. CASE UNCHANGED <<now, due>> /\ ~Reap
    <2>1. p = q
      BY <1>3, <1>9
    <2>2. v = u
      BY <1>5, <1>9, <2>1
    <2> QED BY <1>1, <1>8, <1>9, <2>2 DEF u, v
  <1>10. CASE Second /\ now' = now + 1 /\ ~due /\ ~Reap
    <2>1. q = p + 1
      BY <1>1, <1>2, <1>3, <1>6, <1>10
    <2>2. v = u
      BY <1>1, <1>5, <1>7, <1>10, <2>1
    <2> QED BY <1>1, <1>8, <1>10, <2>2 DEF u, v
  <1>11. CASE Reap /\ now' = now /\ due /\ ~due'
    <2>1. q = p \/ q = 0
      BY <1>3, <1>11
    <2>2. v \in {u, now}
      BY <1>1, <1>5, <1>7, <1>11, <2>1
    <2>3. now' \in Nat /\ now <= now'
      BY <1>1, <1>11
    <2> QED BY <1>8, <1>11, <2>2, <2>3, Zenon DEF u, v
  <1> QED BY <1>4, <1>9, <1>10, <1>11

\* What a step other than a sweep may do to a session that is live after it.
LEMMA LifeSteps ==
  ASSUME BrokerType, [BrokerNext]_brokerVars, ~Reap, NEW c \in Code, sessions'[c].live
  PROVE  \/ /\ UNCHANGED <<sessions[c], life[c]>> /\ (c \in occupied') = (c \in occupied)
         \/ /\ sessions'[c] = Session(now) /\ life'[c] = Life(now) /\ now' = now
         \/ /\ sessions[c].live /\ now' = now /\ (c \in occupied') = (c \in occupied)
            /\ \/ /\ sessions'[c] = AfterGoodPin(sessions[c])
                  /\ life'[c] = [life[c] EXCEPT !.admitted = now]
               \/ sessions'[c] = AfterBadPin(sessions[c]) /\ life'[c] = life[c]
         \/ /\ sessions'[c] = sessions[c] /\ now' = now
            /\ \/ c \in occupied' /\ life'[c] = [life[c] EXCEPT !.from = now]
               \/ /\ c \in occupied /\ c \notin occupied'
                  /\ life'[c] = [life[c] EXCEPT !.to = now]
  <1> DEFINE Same == UNCHANGED <<sessions[c], life[c]>> /\ (c \in occupied') = (c \in occupied)
  <1>0. /\ sessions \in [Code -> SessionType] /\ life \in [Code -> LifeType]
    BY DEF BrokerType
  <1>1. ASSUME NEW i \in Ip, NEW d \in Code, CreateSession(i, d) PROVE
           \/ Same
           \/ sessions'[c] = Session(now) /\ life'[c] = Life(now) /\ now' = now
    BY <1>0, <1>1 DEF CreateSession
  <1>2. ASSUME NEW i \in Ip, NEW d \in Code, PinGood(i, d) \/ PinBad(i, d) PROVE
           \/ Same
           \/ /\ sessions[c].live /\ now' = now /\ (c \in occupied') = (c \in occupied)
              /\ \/ /\ sessions'[c] = AfterGoodPin(sessions[c])
                    /\ life'[c] = [life[c] EXCEPT !.admitted = now]
                 \/ sessions'[c] = AfterBadPin(sessions[c]) /\ life'[c] = life[c]
    <2>1. UNCHANGED <<now, occupied>> /\ sessions[d].live
      BY <1>2 DEF PinGood, PinBad, PinTry, Live
    <2>2. \/ /\ sessions' = [sessions EXCEPT ![d] = AfterGoodPin(sessions[d])]
             /\ life' = [life EXCEPT ![d].admitted = now]
          \/ sessions' = [sessions EXCEPT ![d] = AfterBadPin(sessions[d])] /\ life' = life
      BY <1>2 DEF PinGood, PinBad
    <2>3. CASE d = c
      BY <1>0, <2>1, <2>2, <2>3
    <2>4. CASE d # c
      BY <1>0, <2>1, <2>2, <2>4
    <2> QED BY <2>3, <2>4
  <1>3. ASSUME NEW i \in Ip, RateLimited(i) \/ JoinOverlong(i) \/ \E d \in Code : PinRefused(i, d)
        PROVE  Same
    BY <1>3 DEF RateLimited, JoinOverlong, PinRefused, PinTry
  <1>4. ASSUME NEW d \in Code, RoomFills(d) \/ RoomEmpties(d) PROVE
           \/ Same
           \/ /\ sessions'[c] = sessions[c] /\ now' = now
              /\ \/ c \in occupied' /\ life'[c] = [life[c] EXCEPT !.from = now]
                 \/ /\ c \in occupied /\ c \notin occupied'
                    /\ life'[c] = [life[c] EXCEPT !.to = now]
    BY <1>0, <1>4 DEF RoomFills, RoomEmpties
  <1>5. CASE Second
    BY <1>5 DEF Second
  <1>6. CASE UNCHANGED brokerVars
    BY <1>6 DEF brokerVars
  <1> QED BY <1>1, <1>2, <1>3, <1>4, <1>5, <1>6 DEF BrokerNext

\* Time passes; a session begins; a good PIN, a bad one; its room fills, empties.
LEMMA LifeChanges ==
  ASSUME NEW s \in SessionType, NEW l \in LifeType, NEW busy \in BOOLEAN,
         NEW u \in Int, now \in Nat, u <= now, now - u <= SWEEP_SECS
  PROVE  /\ \A v \in Nat : now <= v /\ LifeOk(s, l, busy, u, now) => LifeOk(s, l, busy, u, v)
         /\ LifeOk(Session(now), Life(now), busy, u, now)
         /\ LifeOk(s, l, busy, u, now) =>
              /\ LifeOk(AfterGoodPin(s), [l EXCEPT !.admitted = now], busy, u, now)
              /\ LifeOk(AfterBadPin(s), l, busy, u, now)
              /\ LifeOk(s, [l EXCEPT !.from = now], TRUE, u, now)
              /\ busy => LifeOk(s, [l EXCEPT !.to = now], FALSE, u, now)
  <1>1. /\ MAX_AGE_SECS \in Nat \ {0} /\ EMPTY_GRACE_SECS \in Nat \ {0} /\ SWEEP_SECS \in Nat \ {0}
        /\ s.created \in Nat /\ s.last_active \in Nat
        /\ l.admitted \in Nat /\ l.from \in Nat /\ l.to \in Nat
    BY BrokerConstants DEF SessionType, LifeType
  <1>2. \A v \in Nat : now <= v /\ LifeOk(s, l, busy, u, now) => LifeOk(s, l, busy, u, v)
    BY <1>1 DEF LifeOk
  <1>3. LifeOk(Session(now), Life(now), busy, u, now)
    BY <1>1 DEF LifeOk, Session, Life
  <1>4. ASSUME LifeOk(s, l, busy, u, now)
        PROVE  LifeOk(AfterGoodPin(s), [l EXCEPT !.admitted = now], busy, u, now)
    <2>1. /\ AfterGoodPin(s).created = s.created /\ AfterGoodPin(s).last_active = now
      BY <1>4, AfterPinType
    <2>2. LET m == [l EXCEPT !.admitted = now] IN m.admitted = now /\ m.from = l.from /\ m.to = l.to
      BY DEF LifeType
    <2> QED BY <1>1, <1>4, <2>1, <2>2 DEF LifeOk
  <1>5. ASSUME LifeOk(s, l, busy, u, now) PROVE LifeOk(AfterBadPin(s), l, busy, u, now)
    <2>1. AfterBadPin(s).created = s.created /\ AfterBadPin(s).last_active = s.last_active
      BY DEF AfterBadPin, SessionType
    <2> QED BY <1>5, <2>1 DEF LifeOk
  <1>6. ASSUME LifeOk(s, l, busy, u, now) PROVE LifeOk(s, [l EXCEPT !.from = now], TRUE, u, now)
    <2>1. LET m == [l EXCEPT !.from = now] IN m.admitted = l.admitted /\ m.from = now /\ m.to = l.to
      BY DEF LifeType
    <2> QED BY <1>1, <1>6, <2>1 DEF LifeOk
  <1>7. ASSUME LifeOk(s, l, busy, u, now), busy PROVE LifeOk(s, [l EXCEPT !.to = now], FALSE, u, now)
    <2>1. LET m == [l EXCEPT !.to = now] IN m.admitted = l.admitted /\ m.from = l.from /\ m.to = now
      BY DEF LifeType
    <2> QED BY <1>1, <1>7, <2>1 DEF LifeOk
  <1> QED BY <1>2, <1>3, <1>4, <1>5, <1>6, <1>7

\* A session that the sweep leaves, and one it takes away.
LEMMA LifeSwept ==
  ASSUME NEW c \in Code, NEW s \in SessionType, NEW l \in LifeType, NEW u \in Int, now \in Nat,
         LifeOk(s, l, c \in occupied, u, now), u <= now
  PROVE  /\ Swept(s, c \in occupied).live =>
              /\ LifeOk(Swept(s, c \in occupied), l, c \in occupied, u, now)
              /\ LifeOk(Swept(s, c \in occupied), l, c \in occupied, now, now)
         /\ s.live /\ ~Swept(s, c \in occupied).live =>
              \/ Since(s.created, MAX_AGE_SECS)
              \/ /\ c \notin occupied
                 /\ Since(l.admitted, EMPTY_GRACE_SECS)
                 /\ l.to - l.from > SWEEP_SECS => Since(l.to, EMPTY_GRACE_SECS - SWEEP_SECS)
  <1>1. /\ MAX_AGE_SECS \in Nat \ {0} /\ EMPTY_GRACE_SECS \in Nat \ {0} /\ SWEEP_SECS \in Nat \ {0}
        /\ s.created \in Nat /\ s.last_active \in Nat /\ s.live \in BOOLEAN
        /\ l.admitted \in Nat /\ l.from \in Nat /\ l.to \in Nat
    BY BrokerConstants DEF SessionType, LifeType
  <1>2. CASE ~s.live \/ ~KeptSession(s, c \in occupied)
    <2>1. Swept(s, c \in occupied) = NoSession /\ ~NoSession.live
      BY <1>2 DEF Swept, NoSession
    <2> QED BY <1>1, <1>2, <2>1 DEF KeptSession, LifeOk, Since
  <1>3. CASE s.live /\ KeptSession(s, c \in occupied) /\ c \in occupied
    <2> DEFINE r == [s EXCEPT !.last_active = now]
    <2>1. Swept(s, c \in occupied) = r
      BY <1>3 DEF Swept
    <2>2. r.live /\ r.created = s.created /\ r.last_active = now
      BY <1>3 DEF SessionType
    <2>3. now - s.created < MAX_AGE_SECS
      BY <1>3 DEF KeptSession
    <2> HIDE DEF r
    <2> QED BY <1>1, <1>3, <2>1, <2>2, <2>3 DEF LifeOk
  <1>4. CASE s.live /\ KeptSession(s, c \in occupied) /\ c \notin occupied
    <2>1. Swept(s, c \in occupied) = s
      BY <1>4 DEF Swept
    <2>2. now - s.created < MAX_AGE_SECS /\ now - s.last_active < EMPTY_GRACE_SECS
      BY <1>4 DEF KeptSession
    <2> QED BY <1>1, <1>4, <2>1, <2>2 DEF LifeOk
  <1> QED BY <1>2, <1>3, <1>4

\* Every step keeps the lives.
LEMMA LivesStayKept ==
  ASSUME BrokerType, LivesKept, [BrokerNext]_brokerVars
  PROVE  LivesKept'
  <1> SUFFICES ASSUME NEW c \in Code, sessions'[c].live
               PROVE  LifeOk(sessions'[c], life'[c], c \in occupied', LastSweep', now')
    BY DEF LivesKept
  <1>1. /\ now \in Nat /\ now' \in Nat /\ now <= now'
        /\ sessions[c] \in SessionType /\ life[c] \in LifeType
        /\ LastSweep \in Int /\ LastSweep <= now /\ now - LastSweep <= SWEEP_SECS
        /\ (c \in occupied) \in BOOLEAN
    BY SweepSteps DEF BrokerType
  <1>2. sessions[c].live => LifeOk(sessions[c], life[c], c \in occupied, LastSweep, now)
    BY DEF LivesKept
  <1>3. CASE Reap
    <2>1. /\ sessions'[c] = Swept(sessions[c], c \in occupied)
          /\ life'[c] = life[c] /\ (c \in occupied') = (c \in occupied)
      BY <1>3 DEF Reap
    <2>2. now' = now /\ LastSweep' \in {LastSweep, now}
      BY <1>3, SweepSteps
    <2>3. sessions[c].live
      BY <1>1, <2>1, SweptIs
    <2>4. /\ LifeOk(sessions'[c], life[c], c \in occupied, LastSweep, now)
          /\ LifeOk(sessions'[c], life[c], c \in occupied, now, now)
      BY <1>1, <1>2, <2>1, <2>3, LifeSwept
    <2> QED BY <2>1, <2>2, <2>4
  <1>4. CASE ~Reap
    <2>1. LastSweep' = LastSweep
      BY <1>4, SweepSteps
    <2>2. CASE UNCHANGED <<sessions[c], life[c]>> /\ (c \in occupied') = (c \in occupied)
      BY <1>1, <1>2, <2>1, <2>2, LifeChanges
    <2>3. CASE sessions'[c] = Session(now) /\ life'[c] = Life(now) /\ now' = now
      <3>1. (c \in occupied') \in BOOLEAN
        OBVIOUS
      <3>2. LifeOk(Session(now), Life(now), c \in occupied', LastSweep, now)
        BY <1>1, <3>1, LifeChanges
      <3> QED BY <2>1, <2>3, <3>2
    <2>4. CASE /\ sessions[c].live /\ now' = now /\ (c \in occupied') = (c \in occupied)
               /\ \/ /\ sessions'[c] = AfterGoodPin(sessions[c])
                     /\ life'[c] = [life[c] EXCEPT !.admitted = now]
                  \/ sessions'[c] = AfterBadPin(sessions[c]) /\ life'[c] = life[c]
      <3>1. /\ LifeOk(AfterGoodPin(sessions[c]), [life[c] EXCEPT !.admitted = now],
                      c \in occupied, LastSweep, now)
            /\ LifeOk(AfterBadPin(sessions[c]), life[c], c \in occupied, LastSweep, now)
        BY <1>1, <1>2, <2>4, LifeChanges
      <3> QED BY <2>1, <2>4, <3>1
    <2>5. CASE /\ sessions'[c] = sessions[c] /\ now' = now
               /\ \/ c \in occupied' /\ life'[c] = [life[c] EXCEPT !.from = now]
                  \/ /\ c \in occupied /\ c \notin occupied'
                     /\ life'[c] = [life[c] EXCEPT !.to = now]
      <3> DEFINE b == c \in occupied
      <3>0. b \in BOOLEAN /\ LifeOk(sessions[c], life[c], b, LastSweep, now)
        BY <1>2, <2>5
      <3> HIDE DEF b
      <3>1. /\ LifeOk(sessions[c], [life[c] EXCEPT !.from = now], TRUE, LastSweep, now)
            /\ b => LifeOk(sessions[c], [life[c] EXCEPT !.to = now], FALSE, LastSweep, now)
        BY <1>1, <3>0, LifeChanges
      <3>2. (c \in occupied') = TRUE \/ (c \in occupied') = FALSE
        OBVIOUS
      <3> QED BY <2>1, <2>5, <3>1, <3>2 DEF b
    <2> QED BY <1>4, <2>2, <2>3, <2>4, <2>5, LifeSteps
  <1> QED BY <1>3, <1>4

\* Only the sweep takes a session away.
LEMMA OnlyReaped ==
  ASSUME BrokerType, [BrokerNext]_brokerVars, NEW c \in Code, sessions[c].live, ~sessions'[c].live
  PROVE  Reap
  <1>1. /\ sessions[c] \in SessionType /\ now \in Nat /\ sessions \in [Code -> SessionType]
    BY DEF BrokerType
  <1>2. ASSUME NEW i \in Ip, NEW d \in Code, CreateSession(i, d) \/ PinRefused(i, d)
        PROVE  FALSE
    BY <1>1, <1>2 DEF CreateSession, PinRefused, Live
  <1>3. ASSUME NEW i \in Ip, NEW d \in Code, PinGood(i, d) \/ PinBad(i, d)
        PROVE  FALSE
    <2>1. \/ sessions' = [sessions EXCEPT ![d] = AfterGoodPin(sessions[d])]
          \/ sessions' = [sessions EXCEPT ![d] = AfterBadPin(sessions[d])]
      BY <1>3 DEF PinGood, PinBad
    <2>2. CASE d = c
      BY <1>1, <2>1, <2>2, AfterPinType
    <2>3. CASE d # c
      BY <1>1, <2>1, <2>3
    <2> QED BY <2>2, <2>3
  <1>4. ASSUME NEW i \in Ip, RateLimited(i) \/ JoinOverlong(i) PROVE FALSE
    BY <1>4 DEF RateLimited, JoinOverlong
  <1>5. ASSUME NEW d \in Code, RoomFills(d) \/ RoomEmpties(d) PROVE FALSE
    BY <1>5 DEF RoomFills, RoomEmpties
  <1>6. CASE Second \/ UNCHANGED brokerVars
    BY <1>6 DEF Second, brokerVars
  <1> QED BY <1>2, <1>3, <1>4, <1>5, <1>6 DEF BrokerNext

\* A session that stays is not overdue, one that goes is due.
LEMMA ReapSteps ==
  ASSUME BrokerType, LivesKept, [BrokerNext]_brokerVars, NEW c \in Live
  PROVE  IF sessions'[c].live THEN ReapsNotLate(c)' ELSE ReapsNotEarly(c)
  <1>1. c \in Code /\ sessions[c].live /\ sessions[c] \in SessionType /\ life[c] \in LifeType
    BY DEF Live, BrokerType
  <1>2. CASE sessions'[c].live
    <2> DEFINE s == sessions'[c]
               l == life'[c]
               u == LastSweep'
               t == now'
               b == c \in occupied'
    <2>1. LifeOk(s, l, b, u, t)
      BY <1>1, <1>2, LivesStayKept DEF LivesKept
    <2>2. BrokerType'
      BY BrokerTypeKept
    <2>3. s \in SessionType /\ l \in LifeType /\ t \in Nat
      BY <1>1, <2>2 DEF BrokerType
    <2>4. u \in Int /\ t - u <= SWEEP_SECS
      BY SweepSteps
    <2>5. /\ MAX_AGE_SECS \in Nat /\ EMPTY_GRACE_SECS \in Nat /\ SWEEP_SECS \in Nat
          /\ s.created \in Nat /\ l.admitted \in Nat /\ l.to \in Nat
      BY <2>3, BrokerConstants DEF SessionType, LifeType
    <2> HIDE DEF s, l, u, t, b
    <2>6. /\ t - s.created < MAX_AGE_SECS + SWEEP_SECS
          /\ \/ b
             \/ t - l.to < EMPTY_GRACE_SECS + SWEEP_SECS
             \/ t - l.admitted < EMPTY_GRACE_SECS + SWEEP_SECS
      BY <2>1, <2>3, <2>4, <2>5 DEF LifeOk
    <2> QED BY <1>2, <2>6 DEF ReapsNotLate, s, l, t, b
  <1>3. CASE ~sessions'[c].live
    <2>1. Reap
      BY <1>1, <1>3, OnlyReaped
    <2>2. sessions'[c] = Swept(sessions[c], c \in occupied)
      BY <1>1, <2>1 DEF Reap
    <2>3. LifeOk(sessions[c], life[c], c \in occupied, LastSweep, now)
      BY <1>1 DEF LivesKept
    <2>4. now \in Nat /\ LastSweep \in Int /\ LastSweep <= now
      BY SweepSteps DEF BrokerType
    <2> QED BY <1>1, <1>3, <2>2, <2>3, <2>4, LifeSwept DEF ReapsNotEarly
  <1> QED BY <1>2, <1>3

LEMMA BrokerInvariant == BrokerSpec => [](BrokerType /\ LivesKept)
  <1>1. BrokerInit => LivesKept
    BY DEF BrokerInit, LivesKept, NoSession
  <1>2. BrokerType /\ LivesKept /\ [BrokerNext]_brokerVars => BrokerType' /\ LivesKept'
    BY BrokerTypeKept, LivesStayKept
  <1> QED BY <1>1, <1>2, BrokerTypeInit, PTL DEF BrokerSpec

\* What the reaper takes away is due and what is due goes at the next sweep
\* (sessions.rs reap, run every SWEEP_SECS by main.rs), for any cap, grace and
\* period of at least a second: no session goes below the cap unless its room is
\* empty and no good PIN came for the grace, and unless its members, if they
\* stayed for longer than a period, are gone for the grace less a period; and
\* none outlives the cap, or the grace, by a period.
THEOREM ReaperInTime == BrokerSpec => ReapsInTime
  <1> DEFINE Fair(c) == IF sessions'[c].live THEN ReapsNotLate(c)' ELSE ReapsNotEarly(c)
  <1>1. BrokerType /\ LivesKept /\ [BrokerNext]_brokerVars => [\A c \in Live : Fair(c)]_brokerVars
    BY ReapSteps
  <1> QED BY <1>1, BrokerInvariant, PTL DEF BrokerSpec, ReapsInTime

-----------------------------------------------------------------------------
(***************************************************************************)
(* The steps keep the guesses of a session within its budget.              *)
(***************************************************************************)
\* While a session is not locked, fewer than MAX_ATTEMPTS wrong PINs count, and
\* the one before those is at least a lock period old.
LEMMA Unlocked ==
  ASSUME now \in Nat, NEW s \in SessionType, NEW g \in Seq(Nat), Counting(s, g, now), ~Locked(s)
  PROVE  /\ Attempts(s) \in 0..(MAX_ATTEMPTS - 1)
         /\ Attempts(s) <= Len(g)
         /\ Attempts(s) < Len(g) => now - g[Len(g) - Attempts(s)] >= LOCK_SECS
  <1>1. /\ s.attempts \in 0..MAX_ATTEMPTS /\ s.locked_at \in Nat /\ Len(g) \in Nat
        /\ MAX_ATTEMPTS \in Nat \ {0} /\ LOCK_SECS \in Nat
    BY BrokerConstants DEF SessionType
  <1>2. CASE s.attempts < MAX_ATTEMPTS
    BY <1>1, <1>2 DEF Attempts, Counting
  <1>3. CASE s.attempts = MAX_ATTEMPTS
    <2>1. Attempts(s) = 0 /\ s.locked_at = g[Len(g)]
      BY <1>1, <1>3 DEF Attempts, Counting
    <2>2. now >= s.locked_at + LOCK_SECS
      BY <1>1, <1>3 DEF Locked
    <2>3. now - g[Len(g) - 0] >= LOCK_SECS
      BY <1>1, <2>1, <2>2
    <2> QED BY <1>1, <2>1, <2>3
  <1> QED BY <1>1, <1>2, <1>3

LEMMA GoodPinCounts ==
  ASSUME now \in Nat, NEW s \in SessionType, NEW g \in Seq(Nat), Counting(s, g, now), ~Locked(s)
  PROVE  Counting(AfterGoodPin(s), g, now)
  <1>1. MAX_ATTEMPTS \in Nat \ {0} /\ AfterGoodPin(s).attempts = Attempts(s)
    BY BrokerConstants, AfterPinType
  <1> QED BY <1>1, Unlocked DEF Counting

LEMMA BadPinCounts ==
  ASSUME now \in Nat, NEW s \in SessionType, NEW g \in Seq(Nat),
         Ordered(g, now), Counting(s, g, now), ~Locked(s)
  PROVE  /\ Ordered(Latest(g, MAX_ATTEMPTS + 1), now)
         /\ WithinBudget(Latest(g, MAX_ATTEMPTS + 1))
         /\ Counting(AfterBadPin(s), Latest(g, MAX_ATTEMPTS + 1), now)
  <1> DEFINE h == Latest(g, MAX_ATTEMPTS + 1)
             m == Len(g)
             n == Len(h)
             a == Attempts(s)
  <1>1. MAX_ATTEMPTS \in Nat \ {0} /\ MAX_ATTEMPTS + 1 \in Nat \ {0} /\ LOCK_SECS \in Nat
    BY BrokerConstants
  <1>2. /\ h \in Seq(Nat)
        /\ n = IF m < MAX_ATTEMPTS + 1 THEN m + 1 ELSE MAX_ATTEMPTS + 1
        /\ h[n] = now
        /\ \A k \in 1..(n - 1) : h[n - k] = g[m + 1 - k]
    BY <1>1, LatestIs
  <1>3. m \in Nat /\ \A i \in 1..m : g[i] \in Nat /\ g[i] <= now
    BY DEF Ordered
  <1>4. \A i, j \in 1..m : i <= j => g[i] <= g[j]
    BY DEF Ordered
  <1>5. a \in 0..(MAX_ATTEMPTS - 1) /\ a <= m /\ (a < m => now - g[m - a] >= LOCK_SECS)
    BY Unlocked
  <1>6. AfterBadPin(s).attempts = a + 1 /\ (a + 1 = MAX_ATTEMPTS => AfterBadPin(s).locked_at = now)
    BY AfterPinType
  <1> HIDE DEF h, m, n, a
  <1>7. \A i \in 1..n : i = n \/ (\E k \in 1..(n - 1) : i = n - k)
    <2> SUFFICES ASSUME NEW i \in 1..n, i # n PROVE \E k \in 1..(n - 1) : i = n - k
      OBVIOUS
    <2>1. n - i \in 1..(n - 1) /\ i = n - (n - i)
      BY <1>1, <1>2, <1>3
    <2> QED BY <2>1
  <1>8. \A i \in 1..(n - 1) : h[i] = g[i + (m + 1 - n)] /\ i + (m + 1 - n) \in 1..m
    <2> SUFFICES ASSUME NEW i \in 1..(n - 1)
                 PROVE  h[i] = g[i + (m + 1 - n)] /\ i + (m + 1 - n) \in 1..m
      OBVIOUS
    <2>1. n \in Nat /\ n <= m + 1
      BY <1>1, <1>2, <1>3
    <2>2. n - i \in 1..(n - 1) /\ n - (n - i) = i /\ m + 1 - (n - i) = i + (m + 1 - n)
      BY <1>3, <2>1
    <2>3. i + (m + 1 - n) \in 1..m
      BY <1>3, <2>1
    <2> QED BY <1>2, <2>2, <2>3
  <1>9. n \in Nat /\ n <= m + 1 /\ n >= 1
    BY <1>1, <1>2, <1>3
  <1>10. Ordered(h, now)
    <2>1. ASSUME NEW i \in 1..n PROVE h[i] <= now
      <3>1. CASE i = n
        BY <1>2, <3>1
      <3>2. CASE i # n
        <4>1. i \in 1..(n - 1)
          BY <1>9, <3>2
        <4> QED BY <1>3, <1>8, <4>1
      <3> QED BY <3>1, <3>2
    <2>2. ASSUME NEW i \in 1..n, NEW j \in 1..n, i <= j PROVE h[i] <= h[j]
      <3>1. CASE j = n
        BY <1>2, <2>1, <3>1
      <3>2. CASE j # n
        <4>1. i \in 1..(n - 1) /\ j \in 1..(n - 1)
          BY <1>9, <2>2, <3>2
        <4>2. i + (m + 1 - n) <= j + (m + 1 - n)
          BY <1>3, <1>9, <2>2
        <4> QED BY <1>4, <1>8, <4>1, <4>2
      <3> QED BY <3>1, <3>2
    <2> QED BY <2>1, <2>2 DEF Ordered, n
  <1>11. WithinBudget(h)
    <2> SUFFICES ASSUME n > MAX_ATTEMPTS PROVE h[n] - h[n - MAX_ATTEMPTS] >= LOCK_SECS
      BY DEF WithinBudget, n
    <2>1. n = MAX_ATTEMPTS + 1 /\ m >= MAX_ATTEMPTS
      BY <1>1, <1>2, <1>3
    <2>2. h[n - MAX_ATTEMPTS] = g[m + 1 - MAX_ATTEMPTS]
      BY <1>1, <1>2, <2>1
    <2>3. /\ m + 1 - MAX_ATTEMPTS \in 1..m /\ m - a \in 1..m /\ a < m
          /\ m + 1 - MAX_ATTEMPTS <= m - a
      BY <1>1, <1>3, <1>5, <2>1
    <2>4. g[m + 1 - MAX_ATTEMPTS] <= g[m - a]
      BY <1>4, <2>3
    <2>5. g[m + 1 - MAX_ATTEMPTS] \in Nat /\ g[m - a] \in Nat /\ now - g[m - a] >= LOCK_SECS
      BY <1>3, <1>5, <2>3
    <2>6. now - g[m + 1 - MAX_ATTEMPTS] >= LOCK_SECS
      BY <1>1, <2>4, <2>5
    <2> QED BY <1>2, <2>2, <2>6
  <1>12. Counting(AfterBadPin(s), h, now)
    <2>1. a + 1 <= n
      BY <1>1, <1>2, <1>3, <1>5
    <2>2. ASSUME a + 1 < n PROVE now - h[n - (a + 1)] >= LOCK_SECS
      <3>1. a + 1 \in 1..(n - 1) /\ m + 1 - (a + 1) = m - a /\ a < m
        BY <1>1, <1>3, <1>5, <1>9, <2>2
      <3>2. h[n - (a + 1)] = g[m + 1 - (a + 1)]
        BY <1>2, <3>1
      <3> QED BY <1>5, <3>1, <3>2
    <2>3. a + 1 = MAX_ATTEMPTS => AfterBadPin(s).locked_at = h[n]
      BY <1>2, <1>6
    <2> QED BY <1>6, <2>1, <2>2, <2>3 DEF Counting, n
  <1> QED BY <1>10, <1>11, <1>12 DEF h

\* Time does no harm.
LEMMA LaterGuesses ==
  ASSUME NEW s \in SessionType, NEW g \in Seq(Nat), NEW t \in Nat, NEW u \in Nat, t <= u
  PROVE  /\ Ordered(g, t) => Ordered(g, u)
         /\ Counting(s, g, t) => Counting(s, g, u)
  <1>1. \A i \in 1..Len(g) : g[i] \in Nat
    OBVIOUS
  <1>2. ASSUME Ordered(g, t) PROVE Ordered(g, u)
    BY <1>1, <1>2 DEF Ordered
  <1>3. ASSUME Counting(s, g, t) PROVE Counting(s, g, u)
    <2>1. s.attempts \in 0..MAX_ATTEMPTS /\ Len(g) \in Nat /\ LOCK_SECS \in Nat
      BY BrokerConstants DEF SessionType
    <2>2. ASSUME s.attempts < Len(g), s.attempts < MAX_ATTEMPTS
          PROVE  u - g[Len(g) - s.attempts] >= LOCK_SECS
      <3>1. Len(g) - s.attempts \in 1..Len(g) /\ t - g[Len(g) - s.attempts] >= LOCK_SECS
        BY <1>3, <2>1, <2>2 DEF Counting
      <3> QED BY <1>1, <2>1, <3>1
    <2> QED BY <1>3, <2>2 DEF Counting
  <1> QED BY <1>2, <1>3

LEMMA GuessesKept ==
  ASSUME BrokerType, GuessInv, [BrokerNext]_brokerVars
  PROVE  GuessInv'
  <1> SUFFICES ASSUME NEW c \in Code
               PROVE  /\ Ordered(guesses'[c], now')
                      /\ WithinBudget(guesses'[c])
                      /\ sessions'[c].live => Counting(sessions'[c], guesses'[c], now')
    BY DEF GuessInv
  <1>1. /\ now \in Nat /\ sessions[c] \in SessionType /\ guesses[c] \in Seq(Nat)
        /\ sessions \in [Code -> SessionType] /\ guesses \in [Code -> Seq(Nat)]
    BY DEF BrokerType
  <1>2. /\ Ordered(guesses[c], now) /\ WithinBudget(guesses[c])
        /\ sessions[c].live => Counting(sessions[c], guesses[c], now)
    BY DEF GuessInv
  <1>3. CASE UNCHANGED <<sessions, guesses, now>>
    BY <1>2, <1>3
  <1>4. ASSUME NEW i \in Ip, NEW d \in Code, CreateSession(i, d), d = c
        PROVE  /\ Ordered(guesses'[c], now') /\ WithinBudget(guesses'[c])
               /\ Counting(sessions'[c], guesses'[c], now')
    <2>1. guesses'[c] = <<>> /\ sessions'[c] = Session(now) /\ now' = now
      BY <1>1, <1>4 DEF CreateSession
    <2>2. Ordered(<<>>, now) /\ WithinBudget(<<>>)
      BY BrokerConstants DEF Ordered, WithinBudget
    <2>3. Session(now).attempts = 0
      BY DEF Session
    <2>4. Counting(Session(now), <<>>, now)
      BY <2>3, BrokerConstants DEF Counting
    <2> QED BY <2>1, <2>2, <2>4
  <1>5. ASSUME NEW i \in Ip, NEW d \in Code, PinGood(i, d), d = c
        PROVE  /\ Ordered(guesses'[c], now') /\ WithinBudget(guesses'[c])
               /\ Counting(sessions'[c], guesses'[c], now')
    <2>1. guesses'[c] = guesses[c] /\ sessions'[c] = AfterGoodPin(sessions[c]) /\ now' = now
      BY <1>1, <1>5 DEF PinGood, PinTry
    <2>2. sessions[c].live /\ ~Locked(sessions[c])
      BY <1>5 DEF PinGood, Live
    <2>3. Counting(AfterGoodPin(sessions[c]), guesses[c], now)
      BY <1>1, <1>2, <2>2, GoodPinCounts
    <2> QED BY <1>2, <2>1, <2>3
  <1>6. ASSUME NEW i \in Ip, NEW d \in Code, PinBad(i, d), d = c
        PROVE  /\ Ordered(guesses'[c], now') /\ WithinBudget(guesses'[c])
               /\ Counting(sessions'[c], guesses'[c], now')
    <2>1. /\ guesses'[c] = Latest(guesses[c], MAX_ATTEMPTS + 1)
          /\ sessions'[c] = AfterBadPin(sessions[c]) /\ now' = now
      BY <1>1, <1>6 DEF PinBad, PinTry
    <2>2. sessions[c].live /\ ~Locked(sessions[c])
      BY <1>6 DEF PinBad, Live
    <2> QED BY <1>1, <1>2, <2>1, <2>2, BadPinCounts
  <1>7. ASSUME NEW i \in Ip, NEW d \in Code,
               CreateSession(i, d) \/ PinGood(i, d) \/ PinBad(i, d), d # c
        PROVE  sessions'[c] = sessions[c] /\ guesses'[c] = guesses[c] /\ now' = now
    BY <1>1, <1>7 DEF CreateSession, PinGood, PinBad, PinTry
  <1>8. ASSUME NEW i \in Ip, RateLimited(i) \/ JoinOverlong(i) \/ \E d \in Code : PinRefused(i, d)
        PROVE  UNCHANGED <<sessions, guesses, now>>
    BY <1>8 DEF RateLimited, JoinOverlong, PinRefused, PinTry
  <1>9. ASSUME NEW d \in Code, RoomFills(d) \/ RoomEmpties(d)
        PROVE  UNCHANGED <<sessions, guesses, now>>
    BY <1>9 DEF RoomFills, RoomEmpties
  <1>10. CASE Second
    <2>1. sessions' = sessions /\ guesses' = guesses /\ now + 1 = now' /\ now + 1 \in Nat /\ now <= now + 1
      BY <1>1, <1>10 DEF Second
    <2>2. Ordered(guesses[c], now + 1) /\ (sessions[c].live => Counting(sessions[c], guesses[c], now + 1))
      BY <1>1, <1>2, <2>1, LaterGuesses
    <2> QED BY <1>2, <2>1, <2>2
  <1>11. CASE Reap
    <2>1. guesses' = guesses /\ now' = now /\ sessions'[c] = Swept(sessions[c], c \in occupied)
      BY <1>11 DEF Reap
    <2>2. sessions'[c].live => /\ sessions[c].live
                               /\ sessions'[c].attempts = sessions[c].attempts
                               /\ sessions'[c].locked_at = sessions[c].locked_at
      BY <1>1, <2>1, SweptIs
    <2>3. sessions'[c].live => Counting(sessions'[c], guesses[c], now)
      BY <1>2, <2>2 DEF Counting
    <2> QED BY <1>2, <2>1, <2>3
  <1>12. CASE UNCHANGED brokerVars
    BY <1>3, <1>12 DEF brokerVars
  <1> QED BY <1>2, <1>3, <1>4, <1>5, <1>6, <1>7, <1>8, <1>9, <1>10, <1>11, <1>12 DEF BrokerNext

-----------------------------------------------------------------------------
(***************************************************************************)
(* The steps keep the tries of an address within its budget.               *)
(***************************************************************************)
LEMMA LaterTries ==
  ASSUME NEW e \in EntryType, NEW t \in Seq(Nat), NEW u \in Nat, NEW v \in Nat, u <= v
  PROVE  /\ Charged(e, t, u) => Charged(e, t, v)
         /\ Spread(t, u) => Spread(t, v)
  <1>1. \A i \in 1..Len(t) : t[i] \in Nat
    OBVIOUS
  <1>2. Spread(t, u) => Spread(t, v)
    BY <1>1 DEF Spread
  <1>3. ASSUME Pruned(t, u) PROVE Pruned(t, v)
    <2> SUFFICES ASSUME NEW k \in RL_JOIN_MAX..(Len(t) - 1)
                 PROVE  t[Len(t) - k] + RL_WINDOW <= v
      BY DEF Pruned
    <2>1. Len(t) - k \in 1..Len(t) /\ RL_WINDOW \in Nat
      BY BrokerConstants
    <2> QED BY <1>1, <1>3, <2>1 DEF Pruned
  <1>4. e.start \in 1..u => e.start \in 1..v
    BY DEF EntryType
  <1> QED BY <1>2, <1>3, <1>4 DEF Charged

\* A counted request, whether it opens a window or falls into one: at least one
\* more is counted than there are tries in the window.
LEMMA CountedCharges ==
  ASSUME now \in Nat \ {0}, NEW e \in EntryType, NEW t \in Seq(Nat),
         Charged(e, t, now), Spread(t, now)
  PROVE  /\ Counted(e) # NoEntry /\ Counted(e).start \in 1..now
         /\ \E j \in 0..RL_JOIN_MAX : j + 1 <= Counted(e).count /\ InWindow(Counted(e), t, j)
  <1>0. /\ RL_JOIN_MAX \in Nat \ {0} /\ RL_WINDOW \in Nat \ {0}
        /\ Saturated \in Nat /\ Saturated > RL_JOIN_MAX
        /\ e.start \in Nat /\ e.count \in 0..Saturated
    BY BrokerConstants DEF Saturated, EntryType
  <1>1. Len(t) \in Nat /\ \A i \in 1..Len(t) : t[i] \in Nat /\ t[i] <= now
    BY DEF Spread
  <1>2. CASE e = NoEntry \/ Expired(e)
    <2>1. Counted(e).start = now /\ Counted(e).count = 1
      BY <1>2 DEF Counted
    <2>2. Counted(e) # NoEntry
      BY <2>1 DEF NoEntry
    <2>3. \A k \in 0..(Len(t) - 1) : t[Len(t) - k] <= now
      BY <1>1
    <2>4. ASSUME NEW k \in RL_JOIN_MAX..(Len(t) - 1)
          PROVE  t[Len(t) - k] + RL_WINDOW <= now
      <3>1. Len(t) - k \in 1..Len(t)
        BY <1>0
      <3>2. CASE e = NoEntry
        BY <3>2 DEF Charged, Pruned
      <3>3. CASE e # NoEntry /\ Expired(e)
        <4>1. PICK j \in 0..RL_JOIN_MAX : InWindow(e, t, j)
          BY <3>3 DEF Charged
        <4>2. t[Len(t) - k] <= e.start
          BY <1>0, <4>1 DEF InWindow
        <4> QED BY <1>0, <1>1, <3>1, <3>3, <4>2 DEF Expired
      <3> QED BY <1>2, <3>2, <3>3
    <2>5. InWindow(Counted(e), t, 0)
      BY <1>0, <2>1, <2>3, <2>4 DEF InWindow
    <2>6. 0 \in 0..RL_JOIN_MAX /\ 0 + 1 <= Counted(e).count /\ Counted(e).start \in 1..now
      BY <1>0, <2>1
    <2> QED BY <2>2, <2>5, <2>6
  <1>3. CASE ~(e = NoEntry \/ Expired(e))
    <2>1. PICK j \in 0..RL_JOIN_MAX : InWindow(e, t, j)
      BY <1>3 DEF Charged
    <2>2. e.start \in 1..now
      BY <1>3 DEF Charged
    <2>3. /\ Counted(e).start = e.start
          /\ Counted(e).count = IF e.count >= Saturated THEN e.count ELSE e.count + 1
      BY <1>0, <1>3 DEF Counted, EntryType
    <2>4. j <= e.count
      BY <2>1 DEF InWindow
    <2>5. j + 1 <= Counted(e).count /\ j <= Counted(e).count
      BY <1>0, <2>3, <2>4
    <2>6. Counted(e) # NoEntry
      BY <2>2, <2>3 DEF NoEntry
    <2>7. InWindow(Counted(e), t, j)
      BY <2>1, <2>3, <2>5 DEF InWindow
    <2> QED BY <2>2, <2>3, <2>5, <2>6, <2>7
  <1> QED BY <1>2, <1>3

\* An admitted try stays within the budget.
LEMMA TryCharges ==
  ASSUME now \in Nat \ {0}, NEW e \in EntryType, NEW t \in Seq(Nat),
         Charged(e, t, now), Spread(t, now), Counted(e).count <= RL_JOIN_MAX
  PROVE  /\ Charged(Counted(e), Latest(t, 2 * RL_JOIN_MAX + 1), now)
         /\ Spread(Latest(t, 2 * RL_JOIN_MAX + 1), now)
  <1> DEFINE h == Latest(t, 2 * RL_JOIN_MAX + 1)
             m == Len(t)
             n == Len(h)
             f == Counted(e)
             M == 2 * RL_JOIN_MAX
  <1>1. RL_JOIN_MAX \in Nat \ {0} /\ M \in Nat /\ M + 1 \in Nat \ {0} /\ RL_WINDOW \in Nat
    BY BrokerConstants
  <1>2. /\ h \in Seq(Nat)
        /\ n = IF m < M + 1 THEN m + 1 ELSE M + 1
        /\ h[n] = now
        /\ \A k \in 1..(n - 1) : h[n - k] = t[m + 1 - k]
    BY <1>1, LatestIs
  <1>3. m \in Nat /\ \A i \in 1..m : t[i] \in Nat /\ t[i] <= now
    BY DEF Spread
  <1>4. f \in EntryType
    BY CountedType
  <1>5. f # NoEntry /\ f.start \in 1..now
    BY CountedCharges
  <1>6. PICK j \in 0..RL_JOIN_MAX : j + 1 <= f.count /\ InWindow(f, t, j)
    BY CountedCharges
  <1>7. f.count <= RL_JOIN_MAX /\ f.count \in Nat
    BY <1>4, BrokerConstants DEF EntryType, Saturated
  <1>8. /\ \A k \in j..(m - 1) : t[m - k] <= f.start
        /\ \A k \in (j + RL_JOIN_MAX)..(m - 1) : t[m - k] + RL_WINDOW <= f.start
    BY <1>6 DEF InWindow
  <1>9. M = RL_JOIN_MAX + RL_JOIN_MAX
    BY <1>1
  <1> HIDE DEF h, m, n, f, M
  <1>10. n \in Nat /\ n <= m + 1 /\ n >= 1 /\ n <= M + 1
    BY <1>1, <1>2, <1>3
  <1>11. j + 1 \in 0..RL_JOIN_MAX
    BY <1>1, <1>6, <1>7
  <1>12. \A k \in (j + 1)..(n - 1) : h[n - k] <= f.start
    <2> SUFFICES ASSUME NEW k \in (j + 1)..(n - 1) PROVE h[n - k] <= f.start
      OBVIOUS
    <2>1. k \in 1..(n - 1) /\ k - 1 \in j..(m - 1) /\ m + 1 - k = m - (k - 1)
      BY <1>3, <1>10
    <2> QED BY <1>2, <1>8, <2>1
  <1>13. \A k \in ((j + 1) + RL_JOIN_MAX)..(n - 1) : h[n - k] + RL_WINDOW <= f.start
    <2> SUFFICES ASSUME NEW k \in ((j + 1) + RL_JOIN_MAX)..(n - 1)
                 PROVE  h[n - k] + RL_WINDOW <= f.start
      OBVIOUS
    <2>1. k \in 1..(n - 1) /\ k - 1 \in (j + RL_JOIN_MAX)..(m - 1) /\ m + 1 - k = m - (k - 1)
      BY <1>1, <1>3, <1>10
    <2> QED BY <1>2, <1>8, <2>1
  <1>14. InWindow(f, h, j + 1)
    BY <1>6, <1>12, <1>13 DEF InWindow, n
  <1>15. Charged(f, h, now)
    BY <1>5, <1>11, <1>14 DEF Charged
  <1>16. \A k \in 1..n : h[k] <= now
    <2> SUFFICES ASSUME NEW k \in 1..n, k # n PROVE h[k] <= now
      BY <1>2
    <2>1. n - k \in 1..(n - 1) /\ n - (n - k) = k /\ m + 1 - (n - k) \in 1..m
      BY <1>3, <1>10
    <2> QED BY <1>2, <1>3, <2>1
  <1>17. ASSUME n > M PROVE h[n] - h[1] >= RL_WINDOW
    <2>1. /\ n = M + 1 /\ M \in ((j + 1) + RL_JOIN_MAX)..(n - 1) /\ n - M = 1
          /\ m + 1 - M \in 1..m /\ M \in 1..(n - 1)
      BY <1>1, <1>3, <1>9, <1>10, <1>11, <1>17
    <2>2. h[n - M] + RL_WINDOW <= f.start
      BY <1>13, <2>1
    <2>3. h[n - M] \in Nat
      BY <1>2, <1>3, <2>1
    <2>4. f.start \in Nat /\ f.start <= now
      BY <1>5
    <2>5. h[n - M] + RL_WINDOW <= now
      BY <1>1, <2>2, <2>3, <2>4
    <2>6. h[1] + RL_WINDOW <= now /\ h[1] \in Nat
      BY <2>1, <2>3, <2>5
    <2> QED BY <1>1, <1>2, <2>6
  <1>18. Spread(h, now)
    BY <1>10, <1>16, <1>17 DEF Spread, n, M
  <1> QED BY <1>15, <1>18 DEF f, h

\* The sweep drops an entry whose window has passed.
LEMMA SweepCharges ==
  ASSUME now \in Nat \ {0}, NEW e \in EntryType, NEW t \in Seq(Nat),
         Charged(e, t, now), Expired(e)
  PROVE  Charged(NoEntry, t, now)
  <1>1. CASE e = NoEntry
    BY <1>1
  <1>2. CASE e # NoEntry
    <2>1. PICK j \in 0..RL_JOIN_MAX : InWindow(e, t, j)
      BY <1>2 DEF Charged
    <2> SUFFICES ASSUME NEW k \in RL_JOIN_MAX..(Len(t) - 1)
                 PROVE  t[Len(t) - k] + RL_WINDOW <= now
      BY DEF Charged, Pruned
    <2>2. /\ Len(t) - k \in 1..Len(t) /\ k \in j..(Len(t) - 1)
          /\ RL_WINDOW \in Nat
      BY BrokerConstants
    <2> DEFINE a == t[Len(t) - k]
               b == e.start
    <2>3. a \in Nat /\ b \in Nat /\ now \in Nat
      BY <2>2 DEF EntryType
    <2>4. a <= b
      BY <2>1, <2>2 DEF InWindow
    <2>5. now - b >= RL_WINDOW
      BY DEF Expired
    <2> HIDE DEF a, b
    <2>6. a + RL_WINDOW <= now
      BY <2>2, <2>3, <2>4, <2>5
    <2> QED BY <2>6 DEF a
  <1> QED BY <1>1, <1>2

LEMMA TriesKept ==
  ASSUME BrokerType, TryInv, [BrokerNext]_brokerVars
  PROVE  TryInv'
  <1> SUFFICES ASSUME NEW i \in Ip
               PROVE  Charged(rate'[i], pin_tries'[i], now') /\ Spread(pin_tries'[i], now')
    BY DEF TryInv
  <1>1. /\ now \in Nat \ {0} /\ rate[i] \in EntryType /\ pin_tries[i] \in Seq(Nat)
        /\ rate \in [Ip -> EntryType] /\ pin_tries \in [Ip -> Seq(Nat)]
    BY DEF BrokerType
  <1>2. Charged(rate[i], pin_tries[i], now) /\ Spread(pin_tries[i], now)
    BY DEF TryInv
  <1>3. CASE UNCHANGED <<rate, pin_tries, now>>
    BY <1>2, <1>3
  <1>4. ASSUME NEW a \in Ip, RateLimited(a) \/ \E c \in Code : CreateSession(a, c)
        PROVE  Charged(rate'[i], pin_tries'[i], now') /\ Spread(pin_tries'[i], now')
    <2>1. /\ pin_tries' = pin_tries /\ now' = now
          /\ rate' = [rate EXCEPT ![a] = Counted(rate[a])]
      BY <1>4 DEF RateLimited, Refuse, CreateSession, Allow
    <2>2. CASE a # i
      BY <1>1, <1>2, <2>1, <2>2
    <2>3. CASE a = i
      <3>1. rate'[i] = Counted(rate[i])
        BY <1>1, <2>1, <2>3
      <3>2. Charged(Counted(rate[i]), pin_tries[i], now)
        BY <1>1, <1>2, CountedCharges DEF Charged
      <3> QED BY <1>2, <2>1, <3>1, <3>2
    <2> QED BY <2>2, <2>3
  <1>5. ASSUME NEW a \in Ip, PinTry(a)
        PROVE  Charged(rate'[i], pin_tries'[i], now') /\ Spread(pin_tries'[i], now')
    <2>1. /\ pin_tries' = [pin_tries EXCEPT ![a] = Latest(pin_tries[a], 2 * RL_JOIN_MAX + 1)]
          /\ rate' = [rate EXCEPT ![a] = Counted(rate[a])]
          /\ rate'[a].count <= RL_JOIN_MAX /\ now' = now
      BY <1>5 DEF PinTry, Allow
    <2>2. CASE a # i
      BY <1>1, <1>2, <2>1, <2>2
    <2>3. CASE a = i
      <3>1. /\ rate'[i] = Counted(rate[i])
            /\ pin_tries'[i] = Latest(pin_tries[i], 2 * RL_JOIN_MAX + 1)
        BY <1>1, <2>1, <2>3
      <3>2. Counted(rate[i]).count <= RL_JOIN_MAX
        BY <2>1, <2>3, <3>1
      <3> QED BY <1>1, <1>2, <2>1, <3>1, <3>2, TryCharges
    <2> QED BY <2>2, <2>3
  <1>6. ASSUME NEW a \in Ip, JoinOverlong(a) \/ \E c \in Code : PinRefused(a, c) \/ PinGood(a, c) \/ PinBad(a, c)
        PROVE  PinTry(a)
    BY <1>6 DEF JoinOverlong, PinRefused, PinGood, PinBad
  <1>7. ASSUME NEW c \in Code, RoomFills(c) \/ RoomEmpties(c) PROVE UNCHANGED <<rate, pin_tries, now>>
    BY <1>7 DEF RoomFills, RoomEmpties
  <1>8. CASE Second
    <2>1. rate' = rate /\ pin_tries' = pin_tries /\ now' = now + 1 /\ now + 1 \in Nat /\ now \in Nat /\ now <= now + 1
      BY <1>1, <1>8 DEF Second
    <2>2. Charged(rate[i], pin_tries[i], now + 1) /\ Spread(pin_tries[i], now + 1)
      BY <1>1, <1>2, <2>1, LaterTries
    <2> QED BY <2>1, <2>2
  <1>9. CASE Reap
    <2>1. /\ pin_tries' = pin_tries /\ now' = now
          /\ rate'[i] = IF Expired(rate[i]) THEN NoEntry ELSE rate[i]
      BY <1>9 DEF Reap
    <2> QED BY <1>1, <1>2, <2>1, SweepCharges
  <1>10. CASE UNCHANGED brokerVars
    BY <1>3, <1>10 DEF brokerVars
  <1> QED BY <1>3, <1>4, <1>5, <1>6, <1>7, <1>8, <1>9, <1>10 DEF BrokerNext

\* Neither a session (join_at's lock) nor an address (the rate limiter) yields
\* more PIN guesses than its budget, for any budgets and any periods.
THEOREM PinGuessesBounded == BrokerSpec => []PinBudgets
  <1>1. BrokerInit => GuessInv
    <2> SUFFICES ASSUME BrokerInit, NEW c \in Code
                 PROVE  /\ Ordered(guesses[c], now) /\ WithinBudget(guesses[c])
                        /\ sessions[c].live => Counting(sessions[c], guesses[c], now)
      BY DEF GuessInv
    <2>1. guesses[c] = <<>> /\ ~sessions[c].live
      BY DEF BrokerInit, NoSession
    <2>2. Ordered(<<>>, now) /\ WithinBudget(<<>>)
      BY BrokerConstants DEF Ordered, WithinBudget
    <2> QED BY <2>1, <2>2
  <1>2. BrokerInit => TryInv
    <2> SUFFICES ASSUME BrokerInit, NEW i \in Ip
                 PROVE  Charged(rate[i], pin_tries[i], now) /\ Spread(pin_tries[i], now)
      BY DEF TryInv
    <2>1. pin_tries[i] = <<>> /\ rate[i] = NoEntry
      BY DEF BrokerInit
    <2>2. Pruned(<<>>, now) /\ Spread(<<>>, now)
      BY BrokerConstants DEF Pruned, Spread
    <2> QED BY <2>1, <2>2 DEF Charged
  <1>3. BrokerType /\ GuessInv /\ TryInv /\ [BrokerNext]_brokerVars => GuessInv' /\ TryInv'
    BY GuessesKept, TriesKept
  <1>4. GuessInv /\ TryInv => PinBudgets
    BY DEF GuessInv, WithinBudget, TryInv, Spread, PinBudgets, GuessBudget, TryBudget
  <1> QED BY <1>1, <1>2, <1>3, <1>4, BrokerInvariant, PTL DEF BrokerSpec


-----------------------------------------------------------------------------
(***************************************************************************)
(* The start of the server.                                                *)
(***************************************************************************)
\* What the running server was told by the settings it started with.
AuthKnown == proc.st # "down" => proc.auth.mode = "open" \/ proc.auth.key # ""

TwoRecords == served = [guest |-> served.guest, charge |-> served.charge]

IsProc(p) == p = [st |-> p.st, auth |-> p.auth, turn |-> p.turn, plain |-> p.plain,
                  bind |-> p.bind, pair |-> p.pair]

ProcType == IsProc(proc) /\ proc.plain \in BOOLEAN

\* Each branch of the start leaves a process of this kind.
Started(p, auth) ==
    /\ IsProc(p) /\ p.plain \in BOOLEAN
    /\ p.st # "down" => p.auth = auth

LEMMA ConfiguredFields ==
  ASSUME NEW c
  PROVE  /\ IsProc(Configured(c))
         /\ Configured(c).st = "down" /\ Configured(c).auth = Auth(c)
         /\ Configured(c).plain = FALSE /\ Configured(c).pair = Absent
  <1> DEFINE d == [Down EXCEPT !.auth = Auth(c)]
  <1>1. IsProc(Down)
    BY DEF Down, IsProc
  <1>2. Down.st = "down" /\ Down.plain = FALSE /\ Down.pair = Absent
    BY DEF Down
  <1>3. IsProc(d) /\ d.st = "down" /\ d.auth = Auth(c) /\ d.plain = FALSE /\ d.pair = Absent
    BY <1>1, <1>2 DEF IsProc
  <1>4. Configured(c) = [d EXCEPT !.turn = TurnOn(c)]
    BY DEF Configured
  <1> HIDE DEF d
  <1> QED BY <1>3, <1>4 DEF IsProc

LEMMA StartBranches ==
  ASSUME StartServer
  PROVE  \/ UNCHANGED <<proc, file, pins, stuck>>
         \/ /\ Auth(conf).mode # "refused"
            /\ \/ ServePlain(Configured(conf))
               \/ Reusable /\ ServeFiles(Configured(conf))
               \/ ~Reusable /\ Generate(Configured(conf))
  BY ConfiguredFields DEF StartServer

LEMMA PlainFacts ==
  ASSUME NEW p, IsProc(p), ServePlain(p)
  PROVE  /\ IsProc(proc') /\ proc'.st = "up" /\ proc'.plain = TRUE
         /\ proc'.auth = p.auth /\ UNCHANGED <<file, pins, stuck>>
  BY DEF ServePlain, IsProc

LEMMA FilesFacts ==
  ASSUME NEW p, IsProc(p), p.plain = FALSE, ServeFiles(p)
  PROVE  /\ IsProc(proc') /\ proc'.plain = FALSE
         /\ \/ Loads /\ proc'.st = "up" /\ proc'.pair = file.cert /\ proc'.auth = p.auth
            \/ ~Loads /\ proc'.st = "down"
         /\ UNCHANGED file
  <1>1. IsProc(Down) /\ Down.st = "down" /\ Down.plain = FALSE
    BY DEF Down, IsProc
  <1>2. CASE Loads
    BY <1>2 DEF ServeFiles, IsProc
  <1>3. CASE ~Loads
    BY <1>1, <1>3 DEF ServeFiles
  <1> QED BY <1>2, <1>3

LEMMA GenerateFacts ==
  ASSUME NEW p, IsProc(p), Generate(p)
  PROVE  /\ IsProc(proc') /\ proc'.st = "cert" /\ proc'.pair = NewPair
         /\ proc'.auth = p.auth /\ proc'.plain = p.plain
         /\ file' = [file EXCEPT !.cert = Torn] /\ UNCHANGED <<pins, stuck>>
  BY DEF Generate, Announces, IsProc

\* A server that starts has a secret that is not empty, or is open on purpose.
LEMMA AuthIsKnown ==
  ASSUME NEW c, Auth(c).mode # "refused"
  PROVE  Auth(c).mode = "open" \/ Auth(c).key # ""
  BY DEF Auth

LEMMA ProcTypeKept ==
  ASSUME ProcType, [BootNext]_bootVars
  PROVE  ProcType'
  <1>1. CASE StartServer
    <2>1. CASE UNCHANGED proc
      BY <2>1 DEF ProcType
    <2> QED BY <1>1, <2>1, StartBranches, ConfiguredFields, PlainFacts, FilesFacts,
               GenerateFacts DEF ProcType
  <1>2. CASE WriteFiles
    BY <1>2 DEF WriteFiles, ProcType, IsProc
  <1>3. CASE Kill
    BY <1>3 DEF ProcType, Kill, Down, IsProc
  <1>4. CASE UNCHANGED proc
    BY <1>4 DEF ProcType
  <1> QED
    BY <1>1, <1>2, <1>3, <1>4
       DEF BootNext, bootVars, Configure, RemoveFile, Mint, JoinRoom, JoinFrom

LEMMA AuthKept ==
  ASSUME AuthKnown, ProcType, [BootNext]_bootVars
  PROVE  AuthKnown'
  <1>1. CASE StartServer
    <2>1. CASE UNCHANGED proc
      BY <2>1 DEF AuthKnown
    <2>2. CASE /\ Auth(conf).mode # "refused"
               /\ proc'.st # "down" => proc'.auth = Auth(conf)
      BY <2>2, AuthIsKnown DEF AuthKnown
    <2> DEFINE p == Configured(conf)
    <2>3. IsProc(p) /\ p.auth = Auth(conf) /\ p.plain = FALSE
      BY ConfiguredFields
    <2>4. \/ UNCHANGED proc
          \/ /\ Auth(conf).mode # "refused"
             /\ ServePlain(p) \/ ServeFiles(p) \/ Generate(p)
      BY <1>1, StartBranches
    <2> HIDE DEF p
    <2>5. ServePlain(p) \/ ServeFiles(p) \/ Generate(p) =>
            (proc'.st # "down" => proc'.auth = p.auth)
      BY <2>3, PlainFacts, FilesFacts, GenerateFacts
    <2>6. \/ UNCHANGED proc
          \/ /\ Auth(conf).mode # "refused"
             /\ proc'.st # "down" => proc'.auth = Auth(conf)
      BY <2>3, <2>4, <2>5
    <2> QED BY <2>1, <2>2, <2>6
  <1>2. CASE WriteFiles
    BY <1>2 DEF AuthKnown, WriteFiles, ProcType, IsProc
  <1>3. CASE Kill
    BY <1>3 DEF AuthKnown, Kill, Down
  <1>4. CASE UNCHANGED proc
    BY <1>4 DEF AuthKnown
  <1> QED
    BY <1>1, <1>2, <1>3, <1>4
       DEF BootNext, bootVars, Configure, RemoveFile, Mint, JoinRoom, JoinFrom

LEMMA JoinIsInvited ==
  ASSUME AuthKnown, TwoRecords, NEW r \in TokenRoom, JoinRoom(r)
  PROVE  OnlyInvited' /\ TwoRecords' /\ served'.charge = served.charge
  <1>1. PICK t \in minted \cup {<<>>} \cup {<<q, "">> : q \in TokenRoom} :
          /\ Check(proc.auth, r, t)
          /\ served' = [served EXCEPT !.guest = [room |-> r, token |-> t, auth |-> proc.auth]]
    BY DEF JoinRoom
  <1>2. /\ served' = [guest |-> [room |-> r, token |-> t, auth |-> proc.auth],
                      charge |-> served.charge]
        /\ minted' = minted /\ proc.st = "up"
    BY <1>1 DEF JoinRoom, TwoRecords
  <1>3. proc.auth.mode = "open" \/ (t = <<r, proc.auth.key>> /\ proc.auth.key # "")
    BY <1>1, <1>2 DEF Check, AuthKnown
  <1>4. t = <<r, proc.auth.key>> /\ proc.auth.key # "" => t \in minted
    <2>1. t \in minted \/ t = <<>> \/ \E q \in TokenRoom : t = <<q, "">>
      BY <1>1
    <2>2. <<r, proc.auth.key>> # <<>>
      OBVIOUS
    <2>3. \A q : <<r, proc.auth.key>> = <<q, "">> => proc.auth.key = ""
      OBVIOUS
    <2> QED BY <2>1, <2>2, <2>3
  <1>5. served'.guest = [room |-> r, token |-> t, auth |-> proc.auth]
    BY <1>2
  <1>6. OnlyInvited'
    BY <1>2, <1>3, <1>4, <1>5 DEF OnlyInvited
  <1> QED BY <1>2, <1>6 DEF TwoRecords

LEMMA AppendEnds ==
  ASSUME NEW S, NEW s \in Seq(S), NEW e \in S
  PROVE  /\ Append(s, e) \in Seq(S)
         /\ Len(Append(s, e)) = Len(s) + 1 /\ Append(s, e)[Len(s) + 1] = e
  OBVIOUS

LEMMA RequestIsCharged ==
  ASSUME TwoRecords, NEW from \in {"host1", "host2"},
         NEW forged \in {<<>>, <<"host1">>, <<"loopback">>}, JoinFrom(from, forged)
  PROVE  ChargedToSender' /\ TwoRecords' /\ served'.guest = served.guest
  <1> DEFINE x == Append(forged, from)
  <1>1. ClientIp(from, forged) = from
    BY DEF ClientIp
  <1>2. x # <<>> /\ LastHop(x) = from
    <2>1. CASE forged = <<>>
      BY <2>1 DEF LastHop
    <2>2. ASSUME NEW h, forged = <<h>> PROVE x # <<>> /\ LastHop(x) = from
      <3>1. Len(forged) = 1
        BY <2>2
      <3>2. forged \in Seq({h, from}) /\ from \in {h, from}
        BY <2>2
      <3>3. Len(x) = Len(forged) + 1 /\ x[Len(forged) + 1] = from
        BY <3>2, AppendEnds, Zenon
      <3> HIDE DEF x
      <3>4. Len(x) = 2 /\ x[2] = from
        BY <3>1, <3>3
      <3>5. Len(<<>>) # 2
        OBVIOUS
      <3>6. x # <<>>
        BY <3>4, <3>5
      <3> QED BY <3>4, <3>6 DEF LastHop
    <2> QED BY <2>1, <2>2, Zenon
  <1>3. ClientIp("loopback", x) = from
    BY <1>2 DEF ClientIp
  <1>4. served' = [served EXCEPT !.charge = [from |-> from, to |-> from]]
    BY <1>1, <1>3 DEF JoinFrom
  <1>5. served' = [guest |-> served.guest, charge |-> [from |-> from, to |-> from]]
    BY <1>4 DEF TwoRecords
  <1> QED BY <1>5 DEF TwoRecords, ChargedToSender

\* The server is open to whom the operator meant (AuthConfig::from_values(),
\* check()), and charges the address a request came from (client_ip()), for any
\* rooms, secrets and histories of starts.
THEOREM DoorIsKept == BootSpec => []ServedRight
  <1>1. BootInit => AuthKnown /\ ProcType /\ TwoRecords /\ ServedRight
    <2> SUFFICES ASSUME BootInit PROVE AuthKnown /\ ProcType /\ TwoRecords /\ ServedRight
      OBVIOUS
    <2>1. AuthKnown /\ ProcType
      BY DEF BootInit, Down, AuthKnown, ProcType, IsProc
    <2>2. served = [guest |-> NoGuest, charge |-> NoCharge]
      BY DEF BootInit
    <2>3. NoGuest.room = "none" /\ NoCharge.to = NoCharge.from
      BY DEF NoGuest, NoCharge
    <2>4. OnlyInvited
      BY <2>2, <2>3 DEF OnlyInvited
    <2> QED BY <2>1, <2>2, <2>3, <2>4 DEF TwoRecords, ServedRight, ChargedToSender
  <1>2. ASSUME TwoRecords, ServedRight, AuthKnown, [BootNext]_bootVars
        PROVE  TwoRecords' /\ ServedRight'
    <2> USE DEF ServedRight
    <2>1. ASSUME NEW r \in TokenRoom, JoinRoom(r) PROVE TwoRecords' /\ ServedRight'
      BY <1>2, <2>1, JoinIsInvited DEF ChargedToSender
    <2>2. ASSUME NEW from \in {"host1", "host2"},
                 NEW forged \in {<<>>, <<"host1">>, <<"loopback">>}, JoinFrom(from, forged)
          PROVE  TwoRecords' /\ ServedRight'
      <3>1. minted' = minted
        BY <2>2 DEF JoinFrom
      <3> QED BY <1>2, <2>2, <3>1, RequestIsCharged DEF OnlyInvited
    <2>3. ASSUME served' = served, minted \subseteq minted'
          PROVE  TwoRecords' /\ ServedRight'
      BY <1>2, <2>3 DEF TwoRecords, OnlyInvited, ChargedToSender
    <2>4. ASSUME NEW r \in TokenRoom, Mint(r) PROVE served' = served /\ minted \subseteq minted'
      BY <2>4 DEF Mint
    <2> QED
      BY <1>2, <2>1, <2>2, <2>3, <2>4
         DEF BootNext, bootVars, Configure, RemoveFile, StartServer, WriteFiles, Kill
  <1> QED BY <1>1, <1>2, ProcTypeKept, AuthKept, PTL DEF BootSpec

-----------------------------------------------------------------------------
\* What is on disk.  Only a kill or the operator leaves two files that are not a
\* pair; while files are written nothing was printed; what was printed is the
\* certificate on disk.
FilesType ==
    /\ file = [cert |-> file.cert, key |-> file.key]
    /\ file.cert \in Int /\ file.key \in Int
    /\ proc.st \in {"down", "cert", "between", "key", "up"}

FilesInv ==
    /\ ~spoilt /\ file.key # Absent /\ proc.st # "key" => Loads
    /\ proc.st \in {"cert", "between", "key"} => pins = {} /\ proc.pair > 0 /\ proc.pair \in Int
    /\ proc.st = "cert" => file.cert = Torn
    /\ proc.st \in {"between", "key"} => file.cert = proc.pair
    /\ proc.st = "key" => file.key = Torn
    /\ pins # {} => pins = {file.cert} /\ file.cert > 0 /\ file.key # Absent
    /\ proc.st = "up" /\ ~proc.plain => pins = {proc.pair}
    /\ proc.st # "up" => ~proc.plain
    /\ stuck => spoilt

\* A generated pair has a number of its own.
LEMMA NewPairIsNew ==
  ASSUME pins = {}, FilesType, ~Reusable
  PROVE  NewPair \in Nat \ {0}
  <1>1. Cardinality(pins) + 3 = 3
    BY FS_EmptySet
  <1> DEFINE New(i) == i \notin pins \cup {file.cert, file.key} /\ \A j \in 1..i - 1 :
                         j \in pins \cup {file.cert, file.key}
  <1>2. \E i \in 1..3 : New(i)
    <2>1. CASE 1 \notin {file.cert, file.key}
      BY <2>1
    <2>2. CASE 1 \in {file.cert, file.key}
      <3>1. 2 \notin {file.cert, file.key}
        BY <2>2 DEF Reusable, Absent
      <3>2. \A j \in 1..(2 - 1) : j = 1
        OBVIOUS
      <3> QED BY <2>2, <3>1, <3>2
    <2> QED BY <2>1, <2>2
  <1>3. NewPair = CHOOSE i \in 1..3 : New(i)
    BY <1>1 DEF NewPair
  <1> HIDE DEF New
  <1>4. NewPair \in 1..3
    BY <1>2, <1>3
  <1> QED BY <1>4

LEMMA FilesTypeKept ==
  ASSUME FilesType, ProcType, FilesInv, [BootNext]_bootVars
  PROVE  FilesType'
  <1>1. CASE StartServer
    <2>1. CASE UNCHANGED file /\ proc'.st \in {"down", "up", proc.st}
      BY <2>1 DEF FilesType
    <2>2. CASE file' = [file EXCEPT !.cert = Torn] /\ proc'.st = "cert"
      <3>1. file' = [cert |-> Torn, key |-> file.key]
        BY <2>2 DEF FilesType
      <3> QED BY <2>2, <3>1 DEF FilesType, Torn
    <2> QED BY <1>1, <2>1, <2>2, StartBranches, ConfiguredFields, PlainFacts, FilesFacts,
               GenerateFacts
  <1>2. CASE WriteFiles
    <2>1. proc.pair \in Int
      BY <1>2 DEF WriteFiles, FilesInv
    <2>2. \E i \in Int : \/ file' = [cert |-> i, key |-> file.key]
                         \/ file' = [cert |-> file.cert, key |-> i]
      BY <1>2, <2>1 DEF WriteFiles, FilesType, Torn
    <2>3. proc'.st \in {"between", "key", "up"}
      BY <1>2 DEF WriteFiles, ProcType, IsProc
    <2> QED BY <2>2, <2>3 DEF FilesType
  <1>3. CASE Kill
    BY <1>3 DEF FilesType, Kill, Down
  <1>4. ASSUME NEW f \in {"cert", "key"}, RemoveFile(f) PROVE FilesType'
    <2>1. \/ file' = [cert |-> Absent, key |-> file.key]
          \/ file' = [cert |-> file.cert, key |-> Absent]
      BY <1>4 DEF RemoveFile, FilesType
    <2> QED BY <1>4, <2>1 DEF RemoveFile, FilesType, Absent
  <1>5. CASE UNCHANGED <<file, proc>>
    BY <1>5 DEF FilesType
  <1> QED
    BY <1>1, <1>2, <1>3, <1>4, <1>5
       DEF BootNext, bootVars, Configure, Mint, JoinRoom, JoinFrom

\* A start takes the files, or generates a pair where nothing was printed.
LEMMA StartKeepsFiles ==
  ASSUME FilesType, ProcType, FilesInv, StartServer
  PROVE  FilesInv'
  <1> DEFINE p == Configured(conf)
  <1>1. IsProc(p) /\ p.st = "down" /\ p.plain = FALSE
    BY ConfiguredFields
  <1>2. proc.st = "down" /\ spoilt' = spoilt
    BY DEF StartServer
  <1> HIDE DEF p
  <1>3. CASE UNCHANGED <<proc, file, pins, stuck>>
    BY <1>2, <1>3 DEF FilesInv, Loads, Absent
  <1>4. CASE ServePlain(p)
    <2>1. proc'.st = "up" /\ proc'.plain /\ UNCHANGED <<file, pins, stuck>>
      BY <1>1, <1>4, PlainFacts
    <2> QED BY <1>2, <2>1 DEF FilesInv, Loads, Absent
  <1>5. CASE Reusable /\ ServeFiles(p)
    <2>1. /\ file' = file
          /\ stuck' = (stuck \/ ~Loads)
          /\ pins' = IF file.cert > 0 THEN pins \cup {file.cert} ELSE pins
      BY <1>5 DEF ServeFiles, Reports, Reusable
    <2>2. \/ Loads /\ proc'.st = "up" /\ ~proc'.plain /\ proc'.pair = file.cert
          \/ ~Loads /\ proc'.st = "down" /\ ~proc'.plain
      BY <1>1, <1>5, FilesFacts
    <2>3. stuck' => spoilt
      BY <1>2, <1>5, <2>1 DEF FilesInv, Reusable
    <2>4. Loads' = Loads
      BY <2>1 DEF Loads
    <2>5. /\ pins' # {} => pins' = {file.cert} /\ file.cert > 0 /\ file.key # Absent
          /\ Loads => pins' = {file.cert}
      BY <1>5, <2>1 DEF FilesInv, Loads, Reusable
    <2> QED BY <1>2, <2>1, <2>2, <2>3, <2>4, <2>5 DEF FilesInv
  <1>6. CASE ~Reusable /\ Generate(p)
    <2>1. pins = {}
      BY <1>6 DEF FilesInv, Reusable, Absent
    <2>2. /\ file' = [cert |-> Torn, key |-> file.key]
          /\ pins' = pins /\ stuck' = stuck
          /\ proc'.st = "cert" /\ proc'.pair = NewPair /\ ~proc'.plain
      BY <1>1, <1>6, GenerateFacts DEF FilesType
    <2>3. NewPair \in Nat \ {0}
      BY <1>6, <2>1, NewPairIsNew
    <2>4. ~spoilt => file.key = Absent
      BY <1>2, <1>6 DEF FilesInv, Loads, Reusable, Absent
    <2> QED BY <1>2, <2>1, <2>2, <2>3, <2>4 DEF FilesInv
  <1> QED BY <1>3, <1>4, <1>5, <1>6, StartBranches DEF p

\* The certificate, the key, and then the fingerprint.
LEMMA WritesKeepFiles ==
  ASSUME FilesType, ProcType, FilesInv, WriteFiles
  PROVE  FilesInv'
  <1>1. spoilt' = spoilt /\ stuck' = stuck /\ proc.pair \in Int /\ proc.pair > 0 /\ pins = {}
    BY DEF WriteFiles, FilesInv
  <1>2. proc'.pair = proc.pair /\ ~proc'.plain
    BY DEF WriteFiles, ProcType, IsProc, FilesInv
  <1>3. CASE proc.st = "cert"
    <2>1. proc'.st = "between" /\ file' = [cert |-> proc.pair, key |-> file.key] /\ pins' = {}
      BY <1>1, <1>3 DEF WriteFiles, ProcType, IsProc, FilesType
    <2>2. ~spoilt => file.key = Absent
      BY <1>3 DEF FilesInv, Loads, Torn
    <2> QED BY <1>1, <1>2, <2>1, <2>2 DEF FilesInv
  <1>4. CASE proc.st = "between"
    <2>1. proc'.st = "key" /\ file' = [cert |-> file.cert, key |-> Torn] /\ pins' = {}
      BY <1>1, <1>4 DEF WriteFiles, ProcType, IsProc, FilesType
    <2> QED BY <1>1, <1>2, <1>4, <2>1 DEF FilesInv
  <1>5. CASE proc.st = "key"
    <2>1. proc'.st = "up" /\ file' = [cert |-> file.cert, key |-> proc.pair]
      BY <1>5 DEF WriteFiles, ProcType, IsProc, FilesType
    <2>2. pins' = {proc.pair}
      BY <1>1, <1>5 DEF WriteFiles, Announces, Reports
    <2>3. file.cert = proc.pair
      BY <1>5 DEF FilesInv
    <2> QED BY <1>1, <1>2, <2>1, <2>2, <2>3 DEF FilesInv, Loads, Absent
  <1> QED BY <1>3, <1>4, <1>5 DEF WriteFiles

LEMMA FilesKept ==
  ASSUME FilesType, ProcType, FilesInv, [BootNext]_bootVars
  PROVE  FilesInv'
  <1>1. CASE Kill
    <2>1. /\ proc'.st = "down" /\ ~proc'.plain
          /\ file' = file /\ pins' = pins /\ stuck' = stuck
          /\ spoilt' = (spoilt \/ Torn \in {file.cert, file.key})
      BY <1>1 DEF Kill, Down
    <2>2. proc.st = "key" => spoilt'
      BY <2>1 DEF FilesInv
    <2> QED BY <2>1, <2>2 DEF FilesInv, Loads, Absent
  <1>2. ASSUME NEW f \in {"cert", "key"}, RemoveFile(f) PROVE FilesInv'
    BY <1>2 DEF RemoveFile, FilesInv
  <1>3. CASE UNCHANGED <<file, proc, pins, spoilt, stuck>>
    BY <1>3 DEF FilesInv, Loads
  <1> QED
    BY <1>1, <1>2, <1>3, StartKeepsFiles, WritesKeepFiles
       DEF BootNext, bootVars, Configure, Mint, JoinRoom, JoinFrom

\* A fingerprint that was printed stays the server's through kills and restarts,
\* and a start fails on the files only if a kill tore one of them or the operator
\* removed one (tls.rs, ensure_with_sans()).
THEOREM PinsAreKept == BootSpec => []PinsStayGood
  <1>1. BootInit => FilesType /\ ProcType /\ FilesInv
    <2> SUFFICES ASSUME BootInit PROVE FilesType /\ ProcType /\ FilesInv
      OBVIOUS
    <2>1. /\ IsProc(proc) /\ proc.st = "down" /\ proc.plain = FALSE
          /\ file = [cert |-> 0, key |-> 0]
          /\ pins = {} /\ ~stuck /\ ~spoilt
      BY DEF BootInit, Down, Absent, IsProc
    <2>2. FilesType
      BY <2>1 DEF FilesType
    <2>3. ProcType
      BY <2>1 DEF ProcType
    <2>4. FilesInv
      BY <2>1 DEF FilesInv, Absent
    <2> QED BY <2>2, <2>3, <2>4
  <1>2. FilesInv => PinsStayGood
    <2> SUFFICES ASSUME FilesInv PROVE Cardinality(pins) <= 1
      BY DEF FilesInv, PinsStayGood
    <2>1. pins = {} \/ pins = {file.cert}
      BY DEF FilesInv
    <2>2. Cardinality(pins) = 0 \/ Cardinality(pins) = 1
      BY <2>1, FS_EmptySet, FS_Singleton
    <2> QED BY <2>2
  <1> QED BY <1>1, <1>2, FilesTypeKept, ProcTypeKept, FilesKept, PTL DEF BootSpec

-----------------------------------------------------------------------------
(***************************************************************************)
(* The public pages: the visitor's choices.                                *)
(***************************************************************************)
\* What a browser has: what it asks for, and perhaps the cookie.
IsVisitor(v) == v \in [accept : {v.accept}, cookie : Ui \cup {Unset}]

\* What a visitor chose is what the page shows; the size is also what the
\* browser keeps, where it keeps the cookie.
ChoiceKept ==
  /\ IsVisitor(visitor)
  /\ chosen \in [lang : Lang \cup {Unset}, ui : Ui \cup {Unset}]
  /\ chosen.lang # Unset => shown.lang = chosen.lang
  /\ Keeps /\ chosen.ui # Unset => shown.ui = chosen.ui /\ visitor.cookie = chosen.ui

\* The page and the cookie that come of a query q.
LEMMA Getting ==
  ASSUME NEW q, Get(q), IsVisitor(visitor)
  PROVE  /\ q.lang \in Lang => shown'.lang = q.lang
         /\ q.ui \in Ui => shown'.ui = q.ui /\ (Keeps => visitor'.cookie = q.ui)
         /\ q.ui \notin Ui /\ visitor.cookie \in Ui
              => shown'.ui = visitor.cookie /\ visitor'.cookie = visitor.cookie
         /\ IsVisitor(visitor') /\ (Keeps <=> Keeps')
  <1> DEFINE u == UiOf(q.ui, visitor.cookie)
             l == LangOf(q.lang, visitor.accept)
  <1>1. /\ q.lang \in Lang => l = q.lang
        /\ q.ui \in Ui => u = q.ui
        /\ q.ui \notin Ui /\ visitor.cookie \in Ui => u = visitor.cookie
        /\ u \in Ui
    BY DEF LangOf, UiOf, Ui
  <1>2. /\ shown' = [lang |-> l, ui |-> u]
        /\ visitor' = IF SetsCookie(q.ui, u) /\ Keeps
                        THEN [visitor EXCEPT !.cookie = u] ELSE visitor
        /\ site' = site
    BY DEF Get
  <1>3. q.ui \in Ui => SetsCookie(q.ui, u)
    BY DEF SetsCookie, Ui, Unset
  <1> HIDE DEF u, l
  <1>4. visitor'.cookie = IF SetsCookie(q.ui, u) /\ Keeps THEN u ELSE visitor.cookie
    BY <1>2 DEF IsVisitor
  <1>5. IsVisitor(visitor')
    BY <1>1, <1>2 DEF IsVisitor
  <1>6. Keeps <=> Keeps'
    BY <1>2 DEF Keeps
  <1> QED BY <1>1, <1>2, <1>3, <1>4, <1>5, <1>6

LEMMA ChoiceInit == WebInit => ChoiceKept
  BY DEF WebInit, ChoiceKept, IsVisitor, Unset

\* One step of the visitor or of the renderer.
LEMMA ChoiceStep == ChoiceKept /\ WebNext => ChoiceKept'
  <1> SUFFICES ASSUME ChoiceKept, WebNext PROVE ChoiceKept'
    OBVIOUS
  <1>1. ASSUME Render PROVE ChoiceKept'
    BY <1>1 DEF ChoiceKept, Render, Keeps
  <1>2. ASSUME NEW q \in [lang : Lang \cup {Unset, "xx"}, ui : Ui \cup {Unset, "xx"}],
               Visit(q)
        PROVE ChoiceKept'
    <2>1. Get(q) /\ IsVisitor(visitor)
      BY <1>2 DEF Visit, ChoiceKept
    <2>2. chosen' = [lang |-> IF q.lang \in Lang THEN q.lang ELSE Unset,
                     ui |-> IF q.ui \in Ui THEN q.ui ELSE chosen.ui]
      BY <1>2 DEF Visit
    <2> QED BY <2>1, <2>2, Getting DEF ChoiceKept, Ui, Unset
  <1>3. ASSUME Navigate PROVE ChoiceKept'
    <2>1. Get(NavQuery) /\ IsVisitor(visitor) /\ chosen' = chosen
      BY <1>3 DEF Navigate, ChoiceKept
    <2>2. NavQuery.lang = shown.lang /\ NavQuery.ui \notin Ui
      BY DEF NavQuery, Ui, Unset
    <2> QED BY <2>1, <2>2, Getting DEF ChoiceKept
  <1>4. ASSUME NEW l \in Lang, SwitchLang(l) PROVE ChoiceKept'
    <2> DEFINE q == [lang |-> l, ui |-> shown.ui]
    <2>1. Get(q) /\ IsVisitor(visitor) /\ q.lang = l /\ q.ui = shown.ui
      BY <1>4 DEF SwitchLang, ChoiceKept
    <2>2. chosen' = [chosen EXCEPT !.lang = l]
      BY <1>4 DEF SwitchLang
    <2> HIDE DEF q
    <2> QED BY <2>1, <2>2, Getting DEF ChoiceKept
  <1>5. ASSUME NEW u \in Ui, SwitchUi(u) PROVE ChoiceKept'
    <2> DEFINE q == [lang |-> shown.lang, ui |-> u]
    <2>1. Get(q) /\ IsVisitor(visitor) /\ q.lang = shown.lang /\ q.ui = u
      BY <1>5 DEF SwitchUi, ChoiceKept
    <2>2. chosen' = [chosen EXCEPT !.ui = u]
      BY <1>5 DEF SwitchUi
    <2> HIDE DEF q
    <2> QED BY <2>1, <2>2, Getting DEF ChoiceKept
  <1> QED BY <1>1, <1>2, <1>3, <1>4, <1>5 DEF WebNext

-----------------------------------------------------------------------------
(***************************************************************************)
(* The public pages: the changelog.                                        *)
(***************************************************************************)
Tag == {"<ul>", "</ul>", "h", "p", "li", "+li"}

\* A tag may come where a list is open, or not.
Fits(t, inside) ==
  /\ t \in {"<ul>", "h", "p"} => ~inside
  /\ t \in {"</ul>", "li", "+li"} => inside

\* The tags h are well formed, and leave a list open or not.
Leaves(h, open) ==
  /\ h \in Seq(Tag)
  /\ \A k \in DOMAIN h : Fits(h[k], Inside(h, k))
  /\ Inside(h, Len(h) + 1) <=> open

\* A changelog half way: in_ul says whether its tags leave a list open.
IsDoc(d) ==
  /\ d \in [lines : Seq(Line), html : Seq(Tag), in_ul : BOOLEAN]
  /\ Leaves(d.html, d.in_ul)

DocInv == IsDoc(doc)

\* Only what stands before a place decides whether a list is open there.
LEMMA InsideIsLocal ==
  ASSUME NEW h, NEW g, NEW n \in Nat, \A i \in 1 .. n : h[i] = g[i], NEW k \in 1 .. n + 1
  PROVE  Inside(h, k) <=> Inside(g, k)
  BY DEF Inside

\* After a tag a list is open if the tag opens it, or if it was and the tag does
\* not close it.
LEMMA InsideNext ==
  ASSUME NEW h, NEW k \in Nat \ {0}
  PROVE  Inside(h, k + 1) <=> h[k] = "<ul>" \/ (Inside(h, k) /\ h[k] # "</ul>")
  <1>1. ASSUME Inside(h, k + 1), h[k] # "<ul>" PROVE Inside(h, k) /\ h[k] # "</ul>"
    <2>1. PICK i \in 1 .. k : h[i] = "<ul>" /\ \A j \in i + 1 .. k : h[j] # "</ul>"
      BY <1>1 DEF Inside
    <2>2. i \in 1 .. k - 1 /\ k \in i + 1 .. k
      BY <2>1, <1>1
    <2> QED BY <2>1, <2>2 DEF Inside
  <1>2. ASSUME h[k] = "<ul>" PROVE Inside(h, k + 1)
    BY <1>2 DEF Inside
  <1>3. ASSUME Inside(h, k), h[k] # "</ul>" PROVE Inside(h, k + 1)
    <2>1. PICK i \in 1 .. k - 1 : h[i] = "<ul>" /\ \A j \in i + 1 .. k - 1 : h[j] # "</ul>"
      BY <1>3 DEF Inside
    <2>2. i \in 1 .. (k + 1) - 1 /\ \A j \in i + 1 .. (k + 1) - 1 : h[j] # "</ul>"
      BY <2>1, <1>3
    <2> QED BY <2>1, <2>2 DEF Inside
  <1> QED BY <1>1, <1>2, <1>3

\* One tag more.
LEMMA Pushing ==
  ASSUME NEW h, NEW open \in BOOLEAN, Leaves(h, open), NEW t \in Tag, Fits(t, open),
         NEW then \in BOOLEAN, then <=> t = "<ul>" \/ (open /\ t # "</ul>")
  PROVE  Leaves(h \o <<t>>, then)
  <1> DEFINE g == h \o <<t>>
             n == Len(h)
  <1>1. /\ h \in Seq(Tag) /\ n \in Nat /\ DOMAIN h = 1 .. n
        /\ g \in Seq(Tag) /\ Len(g) = n + 1 /\ g[n + 1] = t
        /\ \A i \in 1 .. n : g[i] = h[i]
    BY DEF Leaves
  <1> HIDE DEF g, n
  <1>2. \A k \in 1 .. n + 1 : Inside(g, k) <=> Inside(h, k)
    BY <1>1, InsideIsLocal
  <1>3. Inside(h, n + 1) <=> open
    BY DEF Leaves, n
  <1>4. Inside(g, n + 1) <=> open
    BY <1>1, <1>2, <1>3
  <1>5. Inside(g, (n + 1) + 1) <=> then
    BY <1>1, <1>4, InsideNext
  <1>6. ASSUME NEW k \in DOMAIN g PROVE Fits(g[k], Inside(g, k))
    <2>1. k \in 1 .. n + 1
      BY <1>1
    <2>2. CASE k = n + 1
      BY <2>2, <1>1, <1>4 DEF Fits
    <2>3. CASE k # n + 1
      <3>1. k \in DOMAIN h /\ g[k] = h[k] /\ (Inside(g, k) <=> Inside(h, k))
        BY <2>1, <2>3, <1>1, <1>2
      <3>2. Fits(h[k], Inside(h, k))
        BY <3>1 DEF Leaves
      <3> QED BY <3>1, <3>2 DEF Fits
    <2> QED BY <2>2, <2>3
  <1> QED BY <1>1, <1>5, <1>6 DEF Leaves, g

\* The end of a list, where one is open.
LEMMA Closing ==
  ASSUME NEW d, IsDoc(d)
  PROVE  Leaves(d.html \o Close(d), FALSE)
  <1>0. d.in_ul \in BOOLEAN /\ Leaves(d.html, d.in_ul)
    BY DEF IsDoc
  <1>1. CASE d.in_ul
    <2>1. Leaves(d.html, TRUE) /\ Close(d) = <<"</ul>">>
      BY <1>0, <1>1 DEF Close, Leaves
    <2>2. "</ul>" \in Tag /\ Fits("</ul>", TRUE)
      BY DEF Tag, Fits
    <2> QED BY <2>1, <2>2, Pushing
  <1>2. CASE ~d.in_ul
    <2>1. Leaves(d.html, FALSE) /\ d.html \in Seq(Tag) /\ Close(d) = <<>>
      BY <1>0, <1>2 DEF Close, Leaves
    <2>2. d.html \o <<>> = d.html
      BY <2>1, ConcatEmptySeq
    <2> QED BY <2>1, <2>2
  <1> QED BY <1>0, <1>1, <1>2

\* One line of the changelog.
LEMMA Rendering == DocInv /\ Render => DocInv'
  <1> SUFFICES ASSUME DocInv, Render PROVE DocInv'
    OBVIOUS
  <1> DEFINE l == Head(doc.lines)
             u == doc.in_ul
             base == IF ListGoesOn(l) THEN doc.html ELSE doc.html \o Close(doc)
             kept == ListGoesOn(l) /\ u
             then == IF ListGoesOn(l) THEN u \/ l = "- " ELSE FALSE
  <1>1. /\ l \in Line /\ Tail(doc.lines) \in Seq(Line)
        /\ doc.html \in Seq(Tag) /\ u \in BOOLEAN /\ Leaves(doc.html, u)
    BY HeadTailProperties DEF DocInv, IsDoc, Render
  <1>2. doc.html \o <<>> = doc.html
    BY <1>1, ConcatEmptySeq
  <1>3. doc' = [lines |-> Tail(doc.lines), html |-> base \o Tags(doc, l), in_ul |-> then]
    BY <1>2 DEF Render
  <1>4. Leaves(base, kept)
    <2>1. Leaves(doc.html \o Close(doc), FALSE)
      BY Closing DEF DocInv
    <2>2. CASE ListGoesOn(l)
      <3>1. base = doc.html /\ (kept <=> u)
        BY <2>2, <1>1
      <3> QED BY <3>1, <1>1 DEF Leaves
    <2>3. CASE ~ListGoesOn(l)
      <3>1. base = doc.html \o Close(doc) /\ ~kept
        BY <2>3
      <3> QED BY <3>1, <2>1 DEF Leaves
    <2> QED BY <2>2, <2>3
  <1>5. base \in Seq(Tag) /\ base \o <<>> = base
    BY <1>4, ConcatEmptySeq DEF Leaves
  <1>6. then \in BOOLEAN /\ kept \in BOOLEAN
    OBVIOUS
  <1>7. Leaves(base \o Tags(doc, l), then)
    <2> HIDE DEF base
    <2>1. CASE l \in {"## ", "### "}
      <3>1. Tags(doc, l) = <<"h">> /\ ~kept /\ ~then
        BY <2>1 DEF Tags, ListGoesOn
      <3>2. "h" \in Tag /\ Fits("h", FALSE) /\ Leaves(base, FALSE)
        BY <1>4, <3>1 DEF Tag, Fits, Leaves
      <3>3. Leaves(base \o <<"h">>, FALSE)
        BY <3>2, Pushing
      <3> QED BY <3>1, <3>3 DEF Leaves
    <2>2. CASE l = "- " /\ u
      <3>1. Tags(doc, l) = <<>> \o <<"li">> /\ kept /\ then
        BY <2>2 DEF Tags, ListGoesOn
      <3>2. Tags(doc, l) = <<"li">>
        BY <3>1
      <3>3. "li" \in Tag /\ Fits("li", TRUE) /\ Leaves(base, TRUE)
        BY <1>4, <3>1 DEF Tag, Fits, Leaves
      <3>4. Leaves(base \o <<"li">>, TRUE)
        BY <3>3, Pushing
      <3> QED BY <3>1, <3>2, <3>4 DEF Leaves
    <2>3. CASE l = "- " /\ ~u
      <3>1. Tags(doc, l) = <<"<ul>">> \o <<"li">> /\ ~kept /\ then
        BY <2>3 DEF Tags, ListGoesOn
      <3>2. "<ul>" \in Tag /\ Fits("<ul>", FALSE) /\ Leaves(base, FALSE)
        BY <1>4, <3>1 DEF Tag, Fits, Leaves
      <3>3. Leaves(base \o <<"<ul>">>, TRUE)
        BY <3>2, Pushing
      <3>4. "li" \in Tag /\ Fits("li", TRUE)
        BY DEF Tag, Fits
      <3>5. Leaves((base \o <<"<ul>">>) \o <<"li">>, TRUE)
        BY <3>3, <3>4, Pushing
      <3>6. (base \o <<"<ul>">>) \o <<"li">> = base \o (<<"<ul>">> \o <<"li">>)
        BY <1>5, <3>2, <3>4, ConcatAssociative
      <3> QED BY <3>1, <3>5, <3>6 DEF Leaves
    <2>4. CASE l = "text" /\ u
      <3>1. Tags(doc, l) = <<"+li">> /\ kept /\ then
        BY <2>4 DEF Tags, ListGoesOn
      <3>2. "+li" \in Tag /\ Fits("+li", TRUE) /\ Leaves(base, TRUE)
        BY <1>4, <3>1 DEF Tag, Fits, Leaves
      <3>3. Leaves(base \o <<"+li">>, TRUE)
        BY <3>2, Pushing
      <3> QED BY <3>1, <3>3 DEF Leaves
    <2>5. CASE l = "text" /\ ~u
      <3>1. Tags(doc, l) = <<"p">> /\ ~kept /\ ~then
        BY <2>5 DEF Tags, ListGoesOn
      <3>2. "p" \in Tag /\ Fits("p", FALSE) /\ Leaves(base, FALSE)
        BY <1>4, <3>1 DEF Tag, Fits, Leaves
      <3>3. Leaves(base \o <<"p">>, FALSE)
        BY <3>2, Pushing
      <3> QED BY <3>1, <3>3 DEF Leaves
    <2>6. CASE l \in {"# ", "blank"}
      <3>1. Tags(doc, l) = <<>> /\ (kept <=> then)
        BY <2>6 DEF Tags, ListGoesOn
      <3> QED BY <3>1, <1>4, <1>5 DEF Leaves
    <2> QED BY <1>1, <2>1, <2>2, <2>3, <2>4, <2>5, <2>6 DEF Line
  <1> HIDE DEF base, then
  <1>8. base \o Tags(doc, l) \in Seq(Tag)
    BY <1>7 DEF Leaves
  <1>9. /\ doc'.lines = Tail(doc.lines) /\ doc'.html = base \o Tags(doc, l)
        /\ doc'.in_ul = then
        /\ doc' \in [lines : Seq(Line), html : Seq(Tag), in_ul : BOOLEAN]
    BY <1>1, <1>3, <1>6, <1>8
  <1> QED BY <1>7, <1>9 DEF DocInv, IsDoc

LEMMA DocInit == WebInit => DocInv
  <1> SUFFICES ASSUME WebInit PROVE DocInv
    OBVIOUS
  <1>1. doc.lines \in Seq(Line) /\ doc = [lines |-> doc.lines, html |-> <<>>, in_ul |-> FALSE]
    <2>1. CASE doc = [lines |-> <<>>, html |-> <<>>, in_ul |-> FALSE]
      BY <2>1
    <2>2. CASE doc \in [lines : BoundedSeq(Line, MaxLines), html : {<<>>}, in_ul : {FALSE}]
      <3>1. doc.lines \in BoundedSeq(Line, MaxLines)
            /\ doc = [lines |-> doc.lines, html |-> <<>>, in_ul |-> FALSE]
        BY <2>2
      <3>2. PICK m \in 0 .. MaxLines : doc.lines \in [1 .. m -> Line]
        BY <3>1 DEF BoundedSeq, SeqOf
      <3>3. m \in Nat
        BY WebConstants
      <3> QED BY <3>1, <3>2, <3>3
    <2> QED BY <2>1, <2>2 DEF WebInit
  <1>2. Leaves(<<>>, FALSE)
    BY DEF Leaves, Inside
  <1>3. doc.html = <<>> /\ ~doc.in_ul
    BY <1>1
  <1>4. doc \in [lines : Seq(Line), html : Seq(Tag), in_ul : BOOLEAN]
    <2>1. <<>> \in Seq(Tag)
      OBVIOUS
    <2>2. [lines |-> doc.lines, html |-> <<>>, in_ul |-> FALSE]
            \in [lines : Seq(Line), html : Seq(Tag), in_ul : BOOLEAN]
      BY <1>1, <2>1
    <2> QED BY <1>1, <2>2
  <1>5. Leaves(doc.html, doc.in_ul)
    BY <1>2, <1>3 DEF Leaves
  <1> QED BY <1>4, <1>5 DEF DocInv, IsDoc

\* What the changelog is worth at any time, and at its end.
LEMMA DocHolds == DocInv => WellFormed
  <1> SUFFICES ASSUME DocInv PROVE WellFormed
    OBVIOUS
  <1>1. doc.in_ul \in BOOLEAN /\ Leaves(doc.html, doc.in_ul) /\ doc.html \in Seq(Tag)
    BY DEF DocInv, IsDoc
  <1>2. doc.html \o <<>> = doc.html
    BY <1>1, ConcatEmptySeq
  <1>3. CASE doc.lines = <<>>
    <2>1. Html = doc.html \o Close(doc)
      BY <1>3 DEF Html
    <2>2. Leaves(Html, FALSE)
      <3>1. Leaves(doc.html \o Close(doc), FALSE)
        BY Closing DEF DocInv
      <3> QED BY <2>1, <3>1
    <2> QED BY <2>2 DEF WellFormed, Leaves, Fits
  <1>4. CASE doc.lines # <<>>
    <2>1. Html = doc.html
      BY <1>2, <1>4 DEF Html
    <2>2. Leaves(Html, doc.in_ul)
      BY <2>1, <1>1
    <2> QED BY <2>2, <1>4 DEF WellFormed, Leaves, Fits
  <1> QED BY <1>3, <1>4

LEMMA DocStep == DocInv /\ WebNext => DocInv'
  <1>1. (WebNext /\ ~Render) => UNCHANGED doc
    BY DEF WebNext, Visit, Navigate, SwitchLang, SwitchUi, Get
  <1>2. DocInv /\ UNCHANGED doc => DocInv'
    BY DEF DocInv, IsDoc
  <1> QED BY <1>1, <1>2, Rendering

\* A visitor gets the language and the size it chose, and a changelog that is
\* well formed (lang_of(), ui_of(), ui_cookie(), the links of the pages,
\* render_changelog()), for texts of any length and any number of links.
THEOREM PagesAreRight == WebSpec => []PagesHold
  <1>1. WebInit => ChoiceKept /\ DocInv
    BY ChoiceInit, DocInit
  <1>2. ChoiceKept /\ DocInv /\ [WebNext]_webVars => (ChoiceKept /\ DocInv)'
    <2>1. ASSUME ChoiceKept, DocInv, UNCHANGED webVars PROVE (ChoiceKept /\ DocInv)'
      BY <2>1 DEF webVars, ChoiceKept, DocInv, IsDoc, Keeps
    <2> QED BY <2>1, ChoiceStep, DocStep
  <1>3. ChoiceKept /\ DocInv => PagesHold
    BY DocHolds DEF PagesHold, ChoiceKept, LanguageSticks, SizeSticks
  <1> QED BY <1>1, <1>2, <1>3, PTL DEF WebSpec

=============================================================================

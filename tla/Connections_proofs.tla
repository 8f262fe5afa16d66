------------------------- MODULE Connections_proofs -------------------------
(***************************************************************************)
(* The two kinds of connection of a client, for any number of calls, faults *)
(* and clicks in any order.  With the server: nothing is left open, and the *)
(* webview shows what runs (ClientSession).  With another member: what a    *)
(* row says of a link is true, and both ends hold and show one session      *)
(* (PeerLink).                                                             *)
(***************************************************************************)
EXTENDS ClientSession, PeerLink, FiniteSetTheorems, SequenceTheorems,
        WellFoundedInduction, TLAPS

-----------------------------------------------------------------------------
(***************************************************************************)
(* Nothing is left open: what a call has opened by each of its steps, and   *)
(* who owns it.                                                            *)
(***************************************************************************)
\* What a call has opened by each of its steps.
SessOk(s) ==
  /\ s \in SessType
  /\ s.pc \in {"idle", "check"} => s.kind = "mesh"
  /\ s.pc \in {"idle", "check", "audio"} => s.rig = "none"
  /\ s.pc \in {"idle", "check", "audio", "dial"} \/ s.kind = "direct" => s.loop = "none"
  /\ s.link = "silent" => s.inbox = <<>>
  /\ s.loop = "over" => s.link = "none"

\* A slot holds a call that has returned.
Filled(n) == n \in Call \cup {0} /\ (n # 0 => sess[n].pc = "done")

\* The flags of the probe: no echo without a ping, and a ping after the first
\* reading is marked.
ProbeType ==
  [step : {"off", "wait", "read", "done"}, pcs : SUBSET {"a", "b"}, b : BOOLEAN,
   a : BOOLEAN, send : BOOLEAN, recv : BOOLEAN, crossed : BOOLEAN]

ProbeInv ==
  /\ probe \in ProbeType
  /\ probe.step = "off" => probe.pcs = {} /\ ~probe.b /\ ~probe.a
  /\ probe.step # "done" => ~probe.recv
  /\ probe.a => probe.b
  /\ probe.step = "read" => (probe.b => probe.send \/ probe.crossed)
  /\ ProbeHonest

ScreenType ==
  /\ ui \in [connected : BOOLEAN, connecting : BOOLEAN, shown : BOOLEAN]
  /\ status \in Seq(BOOLEAN)

CallsOk ==
  /\ sess \in [Call -> SessType]
  /\ \A c \in Call : SessOk(sess[c])
  /\ Filled(slot) /\ Filled(direct)
  /\ MicHasOwner

OpenInv == CallsOk /\ ScreenType /\ ProbeInv

LEMMA CallFacts == 0 \notin Call
  BY FS_CardinalityType, ClConstants

\* The frames a socket holds.
LEMMA InboxFacts ==
  /\ <<>> \in Inbox /\ <<"eof">> \in Inbox
  /\ \A r \in Replies : r \in Inbox
  /\ \A q \in Inbox : q # <<>> => Head(q) \in ServerMsgs /\ Tail(q) \in Inbox
  <1>1. \A q \in Seq(ServerMsgs) : Len(q) <= 2 => q \in Inbox
    <2> SUFFICES ASSUME NEW q \in Seq(ServerMsgs), Len(q) <= 2
                 PROVE  q \in Inbox
      OBVIOUS
    <2>2. Len(q) \in Nat /\ q \in [1 .. Len(q) -> ServerMsgs]
      BY LenProperties
    <2>1. Len(q) \in 0 .. 2
      BY <2>2
    <2> QED BY <2>1, <2>2 DEF Inbox
  <1>2. <<>> \in Seq(ServerMsgs) /\ Len(<<>>) <= 2
    OBVIOUS
  <1>3. /\ <<"eof">> \in Seq(ServerMsgs) /\ Len(<<"eof">>) <= 2
        /\ <<"roster">> \in Seq(ServerMsgs) /\ Len(<<"roster">>) <= 2
    BY DEF ServerMsgs
  <1>4. /\ <<"refused", "eof">> \in Seq(ServerMsgs) /\ Len(<<"refused", "eof">>) <= 2
        /\ <<"error", "eof">> \in Seq(ServerMsgs) /\ Len(<<"error", "eof">>) <= 2
    BY DEF ServerMsgs
  <1>5. ASSUME NEW q \in Inbox, q # <<>>
        PROVE  Head(q) \in ServerMsgs /\ Tail(q) \in Inbox
    <2>1. PICK n \in 0 .. 2 : q \in [1 .. n -> ServerMsgs]
      BY DEF Inbox
    <2>2. q \in Seq(ServerMsgs) /\ Len(q) = n /\ n # 0
      BY <2>1, <1>5
    <2>3. Head(q) \in ServerMsgs /\ Tail(q) \in Seq(ServerMsgs) /\ Len(Tail(q)) = n - 1
      BY <2>2, <1>5
    <2>5. Len(Tail(q)) <= 2
      BY <2>1, <2>3
    <2>4. Tail(q) \in Inbox
      BY <2>3, <2>5, <1>1
    <2> QED BY <2>3, <2>4
  <1>6. <<>> \in Inbox /\ <<"eof">> \in Inbox
    BY <1>1, <1>2, <1>3, Zenon
  <1>7. /\ <<"roster">> \in Inbox /\ <<"refused", "eof">> \in Inbox
        /\ <<"error", "eof">> \in Inbox
    BY <1>1, <1>3, <1>4, Zenon
  <1>8. \A r \in Replies : r \in Inbox
    BY <1>7 DEF Replies
  <1>9. \A q \in Inbox : q # <<>> => Head(q) \in ServerMsgs /\ Tail(q) \in Inbox
    BY <1>5
  <1> QED BY <1>6, <1>8, <1>9

\* One session changes, and the slots do not.
LEMMA OneChanges ==
  ASSUME CallsOk, NEW c \in Call, NEW s \in SessType, SessOk(s),
         sess' = [sess EXCEPT ![c] = s], slot' = slot, direct' = direct,
         sess[c].pc = "done" => s.pc = "done",
         s.rig = "on" => \/ s.pc \in {"dial", "store"}
                         \/ sess[c].rig = "on" /\ s.pc = sess[c].pc
  PROVE  CallsOk'
  <1>1. sess' \in [Call -> SessType]
    BY DEF CallsOk
  <1>2. /\ sess'[c] = s
        /\ \A d \in Call : d # c => sess'[d] = sess[d]
    BY DEF CallsOk
  <1>3. \A d \in Call : SessOk(sess'[d])
    BY <1>2 DEF CallsOk
  <1>4. Filled(slot)' /\ Filled(direct)'
    BY <1>2 DEF CallsOk, Filled
  <1>5. MicHasOwner'
    BY <1>2 DEF CallsOk, MicHasOwner
  <1> QED BY <1>1, <1>3, <1>4, <1>5 DEF CallsOk

\* Dropping what a slot holds stops its rig and changes no other session.
LEMMA DropFacts ==
  ASSUME NEW f \in [Call -> SessType], \A c \in Call : SessOk(f[c]),
         NEW n \in Call \cup {0}, n # 0 => f[n].pc = "done"
  PROVE  /\ Dropped(f, n) \in [Call -> SessType]
         /\ \A c \in Call : /\ SessOk(Dropped(f, n)[c])
                            /\ Dropped(f, n)[c].pc = f[c].pc
                            /\ Dropped(f, n)[c].kind = f[c].kind
                            /\ Dropped(f, n)[c].loop = f[c].loop
                            /\ c # n => Dropped(f, n)[c] = f[c]
                            /\ c = n => /\ Dropped(f, n)[c].rig = "stop"
                                       /\ ~Dropped(f, n)[c].open
  <1>1. CASE n = 0
    BY <1>1, CallFacts DEF Dropped
  <1>2. CASE n # 0
    <2> DEFINE r == [f[n] EXCEPT !.rig = "stop", !.open = FALSE,
                       !.link = IF f[n].kind = "direct" THEN "none" ELSE @]
    <2>1. n \in Call
      BY <1>2
    <2>2. Dropped(f, n) = [f EXCEPT ![n] = r]
      BY <1>2, <2>1 DEF Dropped
    <2>3. f[n] \in SessType /\ SessOk(f[n]) /\ f[n].pc = "done"
      BY <2>1, <1>2
    <2> DEFINE v == IF f[n].kind = "direct" THEN "none" ELSE f[n].link
    <2>4. r = [f[n] EXCEPT !.rig = "stop", !.open = FALSE, !.link = v]
      BY <2>3 DEF SessType
    <2>5. /\ v \in {"none", "live", "silent", "gone"}
          /\ v = "silent" => f[n].link = "silent"
          /\ f[n].link = "none" => v = "none"
      BY <2>3 DEF SessType
    <2> HIDE DEF v
    <2> HIDE DEF r
    <2>7. /\ r.pc = "done" /\ r.rig = "stop" /\ r.link = v /\ r.kind = f[n].kind
          /\ r.open = FALSE
          /\ r.loop = f[n].loop /\ r.inbox = f[n].inbox
      BY <2>3, <2>4 DEF SessType
    <2>8. r \in SessType
      BY <2>3, <2>4, <2>5 DEF SessType
    <2>9. SessOk(r)
      BY <2>3, <2>5, <2>7, <2>8 DEF SessOk
    <2>6. r \in SessType /\ r.pc = "done" /\ r.rig = "stop" /\ SessOk(r)
      BY <2>7, <2>8, <2>9
    <2> QED BY <1>2, <2>1, <2>2, <2>3, <2>6, <2>7
  <1> QED BY <1>1, <1>2

-----------------------------------------------------------------------------
\* connect

LEMMA AskKeeps == ASSUME CallsOk, NEW c \in Call, Ask(c) PROVE CallsOk'
  <1> DEFINE s == [sess[c] EXCEPT !.pc = "check"]
  <1>1. sess[c] \in SessType /\ SessOk(sess[c]) /\ sess[c].pc = "idle"
    BY DEF CallsOk, Ask, Fresh
  <1>2. s \in SessType /\ SessOk(s) /\ s.rig = "none"
    BY <1>1 DEF SessOk, SessType
  <1>3. sess' = [sess EXCEPT ![c] = s] /\ slot' = slot /\ direct' = direct
    BY DEF Ask, CallsOk
  <1> HIDE DEF s
  <1> QED BY <1>1, <1>2, <1>3, OneChanges

LEMMA CheckKeeps == ASSUME CallsOk, NEW c \in Call, Check(c) PROVE CallsOk'
  <1>1. /\ sess[c] \in SessType /\ SessOk(sess[c]) /\ sess[c].pc = "check"
        /\ sess[c].rig = "none" /\ slot' = slot
    BY DEF CallsOk, Check, SessOk
  <1>2. CASE slot # 0
    <2> DEFINE s == [sess[c] EXCEPT !.pc = "done"]
    <2>1. s \in SessType /\ SessOk(s) /\ s.rig = "none" /\ s.pc = "done"
      BY <1>1 DEF SessOk, SessType
    <2>2. sess' = [sess EXCEPT ![c] = s] /\ direct' = direct
      BY <1>2 DEF Check, CallsOk
    <2> HIDE DEF s
    <2> QED BY <1>1, <2>1, <2>2, OneChanges
  <1>3. CASE slot = 0
    <2> DEFINE g == Dropped(sess, direct)
               s == [g[c] EXCEPT !.pc = "audio"]
    <2>1. /\ g \in [Call -> SessType]
          /\ \A d \in Call : /\ SessOk(g[d]) /\ g[d].pc = sess[d].pc
                             /\ d # direct => g[d] = sess[d]
                             /\ d = direct => g[d].rig = "stop"
      BY DropFacts DEF CallsOk, Filled
    <2>2. c # direct /\ g[c] = sess[c]
      BY <1>1, <2>1, CallFacts DEF CallsOk, Filled
    <2>3. sess' = [g EXCEPT ![c] = s] /\ direct' = 0
      BY <1>3, <2>1 DEF Check
    <2>4. s \in SessType /\ SessOk(s) /\ s.rig = "none"
      BY <1>1, <2>2 DEF SessOk, SessType
    <2> HIDE DEF g, s
    <2>5. sess' \in [Call -> SessType] /\ \A d \in Call : SessOk(sess'[d])
      BY <2>1, <2>3, <2>4
    <2>6. MicHasOwner'
      <3> SUFFICES ASSUME NEW d \in Call, sess'[d].rig = "on"
                   PROVE  sess'[d].pc \in {"dial", "store"}
        BY DEF MicHasOwner
      <3>1. d # c /\ d # direct
        BY <2>1, <2>3, <2>4
      <3>2. sess'[d] = sess[d]
        BY <3>1, <2>1, <2>3
      <3> QED BY <3>1, <3>2, <1>3, CallFacts DEF CallsOk, MicHasOwner
    <2> QED BY <1>1, <1>3, <2>3, <2>5, <2>6 DEF CallsOk, Filled
  <1> QED BY <1>2, <1>3

LEMMA OpenAudioKeeps == ASSUME CallsOk, NEW c \in Call, OpenAudio(c) PROVE CallsOk'
  <1> DEFINE s == [sess[c] EXCEPT !.pc = "dial", !.rig = "on"]
             t == [sess[c] EXCEPT !.pc = "done"]
  <1>1. /\ sess[c] \in SessType /\ SessOk(sess[c]) /\ sess[c].pc = "audio"
        /\ sess[c].rig = "none" /\ slot' = slot /\ direct' = direct
    BY DEF CallsOk, OpenAudio, SessOk
  <1>2. s \in SessType /\ SessOk(s) /\ s.pc = "dial"
    BY <1>1 DEF SessOk, SessType
  <1>3. t \in SessType /\ SessOk(t) /\ t.rig = "none" /\ t.pc = "done"
    BY <1>1 DEF SessOk, SessType
  <1>4. \/ sess' = [sess EXCEPT ![c] = s]
        \/ sess' = [sess EXCEPT ![c] = t]
    BY DEF OpenAudio, CallsOk
  <1> HIDE DEF s, t
  <1> QED BY <1>1, <1>2, <1>3, <1>4, OneChanges

LEMMA DialKeeps == ASSUME CallsOk, NEW c \in Call, Dial(c) PROVE CallsOk'
  <1>1. /\ sess[c] \in SessType /\ SessOk(sess[c]) /\ sess[c].pc = "dial"
        /\ sess[c].kind = "mesh" /\ sess[c].loop = "none"
        /\ slot' = slot /\ direct' = direct
    BY DEF CallsOk, Dial, SessOk
  <1>2. CASE GuardedReturn(c)
    <2> DEFINE s == [sess[c] EXCEPT !.pc = "done", !.rig = "stop"]
    <2>1. s \in SessType /\ SessOk(s) /\ s.rig = "stop" /\ s.pc = "done"
      BY <1>1 DEF SessOk, SessType
    <2>2. sess' = [sess EXCEPT ![c] = s]
      BY <1>2 DEF GuardedReturn, CallsOk
    <2> HIDE DEF s
    <2> QED BY <1>1, <2>1, <2>2, OneChanges
  <1>3. ASSUME NEW reply \in Replies,
               sess' = [sess EXCEPT
                    ![c].pc = "store", ![c].open = TRUE, ![c].loop = "run",
                    ![c].link = "live", ![c].inbox = reply]
        PROVE  CallsOk'
    <2> DEFINE s == [sess[c] EXCEPT !.pc = "store", !.open = TRUE, !.loop = "run",
                       !.link = "live", !.inbox = reply]
    <2>1. s \in SessType /\ SessOk(s) /\ s.pc = "store"
      BY <1>1, InboxFacts DEF SessOk, SessType
    <2>2. sess' = [sess EXCEPT ![c] = s]
      BY <1>3 DEF CallsOk
    <2> HIDE DEF s
    <2> QED BY <1>1, <2>1, <2>2, OneChanges
  <1> QED BY <1>2, <1>3 DEF Dial

LEMMA StoreKeeps == ASSUME CallsOk, NEW c \in Call, Store(c) PROVE CallsOk'
  <1> DEFINE s == [sess[c] EXCEPT !.pc = "done"]
             old == IF sess[c].kind = "mesh" THEN slot ELSE direct
             f == [sess EXCEPT ![c] = s]
             g == Dropped(f, old)
  <1>1. /\ sess[c] \in SessType /\ SessOk(sess[c]) /\ sess[c].pc = "store"
        /\ old \in Call \cup {0} /\ (old # 0 => sess[old].pc = "done" /\ old # c)
        /\ sess \in [Call -> SessType]
    BY DEF CallsOk, Store, SessOk, Filled
  <1>2. s \in SessType /\ SessOk(s) /\ s.pc = "done"
    BY <1>1 DEF SessOk, SessType
  <1>3. /\ f = [sess EXCEPT ![c].pc = "done"]
        /\ f \in [Call -> SessType]
        /\ \A d \in Call : /\ SessOk(f[d]) /\ (d # c => f[d] = sess[d])
                           /\ sess[d].pc = "done" => f[d].pc = "done"
        /\ f[c].pc = "done"
    BY <1>1, <1>2 DEF CallsOk
  <1>4. /\ sess' = g
        /\ \/ slot' = c /\ direct' = direct /\ old = slot
           \/ direct' = c /\ slot' = slot /\ old = direct
    BY <1>3 DEF Store
  <1> HIDE DEF s, old, f
  <1>8. \A d \in Call : SessOk(f[d])
    BY <1>3
  <1>9. old # 0 => f[old].pc = "done"
    BY <1>1, <1>3
  <1>5. /\ g \in [Call -> SessType]
        /\ \A d \in Call : /\ SessOk(g[d]) /\ g[d].pc = f[d].pc
                           /\ d # old => g[d] = f[d]
                           /\ d = old => g[d].rig = "stop"
    <2>1. f \in [Call -> SessType] /\ old \in Call \cup {0}
      BY <1>1, <1>3
    <2> QED BY <2>1, <1>8, <1>9, DropFacts
  <1> HIDE DEF g
  <1>6. Filled(slot)' /\ Filled(direct)'
    <2>1. \A n \in Call : sess[n].pc = "done" => sess'[n].pc = "done"
      BY <1>3, <1>4, <1>5
    <2>2. sess'[c].pc = "done"
      BY <1>3, <1>4, <1>5
    <2> QED BY <2>1, <2>2, <1>4 DEF CallsOk, Filled
  <1>7. MicHasOwner'
    <2> SUFFICES ASSUME NEW d \in Call, sess'[d].rig = "on"
                 PROVE  \/ sess'[d].pc \in {"dial", "store"}
                        \/ d \in {slot', direct'}
      BY DEF MicHasOwner
    <2>1. d # old
      BY <1>4, <1>5
    <2>2. CASE d = c
      BY <2>2, <1>4
    <2>3. CASE d # c
      <3>1. sess'[d] = sess[d]
        BY <2>1, <2>3, <1>3, <1>4, <1>5
      <3> QED BY <3>1, <2>1, <1>4 DEF CallsOk, MicHasOwner
    <2> QED BY <2>2, <2>3
  <1> QED BY <1>4, <1>5, <1>6, <1>7 DEF CallsOk

-----------------------------------------------------------------------------
\* The engine loop

\* A session whose loop has ended.
Ended(r) == [r EXCEPT !.loop = "over", !.link = "none", !.inbox = <<>>,
                      !.armed = FALSE, !.cmds = <<>>]

LEMMA EndedIsOk ==
  ASSUME NEW r \in SessType, SessOk(r), r.loop = "run"
  PROVE  /\ Ended(r) \in SessType /\ SessOk(Ended(r))
         /\ Ended(r).pc = r.pc /\ Ended(r).rig = r.rig
  <1> DEFINE nil == <<>>
             t == [r EXCEPT !.loop = "over", !.link = "none", !.inbox = nil,
                            !.armed = FALSE, !.cmds = nil]
  <1>1. t = Ended(r)
    BY DEF Ended
  <1>2. nil \in Inbox
    BY InboxFacts, Zenon
  <1>3. nil \in Seq(Cmds)
    OBVIOUS
  <1> HIDE DEF nil
  <1>4. t \in SessType /\ SessOk(t) /\ t.pc = r.pc /\ t.rig = r.rig
    BY <1>2, <1>3 DEF SessOk, SessType
  <1> QED BY <1>1, <1>4

LEMMA ReceiveKeeps == ASSUME CallsOk, NEW c \in Call, Receive(c) PROVE CallsOk'
  <1> DEFINE q == Tail(sess[c].inbox)
             s == [sess[c] EXCEPT !.inbox = q]
             u == [sess[c] EXCEPT !.inbox = q, !.link = "none", !.backoff = 2,
                                  !.armed = TRUE]
  <1>1. /\ sess[c] \in SessType /\ SessOk(sess[c]) /\ sess[c].loop = "run"
        /\ sess[c].inbox # <<>> /\ slot' = slot /\ direct' = direct
    BY DEF CallsOk, Receive, Running
  <1>2. q \in Inbox
    BY <1>1, InboxFacts DEF SessType
  <1>3. \/ sess' = [sess EXCEPT ![c].inbox = q]
        \/ sess' = Over([sess EXCEPT ![c].inbox = q], c)
        \/ sess' = [[sess EXCEPT ![c].inbox = q] EXCEPT
                      ![c].link = "none", ![c].backoff = 2, ![c].armed = TRUE]
    BY <1>1 DEF Receive, CallsOk, DroppedSignaling
  <1> HIDE DEF q
  <1>4. CASE sess' = [sess EXCEPT ![c].inbox = q]
    <2>1. s \in SessType /\ SessOk(s) /\ s.pc = sess[c].pc /\ s.rig = sess[c].rig
      BY <1>1, <1>2 DEF SessOk, SessType
    <2>2. sess' = [sess EXCEPT ![c] = s]
      BY <1>4 DEF CallsOk
    <2> HIDE DEF s
    <2> QED BY <1>1, <2>1, <2>2, OneChanges
  <1>5. CASE sess' = Over([sess EXCEPT ![c].inbox = q], c)
    <2>1. sess' = [sess EXCEPT ![c] = Ended(sess[c])]
      BY <1>5 DEF Over, Ended, CallsOk
    <2> QED BY <1>1, <2>1, EndedIsOk, OneChanges
  <1>6. CASE sess' = [[sess EXCEPT ![c].inbox = q] EXCEPT
                      ![c].link = "none", ![c].backoff = 2, ![c].armed = TRUE]
    <2>1. u \in SessType /\ SessOk(u) /\ u.pc = sess[c].pc /\ u.rig = sess[c].rig
      BY <1>1, <1>2 DEF SessOk, SessType, Backoffs
    <2>2. sess' = [sess EXCEPT ![c] = u]
      BY <1>6 DEF CallsOk
    <2> HIDE DEF u
    <2> QED BY <1>1, <2>1, <2>2, OneChanges
  <1> QED BY <1>3, <1>4, <1>5, <1>6

LEMMA RedialKeeps == ASSUME CallsOk, NEW c \in Call, Redial(c) PROVE CallsOk'
  <1> DEFINE s == [sess[c] EXCEPT !.loop = "dial"]
  <1>1. /\ sess[c] \in SessType /\ SessOk(sess[c]) /\ sess[c].loop = "run"
        /\ slot' = slot /\ direct' = direct
    BY DEF CallsOk, Redial, Running
  <1>2. s \in SessType /\ SessOk(s) /\ s.pc = sess[c].pc /\ s.rig = sess[c].rig
    BY <1>1 DEF SessOk, SessType
  <1>3. sess' = [sess EXCEPT ![c] = s]
    BY DEF Redial, CallsOk
  <1> HIDE DEF s
  <1> QED BY <1>1, <1>2, <1>3, OneChanges

LEMMA RedialledKeeps == ASSUME CallsOk, NEW c \in Call, Redialled(c) PROVE CallsOk'
  <1>1. /\ sess[c] \in SessType /\ SessOk(sess[c]) /\ sess[c].loop = "dial"
        /\ slot' = slot /\ direct' = direct
    BY DEF CallsOk, Redialled
  <1>2. ASSUME NEW reply \in Replies,
               sess' = [sess EXCEPT ![c].loop = "run", ![c].link = "live",
                          ![c].inbox = reply, ![c].armed = FALSE, ![c].backoff = 2]
        PROVE  CallsOk'
    <2> DEFINE s == [sess[c] EXCEPT !.loop = "run", !.link = "live",
                       !.inbox = reply, !.armed = FALSE, !.backoff = 2]
    <2>1. s \in SessType /\ SessOk(s) /\ s.pc = sess[c].pc /\ s.rig = sess[c].rig
      BY <1>1, InboxFacts DEF SessOk, SessType, Backoffs
    <2>2. sess' = [sess EXCEPT ![c] = s]
      BY <1>2 DEF CallsOk
    <2> HIDE DEF s
    <2> QED BY <1>1, <2>1, <2>2, OneChanges
  <1>3. ASSUME sess' = [sess EXCEPT ![c].loop = "run",
                          ![c].backoff = Doubled(@), ![c].armed = TRUE]
        PROVE  CallsOk'
    <2> DEFINE b == Doubled(sess[c].backoff)
               s == [sess[c] EXCEPT !.loop = "run", !.backoff = b, !.armed = TRUE]
    <2>1. b \in Backoffs
      BY <1>1 DEF SessType, Backoffs, Doubled
    <2>2. sess' = [sess EXCEPT ![c] = s]
      BY <1>3 DEF CallsOk
    <2> HIDE DEF b
    <2>3. s \in SessType /\ SessOk(s) /\ s.pc = sess[c].pc /\ s.rig = sess[c].rig
      BY <1>1, <2>1 DEF SessOk, SessType
    <2> HIDE DEF s
    <2> QED BY <1>1, <2>2, <2>3, OneChanges
  <1> QED BY <1>2, <1>3 DEF Redialled

LEMMA CommandKeeps == ASSUME CallsOk, NEW c \in Call, Command(c) PROVE CallsOk'
  <1> DEFINE cmd == Head(sess[c].cmds)
             q == Tail(sess[c].cmds)
             tx == IF cmd = "toggle" THEN ~sess[c].tx ELSE cmd = "on"
             s == [sess[c] EXCEPT !.cmds = q]
             t == [sess[c] EXCEPT !.cmds = q, !.backoff = 2, !.armed = TRUE]
             u == [sess[c] EXCEPT !.cmds = q, !.tx = tx]
  <1>1. /\ sess[c] \in SessType /\ SessOk(sess[c]) /\ sess[c].loop = "run"
        /\ sess[c].cmds # <<>> /\ slot' = slot /\ direct' = direct
    BY DEF CallsOk, Command, Running
  <1>2. \/ sess' = [sess EXCEPT ![c] = s]
        \/ sess' = [sess EXCEPT ![c] = t]
        \/ sess' = [sess EXCEPT ![c] = u]
    BY <1>1 DEF Command, CallsOk
  <1>3. q \in Seq(Cmds)
    BY <1>1 DEF SessType
  <1>4. tx \in BOOLEAN
    BY <1>1 DEF SessType
  <1> HIDE DEF q, tx
  <1>5. s \in SessType /\ SessOk(s) /\ s.pc = sess[c].pc /\ s.rig = sess[c].rig
    BY <1>1, <1>3 DEF SessOk, SessType
  <1>6. t \in SessType /\ SessOk(t) /\ t.pc = sess[c].pc /\ t.rig = sess[c].rig
    BY <1>1, <1>3 DEF SessOk, SessType, Backoffs
  <1>7. u \in SessType /\ SessOk(u) /\ u.pc = sess[c].pc /\ u.rig = sess[c].rig
    BY <1>1, <1>3, <1>4 DEF SessOk, SessType
  <1> HIDE DEF s, t, u
  <1> QED BY <1>1, <1>2, <1>5, <1>6, <1>7, OneChanges

LEMMA LeaveKeeps == ASSUME CallsOk, NEW c \in Call, Leave(c) PROVE CallsOk'
  <1>1. /\ sess[c] \in SessType /\ SessOk(sess[c]) /\ sess[c].loop = "run"
        /\ slot' = slot /\ direct' = direct
    BY DEF CallsOk, Leave, Running
  <1>2. sess' = [sess EXCEPT ![c] = Ended(sess[c])]
    BY DEF Leave, Over, Ended, CallsOk
  <1> QED BY <1>1, <1>2, EndedIsOk, OneChanges

LEMMA ClosesKeeps == ASSUME CallsOk, NEW c \in Call, Closes(c) PROVE CallsOk'
  <1> DEFINE s == [sess[c] EXCEPT !.link = "gone", !.inbox = <<"eof">>]
             t == [sess[c] EXCEPT !.link = "silent"]
  <1>1. /\ sess[c] \in SessType /\ SessOk(sess[c]) /\ sess[c].link = "live"
        /\ sess[c].inbox = <<>> /\ slot' = slot /\ direct' = direct
    BY DEF CallsOk, Closes
  <1>2. s \in SessType /\ SessOk(s) /\ s.pc = sess[c].pc /\ s.rig = sess[c].rig
    BY <1>1, InboxFacts DEF SessOk, SessType
  <1>3. t \in SessType /\ SessOk(t) /\ t.pc = sess[c].pc /\ t.rig = sess[c].rig
    BY <1>1 DEF SessOk, SessType
  <1>4. \/ sess' = [sess EXCEPT ![c] = s]
        \/ sess' = [sess EXCEPT ![c] = t]
    BY DEF Closes, CallsOk
  <1> HIDE DEF s, t
  <1> QED BY <1>1, <1>2, <1>3, <1>4, OneChanges

LEMMA IdleOutKeeps == ASSUME CallsOk, NEW c \in Call, IdleOut(c) PROVE CallsOk'
  <1> DEFINE q == Append(sess[c].inbox, "eof")
             s == [sess[c] EXCEPT !.link = "gone", !.inbox = q]
  <1>1. /\ sess[c] \in SessType /\ SessOk(sess[c]) /\ sess[c].link = "silent"
        /\ slot' = slot /\ direct' = direct
    BY DEF CallsOk, IdleOut
  <1>2. q = <<"eof">>
    <2>1. sess[c].inbox = <<>>
      BY <1>1 DEF SessOk
    <2> QED BY <2>1
  <1>3. sess' = [sess EXCEPT ![c] = s]
    BY DEF IdleOut, CallsOk
  <1>4. q \in Inbox
    BY <1>2, InboxFacts, Zenon
  <1> HIDE DEF q
  <1>5. s \in SessType /\ SessOk(s) /\ s.pc = sess[c].pc /\ s.rig = sess[c].rig
    BY <1>1, <1>4 DEF SessOk, SessType
  <1> HIDE DEF s
  <1> QED BY <1>1, <1>3, <1>5, OneChanges

-----------------------------------------------------------------------------
\* The serverless session

LEMMA DirectAskKeeps == ASSUME CallsOk, NEW c \in Call, DirectAsk(c) PROVE CallsOk'
  <1> DEFINE s == [sess[c] EXCEPT !.pc = "audio", !.kind = "direct"]
  <1>1. /\ sess[c] \in SessType /\ SessOk(sess[c]) /\ sess[c].pc = "idle"
        /\ slot' = slot /\ direct' = direct
    BY DEF CallsOk, DirectAsk, Fresh
  <1>2. s \in SessType /\ SessOk(s) /\ s.rig = "none"
    BY <1>1 DEF SessOk, SessType
  <1>3. sess' = [sess EXCEPT ![c] = s]
    BY DEF DirectAsk, CallsOk
  <1> HIDE DEF s
  <1> QED BY <1>1, <1>2, <1>3, OneChanges

LEMMA DirectDialKeeps == ASSUME CallsOk, NEW c \in Call, DirectDial(c) PROVE CallsOk'
  <1> DEFINE s == [sess[c] EXCEPT !.pc = "store", !.open = TRUE]
             t == [sess[c] EXCEPT !.pc = "done", !.rig = "stop"]
  <1>1. /\ sess[c] \in SessType /\ SessOk(sess[c]) /\ sess[c].pc = "dial"
        /\ slot' = slot /\ direct' = direct
    BY DEF CallsOk, DirectDial
  <1>2. s \in SessType /\ SessOk(s) /\ s.pc = "store"
    BY <1>1 DEF SessOk, SessType
  <1>3. t \in SessType /\ SessOk(t) /\ t.rig = "stop" /\ t.pc = "done"
    BY <1>1 DEF SessOk, SessType
  <1>4. \/ sess' = [sess EXCEPT ![c] = s]
        \/ sess' = [sess EXCEPT ![c] = t]
    BY DEF DirectDial, GuardedReturn, CallsOk
  <1> HIDE DEF s, t
  <1> QED BY <1>1, <1>2, <1>3, <1>4, OneChanges

LEMMA DirectStateKeeps == ASSUME CallsOk, NEW c \in Call, DirectState(c) PROVE CallsOk'
  <1> DEFINE s == [sess[c] EXCEPT !.link = "live"]
             t == [sess[c] EXCEPT !.link = "none"]
  <1>1. /\ sess[c] \in SessType /\ SessOk(sess[c]) /\ sess[c].kind = "direct"
        /\ slot' = slot /\ direct' = direct
    BY DEF CallsOk, DirectState
  <1>2. s \in SessType /\ SessOk(s) /\ s.pc = sess[c].pc /\ s.rig = sess[c].rig
    BY <1>1 DEF SessOk, SessType
  <1>3. t \in SessType /\ SessOk(t) /\ t.pc = sess[c].pc /\ t.rig = sess[c].rig
    BY <1>1 DEF SessOk, SessType
  <1>4. \/ sess' = [sess EXCEPT ![c] = s]
        \/ sess' = [sess EXCEPT ![c] = t]
    BY DEF DirectState, CallsOk
  <1> HIDE DEF s, t
  <1> QED BY <1>1, <1>2, <1>3, <1>4, OneChanges

-----------------------------------------------------------------------------
\* The user

LEMMA TalkKeeps == ASSUME CallsOk, NEW cmd \in Cmds, Talk(cmd) PROVE CallsOk'
  <1>1. slot' = slot /\ direct' = direct
    BY DEF Talk
  <1>2. CASE direct # 0 /\ cmd # "reconnect" /\ sess' # sess
    <2> DEFINE tx == IF cmd = "toggle" THEN ~sess[direct].tx ELSE cmd = "on"
               s == [sess[direct] EXCEPT !.tx = tx]
    <2>1. direct \in Call /\ sess[direct] \in SessType /\ SessOk(sess[direct])
      BY <1>2 DEF CallsOk, Filled
    <2>2. sess' = [sess EXCEPT ![direct] = s]
      BY <1>2, <2>1 DEF Talk, CallsOk
    <2>3. tx \in BOOLEAN
      BY <2>1 DEF SessType
    <2> HIDE DEF tx
    <2>4. s \in SessType /\ SessOk(s) /\ s.pc = sess[direct].pc /\ s.rig = sess[direct].rig
      BY <2>1, <2>3 DEF SessOk, SessType
    <2> HIDE DEF s
    <2> QED BY <1>1, <2>1, <2>2, <2>4, OneChanges
  <1>3. CASE (direct = 0 \/ cmd = "reconnect") /\ sess' # sess
    <2> DEFINE q == Append(sess[slot].cmds, cmd)
               s == [sess[slot] EXCEPT !.cmds = q]
    <2>1. slot \in Call /\ sess[slot] \in SessType /\ SessOk(sess[slot])
      BY <1>3 DEF CallsOk, Filled, Talk
    <2>2. sess' = [sess EXCEPT ![slot] = s]
      BY <1>3, <2>1 DEF Talk, CallsOk
    <2>3. q \in Seq(Cmds)
      BY <2>1 DEF SessType
    <2> HIDE DEF q
    <2>4. s \in SessType /\ SessOk(s) /\ s.pc = sess[slot].pc /\ s.rig = sess[slot].rig
      BY <2>1, <2>3 DEF SessOk, SessType
    <2> HIDE DEF s
    <2> QED BY <1>1, <2>1, <2>2, <2>4, OneChanges
  <1>4. CASE sess' = sess
    BY <1>1, <1>4 DEF CallsOk, Filled, MicHasOwner
  <1> QED BY <1>2, <1>3, <1>4

LEMMA DisconnectKeeps == ASSUME CallsOk, Disconnect PROVE CallsOk'
  <1> DEFINE f == Dropped(sess, slot)
             g == Dropped(f, direct)
  <1>1. /\ sess \in [Call -> SessType] /\ \A c \in Call : SessOk(sess[c])
        /\ slot \in Call \cup {0} /\ (slot # 0 => sess[slot].pc = "done")
        /\ direct \in Call \cup {0} /\ (direct # 0 => sess[direct].pc = "done")
    BY DEF CallsOk, Filled
  <1>2. /\ f \in [Call -> SessType]
        /\ \A c \in Call : /\ SessOk(f[c]) /\ f[c].pc = sess[c].pc
                           /\ c # slot => f[c] = sess[c]
                           /\ c = slot => f[c].rig = "stop"
    BY <1>1, DropFacts
  <1>3. direct # 0 => f[direct].pc = "done"
    BY <1>1, <1>2
  <1>4. sess' = g /\ slot' = 0 /\ direct' = 0
    BY DEF Disconnect
  <1> HIDE DEF f
  <1>5. /\ g \in [Call -> SessType]
        /\ \A c \in Call : /\ SessOk(g[c]) /\ g[c].pc = f[c].pc
                           /\ c # direct => g[c] = f[c]
                           /\ c = direct => g[c].rig = "stop"
    BY <1>1, <1>2, <1>3, DropFacts
  <1> HIDE DEF g
  <1>6. MicHasOwner'
    <2> SUFFICES ASSUME NEW c \in Call, sess'[c].rig = "on"
                 PROVE  sess'[c].pc \in {"dial", "store"}
      BY DEF MicHasOwner
    <2>1. c # direct /\ sess'[c] = f[c]
      BY <1>4, <1>5
    <2>2. c # slot /\ f[c] = sess[c]
      BY <2>1, <1>2
    <2> QED BY <2>1, <2>2 DEF CallsOk, MicHasOwner
  <1> QED BY <1>4, <1>5, <1>6 DEF CallsOk, Filled

-----------------------------------------------------------------------------
\* The screen, the self-check and the whole

LEMMA ScreenKeeps == ScreenType /\ [ClNext]_clVars => ScreenType'
  <1> SUFFICES ASSUME ScreenType, ClNext PROVE ScreenType'
    BY DEF ScreenType, clVars
  <1>1. ASSUME NEW now \in BOOLEAN, ui' = ui, Tell(now) PROVE ScreenType'
    BY <1>1 DEF ScreenType, Tell
  <1>2. CASE ui' = ui /\ (status' = status \/ \E now \in BOOLEAN : Tell(now))
    BY <1>1, <1>2 DEF ScreenType
  <1>3. CASE /\ status' = status
             /\ \E b \in BOOLEAN : \/ ui' = [ui EXCEPT !.connecting = b]
                                   \/ ui' = [ui EXCEPT !.shown = b]
    BY <1>3 DEF ScreenType
  <1>4. CASE OnStatus
    <2> DEFINE now == Head(status)
               b == IF now THEN FALSE ELSE ui.connecting
    <2>1. now \in BOOLEAN /\ Tail(status) \in Seq(BOOLEAN)
      <3>1. status \in Seq(BOOLEAN) /\ status # <<>>
        BY <1>4 DEF OnStatus, ScreenType
      <3> QED BY <3>1, HeadTailProperties, Zenon
    <2>2. b \in BOOLEAN
      BY DEF ScreenType
    <2>3. ui' = [ui EXCEPT !.connected = now, !.connecting = b]
      BY <1>4 DEF OnStatus, ScreenType
    <2> HIDE DEF now, b
    <2>4. ui' \in [connected : BOOLEAN, connecting : BOOLEAN, shown : BOOLEAN]
      BY <2>1, <2>2, <2>3 DEF ScreenType
    <2> QED BY <1>4, <2>1, <2>4 DEF OnStatus, ScreenType
  <1>5. ASSUME NEW c \in Call,
               \/ Ask(c) \/ Check(c) \/ OpenAudio(c)
        PROVE  ScreenType'
    BY <1>2, <1>3, <1>5 DEF Ask, Check, OpenAudio, Rejected
  <1>6. ASSUME NEW c \in Call, Dial(c) PROVE ScreenType'
    BY <1>2, <1>3, <1>6 DEF Dial, Rejected
  <1>7. ASSUME NEW c \in Call,
               \/ Store(c) \/ Receive(c) \/ Redial(c) \/ Redialled(c)
               \/ Command(c) \/ Leave(c) \/ Closes(c) \/ IdleOut(c)
               \/ DirectAsk(c) \/ DirectDial(c) \/ DirectState(c)
        PROVE  ScreenType'
    BY <1>2, <1>7 DEF Store, Receive, Redial, Redialled, Command, Leave, Closes,
                      IdleOut, DirectAsk, DirectDial, DirectState
  <1>8. CASE Render
    <2> DEFINE b == ui.connected \/ ui.connecting
    <2>1. b \in BOOLEAN /\ ui' = [ui EXCEPT !.shown = b] /\ status' = status
      BY <1>8 DEF Render, ScreenType
    <2> HIDE DEF b
    <2> QED BY <1>3, <2>1
  <1>9. ASSUME \/ Disconnect \/ \E cmd \in Cmds : Talk(cmd)
               \/ ProbeStart \/ ProbeStep
        PROVE  ScreenType'
    BY <1>2, <1>9 DEF Disconnect, Talk, ProbeStart, ProbeStep
  <1> QED BY <1>4, <1>5, <1>6, <1>7, <1>8, <1>9 DEF ClNext

LEMMA ProbeKeeps == ProbeInv /\ [ClNext]_clVars => ProbeInv'
  <1> SUFFICES ASSUME ProbeInv, [ClNext]_clVars PROVE ProbeInv'
    OBVIOUS
  <1>1. CASE probe' = probe
    BY <1>1 DEF ProbeInv, ProbeHonest
  <1>2. CASE ProbeStart
    BY <1>2 DEF ProbeStart, ProbeInv, ProbeType, ProbeHonest
  <1>3. CASE Ping
    <2> DEFINE x == probe.step = "read"
    <2>1. x \in BOOLEAN /\ (x <=> probe.step = "read")
      OBVIOUS
    <2>2. probe' = [probe EXCEPT !.b = TRUE, !.crossed = x] /\ ~probe.b /\ probe.pcs # {}
      BY <1>3 DEF Ping
    <2> HIDE DEF x
    <2> QED BY <2>1, <2>2 DEF ProbeInv, ProbeType, ProbeHonest
  <1>4. CASE Echo
    BY <1>4 DEF Echo, ProbeInv, ProbeType, ProbeHonest
  <1>5. CASE ProbeWaited
    BY <1>5 DEF ProbeWaited, ProbeInv, ProbeType, ProbeHonest
  <1>6. CASE ProbeFailed
    BY <1>6 DEF ProbeFailed, NoProbe, ProbeInv, ProbeType, ProbeHonest
  <1>7. CASE ProbeClosed
    BY <1>7 DEF ProbeClosed, ProbeInv, ProbeType, ProbeHonest
  <1>8. ASSUME ClNext PROVE probe' = probe \/ ProbeStart \/ ProbeStep
    BY <1>8 DEF ClNext, Ask, Check, OpenAudio, Dial, Store, Receive, Redial,
                Redialled, Command, Leave, Closes, IdleOut, DirectAsk, DirectDial,
                DirectState, Render, OnStatus, Disconnect, Talk
  <1> QED BY <1>1, <1>2, <1>3, <1>4, <1>5, <1>6, <1>7, <1>8 DEF ProbeStep, clVars

LEMMA CallsKeep == CallsOk /\ [ClNext]_clVars => CallsOk'
  <1> SUFFICES ASSUME CallsOk, [ClNext]_clVars PROVE CallsOk'
    OBVIOUS
  <1>1. CASE UNCHANGED <<sess, slot, direct>>
    BY <1>1 DEF CallsOk, Filled, MicHasOwner
  <1>2. ASSUME NEW c \in Call,
               \/ Ask(c) \/ Check(c) \/ OpenAudio(c) \/ Dial(c) \/ Store(c)
               \/ Receive(c) \/ Redial(c) \/ Redialled(c) \/ Command(c) \/ Leave(c)
               \/ Closes(c) \/ IdleOut(c)
               \/ DirectAsk(c) \/ DirectDial(c) \/ DirectState(c)
        PROVE  CallsOk'
    BY <1>2, AskKeeps, CheckKeeps, OpenAudioKeeps, DialKeeps, StoreKeeps,
       ReceiveKeeps, RedialKeeps, RedialledKeeps, CommandKeeps, LeaveKeeps,
       ClosesKeeps, IdleOutKeeps, DirectAskKeeps, DirectDialKeeps, DirectStateKeeps
  <1>3. ASSUME Render \/ OnStatus \/ ProbeStart \/ ProbeStep
        PROVE  UNCHANGED <<sess, slot, direct>>
    BY <1>3 DEF Render, OnStatus, ProbeStart, ProbeStep
  <1> QED BY <1>1, <1>2, <1>3, TalkKeeps, DisconnectKeeps DEF ClNext, clVars

LEMMA OpenInvInit == ClInit => OpenInv
  <1> SUFFICES ASSUME ClInit PROVE OpenInv
    OBVIOUS
  <1>1. NewSess \in SessType /\ SessOk(NewSess) /\ NewSess.rig = "none"
    BY InboxFacts DEF NewSess, SessType, SessOk, Backoffs
  <1>2. CallsOk
    BY <1>1 DEF ClInit, CallsOk, Filled, MicHasOwner
  <1>3. ScreenType
    BY DEF ClInit, ScreenType
  <1>4. ProbeInv
    BY DEF ClInit, NoProbe, ProbeInv, ProbeType, ProbeHonest
  <1> QED BY <1>2, <1>3, <1>4 DEF OpenInv

\* No call that failed, was refused, replaced or cancelled leaves a microphone
\* open without an owner (StopGuard, Drop of Engine and of Serverless); no loop
\* that is over keeps its socket; and the self-check closes its connections and
\* reports no echo without a ping, but for the crossing of both with its
\* readings.
THEOREM NothingStaysOpen == ClSpec => []NothingLeftOpen
  <1>1. OpenInv /\ [ClNext]_clVars => OpenInv'
    BY CallsKeep, ScreenKeeps, ProbeKeeps DEF OpenInv
  <1>2. OpenInv => NothingLeftOpen
    BY DEF OpenInv, CallsOk, ScreenType, ProbeInv, Filled, SessOk,
           NothingLeftOpen, ClTypeOK, NoGhost
  <1> QED BY <1>1, <1>2, OpenInvInit, PTL DEF ClSpec

-----------------------------------------------------------------------------
(***************************************************************************)
(* The screen.  When the webview renders between two deep links, at most    *)
(* one call is ahead of its loop or has a loop that runs; what was told      *)
(* last is whether one runs; and a FALSE is the last thing told until the    *)
(* webview has heard it, since nothing may be asked before.                 *)
(***************************************************************************)
Ahead(c) == sess[c].kind = "mesh" /\ sess[c].pc \in {"check", "audio", "dial"}
InLoop(c) == sess[c].loop \in {"run", "dial"}
Somebody == \E c \in Call : InLoop(c)

AtMostOne ==
  \A c, d \in Call : (Ahead(c) \/ InLoop(c)) /\ (Ahead(d) \/ InLoop(d)) => c = d

\* The events on their way: all but the last say that a session is up.
UpToLast(q) == \A i \in 1 .. Len(q) - 1 : q[i] = TRUE
Last(q) == q[Len(q)]

ScreenInv ==
  /\ AtMostOne
  /\ \A c \in Call : Ahead(c) => ui.connecting /\ ~ui.connected /\ status = <<>>
  /\ status = <<>> => (ui.connected = TRUE <=> Somebody)
  /\ status # <<>> => /\ Last(status) = TRUE <=> Somebody
                      /\ ui.connected \/ ui.connecting
  /\ UpToLast(status)

\* A loop that runs and was not dropped is the one in the slot.
OpenInSlot ==
  \A c \in Call : InLoop(c) /\ sess[c].open /\ sess[c].pc = "done" => c = slot

LEMMA Told ==
  ASSUME NEW S, NEW q \in Seq(S), NEW x \in S
  PROVE  /\ Append(q, x) # <<>>
         /\ Len(Append(q, x)) = Len(q) + 1
         /\ Append(q, x)[Len(q) + 1] = x
         /\ \A i \in 1 .. Len(q) : Append(q, x)[i] = q[i]
  OBVIOUS

LEMMA TellAppends ==
  ASSUME status \in Seq(BOOLEAN), NEW now \in BOOLEAN, Tell(now),
         UpToLast(status), status # <<>> => Last(status) = TRUE
  PROVE  status' # <<>> /\ Last(status') = now /\ UpToLast(status')
  <1>1. status' = Append(status, now)
    BY DEF Tell
  <1>2. /\ status' # <<>> /\ Len(status') = Len(status) + 1
        /\ status'[Len(status) + 1] = now
        /\ \A i \in 1 .. Len(status) : status'[i] = status[i]
    BY <1>1, Told, Zenon
  <1>3. Last(status') = now
    BY <1>2, Zenon DEF Last
  <1>4. ASSUME NEW i \in 1 .. Len(status') - 1
        PROVE  status'[i] = TRUE
    <2>1. Len(status) \in Nat
      OBVIOUS
    <2>2. i \in 1 .. Len(status)
      BY <1>2, <2>1
    <2>3. i \in 1 .. Len(status) - 1 \/ i = Len(status)
      BY <2>1, <2>2
    <2>4. status # <<>>
      BY <2>1, <2>2
    <2>5. status[i] = TRUE
      BY <2>3, <2>4, Zenon DEF UpToLast, Last
    <2> QED BY <1>2, <2>2, <2>5, Zenon
  <1> QED BY <1>2, <1>3, <1>4, Zenon DEF UpToLast

LEMMA Heard ==
  ASSUME status \in Seq(BOOLEAN), status # <<>>, UpToLast(status)
  PROVE  /\ Head(status) \in BOOLEAN
         /\ Tail(status) = <<>> => Head(status) = Last(status)
         /\ Tail(status) # <<>> => /\ Head(status) = TRUE
                                  /\ Last(Tail(status)) = Last(status)
         /\ UpToLast(Tail(status))
  <1> DEFINE q == Tail(status)
  <1>1. /\ Head(status) \in BOOLEAN /\ q \in Seq(BOOLEAN) /\ Len(q) = Len(status) - 1
        /\ \A i \in 1 .. Len(q) : q[i] = status[i + 1]
    BY HeadTailProperties, Zenon
  <1>2. Head(status) = status[1]
    OBVIOUS
  <1>3. Len(status) \in Nat /\ Len(status) >= 1 /\ Len(q) \in Nat
    <2>1. Len(status) \in Nat /\ Len(status) # 0
      OBVIOUS
    <2> QED BY <1>1, <2>1
  <1>4. ASSUME q = <<>> PROVE Head(status) = Last(status)
    <2>1. Len(q) = 0
      BY <1>4, EmptySeq, Zenon
    <2>2. Len(status) = 1
      BY <2>1, <1>1, <1>3
    <2> QED BY <1>2, <2>2, Zenon DEF Last
  <1>5. ASSUME q # <<>> PROVE Head(status) = TRUE /\ Last(q) = Last(status)
    <2>1. Len(q) # 0
      BY <1>5, <1>1, EmptySeq, Zenon
    <2>2. 1 \in 1 .. Len(status) - 1 /\ Len(q) \in 1 .. Len(q) /\ Len(q) + 1 = Len(status)
      BY <2>1, <1>1, <1>3
    <2>3. status[1] = TRUE /\ q[Len(q)] = status[Len(q) + 1]
      BY <1>1, <2>2, Zenon DEF UpToLast
    <2>4. q[Len(q)] = status[Len(status)]
      BY <2>2, <2>3
    <2> QED BY <1>2, <2>3, <2>4, Zenon DEF Last
  <1>6. UpToLast(q)
    <2> SUFFICES ASSUME NEW i \in 1 .. Len(q) - 1 PROVE q[i] = TRUE
      BY Zenon DEF UpToLast
    <2>1. i \in 1 .. Len(q) /\ i + 1 \in 1 .. Len(status) - 1
      BY <1>1, <1>3
    <2> QED BY <1>1, <2>1, Zenon DEF UpToLast
  <1> QED BY <1>1, <1>4, <1>5, <1>6, Zenon

\* Nothing is told, no call comes ahead and no loop starts or ends.
Uneventful ==
  /\ status' = status /\ ui'.connected = ui.connected /\ ui'.connecting = ui.connecting
  /\ \A c \in Call : (Ahead(c)' => Ahead(c)) /\ (InLoop(c)' <=> InLoop(c))

LEMMA UneventfulKeeps == ScreenInv /\ Uneventful => ScreenInv'
  <1> SUFFICES ASSUME ScreenInv, Uneventful PROVE ScreenInv'
    OBVIOUS
  <1>1. Somebody' <=> Somebody
    BY DEF Uneventful, Somebody
  <1>2. AtMostOne'
    BY DEF Uneventful, ScreenInv, AtMostOne
  <1>3. \A c \in Call : Ahead(c)' => ui'.connecting /\ ~ui'.connected /\ status' = <<>>
    BY DEF Uneventful, ScreenInv
  <1>4. UpToLast(status') /\ Last(status') = Last(status)
    BY DEF Uneventful, ScreenInv
  <1> QED BY <1>1, <1>2, <1>3, <1>4 DEF Uneventful, ScreenInv

\* A running loop says that it runs, or starts and says so.
LEMMA RunsAndTells ==
  ASSUME ScreenInv, ScreenType, NEW c \in Call, Tell(TRUE), ui' = ui,
         Ahead(c) \/ InLoop(c), InLoop(c)', ~Ahead(c)',
         \A d \in Call : d # c => (Ahead(d)' => Ahead(d)) /\ (InLoop(d)' => InLoop(d))
  PROVE  ScreenInv'
  <1>1. status # <<>> => Last(status) = TRUE /\ (ui.connected \/ ui.connecting)
    BY DEF ScreenInv, Somebody
  <1>2. status' # <<>> /\ Last(status') = TRUE /\ UpToLast(status')
    BY <1>1, TellAppends DEF ScreenInv, ScreenType
  <1>3. \A d \in Call : Ahead(d)' \/ InLoop(d)' => d = c
    BY DEF ScreenInv, AtMostOne
  <1>4. Somebody'
    BY DEF Somebody
  <1>5. \A d \in Call : ~Ahead(d)'
    BY <1>3
  <1>6. ui.connected \/ ui.connecting
    BY <1>1 DEF ScreenInv, ScreenType, Somebody
  <1> QED BY <1>2, <1>3, <1>4, <1>5, <1>6 DEF ScreenInv, AtMostOne

\* A loop ends and says so.
LEMMA EndsAndTells ==
  ASSUME ScreenInv, ScreenType, NEW c \in Call, Tell(FALSE), ui' = ui,
         InLoop(c), ~InLoop(c)', ~Ahead(c)',
         \A d \in Call : d # c => (Ahead(d)' => Ahead(d)) /\ (InLoop(d)' => InLoop(d))
  PROVE  ScreenInv'
  <1>1. status # <<>> => Last(status) = TRUE /\ (ui.connected \/ ui.connecting)
    BY DEF ScreenInv, Somebody
  <1>2. status' # <<>> /\ Last(status') = FALSE /\ UpToLast(status')
    BY <1>1, TellAppends DEF ScreenInv, ScreenType
  <1>3. \A d \in Call : ~Ahead(d)' /\ ~InLoop(d)'
    BY DEF ScreenInv, AtMostOne
  <1>4. ~Somebody'
    BY <1>3 DEF Somebody
  <1>5. ui.connected \/ ui.connecting
    BY <1>1 DEF ScreenInv, ScreenType, Somebody
  <1>6. Last(status') # TRUE
    BY <1>2
  <1> QED BY <1>2, <1>3, <1>4, <1>5, <1>6 DEF ScreenInv, AtMostOne

\* A call that is ahead fails.
LEMMA FailsAhead ==
  ASSUME ScreenInv, ScreenType, NEW c \in Call, status' = status,
         ui' = [ui EXCEPT !.connecting = FALSE],
         Ahead(c), ~Ahead(c)',
         \A d \in Call : (Ahead(d)' => Ahead(d)) /\ (InLoop(d)' <=> InLoop(d))
  PROVE  ScreenInv'
  <1>1. status = <<>> /\ ~ui.connected
    BY DEF ScreenInv
  <1>2. \A d \in Call : ~Ahead(d)'
    BY DEF ScreenInv, AtMostOne
  <1>3. Somebody' <=> Somebody
    BY DEF Somebody
  <1>4. ui'.connected = ui.connected
    BY DEF ScreenType
  <1>5. AtMostOne'
    BY DEF ScreenInv, AtMostOne
  <1> QED BY <1>1, <1>2, <1>3, <1>4, <1>5 DEF ScreenInv, ScreenType

\* Nobody is ahead or alive when a call may be asked for.
LEMMA AskScreen ==
  ASSUME ScreenInv, ScreenType, CallsOk, RendersFirst, NEW c \in Call, Ask(c)
  PROVE  ScreenInv'
  <1>1. ~ui.connected /\ ~ui.connecting
    BY DEF Ask, ScreenType
  <1>2. status = <<>> /\ ~Somebody
    BY <1>1 DEF ScreenInv
  <1>3. \A d \in Call : ~Ahead(d) /\ ~InLoop(d)
    BY <1>1, <1>2 DEF ScreenInv, Somebody
  <1>4. /\ sess[c] \in SessType /\ sess' = [sess EXCEPT ![c].pc = "check"]
        /\ ui' = [ui EXCEPT !.connecting = TRUE] /\ status' = status
        /\ sess \in [Call -> SessType]
    BY DEF Ask, CallsOk
  <1>5. /\ \A d \in Call : sess'[d].loop = sess[d].loop
        /\ \A d \in Call : d # c => sess'[d] = sess[d]
    BY <1>4 DEF SessType
  <1>6. \A d \in Call : ~InLoop(d)' /\ (Ahead(d)' => d = c)
    BY <1>3, <1>5 DEF InLoop, Ahead
  <1>7. ui'.connecting = TRUE /\ ui'.connected = ui.connected
    BY <1>4 DEF ScreenType
  <1>8. ~Somebody'
    BY <1>6 DEF Somebody
  <1> QED BY <1>1, <1>2, <1>4, <1>6, <1>7, <1>8 DEF ScreenInv, AtMostOne, ScreenType

LEMMA OnStatusScreen ==
  ASSUME ScreenInv, ScreenType, OnStatus
  PROVE  ScreenInv'
  <1> DEFINE h == Head(status)
             b == IF h THEN FALSE ELSE ui.connecting
  <1>1. /\ status \in Seq(BOOLEAN) /\ status # <<>> /\ status' = Tail(status)
        /\ UNCHANGED sess
    BY DEF OnStatus, ScreenType
  <1>2. /\ h \in BOOLEAN
        /\ status' = <<>> => h = Last(status)
        /\ status' # <<>> => h = TRUE /\ Last(status') = Last(status)
        /\ UpToLast(status')
    BY <1>1, Heard, Zenon DEF ScreenInv
  <1>3. ui' = [ui EXCEPT !.connected = h, !.connecting = b]
    BY DEF OnStatus, ScreenType
  <1> HIDE DEF h, b
  <1>4. ui'.connected = h
    BY <1>3 DEF ScreenType
  <1>5. /\ Somebody' <=> Somebody
        /\ AtMostOne'
        /\ \A d \in Call : ~Ahead(d)'
    BY <1>1 DEF ScreenInv, Somebody, AtMostOne, Ahead, InLoop
  <1>6. Last(status) = TRUE <=> Somebody
    BY <1>1 DEF ScreenInv
  <1> QED BY <1>2, <1>4, <1>5, <1>6 DEF ScreenInv

\* No call moves on, no handle comes to be, and a running loop runs on.
Unmoved ==
  \A d \in Call : /\ sess'[d].pc = sess[d].pc /\ sess'[d].kind = sess[d].kind
                  /\ InLoop(d)' <=> InLoop(d)
                  /\ sess'[d].open => sess[d].open

LEMMA UnmovedSess == UNCHANGED sess => Unmoved
  BY DEF Unmoved, InLoop

LEMMA UnmovedScreen ==
  ASSUME Unmoved, slot' = slot, OpenInSlot
  PROVE  /\ OpenInSlot'
         /\ \A d \in Call : Ahead(d)' <=> Ahead(d)
  BY DEF Unmoved, OpenInSlot, Ahead

LEMMA UnmovedUneventful == Unmoved /\ UNCHANGED <<status, ui>> => Uneventful
  BY DEF Unmoved, Uneventful, Ahead

LEMMA OneUnmoved ==
  ASSUME CallsOk, NEW c \in Call, NEW s, sess' = [sess EXCEPT ![c] = s],
         s.pc = sess[c].pc, s.kind = sess[c].kind, s.open = sess[c].open,
         s.loop = sess[c].loop \/ {s.loop, sess[c].loop} = {"run", "dial"}
  PROVE  Unmoved
  <1>1. /\ sess'[c] = s
        /\ \A d \in Call : d # c => sess'[d] = sess[d]
    BY DEF CallsOk
  <1> QED BY <1>1 DEF Unmoved, InLoop

LEMMA LoopMoves ==
  ASSUME CallsOk, NEW c \in Call,
         \/ Redial(c) \/ Redialled(c) \/ Command(c) \/ Closes(c) \/ IdleOut(c)
         \/ DirectState(c) \/ (Receive(c) /\ Head(sess[c].inbox) # "refused")
  PROVE  Unmoved
  <1>1. sess \in [Call -> SessType] /\ sess[c] \in SessType
    BY DEF CallsOk
  <1>2. CASE Redial(c)
    <2> DEFINE s == [sess[c] EXCEPT !.loop = "dial"]
    <2>1. sess' = [sess EXCEPT ![c] = s] /\ sess[c].loop = "run"
      BY <1>1, <1>2 DEF Redial, Running
    <2>2. s.pc = sess[c].pc /\ s.kind = sess[c].kind /\ s.open = sess[c].open /\ s.loop = "dial"
      BY <1>1 DEF SessType
    <2> HIDE DEF s
    <2> QED BY <2>1, <2>2, OneUnmoved
  <1>3. CASE Redialled(c)
    <2>1. ASSUME NEW reply \in Replies,
                 sess' = [sess EXCEPT ![c].loop = "run", ![c].link = "live",
                            ![c].inbox = reply, ![c].armed = FALSE, ![c].backoff = 2]
          PROVE  Unmoved
      <3> DEFINE s == [sess[c] EXCEPT !.loop = "run", !.link = "live",
                         !.inbox = reply, !.armed = FALSE, !.backoff = 2]
      <3>1. sess' = [sess EXCEPT ![c] = s]
        BY <1>1, <2>1
      <3>2. s.pc = sess[c].pc /\ s.kind = sess[c].kind /\ s.open = sess[c].open /\ s.loop = "run"
        BY <1>1 DEF SessType
      <3> HIDE DEF s
      <3> QED BY <1>3, <3>1, <3>2, OneUnmoved DEF Redialled
    <2>2. ASSUME sess' = [sess EXCEPT ![c].loop = "run",
                            ![c].backoff = Doubled(@), ![c].armed = TRUE]
          PROVE  Unmoved
      <3> DEFINE b == Doubled(sess[c].backoff)
                 t == [sess[c] EXCEPT !.loop = "run", !.backoff = b, !.armed = TRUE]
      <3>1. sess' = [sess EXCEPT ![c] = t]
        BY <1>1, <2>2
      <3> HIDE DEF b
      <3>2. t.pc = sess[c].pc /\ t.kind = sess[c].kind /\ t.open = sess[c].open /\ t.loop = "run"
        BY <1>1 DEF SessType
      <3> HIDE DEF t
      <3> QED BY <1>3, <3>1, <3>2, OneUnmoved DEF Redialled
    <2> QED BY <1>3, <2>1, <2>2 DEF Redialled
  <1>4. CASE Command(c)
    <2> DEFINE q == Tail(sess[c].cmds)
               cmd == Head(sess[c].cmds)
               tx == IF cmd = "toggle" THEN ~sess[c].tx ELSE cmd = "on"
               s == [sess[c] EXCEPT !.cmds = q]
               t == [sess[c] EXCEPT !.cmds = q, !.backoff = 2, !.armed = TRUE]
               u == [sess[c] EXCEPT !.cmds = q, !.tx = tx]
    <2>1. \/ sess' = [sess EXCEPT ![c] = s]
          \/ sess' = [sess EXCEPT ![c] = t]
          \/ sess' = [sess EXCEPT ![c] = u]
      BY <1>1, <1>4 DEF Command
    <2> HIDE DEF q, tx
    <2>2. s.pc = sess[c].pc /\ s.kind = sess[c].kind /\ s.open = sess[c].open /\ s.loop = sess[c].loop
      BY <1>1 DEF SessType
    <2>3. t.pc = sess[c].pc /\ t.kind = sess[c].kind /\ t.open = sess[c].open /\ t.loop = sess[c].loop
      BY <1>1 DEF SessType
    <2>4. u.pc = sess[c].pc /\ u.kind = sess[c].kind /\ u.open = sess[c].open /\ u.loop = sess[c].loop
      BY <1>1 DEF SessType
    <2> HIDE DEF s, t, u
    <2> QED BY <2>1, <2>2, <2>3, <2>4, OneUnmoved
  <1>5. CASE Closes(c)
    <2> DEFINE s == [sess[c] EXCEPT !.link = "gone", !.inbox = <<"eof">>]
               t == [sess[c] EXCEPT !.link = "silent"]
    <2>1. \/ sess' = [sess EXCEPT ![c] = s]
          \/ sess' = [sess EXCEPT ![c] = t]
      BY <1>1, <1>5 DEF Closes
    <2>2. s.pc = sess[c].pc /\ s.kind = sess[c].kind /\ s.open = sess[c].open /\ s.loop = sess[c].loop
      BY <1>1 DEF SessType
    <2>3. t.pc = sess[c].pc /\ t.kind = sess[c].kind /\ t.open = sess[c].open /\ t.loop = sess[c].loop
      BY <1>1 DEF SessType
    <2> HIDE DEF s, t
    <2> QED BY <2>1, <2>2, <2>3, OneUnmoved
  <1>6. CASE IdleOut(c)
    BY <1>1, <1>6 DEF IdleOut, Unmoved, InLoop, SessType
  <1>7. CASE DirectState(c)
    <2> DEFINE s(v) == [sess[c] EXCEPT !.link = v]
    <2>1. \E v \in {"live", "none"} : sess' = [sess EXCEPT ![c] = s(v)]
      BY <1>1, <1>7 DEF DirectState
    <2>2. ASSUME NEW v
          PROVE  /\ s(v).pc = sess[c].pc /\ s(v).kind = sess[c].kind
                 /\ s(v).open = sess[c].open /\ s(v).loop = sess[c].loop
      BY <1>1 DEF SessType
    <2> HIDE DEF s
    <2> QED BY <2>1, <2>2, OneUnmoved
  <1>8. CASE Receive(c) /\ Head(sess[c].inbox) # "refused"
    <2> DEFINE q == Tail(sess[c].inbox)
               s == [sess[c] EXCEPT !.inbox = q]
               u == [sess[c] EXCEPT !.inbox = q, !.link = "none", !.backoff = 2,
                                    !.armed = TRUE]
    <2>1. \/ sess' = [sess EXCEPT ![c] = s]
          \/ sess' = [sess EXCEPT ![c] = u]
      BY <1>1, <1>8 DEF Receive, DroppedSignaling
    <2> HIDE DEF q
    <2>2. s.pc = sess[c].pc /\ s.kind = sess[c].kind /\ s.open = sess[c].open /\ s.loop = sess[c].loop
      BY <1>1 DEF SessType
    <2>3. u.pc = sess[c].pc /\ u.kind = sess[c].kind /\ u.open = sess[c].open /\ u.loop = sess[c].loop
      BY <1>1 DEF SessType
    <2> HIDE DEF s, u
    <2> QED BY <2>1, <2>2, <2>3, OneUnmoved
  <1> QED BY <1>2, <1>3, <1>4, <1>5, <1>6, <1>7, <1>8

LEMMA TalkMoves == ASSUME CallsOk, NEW cmd \in Cmds, Talk(cmd) PROVE Unmoved
  <1>1. sess \in [Call -> SessType]
    BY DEF CallsOk
  <1>2. CASE UNCHANGED sess
    BY <1>2, UnmovedSess
  <1>3. CASE direct # 0 /\ cmd # "reconnect" /\ sess' # sess
    <2>1. direct \in Call /\ sess[direct] \in SessType
      BY <1>3 DEF CallsOk, Filled
    <2> DEFINE tx == IF cmd = "toggle" THEN ~sess[direct].tx ELSE cmd = "on"
               s == [sess[direct] EXCEPT !.tx = tx]
    <2>2. sess' = [sess EXCEPT ![direct] = s]
      BY <1>1, <1>3, <2>1 DEF Talk
    <2> HIDE DEF tx
    <2>3. /\ s.pc = sess[direct].pc /\ s.kind = sess[direct].kind
          /\ s.open = sess[direct].open /\ s.loop = sess[direct].loop
      BY <2>1 DEF SessType
    <2> HIDE DEF s
    <2> QED BY <2>1, <2>2, <2>3, OneUnmoved
  <1>4. CASE slot # 0 /\ sess' = [sess EXCEPT ![slot].cmds = Append(@, cmd)]
    <2>1. slot \in Call /\ sess[slot] \in SessType
      BY <1>4 DEF CallsOk, Filled
    <2> QED BY <1>1, <1>4, <2>1 DEF Unmoved, InLoop, SessType
  <1>5. UNCHANGED sess \/ (direct # 0 /\ cmd # "reconnect" /\ sess' # sess)
        \/ (slot # 0 /\ sess' = [sess EXCEPT ![slot].cmds = Append(@, cmd)])
    BY DEF Talk
  <1> QED BY <1>2, <1>3, <1>4, <1>5

\* The end of a loop.
LEMMA EndMoves ==
  ASSUME CallsOk, NEW c \in Call, sess[c].loop = "run",
         sess' = [sess EXCEPT ![c] = Ended(sess[c])]
  PROVE  /\ InLoop(c) /\ ~InLoop(c)' /\ ~Ahead(c)'
         /\ \A d \in Call : d # c => sess'[d] = sess[d]
  <1>1. sess \in [Call -> SessType] /\ sess[c] \in SessType /\ SessOk(sess[c])
    BY DEF CallsOk
  <1>2. sess'[c].loop = "over" /\ sess'[c].pc = sess[c].pc /\ sess'[c].kind = sess[c].kind
    BY <1>1 DEF Ended, SessType
  <1>3. ~Ahead(c)'
    BY <1>1, <1>2 DEF Ahead, SessOk
  <1> QED BY <1>1, <1>2, <1>3 DEF InLoop

\* The calls that move on.
ScreenOk == (~mixed => ScreenInv) /\ OpenInSlot

LEMMA EndScreen ==
  ASSUME CallsOk, ScreenType, ScreenOk, NEW c \in Call, sess[c].loop = "run",
         sess' = [sess EXCEPT ![c] = Ended(sess[c])],
         Tell(FALSE), UNCHANGED <<slot, ui, mixed>>
  PROVE  ScreenOk'
  <1>1. /\ InLoop(c) /\ ~InLoop(c)' /\ ~Ahead(c)'
        /\ \A d \in Call : d # c => sess'[d] = sess[d]
    BY EndMoves
  <1>2. OpenInSlot'
    BY <1>1 DEF OpenInSlot, InLoop, ScreenOk
  <1>3. ~mixed => ScreenInv'
    BY <1>1, EndsAndTells DEF ScreenOk, Ahead, InLoop
  <1> QED BY <1>2, <1>3 DEF ScreenOk

LEMMA ReceiveScreen ==
  ASSUME CallsOk, ScreenType, ScreenOk, NEW c \in Call, Receive(c)
  PROVE  ScreenOk'
  <1>1. CASE Head(sess[c].inbox) # "refused"
    <2>1. Unmoved
      BY <1>1, LoopMoves
    <2>2. UNCHANGED <<slot, ui, mixed, status>>
      BY <1>1 DEF Receive
    <2> QED BY <2>1, <2>2, UnmovedScreen, UnmovedUneventful, UneventfulKeeps DEF ScreenOk
  <1>2. CASE Head(sess[c].inbox) = "refused"
    <2>1. /\ sess' = Over([sess EXCEPT ![c].inbox = Tail(@)], c)
          /\ Tell(FALSE) /\ UNCHANGED <<slot, ui, mixed>> /\ sess[c].loop = "run"
      BY <1>2 DEF Receive, Running
    <2>2. sess' = [sess EXCEPT ![c] = Ended(sess[c])]
      BY <2>1 DEF Over, Ended, CallsOk
    <2> QED BY <2>1, <2>2, EndScreen
  <1> QED BY <1>1, <1>2

LEMMA LeaveScreen ==
  ASSUME CallsOk, ScreenType, ScreenOk, NEW c \in Call, Leave(c)
  PROVE  ScreenOk'
  <1>1. Tell(FALSE) /\ UNCHANGED <<slot, ui, mixed>> /\ sess[c].loop = "run"
    BY DEF Leave, Running
  <1>2. sess' = [sess EXCEPT ![c] = Ended(sess[c])]
    BY DEF Leave, Over, Ended, CallsOk
  <1> QED BY <1>1, <1>2, EndScreen

LEMMA CommandScreen ==
  ASSUME CallsOk, ScreenType, ScreenOk, NEW c \in Call, Command(c)
  PROVE  ScreenOk'
  <1>1. Unmoved /\ UNCHANGED <<slot, ui, mixed>> /\ InLoop(c)
    BY LoopMoves DEF Command, Running, InLoop
  <1>2. OpenInSlot' /\ \A d \in Call : Ahead(d)' <=> Ahead(d)
    BY <1>1, UnmovedScreen DEF ScreenOk
  <1>3. CASE status' = status
    BY <1>1, <1>2, <1>3, UnmovedUneventful, UneventfulKeeps DEF ScreenOk
  <1>4. CASE Tell(TRUE)
    <2>1. ~Ahead(c)
      BY <1>1 DEF CallsOk, SessOk, Ahead, InLoop
    <2>2. \A d \in Call : InLoop(d)' <=> InLoop(d)
      BY <1>1 DEF Unmoved
    <2>3. ~mixed => ScreenInv'
      BY <1>1, <1>2, <1>4, <2>1, <2>2, RunsAndTells DEF ScreenOk
    <2> QED BY <1>1, <1>2, <2>3 DEF ScreenOk
  <1> QED BY <1>3, <1>4 DEF Command

LEMMA DialScreen ==
  ASSUME CallsOk, ScreenType, ScreenOk, NEW c \in Call, Dial(c)
  PROVE  ScreenOk'
  <1>1. /\ sess \in [Call -> SessType] /\ sess[c] \in SessType /\ SessOk(sess[c])
        /\ sess[c].pc = "dial" /\ sess[c].kind = "mesh" /\ UNCHANGED <<slot, mixed>>
    BY DEF CallsOk, Dial
  <1>2. Ahead(c) /\ ~InLoop(c)
    BY <1>1 DEF Ahead, InLoop, SessOk
  <1>3. CASE GuardedReturn(c) /\ Rejected("mesh") /\ status' = status
    <2>1. /\ sess'[c].pc = "done" /\ sess'[c].loop = sess[c].loop
          /\ \A d \in Call : d # c => sess'[d] = sess[d]
      BY <1>1, <1>3 DEF GuardedReturn, SessType
    <2>2. /\ ~Ahead(c)' /\ ~InLoop(c)'
          /\ \A d \in Call : (Ahead(d)' => Ahead(d)) /\ (InLoop(d)' <=> InLoop(d))
      BY <1>2, <2>1 DEF Ahead, InLoop
    <2>3. OpenInSlot'
      BY <1>1, <2>1, <2>2 DEF ScreenOk, OpenInSlot, InLoop
    <2>4. ui' = [ui EXCEPT !.connecting = FALSE]
      BY <1>3 DEF Rejected
    <2>5. ~mixed => ScreenInv'
      BY <1>2, <1>3, <2>2, <2>4, FailsAhead DEF ScreenOk
    <2> QED BY <1>1, <2>3, <2>5 DEF ScreenOk
  <1>4. ASSUME NEW reply \in Replies, Tell(TRUE), UNCHANGED ui,
               sess' = [sess EXCEPT
                    ![c].pc = "store", ![c].open = TRUE, ![c].loop = "run",
                    ![c].link = "live", ![c].inbox = reply]
        PROVE  ScreenOk'
    <2>1. /\ sess'[c].pc = "store" /\ sess'[c].loop = "run"
          /\ \A d \in Call : d # c => sess'[d] = sess[d]
      BY <1>1, <1>4 DEF SessType
    <2>2. /\ ~Ahead(c)' /\ InLoop(c)'
          /\ \A d \in Call : d # c => (Ahead(d)' => Ahead(d)) /\ (InLoop(d)' => InLoop(d))
      BY <1>2, <2>1 DEF Ahead, InLoop
    <2>3. OpenInSlot'
      BY <1>1, <2>1 DEF ScreenOk, OpenInSlot, InLoop
    <2>5. ~mixed => ScreenInv'
      BY <1>2, <1>4, <2>2, RunsAndTells DEF ScreenOk
    <2> QED BY <1>1, <2>3, <2>5 DEF ScreenOk
  <1> QED BY <1>3, <1>4 DEF Dial

\* A call that goes on or fails, before it has a loop or after.
LEMMA StepsScreen ==
  ASSUME CallsOk, ScreenOk, NEW c \in Call, ~InLoop(c)', ~InLoop(c),
         slot' = slot, UNCHANGED <<ui, status, mixed>>, Ahead(c)' => Ahead(c),
         \A d \in Call : d # c => /\ sess'[d].pc = sess[d].pc
                                  /\ sess'[d].kind = sess[d].kind
                                  /\ sess'[d].loop = sess[d].loop
                                  /\ sess'[d].open => sess[d].open
  PROVE  ScreenOk'
  <1>1. \A d \in Call : (Ahead(d)' => Ahead(d)) /\ (InLoop(d)' <=> InLoop(d))
    BY DEF Ahead, InLoop
  <1>2. OpenInSlot'
    BY <1>1 DEF ScreenOk, OpenInSlot
  <1> QED BY <1>1, <1>2, UneventfulKeeps DEF ScreenOk, Uneventful

LEMMA FailsScreen ==
  ASSUME CallsOk, ScreenType, ScreenOk, NEW c \in Call, Ahead(c),
         sess' = [sess EXCEPT ![c].pc = "done"], UNCHANGED <<slot, status, mixed>>,
         Rejected("mesh")
  PROVE  ScreenOk'
  <1>1. /\ sess[c] \in SessType /\ sess \in [Call -> SessType] /\ SessOk(sess[c])
    BY DEF CallsOk
  <1>2. /\ sess'[c].pc = "done" /\ sess'[c].loop = sess[c].loop
        /\ \A d \in Call : d # c => sess'[d] = sess[d]
    BY <1>1 DEF SessType
  <1>3. ~InLoop(c)
    BY <1>1 DEF InLoop, Ahead, SessOk
  <1>4. /\ ~Ahead(c)' /\ ~InLoop(c)'
        /\ \A d \in Call : (Ahead(d)' => Ahead(d)) /\ (InLoop(d)' <=> InLoop(d))
    BY <1>2, <1>3 DEF Ahead, InLoop
  <1>5. OpenInSlot'
    BY <1>2, <1>4 DEF ScreenOk, OpenInSlot, InLoop
  <1>6. ui' = [ui EXCEPT !.connecting = FALSE]
    BY DEF Rejected
  <1>7. ~mixed => ScreenInv'
    BY <1>4, <1>6, FailsAhead DEF ScreenOk
  <1> QED BY <1>5, <1>7 DEF ScreenOk

LEMMA CheckScreen ==
  ASSUME CallsOk, ScreenType, ScreenOk, NEW c \in Call, Check(c)
  PROVE  ScreenOk'
  <1>1. /\ sess[c] \in SessType /\ sess \in [Call -> SessType] /\ SessOk(sess[c])
        /\ sess[c].pc = "check" /\ UNCHANGED <<slot, status, mixed>>
        /\ direct \in Call \cup {0} /\ (direct # 0 => sess[direct].pc = "done")
    BY DEF CallsOk, Check, Filled
  <1>2. Ahead(c) /\ ~InLoop(c)
    BY <1>1 DEF Ahead, InLoop, SessOk
  <1>3. CASE slot # 0
    BY <1>1, <1>2, <1>3, FailsScreen DEF Check
  <1>4. CASE slot = 0
    <2> DEFINE g == Dropped(sess, direct)
               s == [g[c] EXCEPT !.pc = "audio"]
    <2>1. /\ g \in [Call -> SessType]
          /\ \A d \in Call : /\ g[d].pc = sess[d].pc /\ g[d].kind = sess[d].kind
                             /\ g[d].loop = sess[d].loop
                             /\ g[d].open => sess[d].open
      BY <1>1, DropFacts DEF CallsOk
    <2>2. sess' = [g EXCEPT ![c] = s] /\ UNCHANGED ui
      BY <1>4, <2>1 DEF Check
    <2>3. s.loop = g[c].loop
      BY <2>1 DEF SessType
    <2> HIDE DEF g, s
    <2>4. /\ sess'[c] = s
          /\ \A d \in Call : d # c => sess'[d] = g[d]
      BY <2>1, <2>2
    <2>5. ~InLoop(c)'
      BY <1>2, <2>1, <2>3, <2>4 DEF InLoop
    <2> QED BY <1>1, <1>2, <2>1, <2>2, <2>4, <2>5, StepsScreen
  <1> QED BY <1>3, <1>4

LEMMA OpenAudioScreen ==
  ASSUME CallsOk, ScreenType, ScreenOk, NEW c \in Call, OpenAudio(c)
  PROVE  ScreenOk'
  <1>1. /\ sess[c] \in SessType /\ sess \in [Call -> SessType] /\ SessOk(sess[c])
        /\ sess[c].pc = "audio" /\ UNCHANGED <<slot, status, mixed>>
    BY DEF CallsOk, OpenAudio
  <1>2. ~InLoop(c)
    BY <1>1 DEF InLoop, SessOk
  <1>3. CASE sess' = [sess EXCEPT ![c].pc = "dial", ![c].rig = "on"] /\ UNCHANGED ui
    <2>1. /\ sess'[c].kind = sess[c].kind /\ sess'[c].loop = sess[c].loop
          /\ \A d \in Call : d # c => sess'[d] = sess[d]
      BY <1>1, <1>3 DEF SessType
    <2>2. ~InLoop(c)' /\ (Ahead(c)' => Ahead(c))
      BY <1>1, <1>2, <2>1 DEF InLoop, Ahead
    <2> QED BY <1>1, <1>2, <1>3, <2>1, <2>2, StepsScreen
  <1>4. CASE sess' = [sess EXCEPT ![c].pc = "done"] /\ Rejected(sess[c].kind)
    <2>1. CASE sess[c].kind = "mesh"
      BY <1>1, <1>4, <2>1, FailsScreen DEF Ahead
    <2>2. CASE sess[c].kind # "mesh"
      <3>1. /\ sess'[c].pc = "done" /\ sess'[c].loop = sess[c].loop
            /\ \A d \in Call : d # c => sess'[d] = sess[d]
        BY <1>1, <1>4 DEF SessType
      <3>2. ~InLoop(c)' /\ ~Ahead(c)' /\ UNCHANGED ui
        BY <1>2, <1>4, <2>2, <3>1 DEF InLoop, Ahead, Rejected
      <3> QED BY <1>1, <1>2, <3>1, <3>2, StepsScreen
    <2> QED BY <2>1, <2>2
  <1> QED BY <1>3, <1>4 DEF OpenAudio

LEMMA DirectScreen ==
  ASSUME CallsOk, ScreenType, ScreenOk, NEW c \in Call, DirectAsk(c) \/ DirectDial(c)
  PROVE  ScreenOk'
  <1>1. /\ sess[c] \in SessType /\ sess \in [Call -> SessType] /\ SessOk(sess[c])
        /\ sess[c].pc \in {"idle", "dial"} /\ UNCHANGED <<slot, ui, status, mixed>>
    BY DEF CallsOk, DirectAsk, DirectDial, Fresh
  <1>2. ~InLoop(c)
    BY <1>1 DEF InLoop, SessOk
  <1>3. /\ sess'[c].loop = sess[c].loop /\ sess'[c].kind = "direct"
        /\ \A d \in Call : d # c => sess'[d] = sess[d]
    <2>1. CASE DirectAsk(c)
      BY <1>1, <2>1 DEF DirectAsk, SessType
    <2>2. CASE DirectDial(c)
      BY <1>1, <2>2 DEF DirectDial, GuardedReturn, SessType
    <2> QED BY <2>1, <2>2
  <1>4. ~InLoop(c)' /\ ~Ahead(c)'
    BY <1>2, <1>3 DEF InLoop, Ahead
  <1> QED BY <1>1, <1>2, <1>3, <1>4, StepsScreen

\* A dropped engine was the one in the slot.
LEMMA StoreScreen ==
  ASSUME CallsOk, ScreenType, ScreenOk, NEW c \in Call, Store(c)
  PROVE  ScreenOk'
  <1> DEFINE s == [sess[c] EXCEPT !.pc = "done"]
             old == IF sess[c].kind = "mesh" THEN slot ELSE direct
             f == [sess EXCEPT ![c] = s]
             g == Dropped(f, old)
  <1>1. /\ sess[c] \in SessType /\ SessOk(sess[c]) /\ sess[c].pc = "store"
        /\ old \in Call \cup {0} /\ (old # 0 => sess[old].pc = "done" /\ old # c)
        /\ sess \in [Call -> SessType] /\ UNCHANGED <<ui, status, mixed>>
    BY DEF CallsOk, Store, SessOk, Filled
  <1>2. /\ s \in SessType /\ SessOk(s) /\ s.pc = "done" /\ s.loop = sess[c].loop
        /\ s.kind = sess[c].kind /\ s.open = sess[c].open
    BY <1>1 DEF SessOk, SessType
  <1>3. /\ f = [sess EXCEPT ![c].pc = "done"]
        /\ f \in [Call -> SessType]
        /\ \A d \in Call : /\ SessOk(f[d]) /\ (d # c => f[d] = sess[d])
                           /\ f[d].loop = sess[d].loop /\ f[d].kind = sess[d].kind
                           /\ f[d].open = sess[d].open
        /\ f[c].pc = "done"
    BY <1>1, <1>2 DEF CallsOk
  <1>4. /\ sess' = g
        /\ \/ slot' = c /\ sess[c].kind = "mesh" /\ old = slot
           \/ slot' = slot /\ sess[c].kind # "mesh"
    BY <1>3 DEF Store
  <1> HIDE DEF s, old, f
  <1>5. old # 0 => f[old].pc = "done"
    BY <1>1, <1>3
  <1>6. \A d \in Call : /\ g[d].pc = f[d].pc /\ g[d].kind = f[d].kind
                        /\ g[d].loop = f[d].loop
                        /\ d # old => g[d] = f[d]
                        /\ d = old => ~g[d].open
    <2>1. \A d \in Call : SessOk(f[d])
      BY <1>3
    <2>2. f \in [Call -> SessType] /\ old \in Call \cup {0}
      BY <1>1, <1>3
    <2> QED BY <1>5, <2>1, <2>2, DropFacts
  <1> HIDE DEF g
  <1>7. \A d \in Call : (Ahead(d)' => Ahead(d)) /\ (InLoop(d)' <=> InLoop(d))
    BY <1>1, <1>3, <1>4, <1>6 DEF Ahead, InLoop
  <1>8. OpenInSlot'
    <2> SUFFICES ASSUME NEW d \in Call, InLoop(d)', sess'[d].open, sess'[d].pc = "done"
                 PROVE  d = slot'
      BY DEF OpenInSlot
    <2>1. CASE d = c
      <3>1. sess[c].kind = "mesh"
        BY <1>1, <1>7, <2>1 DEF SessOk, InLoop, SessType
      <3> QED BY <1>4, <2>1, <3>1
    <2>2. CASE d # c
      <3>1. d # old /\ sess'[d] = sess[d]
        BY <1>3, <1>4, <1>6, <2>2
      <3>2. d = slot
        BY <1>7, <3>1 DEF ScreenOk, OpenInSlot
      <3> QED BY <1>4, <3>1, <3>2
    <2> QED BY <2>1, <2>2
  <1> QED BY <1>1, <1>7, <1>8, UneventfulKeeps DEF ScreenOk, Uneventful

LEMMA DisconnectScreen ==
  ASSUME CallsOk, ScreenType, ScreenOk, Disconnect
  PROVE  ScreenOk'
  <1> DEFINE f == Dropped(sess, slot)
             g == Dropped(f, direct)
  <1>1. /\ sess \in [Call -> SessType] /\ \A c \in Call : SessOk(sess[c])
        /\ slot \in Call \cup {0} /\ (slot # 0 => sess[slot].pc = "done")
        /\ direct \in Call \cup {0} /\ (direct # 0 => sess[direct].pc = "done")
        /\ UNCHANGED <<ui, status, mixed>>
    BY DEF CallsOk, Filled, Disconnect
  <1>2. /\ f \in [Call -> SessType]
        /\ \A c \in Call : /\ SessOk(f[c]) /\ f[c].pc = sess[c].pc
                           /\ f[c].loop = sess[c].loop /\ f[c].kind = sess[c].kind
                           /\ c # slot => f[c] = sess[c]
                           /\ c = slot => ~f[c].open
    BY <1>1, DropFacts
  <1>3. direct # 0 => f[direct].pc = "done"
    BY <1>1, <1>2
  <1>4. sess' = g
    BY DEF Disconnect
  <1> HIDE DEF f
  <1>5. \A c \in Call : /\ g[c].pc = f[c].pc
                        /\ g[c].loop = f[c].loop /\ g[c].kind = f[c].kind
                        /\ g[c].open => f[c].open
    BY <1>1, <1>2, <1>3, DropFacts
  <1> HIDE DEF g
  <1>6. \A d \in Call : (Ahead(d)' => Ahead(d)) /\ (InLoop(d)' <=> InLoop(d))
    BY <1>2, <1>4, <1>5 DEF Ahead, InLoop
  <1>7. \A d \in Call : ~(InLoop(d)' /\ sess'[d].open /\ sess'[d].pc = "done")
    <2> SUFFICES ASSUME NEW d \in Call, InLoop(d)', sess'[d].open, sess'[d].pc = "done"
                 PROVE  FALSE
      OBVIOUS
    <2>1. f[d].open /\ f[d].pc = "done" /\ d # slot /\ f[d] = sess[d] /\ InLoop(d)
      BY <1>2, <1>4, <1>5, <1>6
    <2> QED BY <2>1 DEF ScreenOk, OpenInSlot
  <1> QED BY <1>1, <1>6, <1>7, UneventfulKeeps DEF ScreenOk, Uneventful, OpenInSlot

LEMMA ScreenOkKept ==
  ASSUME CallsOk, ScreenType, ScreenOk, RendersFirst, [ClNext]_clVars
  PROVE  ScreenOk'
  <1>1. ASSUME Unmoved, UNCHANGED <<slot, status, ui, mixed>>
        PROVE  ScreenOk'
    BY <1>1, UnmovedScreen, UnmovedUneventful, UneventfulKeeps DEF ScreenOk
  <1>2. ASSUME Unmoved, slot' = slot, mixed' = TRUE
        PROVE  ScreenOk'
    BY <1>2, UnmovedScreen DEF ScreenOk
  <1>3. ASSUME NEW c \in Call, Ask(c) PROVE ScreenOk'
    <2>1. /\ sess[c] \in SessType /\ sess \in [Call -> SessType] /\ UNCHANGED <<slot, mixed>>
          /\ sess' = [sess EXCEPT ![c].pc = "check"]
      BY <1>3 DEF CallsOk, Ask
    <2>2. /\ sess'[c].pc = "check"
          /\ \A d \in Call : d # c => sess'[d] = sess[d]
      BY <2>1 DEF SessType
    <2>3. OpenInSlot'
      BY <2>1, <2>2 DEF ScreenOk, OpenInSlot, InLoop
    <2> QED BY <1>3, <2>1, <2>3, AskScreen DEF ScreenOk
  <1>4. ASSUME NEW c \in Call,
               \/ Redial(c) \/ Redialled(c) \/ Closes(c) \/ IdleOut(c)
        PROVE  ScreenOk'
    <2>1. UNCHANGED <<slot, status, ui, mixed>>
      BY <1>4 DEF Redial, Redialled, Closes, IdleOut
    <2> QED BY <1>1, <1>4, <2>1, LoopMoves
  <1>5. ASSUME NEW c \in Call, DirectState(c) PROVE ScreenOk'
    <2>1. slot' = slot /\ mixed' = TRUE
      BY <1>5 DEF DirectState
    <2>2. Unmoved
      BY <1>5, LoopMoves
    <2> QED BY <1>2, <2>1, <2>2
  <1>6. CASE Render
    <2>1. /\ UNCHANGED <<slot, status, mixed, sess>>
          /\ ui'.connected = ui.connected /\ ui'.connecting = ui.connecting
      BY <1>6 DEF Render, ScreenType
    <2>2. Uneventful /\ OpenInSlot'
      BY <2>1, UnmovedSess, UnmovedScreen DEF Uneventful, Ahead, InLoop, ScreenOk
    <2> QED BY <2>1, <2>2, UneventfulKeeps DEF ScreenOk
  <1>7. CASE OnStatus
    <2>1. UNCHANGED <<sess, slot, mixed>>
      BY <1>7 DEF OnStatus
    <2> QED BY <1>7, <2>1, UnmovedSess, UnmovedScreen, OnStatusScreen DEF ScreenOk
  <1>8. ASSUME NEW cmd \in Cmds, Talk(cmd) PROVE ScreenOk'
    <2>1. slot' = slot /\ ui' = ui /\ (mixed' = TRUE \/ UNCHANGED <<status, mixed>>)
      BY <1>8 DEF Talk
    <2> QED BY <1>1, <1>2, <1>8, <2>1, TalkMoves
  <1>9. CASE ProbeStart \/ ProbeStep \/ UNCHANGED clVars
    <2>1. UNCHANGED <<sess, slot, status, ui, mixed>>
      BY <1>9 DEF ProbeStart, ProbeStep, clVars
    <2> QED BY <1>1, <2>1, UnmovedSess
  <1>10. ASSUME NEW c \in Call,
                \/ Ask(c) \/ Check(c) \/ OpenAudio(c) \/ Dial(c) \/ Store(c)
                \/ Receive(c) \/ Redial(c) \/ Redialled(c) \/ Command(c) \/ Leave(c)
                \/ Closes(c) \/ IdleOut(c)
                \/ DirectAsk(c) \/ DirectDial(c) \/ DirectState(c)
         PROVE  ScreenOk'
    BY <1>3, <1>4, <1>5, <1>10, CheckScreen, OpenAudioScreen, DialScreen, StoreScreen,
       ReceiveScreen, CommandScreen, LeaveScreen, DirectScreen
  <1> QED BY <1>6, <1>7, <1>8, <1>9, <1>10, DisconnectScreen DEF ClNext

\* The screen follows the loop: when every call has returned and every event is
\* delivered, the webview shows a session exactly when the slot holds an engine
\* whose loop runs; provided it renders between two deep links, or a second one
\* passes the refs of the last rendering.
THEOREM ScreenFollows == ASSUME RendersFirst PROVE ClSpec => []ScreenIsTrue
  <1> DEFINE Inv == OpenInv /\ ScreenOk
  <1>1. ClInit => ScreenOk
    <2> SUFFICES ASSUME ClInit PROVE ScreenOk
      OBVIOUS
    <2>1. \A c \in Call : sess[c] = NewSess
      BY DEF ClInit
    <2>2. \A c \in Call : ~Ahead(c) /\ ~InLoop(c)
      BY <2>1 DEF Ahead, InLoop, NewSess
    <2>3. status = <<>> /\ ui.connected = FALSE
      BY DEF ClInit
    <2>4. UpToLast(status)
      BY <2>3 DEF UpToLast
    <2> QED BY <2>2, <2>3, <2>4 DEF ScreenOk, ScreenInv, OpenInSlot, AtMostOne, Somebody
  <1>2. Inv /\ [ClNext]_clVars => Inv'
    BY CallsKeep, ScreenKeeps, ProbeKeeps, ScreenOkKept DEF OpenInv
  <1>3. Inv => ScreenIsTrue
    <2> SUFFICES ASSUME OpenInv, ScreenOk, Settled, ~mixed
                 PROVE  ui.connected <=> slot # 0 /\ sess[slot].loop \in {"run", "dial"}
      BY DEF ScreenIsTrue
    <2>1. ui.connected <=> Somebody
      BY DEF ScreenOk, ScreenInv, Settled, OpenInv, ScreenType
    <2>2. ASSUME NEW c \in Call, InLoop(c) PROVE c = slot
      <3>1. sess[c].open /\ sess[c].pc # "idle" /\ sess[c].pc \in {"idle", "done"}
        BY <2>2 DEF Settled, InLoop, OpenInv, CallsOk, SessOk
      <3> QED BY <2>2, <3>1 DEF ScreenOk, OpenInSlot
    <2>3. slot \in Call \cup {0}
      BY DEF OpenInv, CallsOk, Filled
    <2> QED BY <2>1, <2>2, <2>3, CallFacts DEF Somebody, InLoop
  <1> QED BY <1>1, <1>2, <1>3, OpenInvInit, PTL DEF ClSpec

-----------------------------------------------------------------------------
(***************************************************************************)
(* The link between two members: a queue of reports, and what it is still  *)
(* going to say.                                                           *)
(***************************************************************************)
\* A PC with a transport, also while it is interrupted.
Carrying(n) == HasPC(n) /\ n.pc.st \in {"connected", "disconnected"}
\* A PC that is connected.
PcUp(n) == HasPC(n) /\ n.pc.st = "connected"

\* A queue of reports: one says that the link is down; that there is a session;
\* the link goes up and not down again.
Falls(s) == \E k \in DOMAIN s : s[k].t = "Down"
Locks(s) == \E k \in DOMAIN s : s[k].t = "Secure"
Rises(s) ==
  \E k \in DOMAIN s : s[k].t = "Up" /\ \A j \in DOMAIN s : j > k => s[j].t # "Down"
\* The link goes up, and there is no session after that; and it goes down again.
UpUnlocked(s) ==
  \E k \in DOMAIN s : s[k].t = "Up" /\ \A j \in DOMAIN s : j > k => s[j].t # "Secure"
DownUnlocked(s) ==
  \E k \in DOMAIN s : /\ s[k].t = "Up" /\ \A j \in DOMAIN s : j > k => s[j].t # "Secure"
                      /\ \E j \in DOMAIN s : j > k /\ s[j].t = "Down"
\* The last session in the queue is that of h.
LastLock(s, h) ==
  \E k \in DOMAIN s : s[k] = Secure(h) /\ \A j \in DOMAIN s : j > k => s[j].t # "Secure"

\* What a report that is queued changes.
LEMMA Appended ==
  ASSUME NEW s \in Seq(EventType), NEW e \in EventType
  PROVE  /\ Append(s, e) \in Seq(EventType)
         /\ Falls(Append(s, e)) <=> Falls(s) \/ e.t = "Down"
         /\ Locks(Append(s, e)) <=> Locks(s) \/ e.t = "Secure"
         /\ Rises(Append(s, e)) <=> e.t = "Up" \/ (Rises(s) /\ e.t # "Down")
         /\ UpUnlocked(Append(s, e)) <=> e.t = "Up" \/ (UpUnlocked(s) /\ e.t # "Secure")
         /\ DownUnlocked(Append(s, e)) <=>
              e.t # "Secure" /\ (DownUnlocked(s) \/ (UpUnlocked(s) /\ e.t = "Down"))
         /\ \A h : LastLock(Append(s, e), h) <=> e = Secure(h) \/ (LastLock(s, h) /\ e.t # "Secure")
<1> DEFINE a == Append(s, e)
<1>1. /\ a \in Seq(EventType) /\ Len(a) = Len(s) + 1 /\ Len(s) \in Nat
      /\ DOMAIN a = 1..Len(s) + 1 /\ DOMAIN s = 1..Len(s)
      /\ \A k \in 1..Len(s) : a[k] = s[k]
      /\ a[Len(s) + 1] = e
  BY AppendProperties, LenProperties
<1> HIDE DEF a
<1> SUFFICES /\ Falls(a) <=> Falls(s) \/ e.t = "Down"
             /\ Locks(a) <=> Locks(s) \/ e.t = "Secure"
             /\ Rises(a) <=> e.t = "Up" \/ (Rises(s) /\ e.t # "Down")
             /\ UpUnlocked(a) <=> e.t = "Up" \/ (UpUnlocked(s) /\ e.t # "Secure")
             /\ DownUnlocked(a) <=>
                  e.t # "Secure" /\ (DownUnlocked(s) \/ (UpUnlocked(s) /\ e.t = "Down"))
             /\ \A h : LastLock(a, h) <=> e = Secure(h) \/ (LastLock(s, h) /\ e.t # "Secure")
  BY <1>1 DEF a
<1> DEFINE l == Len(s) + 1
<1>2. \A k : (k \in DOMAIN a <=> k \in DOMAIN s \/ k = l) /\ (k \in DOMAIN s => l > k /\ ~(k > l))
  BY <1>1
<1>3. a[l] = e /\ \A k \in DOMAIN s : a[k] = s[k]
  BY <1>1
<1>4. ~(l > l)
  BY <1>1
<1> HIDE DEF l
<1>5. (Falls(a) <=> Falls(s) \/ e.t = "Down") /\ (Locks(a) <=> Locks(s) \/ e.t = "Secure")
  BY <1>2, <1>3 DEF Falls, Locks
<1>6. Rises(a) <=> e.t = "Up" \/ (Rises(s) /\ e.t # "Down")
  BY <1>2, <1>3, <1>4 DEF Rises
<1>7. UpUnlocked(a) <=> e.t = "Up" \/ (UpUnlocked(s) /\ e.t # "Secure")
  BY <1>2, <1>3, <1>4 DEF UpUnlocked
<1>8. DownUnlocked(a) <=>
        e.t # "Secure" /\ (DownUnlocked(s) \/ (UpUnlocked(s) /\ e.t = "Down"))
  BY <1>2, <1>3, <1>4 DEF UpUnlocked, DownUnlocked
<1>9. \A h : LastLock(a, h) <=> e = Secure(h) \/ (LastLock(s, h) /\ e.t # "Secure")
  BY <1>2, <1>3, <1>4 DEF LastLock, Secure
<1> QED BY <1>5, <1>6, <1>7, <1>8, <1>9

\* What a report that is taken from the queue changes.
LEMMA Taken ==
  ASSUME NEW s \in Seq(EventType), s # <<>>
  PROVE  /\ Head(s) \in EventType /\ Tail(s) \in Seq(EventType)
         /\ Falls(s) <=> Head(s).t = "Down" \/ Falls(Tail(s))
         /\ Locks(s) <=> Head(s).t = "Secure" \/ Locks(Tail(s))
         /\ Rises(s) <=> Rises(Tail(s)) \/ (Head(s).t = "Up" /\ ~Falls(Tail(s)))
         /\ UpUnlocked(s) <=> UpUnlocked(Tail(s)) \/ (Head(s).t = "Up" /\ ~Locks(Tail(s)))
         /\ DownUnlocked(s) <=>
              DownUnlocked(Tail(s)) \/ (Head(s).t = "Up" /\ ~Locks(Tail(s)) /\ Falls(Tail(s)))
         /\ \A h : LastLock(s, h) <=>
                     LastLock(Tail(s), h) \/ (Head(s) = Secure(h) /\ ~Locks(Tail(s)))
<1> DEFINE r == Tail(s)  e == Head(s)
<1>1. /\ e \in EventType /\ r \in Seq(EventType) /\ Len(s) \in Nat /\ Len(s) > 0
      /\ DOMAIN s = 1..Len(s) /\ DOMAIN r = 1..Len(s) - 1
      /\ \A k \in 1..Len(s) - 1 : r[k] = s[k + 1]
      /\ s[1] = e
  BY HeadTailProperties, LenProperties, EmptySeq
<1> SUFFICES /\ Falls(s) <=> e.t = "Down" \/ Falls(r)
             /\ Locks(s) <=> e.t = "Secure" \/ Locks(r)
             /\ Rises(s) <=> Rises(r) \/ (e.t = "Up" /\ ~Falls(r))
             /\ UpUnlocked(s) <=> UpUnlocked(r) \/ (e.t = "Up" /\ ~Locks(r))
             /\ DownUnlocked(s) <=> DownUnlocked(r) \/ (e.t = "Up" /\ ~Locks(r) /\ Falls(r))
             /\ \A h : LastLock(s, h) <=> LastLock(r, h) \/ (e = Secure(h) /\ ~Locks(r))
  BY <1>1
<1> HIDE DEF r, e
<1>2. \A k \in DOMAIN s : k = 1 \/ \E j \in DOMAIN r : k = j + 1
  <2> SUFFICES ASSUME NEW k \in DOMAIN s, k # 1
               PROVE  \E j \in DOMAIN r : k = j + 1
    OBVIOUS
  <2>1. k - 1 \in DOMAIN r /\ k = (k - 1) + 1
    BY <1>1
  <2> QED BY <2>1
<1>3. \A k \in DOMAIN r : k + 1 \in DOMAIN s /\ r[k] = s[k + 1] /\ k + 1 > 1 /\ ~(1 > k + 1)
  BY <1>1
<1>4. s[1] = e /\ 1 \in DOMAIN s /\ ~(1 > 1)
  BY <1>1
<1>5. \A j, k \in DOMAIN r : j + 1 > k + 1 <=> j > k
  BY <1>1
<1>6. (Falls(s) <=> e.t = "Down" \/ Falls(r)) /\ (Locks(s) <=> e.t = "Secure" \/ Locks(r))
  BY <1>2, <1>3, <1>4 DEF Falls, Locks
<1>7. Rises(s) <=> Rises(r) \/ (e.t = "Up" /\ ~Falls(r))
  BY <1>2, <1>3, <1>4, <1>5 DEF Rises, Falls
<1>8. UpUnlocked(s) <=> UpUnlocked(r) \/ (e.t = "Up" /\ ~Locks(r))
  BY <1>2, <1>3, <1>4, <1>5 DEF UpUnlocked, Locks
<1>9. DownUnlocked(s) <=> DownUnlocked(r) \/ (e.t = "Up" /\ ~Locks(r) /\ Falls(r))
  BY <1>2, <1>3, <1>4, <1>5 DEF DownUnlocked, Falls, Locks
<1>10. \A h : LastLock(s, h) <=> LastLock(r, h) \/ (e = Secure(h) /\ ~Locks(r))
  BY <1>2, <1>3, <1>4, <1>5 DEF LastLock, Locks, Secure
<1> QED BY <1>6, <1>7, <1>8, <1>9, <1>10

-----------------------------------------------------------------------------
(***************************************************************************)
(* A step of a process that serves a frame or rebuilds its link: either it *)
(* leaves the PC as it is (Stays), or that PC is closed, which is reported, *)
(* and there may be a new one (Renewed). It sets up no session.            *)
(***************************************************************************)
\* A process has its type and few early candidates.
NodeOK(n) ==
  /\ n \in NodeType
  /\ HasPC(n) => Cardinality(n.pc.pending_ice) <= MAX_PENDING_ICE

\* The row: the link goes up only by a report, the fingerprint stays or is gone.
MemMoves(a, b) ==
  /\ \/ b.linked = a.linked /\ b.fingerprint \in {a.fingerprint, NoId}
     \/ ~b.linked /\ b.fingerprint = NoId
  /\ ~b.here => ~b.linked /\ b.fingerprint = NoId

Stays(n, m) ==
  /\ m.pc.id = n.pc.id /\ m.ev = n.ev /\ m.sess = n.sess /\ m.pending = n.pending
  /\ HasPC(m) <=> HasPC(n)
  /\ HasPC(n) => /\ m.pc.st = n.pc.st /\ m.pc.open = n.pc.open
                 /\ n.pc.remote # NoId => m.pc.remote = n.pc.remote

Renewed(n, m, i) ==
  /\ m.ev = IF HasPC(n) THEN Append(n.ev, Down) ELSE n.ev
  /\ m.sess \in {n.sess, NoId} /\ m.pending \in {n.pending, NoId}
  /\ HasPC(m) => m.pc.id = i /\ m.pc.st = "new" /\ ~m.pc.open

Moves(n, m, i) ==
  /\ NodeOK(m)
  /\ MemMoves(n.mem, m.mem)
  /\ Stays(n, m) \/ Renewed(n, m, i)

\* The types of the fields of a node.
LEMMA HasFields ==
  ASSUME NEW n \in NodeType
  PROVE  /\ n.ev \in Seq(EventType) /\ n.sess \in Id \cup {NoId} /\ n.pending \in Id \cup {NoId}
         /\ HasPC(n) => n.pc \in PCType /\ n.pc.id \in Id
         /\ ~HasPC(n) => n.pc = NoPC /\ n.pc.id = NoId
         /\ NoId \notin Id
BY LinkConstants DEF NodeType, HasPC, NoPC, PCType, Id, NoId

\* What each of the operations on a node does to its fields.
LEMMA NewPCIs ==
  ASSUME NEW i \in Id
  PROVE  /\ NewPC(i) \in PCType /\ NewPC(i) # NoPC
         /\ NewPC(i).id = i /\ NewPC(i).st = "new" /\ ~NewPC(i).open
         /\ NewPC(i).remote = NoId
         /\ Cardinality(NewPC(i).pending_ice) <= MAX_PENDING_ICE
<1>1. Cardinality(NewPC(i).pending_ice) = 0
  BY FS_EmptySet DEF NewPC
<1>2. NewPC(i).id # NoId
  BY DEF NewPC, Id, NoId
<1>3. NewPC(i) # NoPC
  BY <1>2 DEF NoPC
<1>4. NewPC(i) \in PCType
  BY DEF NewPC, PCType, NoId
<1> QED BY <1>1, <1>3, <1>4, LinkConstants DEF NewPC

LEMMA CloseIs ==
  ASSUME NEW n \in NodeType
  PROVE  /\ NodeOK(Close(n)) /\ ~HasPC(Close(n)) /\ Close(n).mem = n.mem
         /\ Close(n).ev = Append(n.ev, Down)
         /\ Close(n).sess = n.sess /\ Close(n).pending = n.pending
<1>1. Down \in EventType
  BY DEF Down, EventType
<1>2. Append(n.ev, Down) \in Seq(EventType)
  BY <1>1, HasFields, Appended
<1>3. Close(n) \in NodeType
  BY <1>2 DEF Close, NodeType
<1>4. /\ Close(n).pc = NoPC /\ Close(n).mem = n.mem /\ Close(n).ev = Append(n.ev, Down)
      /\ Close(n).sess = n.sess /\ Close(n).pending = n.pending
  BY DEF Close, NodeType
<1> QED BY <1>3, <1>4 DEF NodeOK, HasPC

LEMMA CryptoRemoveIs ==
  ASSUME NEW n, NodeOK(n)
  PROVE  /\ NodeOK(CryptoRemove(n)) /\ CryptoRemove(n).pc = n.pc
         /\ CryptoRemove(n).mem = n.mem /\ CryptoRemove(n).ev = n.ev
         /\ CryptoRemove(n).sess = NoId /\ CryptoRemove(n).pending = NoId
<1>1. CryptoRemove(n) \in NodeType
  BY DEF CryptoRemove, NodeType, NodeOK
<1>2. /\ CryptoRemove(n).pc = n.pc
      /\ CryptoRemove(n).mem = n.mem /\ CryptoRemove(n).ev = n.ev
      /\ CryptoRemove(n).sess = NoId /\ CryptoRemove(n).pending = NoId
  BY DEF CryptoRemove, NodeType, NodeOK
<1> QED BY <1>1, <1>2 DEF NodeOK, HasPC

LEMMA DiscardIs ==
  ASSUME NEW n, NodeOK(n)
  PROVE  /\ NodeOK(Discard(n)) /\ ~HasPC(Discard(n)) /\ Discard(n).mem = n.mem
         /\ Discard(n).ev = IF HasPC(n) THEN Append(n.ev, Down) ELSE n.ev
         /\ Discard(n).sess \in {n.sess, NoId} /\ Discard(n).pending \in {n.pending, NoId}
<1>1. CASE HasPC(n)
  <2> DEFINE c == Close(n)
  <2>1. /\ NodeOK(c) /\ ~HasPC(c) /\ c.mem = n.mem /\ c.ev = Append(n.ev, Down)
    BY CloseIs DEF NodeOK
  <2>2. Discard(n) = CryptoRemove(c)
    BY <1>1 DEF Discard
  <2> HIDE DEF c
  <2> QED BY <1>1, <2>1, <2>2, CryptoRemoveIs DEF HasPC
<1>2. CASE ~HasPC(n)
  BY <1>2 DEF Discard
<1> QED BY <1>1, <1>2

LEMMA EnsureIs ==
  ASSUME NEW n, NodeOK(n), NEW i \in Id
  PROVE  /\ NodeOK(Ensure(n, i)) /\ HasPC(Ensure(n, i)) /\ Ensure(n, i).mem = n.mem
         /\ Ensure(n, i).ev = n.ev /\ Ensure(n, i).sess = n.sess
         /\ Ensure(n, i).pending = n.pending
         /\ HasPC(n) => Ensure(n, i) = n
         /\ ~HasPC(n) => Ensure(n, i).pc = NewPC(i)
<1>1. CASE HasPC(n)
  BY <1>1 DEF Ensure
<1>2. CASE ~HasPC(n)
  <2> DEFINE m == [n EXCEPT !.pc = NewPC(i)]
  <2>1. m \in NodeType /\ m.pc = NewPC(i) /\ m.mem = n.mem /\ m.ev = n.ev /\ m.sess = n.sess
        /\ m.pending = n.pending
    BY NewPCIs DEF NodeOK, NodeType
  <2>2. Ensure(n, i) = m
    BY <1>2 DEF Ensure
  <2> HIDE DEF m
  <2> QED BY <1>2, <2>1, <2>2, NewPCIs DEF NodeOK, HasPC
<1> QED BY <1>1, <1>2

LEMMA OfferIs ==
  ASSUME NEW n, NodeOK(n), HasPC(n)
  PROVE  /\ NodeOK(Offer(n)) /\ HasPC(Offer(n)) /\ Offer(n).mem = n.mem
         /\ Offer(n).ev = n.ev /\ Offer(n).sess = n.sess /\ Offer(n).pending = n.pending
         /\ Offer(n).pc.id = n.pc.id /\ Offer(n).pc.st = n.pc.st /\ Offer(n).pc.open = n.pc.open
         /\ Offer(n).pc.remote = n.pc.remote
<1> DEFINE c == [n.pc EXCEPT !.offering = TRUE]
<1>1. n \in NodeType /\ n.pc \in PCType /\ n.pc.id \in Id /\ NoId \notin Id
  BY HasFields DEF NodeOK
<1>2. /\ c \in PCType /\ c.id = n.pc.id /\ c.st = n.pc.st /\ c.open = n.pc.open
      /\ c.remote = n.pc.remote /\ c.pending_ice = n.pc.pending_ice
  BY <1>1 DEF PCType
<1>3. Offer(n) = [n EXCEPT !.pc = c]
  BY <1>1 DEF Offer, NodeType
<1> HIDE DEF c
<1>4. /\ Offer(n) \in NodeType /\ Offer(n).pc = c /\ Offer(n).mem = n.mem
      /\ Offer(n).ev = n.ev /\ Offer(n).sess = n.sess /\ Offer(n).pending = n.pending
  BY <1>1, <1>2, <1>3 DEF NodeType
<1>5. c # NoPC
  BY <1>1, <1>2 DEF NoPC
<1> QED BY <1>2, <1>4, <1>5 DEF NodeOK, HasPC

\* The operations that are composed of these.
LEMMA RelinkIs ==
  ASSUME NEW n, NodeOK(n), NEW i \in Id
  PROVE  /\ NodeOK(Relink(n, i)) /\ Relink(n, i).mem = n.mem
         /\ Renewed(n, Relink(n, i), i)
<1> DEFINE d == Discard(n)  e == Ensure(d, i)
<1>1. /\ NodeOK(d) /\ ~HasPC(d) /\ d.mem = n.mem
      /\ d.ev = IF HasPC(n) THEN Append(n.ev, Down) ELSE n.ev
      /\ d.sess \in {n.sess, NoId} /\ d.pending \in {n.pending, NoId}
  BY DiscardIs
<1> HIDE DEF d
<1>2. /\ NodeOK(e) /\ HasPC(e) /\ e.mem = d.mem /\ e.ev = d.ev /\ e.sess = d.sess
      /\ e.pending = d.pending /\ e.pc = NewPC(i)
  BY <1>1, EnsureIs
<1>3. Relink(n, i) = Offer(e)
  BY DEF Relink, d
<1> HIDE DEF e
<1> QED BY <1>1, <1>2, <1>3, OfferIs, NewPCIs DEF Renewed

LEMMA OnPeerIs ==
  ASSUME NEW n, NodeOK(n), NEW i \in Id, NEW p \in Peer
  PROVE  /\ NodeOK(OnPeer(p, n, i)) /\ OnPeer(p, n, i).mem = n.mem
         /\ Stays(n, OnPeer(p, n, i)) \/ Renewed(n, OnPeer(p, n, i), i)
<1>1. CASE Offers(p)
  <2>1. OnPeer(p, n, i) = Relink(n, i)
    BY <1>1 DEF OnPeer, Relink
  <2> QED BY <2>1, RelinkIs
<1>2. CASE ~Offers(p)
  <2> DEFINE m == Ensure(n, i)
  <2>1. /\ NodeOK(m) /\ HasPC(m) /\ m.mem = n.mem /\ m.ev = n.ev /\ m.sess = n.sess
        /\ m.pending = n.pending
        /\ HasPC(n) => m = n
        /\ ~HasPC(n) => m.pc = NewPC(i)
    BY EnsureIs
  <2>2. OnPeer(p, n, i) = m
    BY <1>2 DEF OnPeer
  <2> HIDE DEF m
  <2>3. HasPC(n) => Stays(n, m)
    BY <2>1 DEF Stays
  <2>4. ~HasPC(n) => Renewed(n, m, i)
    BY <2>1, NewPCIs DEF Renewed
  <2> QED BY <2>1, <2>2, <2>3, <2>4
<1> QED BY <1>1, <1>2

LEMMA OnLeftIs ==
  ASSUME NEW n, NodeOK(n), NEW i \in Id
  PROVE  NodeOK(OnLeft(n)) /\ OnLeft(n).mem = n.mem /\ Renewed(n, OnLeft(n), i)
<1> DEFINE m == CryptoRemove(n)
<1>1. /\ NodeOK(m) /\ m.pc = n.pc /\ m.mem = n.mem /\ m.ev = n.ev
      /\ m.sess = NoId /\ m.pending = NoId
  BY CryptoRemoveIs
<1>2. OnLeft(n) = IF HasPC(m) THEN Close(m) ELSE m
  BY DEF OnLeft
<1> HIDE DEF m
<1>3. CASE HasPC(m)
  <2>1. HasPC(n)
    BY <1>1, <1>3 DEF HasPC
  <2>2. m \in NodeType
    BY <1>1 DEF NodeOK
  <2>3. /\ NodeOK(Close(m)) /\ ~HasPC(Close(m)) /\ Close(m).mem = m.mem
        /\ Close(m).ev = Append(m.ev, Down)
        /\ Close(m).sess = m.sess /\ Close(m).pending = m.pending
    BY <2>2, CloseIs
  <2> QED BY <1>1, <1>2, <1>3, <2>1, <2>3 DEF Renewed
<1>4. CASE ~HasPC(m)
  <2>1. ~HasPC(n)
    BY <1>1, <1>4 DEF HasPC
  <2> QED BY <1>1, <1>2, <1>4, <2>1 DEF Renewed
<1> QED BY <1>3, <1>4

\* The row is another one.
LEMMA RowIs ==
  ASSUME NEW n, NodeOK(n), NEW b \in [here : BOOLEAN, linked : BOOLEAN, secure : BOOLEAN,
                                      fingerprint : Id \cup {NoId}, down : BOOLEAN]
  PROVE  /\ NodeOK([n EXCEPT !.mem = b]) /\ [n EXCEPT !.mem = b].mem = b
         /\ [n EXCEPT !.mem = b].pc = n.pc /\ [n EXCEPT !.mem = b].ev = n.ev
         /\ [n EXCEPT !.mem = b].sess = n.sess /\ [n EXCEPT !.mem = b].pending = n.pending
<1> DEFINE m == [n EXCEPT !.mem = b]
<1>1. m \in NodeType
  BY DEF NodeOK, NodeType
<1>2. m.mem = b /\ m.pc = n.pc /\ m.ev = n.ev /\ m.sess = n.sess /\ m.pending = n.pending
  BY DEF NodeOK, NodeType
<1> HIDE DEF m
<1>3. NodeOK(m)
  BY <1>1, <1>2 DEF NodeOK, HasPC
<1> QED BY <1>2, <1>3 DEF m

\* What is true of the way from a state to one is true from one that differs in the row.
LEMMA RowApart ==
  ASSUME NEW n, NEW k, NEW m, NEW i, NEW l,
         n.pc = k.pc, n.ev = k.ev, n.sess = k.sess, n.pending = k.pending,
         m.pc = l.pc, m.ev = l.ev, m.sess = l.sess, m.pending = l.pending
  PROVE  /\ Stays(k, l) => Stays(n, m)
         /\ Renewed(k, l, i) => Renewed(n, m, i)
BY DEF Stays, Renewed, HasPC

LEMMA DescribedIs ==
  ASSUME NEW n, NodeOK(n), HasPC(n), NEW h \in Id
  PROVE  /\ NodeOK(FlushIce([n EXCEPT !.pc.remote = h]))
         /\ FlushIce([n EXCEPT !.pc.remote = h]).mem = n.mem
         /\ FlushIce([n EXCEPT !.pc.remote = h]).ev = n.ev
         /\ FlushIce([n EXCEPT !.pc.remote = h]).sess = n.sess
         /\ FlushIce([n EXCEPT !.pc.remote = h]).pending = n.pending
         /\ HasPC(FlushIce([n EXCEPT !.pc.remote = h]))
         /\ FlushIce([n EXCEPT !.pc.remote = h]).pc.id = n.pc.id
         /\ FlushIce([n EXCEPT !.pc.remote = h]).pc.st = n.pc.st
         /\ FlushIce([n EXCEPT !.pc.remote = h]).pc.open = n.pc.open
<1> DEFINE c == [n.pc EXCEPT !.remote = h]
           m == [n EXCEPT !.pc.remote = h]
           b == m.pc.remote \in m.pc.pending_ice
           d == [c EXCEPT !.cand = b, !.pending_ice = {}]
           f == FlushIce(m)
<1>1. n \in NodeType /\ n.pc \in PCType /\ n.pc.id \in Id /\ NoId \notin Id
  BY HasFields DEF NodeOK
<1>2. c \in PCType /\ c.id = n.pc.id /\ c.st = n.pc.st /\ c.open = n.pc.open
  BY <1>1 DEF PCType
<1>3. m = [n EXCEPT !.pc = c]
  BY <1>1 DEF NodeType
<1> HIDE DEF c
<1>4. /\ m \in NodeType /\ m.pc = c /\ m.mem = n.mem /\ m.ev = n.ev /\ m.sess = n.sess
      /\ m.pending = n.pending
  BY <1>1, <1>2, <1>3 DEF NodeType
<1>5. b \in BOOLEAN
  OBVIOUS
<1>6. f = [m EXCEPT !.pc.cand = b, !.pc.pending_ice = {}]
  BY DEF FlushIce
<1> HIDE DEF b, f, m
<1>10. /\ d \in PCType /\ d.id = n.pc.id /\ d.st = n.pc.st /\ d.open = n.pc.open
       /\ d.pending_ice = {}
  BY <1>2, <1>5 DEF PCType
<1>11. f = [m EXCEPT !.pc = d]
  BY <1>4, <1>6 DEF NodeType
<1> HIDE DEF d
<1>7. /\ f \in NodeType /\ f.pc = d /\ f.mem = n.mem /\ f.ev = n.ev /\ f.sess = n.sess
      /\ f.pending = n.pending
  BY <1>4, <1>10, <1>11 DEF NodeType
<1>8. d # NoPC /\ Cardinality({}) = 0
  BY <1>1, <1>10, FS_EmptySet DEF NoPC
<1>9. NodeOK(f) /\ HasPC(f)
  BY <1>7, <1>8, <1>10, LinkConstants DEF NodeOK, HasPC
<1> QED BY <1>7, <1>9, <1>10 DEF f, m

LEMMA QueuedIs ==
  ASSUME NEW n, NodeOK(n), HasPC(n), NEW h \in Id
  PROVE  LET m == [n EXCEPT !.pc = AddOrQueueIce(@, h)] IN
         /\ NodeOK(m) /\ m.mem = n.mem /\ m.ev = n.ev /\ m.sess = n.sess
         /\ m.pending = n.pending
         /\ HasPC(m) /\ m.pc.id = n.pc.id /\ m.pc.st = n.pc.st /\ m.pc.open = n.pc.open
         /\ m.pc.remote = n.pc.remote
<1> DEFINE c == AddOrQueueIce(n.pc, h)
           m == [n EXCEPT !.pc = c]
<1>1. /\ n \in NodeType /\ n.pc \in PCType /\ n.pc.id \in Id /\ NoId \notin Id
      /\ Cardinality(n.pc.pending_ice) <= MAX_PENDING_ICE
  BY HasFields DEF NodeOK
<1>2. /\ c \in PCType /\ c.id = n.pc.id /\ c.st = n.pc.st /\ c.open = n.pc.open
      /\ c.remote = n.pc.remote
      /\ Cardinality(c.pending_ice) <= MAX_PENDING_ICE
  <2>1. CASE n.pc.remote # NoId
    BY <1>1, <2>1 DEF AddOrQueueIce, PCType
  <2>2. CASE n.pc.remote = NoId /\ Cardinality(n.pc.pending_ice) < MAX_PENDING_ICE
    <3>1. IsFiniteSet(n.pc.pending_ice)
      <4>1. n.pc.pending_ice \subseteq 1..MaxId
        BY <1>1 DEF PCType, Id
      <4>2. IsFiniteSet(1..MaxId)
        BY FS_Interval, LinkConstants
      <4> QED BY <4>1, <4>2, FS_Subset
    <3> DEFINE s == n.pc.pending_ice \cup {h}
    <3>2. /\ Cardinality(n.pc.pending_ice) \in Nat
          /\ \/ Cardinality(s) = Cardinality(n.pc.pending_ice)
             \/ Cardinality(s) = Cardinality(n.pc.pending_ice) + 1
      BY <3>1, FS_AddElement, FS_CardinalityType
    <3>3. Cardinality(s) <= MAX_PENDING_ICE
      BY <2>2, <3>2, LinkConstants
    <3>4. c = [n.pc EXCEPT !.pending_ice = s]
      BY <2>2 DEF AddOrQueueIce
    <3>5. s \in SUBSET Id
      BY <1>1 DEF PCType
    <3> HIDE DEF s, c
    <3> QED BY <1>1, <3>3, <3>4, <3>5 DEF PCType
  <2>3. CASE n.pc.remote = NoId /\ ~(Cardinality(n.pc.pending_ice) < MAX_PENDING_ICE)
    BY <1>1, <2>3 DEF AddOrQueueIce
  <2> QED BY <2>1, <2>2, <2>3
<1> HIDE DEF c
<1>3. /\ m \in NodeType /\ m.pc = c /\ m.mem = n.mem /\ m.ev = n.ev /\ m.sess = n.sess
      /\ m.pending = n.pending
  BY <1>1, <1>2 DEF NodeType
<1>4. c # NoPC
  BY <1>1, <1>2 DEF NoPC
<1> HIDE DEF m
<1>5. NodeOK(m) /\ HasPC(m)
  BY <1>2, <1>3, <1>4 DEF NodeOK, HasPC
<1>6. m = [n EXCEPT !.pc = AddOrQueueIce(@, h)]
  BY <1>1 DEF m, c, NodeType
<1> QED BY <1>2, <1>3, <1>5, <1>6

-----------------------------------------------------------------------------
(***************************************************************************)
(* Every frame of the server that is served, and every rebuild of the      *)
(* watchdog, is such a step.                                               *)
(***************************************************************************)
\* Frames of the server; descriptions and candidates name a PC.
SigFrame ==
  {f \in [t : {"Roster", "EmptyRoster", "PeerJoined", "PeerLeft", "Offer", "Answer", "Ice",
               "Rekey"}, id : Id \cup {NoId}] :
     f.t \in {"Offer", "Answer", "Ice"} => f.id \in Id}

SigTyped == sig \in [Peer -> Seq(SigFrame)]

\* What the reports still to come, or else the row, say of the PC is true.
Reports(n) ==
  /\ Rises(n.ev) => PcUp(n)
  /\ n.mem.linked => PcUp(n) \/ Falls(n.ev)
  /\ ~n.mem.here => ~n.mem.linked /\ n.mem.fingerprint = NoId

\* An id that nothing refers to is left: the ids stand for the objects of the
\* WebRTC stack, of which there is always another one.
IdsSuffice == \E i \in Id : i \notin UsedIds

\* A non-empty set of naturals has a least element.
LEMMA LeastElement ==
  ASSUME NEW T, T \subseteq Nat, T # {}
  PROVE  \E i \in T : \A j \in T : i <= j
  <1> DEFINE R == OpToRel(<, Nat)
  <1>1. IsWellFoundedOn(R, Nat)
    BY NatLessThanWellFounded
  <1>2. \A x, y \in Nat : y < x => <<y, x>> \in R
    BY DEF OpToRel
  <1> HIDE DEF R
  <1>3. PICK x \in T : \A y \in T : ~(<<y, x>> \in R)
    BY <1>1, WFMin
  <1>4. ASSUME NEW y \in T PROVE x <= y
    <2>1. x \in Nat /\ y \in Nat
      OBVIOUS
    <2>2. ~(y < x)
      BY <1>2, <1>3, <2>1
    <2> QED BY <2>1, <2>2
  <1> QED BY <1>4

\* A PC gets an id that nothing else refers to.
LEMMA FreshIdIs ==
  ASSUME IdsSuffice
  PROVE  FreshId \in Id \ UsedIds
<1> DEFINE U == UsedIds
           T == {j \in 1..MaxId + 1 : j \notin U}
           Q(j) == j \notin U /\ \A k \in 1..j - 1 : k \in U
<1>1. PICK h \in Id : h \notin U
  BY DEF IdsSuffice
<1>2. T \subseteq Nat /\ T # {} /\ h \in T
  BY <1>1, LinkConstants DEF Id
<1>3. PICK i \in T : \A j \in T : i <= j
  <2> HIDE DEF T
  <2> QED BY <1>2, LeastElement
<1>4. i \in 1..MaxId + 1 /\ Q(i)
  <2>1. i \in 1..MaxId + 1 /\ i \notin U
    OBVIOUS
  <2>2. ASSUME NEW k \in 1..i - 1 PROVE k \in U
    <3>1. k \in 1..MaxId + 1 /\ ~(i <= k)
      BY <2>1, LinkConstants
    <3> QED BY <1>3, <3>1
  <2> QED BY <2>1, <2>2
<1>5. FreshId = CHOOSE j \in 1..MaxId + 1 : Q(j)
  BY DEF FreshId
<1>6. FreshId \in 1..MaxId + 1 /\ Q(FreshId)
  <2> HIDE DEF Q
  <2> QED BY <1>4, <1>5
<1>7. FreshId <= h
  <2>1. h \in Nat /\ FreshId \in Nat /\ h >= 1 /\ MaxId \in Nat
    BY <1>1, <1>6, LinkConstants DEF Id
  <2>2. ~(h \in 1..FreshId - 1)
    BY <1>1, <1>6
  <2> QED BY <2>1, <2>2
<1> QED BY <1>6, <1>7, <1>1, LinkConstants DEF Id

\* The process of p has taken such a step.
Processed(p) ==
  \E m, i :
    /\ i \in Id \ UsedIds
    /\ Moves(node[p], m, i)
    /\ node' = [node EXCEPT ![p] = m]
    /\ dc' = IF m.pc.id # node[p].pc.id THEN [dc EXCEPT ![p] = <<>>] ELSE dc
    /\ sig' \in [Peer -> Seq(SigFrame)]
    /\ UNCHANGED <<up, room>>

\* The queues of the server keep their type.
LEMMA StepProcesses ==
  ASSUME SigTyped, NEW p \in Peer, NEW m, NEW i \in Id \ UsedIds, Moves(node[p], m, i),
         NEW q \in Seq(SigFrame), NEW out \in Seq(SigFrame), Step(p, m, q, out)
  PROVE  Processed(p)
<1> DEFINE r == IF up = Peer THEN sig[Other(p)] \o out ELSE sig[Other(p)]
<1>1. Other(p) \in Peer
  BY DEF Other, Peer
<1>2. sig[Other(p)] \in Seq(SigFrame)
  BY <1>1 DEF SigTyped
<1>3. r \in Seq(SigFrame)
  BY <1>2, ConcatProperties
<1>4. sig' = [[sig EXCEPT ![p] = q] EXCEPT ![Other(p)] = r]
  BY <1>1 DEF Step, SigTyped, Other, Peer
<1> HIDE DEF r
<1>5. sig' \in [Peer -> Seq(SigFrame)]
  BY <1>1, <1>3, <1>4 DEF SigTyped
<1> QED BY <1>5 DEF Processed, Step

\* The frames that go out.
LEMMA FramesTyped ==
  ASSUME NEW i \in Id, NEW t \in {"Offer", "Answer"}
  PROVE  /\ \A out \in Described(t, i) : out \in Seq(SigFrame)
         /\ \A p \in Peer : \A out \in OnPeerFrames(p, i) : out \in Seq(SigFrame)
<1>1. ASSUME NEW u \in {"Offer", "Answer", "Ice"} PROVE Frame(u, i) \in SigFrame
  BY DEF Frame, SigFrame
<1>2. ASSUME NEW a \in SigFrame, NEW b \in SigFrame PROVE <<a, b>> \in Seq(SigFrame)
  OBVIOUS
<1>3. \A u \in {"Offer", "Answer"} : \A out \in Described(u, i) : out \in Seq(SigFrame)
  BY <1>1, <1>2 DEF Described
<1>4. <<>> \in Seq(SigFrame)
  OBVIOUS
<1> QED BY <1>3, <1>4 DEF OnPeerFrames

\* The frame at the head of a queue, and the rest.
LEMMA QueueTail ==
  ASSUME SigTyped, NEW p \in Peer, sig[p] # <<>>
  PROVE  Tail(sig[p]) \in Seq(SigFrame) /\ Head(sig[p]) \in SigFrame /\ sig[p] \in Seq(SigFrame)
<1>1. sig[p] \in Seq(SigFrame)
  BY DEF SigTyped
<1> QED BY <1>1, HeadTailProperties

MemberType == [here : BOOLEAN, linked : BOOLEAN, secure : BOOLEAN,
               fingerprint : Id \cup {NoId}, down : BOOLEAN]

LEMMA NoMemberIs ==
  /\ NoMember \in MemberType /\ ~NoMember.here /\ ~NoMember.linked
  /\ NoMember.fingerprint = NoId
BY DEF NoMember, Member, MemberType

\* The rows a frame may leave.
LEMMA RowsMove ==
  ASSUME NEW n, NodeOK(n), Reports(n), NEW s \in BOOLEAN
  PROVE  /\ n.mem \in MemberType
         /\ MemMoves(n.mem, n.mem) /\ MemMoves(n.mem, NoMember) /\ MemMoves(n.mem, Member(s))
         /\ Member(s) \in MemberType
<1>1. n.mem \in MemberType
  BY DEF NodeOK, NodeType, MemberType
<1>2. MemMoves(n.mem, NoMember)
  BY NoMemberIs DEF MemMoves
<1>3. Member(s) \in MemberType /\ ~Member(s).linked /\ Member(s).fingerprint = NoId
  BY DEF Member, MemberType
<1>4. MemMoves(n.mem, Member(s))
  BY <1>3 DEF MemMoves
<1>5. MemMoves(n.mem, n.mem)
  BY <1>1 DEF MemMoves, Reports
<1> QED BY <1>1, <1>2, <1>3, <1>4, <1>5

\* What a step of p finds.
Ready(p) == SigTyped /\ p \in Peer /\ NodeOK(node[p]) /\ Reports(node[p])

\* One lemma per frame.
LEMMA RosterProcesses ==
  ASSUME NEW p, Ready(p), NEW i \in Id \ UsedIds, OnRoster(p, i)
  PROVE  Processed(p)
<1> DEFINE n == node[p]
           kept == [n.mem EXCEPT !.secure = n.sess # NoId,
                       !.fingerprint = IF n.sess # NoId THEN @ ELSE NoId]
           b == IF n.mem.here THEN kept ELSE Member(n.sess # NoId)
           k == [n EXCEPT !.mem = b]
           left == IF n.mem.here THEN OnLeft(n) ELSE n
           away == [left EXCEPT !.mem = NoMember]
<1>1. NodeOK(n) /\ Reports(n) /\ p \in Peer /\ SigTyped /\ sig[p] # <<>>
  BY DEF Ready, OnRoster, Has
<1>2. Tail(sig[p]) \in Seq(SigFrame)
  BY <1>1, QueueTail
<1>3. ASSUME NEW out \in OnPeerFrames(p, i), Step(p, OnPeer(p, k, i), Tail(sig[p]), out)
      PROVE  Processed(p)
  <2>1. n.mem \in MemberType /\ MemMoves(n.mem, Member(n.sess # NoId)) /\ Member(n.sess # NoId) \in MemberType
    BY <1>1, RowsMove
  <2>2. b \in MemberType /\ MemMoves(n.mem, b)
    <3>1. CASE n.mem.here
      <4> DEFINE s == n.sess # NoId
                 h == IF n.sess # NoId THEN n.mem.fingerprint ELSE NoId
      <4>1. s \in BOOLEAN /\ h \in {n.mem.fingerprint, NoId} /\ b = [n.mem EXCEPT !.secure = s, !.fingerprint = h]
        BY <3>1
      <4> HIDE DEF s, h, b
      <4> QED BY <2>1, <3>1, <4>1 DEF MemberType, MemMoves
    <3>2. CASE ~n.mem.here
      BY <2>1, <3>2
    <3> QED BY <3>1, <3>2
  <2> HIDE DEF b
  <2>3. /\ NodeOK(k) /\ k.mem = b /\ k.pc = n.pc /\ k.ev = n.ev /\ k.sess = n.sess
        /\ k.pending = n.pending
    BY <1>1, <2>2, RowIs DEF MemberType
  <2> HIDE DEF k, n
  <2> DEFINE m == OnPeer(p, k, i)
  <2>4. NodeOK(m) /\ m.mem = b /\ (Stays(k, m) \/ Renewed(k, m, i))
    BY <1>1, <2>3, OnPeerIs
  <2> HIDE DEF m
  <2>5. Stays(n, m) \/ Renewed(n, m, i)
    BY <2>3, <2>4, RowApart
  <2>6. Moves(n, m, i)
    BY <2>2, <2>4, <2>5 DEF Moves
  <2>7. out \in Seq(SigFrame)
    BY <1>1, FramesTyped
  <2> QED BY <1>1, <1>2, <1>3, <2>6, <2>7, StepProcesses DEF m, n
<1>4. ASSUME Step(p, away, Tail(sig[p]), <<>>)
      PROVE  Processed(p)
  <2>1. NodeOK(left) /\ (Stays(n, left) \/ Renewed(n, left, i))
    <3>1. Stays(n, n)
      BY DEF Stays
    <3> QED BY <1>1, <3>1, OnLeftIs
  <2> HIDE DEF left
  <2>2. /\ NodeOK(away) /\ away.mem = NoMember /\ away.pc = left.pc /\ away.ev = left.ev
        /\ away.sess = left.sess /\ away.pending = left.pending
    BY <2>1, RowIs, NoMemberIs DEF MemberType
  <2> HIDE DEF away
  <2>3. Stays(n, away) \/ Renewed(n, away, i)
    <3> HIDE DEF n
    <3> QED BY <2>1, <2>2, RowApart
  <2>4. MemMoves(n.mem, NoMember)
    BY <1>1, RowsMove
  <2>5. Moves(n, away, i)
    BY <2>2, <2>3, <2>4 DEF Moves
  <2>6. <<>> \in Seq(SigFrame)
    OBVIOUS
  <2> QED BY <1>1, <1>2, <1>4, <2>5, <2>6, StepProcesses
<1> QED
  <2>1. \/ \E out \in OnPeerFrames(p, i) :
             Step(p, OnPeer(p, [n EXCEPT !.mem = IF @.here THEN kept
                                                 ELSE Member(n.sess # NoId)], i),
                  Tail(sig[p]), out)
        \/ Step(p, [(IF n.mem.here THEN OnLeft(n) ELSE n) EXCEPT !.mem = NoMember],
                Tail(sig[p]), <<>>)
    BY DEF OnRoster
  <2>2. k = [n EXCEPT !.mem = IF @.here THEN kept ELSE Member(n.sess # NoId)]
    BY <1>1 DEF NodeOK, NodeType
  <2> HIDE DEF k
  <2> QED BY <1>3, <1>4, <2>1, <2>2

LEMMA JoinedProcesses ==
  ASSUME NEW p, Ready(p), NEW i \in Id \ UsedIds, OnPeerJoined(p, i)
  PROVE  Processed(p)
<1> DEFINE n == node[p]  b == Member(n.sess # NoId)  k == [n EXCEPT !.mem = b]  m == OnPeer(p, k, i)
<1>1. NodeOK(n) /\ Reports(n) /\ p \in Peer /\ SigTyped /\ sig[p] # <<>>
  BY DEF Ready, OnPeerJoined, Has
<1>2. Tail(sig[p]) \in Seq(SigFrame)
  BY <1>1, QueueTail
<1>3. PICK out \in OnPeerFrames(p, i) : Step(p, m, Tail(sig[p]), out)
  BY DEF OnPeerJoined
<1>4. b \in MemberType /\ MemMoves(n.mem, b)
  BY <1>1, RowsMove
<1> HIDE DEF b
<1>5. /\ NodeOK(k) /\ k.mem = b /\ k.pc = n.pc /\ k.ev = n.ev /\ k.sess = n.sess
      /\ k.pending = n.pending
  BY <1>1, <1>4, RowIs DEF MemberType
<1> HIDE DEF k, n
<1>6. NodeOK(m) /\ m.mem = b /\ (Stays(k, m) \/ Renewed(k, m, i))
  BY <1>1, <1>5, OnPeerIs
<1> HIDE DEF m
<1>7. Stays(n, m) \/ Renewed(n, m, i)
  BY <1>5, <1>6, RowApart
<1>8. Moves(n, m, i)
  BY <1>4, <1>6, <1>7 DEF Moves
<1>9. out \in Seq(SigFrame)
  BY <1>1, FramesTyped
<1> QED BY <1>1, <1>2, <1>3, <1>8, <1>9, StepProcesses DEF n

LEMMA LeftProcesses ==
  ASSUME NEW p, Ready(p), NEW i \in Id \ UsedIds, OnPeerLeft(p)
  PROVE  Processed(p)
<1> DEFINE n == node[p]  left == OnLeft(n)  m == [left EXCEPT !.mem = NoMember]
<1>1. NodeOK(n) /\ Reports(n) /\ p \in Peer /\ SigTyped /\ sig[p] # <<>>
  BY DEF Ready, OnPeerLeft, Has
<1>2. Tail(sig[p]) \in Seq(SigFrame)
  BY <1>1, QueueTail
<1>3. Step(p, m, Tail(sig[p]), <<>>)
  BY DEF OnPeerLeft
<1>4. NodeOK(left) /\ Renewed(n, left, i)
  BY <1>1, OnLeftIs
<1> HIDE DEF left
<1>5. /\ NodeOK(m) /\ m.mem = NoMember /\ m.pc = left.pc /\ m.ev = left.ev
      /\ m.sess = left.sess /\ m.pending = left.pending
  BY <1>4, RowIs, NoMemberIs DEF MemberType
<1>6. MemMoves(n.mem, NoMember)
  BY <1>1, RowsMove
<1> HIDE DEF m, n
<1>7. Renewed(n, m, i)
  BY <1>4, <1>5, RowApart
<1>8. Moves(n, m, i)
  BY <1>5, <1>6, <1>7 DEF Moves
<1>9. <<>> \in Seq(SigFrame)
  OBVIOUS
<1> QED BY <1>1, <1>2, <1>3, <1>8, <1>9, StepProcesses DEF n

LEMMA OfferProcesses ==
  ASSUME NEW p, Ready(p), NEW i \in Id \ UsedIds, OnOffer(p, i)
  PROVE  Processed(p)
<1> DEFINE n == node[p]
           from == Head(sig[p]).id
           d == IF HasPC(n) /\ Superseded(n.pc) THEN Discard(n) ELSE n
           m == Ensure(d, i)
           f == FlushIce([m EXCEPT !.pc.remote = from])
<1>1. NodeOK(n) /\ Reports(n) /\ p \in Peer /\ SigTyped /\ sig[p] # <<>> /\ Head(sig[p]).t = "Offer"
  BY DEF Ready, OnOffer, Has
<1>2. Tail(sig[p]) \in Seq(SigFrame) /\ from \in Id
  BY <1>1, QueueTail DEF SigFrame
<1>3. MemMoves(n.mem, n.mem)
  BY <1>1, RowsMove
<1>4. ASSUME Step(p, n, Tail(sig[p]), <<>>)
      PROVE  Processed(p)
  <2>1. Stays(n, n)
    BY DEF Stays
  <2>2. Moves(n, n, i)
    BY <1>1, <1>3, <2>1 DEF Moves
  <2>3. <<>> \in Seq(SigFrame)
    OBVIOUS
  <2> QED BY <1>1, <1>2, <1>4, <2>2, <2>3, StepProcesses
<1>5. ASSUME NEW out \in Described("Answer", m.pc.id), Step(p, f, Tail(sig[p]), out)
      PROVE  Processed(p)
  <2>1. NodeOK(d) /\ d.mem = n.mem
    BY <1>1, DiscardIs
  <2>2. \/ HasPC(n) /\ d = n /\ n.pc.remote = NoId
        \/ /\ ~HasPC(d)
           /\ d.ev = IF HasPC(n) THEN Append(n.ev, Down) ELSE n.ev
           /\ d.sess \in {n.sess, NoId} /\ d.pending \in {n.pending, NoId}
    BY <1>1, DiscardIs DEF Superseded
  <2> HIDE DEF d, from
  <2>3. /\ NodeOK(m) /\ HasPC(m) /\ m.mem = d.mem /\ m.ev = d.ev /\ m.sess = d.sess
        /\ m.pending = d.pending
        /\ HasPC(d) => m = d
        /\ ~HasPC(d) => m.pc = NewPC(i)
    BY <2>1, EnsureIs
  <2> HIDE DEF m
  <2>4. /\ NodeOK(f) /\ HasPC(f) /\ f.mem = m.mem /\ f.ev = m.ev /\ f.sess = m.sess
        /\ f.pending = m.pending
        /\ f.pc.id = m.pc.id /\ f.pc.st = m.pc.st /\ f.pc.open = m.pc.open
    BY <1>2, <2>3, DescribedIs
  <2> HIDE DEF f, n
  <2>5. Stays(n, f) \/ Renewed(n, f, i)
    BY <2>2, <2>3, <2>4, NewPCIs DEF Stays, Renewed
  <2>6. Moves(n, f, i)
    BY <1>3, <2>1, <2>3, <2>4, <2>5 DEF Moves
  <2>7. m.pc.id \in Id
    BY <2>3, HasFields DEF NodeOK
  <2>8. out \in Seq(SigFrame)
    BY <2>7, FramesTyped
  <2> QED BY <1>1, <1>2, <1>5, <2>6, <2>8, StepProcesses DEF n
<1> QED BY <1>4, <1>5 DEF OnOffer

LEMMA AnswerProcesses ==
  ASSUME NEW p, Ready(p), NEW i \in Id \ UsedIds, OnAnswer(p)
  PROVE  Processed(p)
<1> DEFINE n == node[p]
           from == Head(sig[p]).id
           f == FlushIce([n EXCEPT !.pc.remote = from])
           m == IF HasPC(n) /\ HaveLocalOffer(n.pc) THEN f ELSE n
<1>1. NodeOK(n) /\ Reports(n) /\ p \in Peer /\ SigTyped /\ sig[p] # <<>> /\ Head(sig[p]).t = "Answer"
  BY DEF Ready, OnAnswer, Has
<1>2. Tail(sig[p]) \in Seq(SigFrame) /\ from \in Id /\ <<>> \in Seq(SigFrame)
  BY <1>1, QueueTail DEF SigFrame
<1>3. MemMoves(n.mem, n.mem)
  BY <1>1, RowsMove
<1>4. Step(p, m, Tail(sig[p]), <<>>)
  BY DEF OnAnswer
<1> HIDE DEF from
<1>5. NodeOK(m) /\ m.mem = n.mem /\ Stays(n, m)
  <2>1. CASE HasPC(n) /\ HaveLocalOffer(n.pc)
    <3>1. /\ NodeOK(f) /\ HasPC(f) /\ f.mem = n.mem /\ f.ev = n.ev /\ f.sess = n.sess
          /\ f.pending = n.pending
          /\ f.pc.id = n.pc.id /\ f.pc.st = n.pc.st /\ f.pc.open = n.pc.open
      BY <1>1, <1>2, <2>1, DescribedIs
    <3>2. m = f
      BY <2>1
    <3> HIDE DEF f, m, n
    <3> QED BY <2>1, <3>1, <3>2 DEF Stays, HaveLocalOffer
  <2>2. CASE ~(HasPC(n) /\ HaveLocalOffer(n.pc))
    BY <1>1, <2>2 DEF Stays
  <2> QED BY <2>1, <2>2
<1> HIDE DEF m
<1>6. Moves(n, m, i)
  BY <1>3, <1>5 DEF Moves
<1> QED BY <1>1, <1>2, <1>4, <1>6, StepProcesses

LEMMA IceProcesses ==
  ASSUME NEW p, Ready(p), NEW i \in Id \ UsedIds, OnIce(p)
  PROVE  Processed(p)
<1> DEFINE n == node[p]
           h == Head(sig[p]).id
           f == [n EXCEPT !.pc = AddOrQueueIce(@, h)]
           m == IF HasPC(n) THEN f ELSE n
<1>1. NodeOK(n) /\ Reports(n) /\ p \in Peer /\ SigTyped /\ sig[p] # <<>> /\ Head(sig[p]).t = "Ice"
  BY DEF Ready, OnIce, Has
<1>2. Tail(sig[p]) \in Seq(SigFrame) /\ h \in Id /\ <<>> \in Seq(SigFrame)
  BY <1>1, QueueTail DEF SigFrame
<1>3. MemMoves(n.mem, n.mem)
  BY <1>1, RowsMove
<1>4. Step(p, m, Tail(sig[p]), <<>>)
  BY DEF OnIce
<1> HIDE DEF h
<1>5. NodeOK(m) /\ m.mem = n.mem /\ Stays(n, m)
  <2>1. CASE HasPC(n)
    <3>1. /\ NodeOK(f) /\ HasPC(f) /\ f.mem = n.mem /\ f.ev = n.ev /\ f.sess = n.sess
          /\ f.pending = n.pending
          /\ f.pc.id = n.pc.id /\ f.pc.st = n.pc.st /\ f.pc.open = n.pc.open
          /\ f.pc.remote = n.pc.remote
      BY <1>1, <1>2, <2>1, QueuedIs
    <3>2. m = f
      BY <2>1
    <3> HIDE DEF f, m, n
    <3> QED BY <2>1, <3>1, <3>2 DEF Stays
  <2>2. CASE ~HasPC(n)
    BY <1>1, <2>2 DEF Stays
  <2> QED BY <2>1, <2>2
<1> HIDE DEF m
<1>6. Moves(n, m, i)
  BY <1>3, <1>5 DEF Moves
<1> QED BY <1>1, <1>2, <1>4, <1>6, StepProcesses

LEMMA RekeyProcesses ==
  ASSUME NEW p, Ready(p), NEW i \in Id \ UsedIds, OnRekey(p, i)
  PROVE  Processed(p)
<1> DEFINE n == node[p]  c == Close(n)  m == OnPeer(p, c, i)
<1>1. NodeOK(n) /\ Reports(n) /\ p \in Peer /\ SigTyped /\ sig[p] # <<>>
  BY DEF Ready, OnRekey, Has
<1>2. Tail(sig[p]) \in Seq(SigFrame) /\ <<>> \in Seq(SigFrame)
  BY <1>1, QueueTail
<1>3. MemMoves(n.mem, n.mem)
  BY <1>1, RowsMove
<1>4. ASSUME Step(p, n, Tail(sig[p]), <<>>)
      PROVE  Processed(p)
  <2>1. Stays(n, n)
    BY DEF Stays
  <2>2. Moves(n, n, i)
    BY <1>1, <1>3, <2>1 DEF Moves
  <2> QED BY <1>1, <1>2, <1>4, <2>2, StepProcesses
<1>5. ASSUME HasPC(n), NEW out \in OnPeerFrames(p, i), Step(p, m, Tail(sig[p]), out)
      PROVE  Processed(p)
  <2>1. /\ NodeOK(c) /\ ~HasPC(c) /\ c.mem = n.mem /\ c.ev = Append(n.ev, Down)
        /\ c.sess = n.sess /\ c.pending = n.pending
    BY <1>1, CloseIs DEF NodeOK
  <2> HIDE DEF c
  <2>2. NodeOK(m) /\ m.mem = c.mem /\ (Stays(c, m) \/ Renewed(c, m, i))
    BY <1>1, <2>1, OnPeerIs
  <2> HIDE DEF m, n
  <2>3. Renewed(n, m, i)
    BY <1>5, <2>1, <2>2 DEF Stays, Renewed
  <2>4. Moves(n, m, i)
    BY <1>3, <2>1, <2>2, <2>3 DEF Moves
  <2>5. out \in Seq(SigFrame)
    BY <1>1, FramesTyped
  <2> QED BY <1>1, <1>2, <1>5, <2>4, <2>5, StepProcesses DEF n
<1> QED BY <1>4, <1>5 DEF OnRekey

LEMMA RetryProcesses ==
  ASSUME NEW p, Ready(p), IdsSuffice, Retry(p)
  PROVE  Processed(p)
<1> DEFINE n == node[p]
           b == [n.mem EXCEPT !.down = TRUE]
           k == [n EXCEPT !.mem = b]
           i == FreshId
           m == Relink(k, i)
<1>1. NodeOK(n) /\ Reports(n) /\ p \in Peer /\ SigTyped
  BY DEF Ready
<1>2. i \in Id \ UsedIds
  BY FreshIdIs
<1>3. k = [n EXCEPT !.mem.down = TRUE]
  BY <1>1 DEF NodeOK, NodeType
<1> HIDE DEF k
<1>4. PICK out \in Described("Offer", i) : Step(p, m, sig[p], out)
  BY <1>3 DEF Retry
<1>5. n.mem \in MemberType
  BY <1>1, RowsMove
<1>6. b \in MemberType /\ MemMoves(n.mem, b)
  BY <1>1, <1>5 DEF MemberType, MemMoves, Reports
<1> HIDE DEF b, i
<1>7. /\ NodeOK(k) /\ k.mem = b /\ k.pc = n.pc /\ k.ev = n.ev /\ k.sess = n.sess
      /\ k.pending = n.pending
  BY <1>1, <1>6, RowIs DEF MemberType, k
<1> HIDE DEF n
<1>8. NodeOK(m) /\ m.mem = b /\ Renewed(k, m, i)
  BY <1>2, <1>7, RelinkIs
<1> HIDE DEF m
<1>9. Moves(n, m, i)
  BY <1>6, <1>7, <1>8, RowApart DEF Moves
<1>10. out \in Seq(SigFrame) /\ sig[p] \in Seq(SigFrame)
  BY <1>1, <1>2, FramesTyped DEF SigTyped
<1> QED BY <1>1, <1>2, <1>4, <1>9, <1>10, StepProcesses DEF n

\* Every frame a process serves and every rebuild of the watchdog is such a step.
LEMMA ServeProcesses ==
  ASSUME NEW p, Ready(p), IdsSuffice, Serve(p) \/ Retry(p)
  PROVE  Processed(p)
<1>1. FreshId \in Id \ UsedIds
  BY FreshIdIs
<1> DEFINE i == FreshId
<1>2. ASSUME Serve(p) PROVE Processed(p)
  <2>1. \/ OnRoster(p, i) \/ OnPeerJoined(p, i) \/ OnPeerLeft(p)
        \/ OnOffer(p, i) \/ OnAnswer(p) \/ OnIce(p) \/ OnRekey(p, i)
    BY <1>2 DEF Serve
  <2> HIDE DEF i
  <2>2. i \in Id \ UsedIds
    BY <1>1 DEF i
  <2> QED BY <2>1, <2>2, RosterProcesses, JoinedProcesses, LeftProcesses, OfferProcesses,
             AnswerProcesses, IceProcesses, RekeyProcesses
<1> QED BY <1>2, RetryProcesses

-----------------------------------------------------------------------------
(***************************************************************************)
(* What the fingerprint in the row of a node is going to be.               *)
(***************************************************************************)
\* Once the link goes down, no fingerprint of the sessions so far is left.
ClearsOnDown(n) ==
  UpUnlocked(n.ev) \/ (~Locks(n.ev) /\ (n.mem.linked \/ n.mem.fingerprint = NoId))

\* Once all reports are in, there is no fingerprint.
Clearing(n) ==
  \/ DownUnlocked(n.ev)
  \/ ~Locks(n.ev) /\ ((n.mem.linked /\ Falls(n.ev)) \/ n.mem.fingerprint = NoId)

\* Once all reports are in, there is no fingerprint but that of h.
ShowsOnly(n, h) ==
  LastLock(n.ev, h) \/ (~Locks(n.ev) /\ n.mem.fingerprint \in {NoId, h})

\* The three reports are different.
LEMMA EventKinds ==
  /\ Up \in EventType /\ Down \in EventType
  /\ Up.t = "Up" /\ Down.t = "Down" /\ Up.t # "Secure" /\ Down.t # "Secure" /\ Up.t # "Down" /\ Down.t # "Up"
  /\ \A h : Up # Secure(h) /\ Down # Secure(h) /\ Secure(h).t = "Secure" /\ Secure(h).id = h
              /\ Secure(h).t # "Up" /\ Secure(h).t # "Down"
  /\ \A h \in Id : Secure(h) \in EventType
<1>1. Up \in EventType /\ Down \in EventType /\ \A h \in Id : Secure(h) \in EventType
  BY DEF Up, Down, Secure, EventType
<1>2. Up.t = "Up" /\ Down.t = "Down" /\ \A h : Secure(h).t = "Secure" /\ Secure(h).id = h
  BY DEF Up, Down, Secure
<1>3. "Up" # "Secure" /\ "Down" # "Secure" /\ "Up" # "Down"
  OBVIOUS
<1>4. \A h : Up # Secure(h) /\ Down # Secure(h)
  BY <1>2, <1>3
<1> QED BY <1>1, <1>2, <1>3, <1>4

\* A step that sets up no session keeps what is going to be shown, and closing a
\* PC clears it.
LEMMA MovedShows ==
  ASSUME NEW n, NodeOK(n), NEW m, MemMoves(n.mem, m.mem),
         m.ev = n.ev \/ m.ev = Append(n.ev, Down)
  PROVE  /\ ClearsOnDown(n) => ClearsOnDown(m)
         /\ Clearing(n) => Clearing(m)
         /\ \A h : ShowsOnly(n, h) => ShowsOnly(m, h)
         /\ ClearsOnDown(n) /\ m.ev = Append(n.ev, Down) => Clearing(m)
<1> DEFINE s == n.ev
<1>1. s \in Seq(EventType)
  BY HasFields DEF NodeOK
<1>2. /\ \/ m.mem.linked = n.mem.linked /\ m.mem.fingerprint \in {n.mem.fingerprint, NoId}
         \/ ~m.mem.linked /\ m.mem.fingerprint = NoId
  BY DEF MemMoves
<1> HIDE DEF s
<1>3. CASE m.ev = s
  BY <1>2, <1>3 DEF ClearsOnDown, Clearing, ShowsOnly, s
<1>4. CASE m.ev = Append(s, Down)
  <2> DEFINE a == Append(s, Down)
  <2>1. /\ Falls(a)
        /\ Locks(a) <=> Locks(s)
        /\ UpUnlocked(a) <=> UpUnlocked(s)
        /\ DownUnlocked(a) <=> DownUnlocked(s) \/ UpUnlocked(s)
        /\ \A h : LastLock(a, h) <=> LastLock(s, h)
    BY <1>1, Appended, EventKinds
  <2> HIDE DEF a
  <2>2. m.ev = a
    BY <1>4 DEF a
  <2> QED BY <1>2, <2>1, <2>2 DEF ClearsOnDown, Clearing, ShowsOnly, s
<1> QED BY <1>3, <1>4 DEF s

\* Such a step reports what becomes of the PC.
LEMMA MovedReports ==
  ASSUME NEW n, NodeOK(n), Reports(n), NEW m, NEW i, Moves(n, m, i)
  PROVE  Reports(m)
<1>1. /\ m.mem.linked => n.mem.linked
      /\ ~m.mem.here => ~m.mem.linked /\ m.mem.fingerprint = NoId
  <2>1. n.mem \in MemberType /\ m.mem \in MemberType
    BY DEF NodeOK, NodeType, MemberType, Moves
  <2> QED BY <2>1 DEF Moves, MemMoves
<1>2. CASE Stays(n, m)
  BY <1>1, <1>2 DEF Stays, Reports, PcUp
<1>3. CASE Renewed(n, m, i) /\ HasPC(n)
  <2>1. ~Rises(m.ev) /\ Falls(m.ev)
    BY <1>3, HasFields, Appended, EventKinds DEF Renewed, NodeOK
  <2> QED BY <1>1, <2>1 DEF Reports
<1>4. CASE Renewed(n, m, i) /\ ~HasPC(n)
  BY <1>1, <1>4 DEF Renewed, Reports, PcUp
<1> QED BY <1>2, <1>3, <1>4 DEF Moves

\* A report that arrives in the row changes nothing that is going to be.
LEMMA SettledReports ==
  ASSUME NEW n, NodeOK(n), Reports(n), n.ev # <<>>
  PROVE  LET m == [n EXCEPT !.mem = AfterEvent(@, Head(n.ev), n.sess), !.ev = Tail(@)] IN
         /\ NodeOK(m) /\ m.pc = n.pc /\ m.sess = n.sess /\ m.pending = n.pending
         /\ m.ev = Tail(n.ev)
         /\ Reports(m)
         /\ ClearsOnDown(n) => ClearsOnDown(m)
         /\ Clearing(n) => Clearing(m)
         /\ \A h : ShowsOnly(n, h) => ShowsOnly(m, h)
<1> DEFINE s == n.ev
           e == Head(s)
           r == Tail(s)
           b == AfterEvent(n.mem, e, n.sess)
           m == [n EXCEPT !.mem = b, !.ev = r]
<1>1. /\ s \in Seq(EventType) /\ n \in NodeType /\ n.mem \in MemberType /\ s # <<>>
  BY HasFields DEF NodeOK, NodeType, MemberType
<1>2. m = [n EXCEPT !.mem = AfterEvent(@, Head(n.ev), n.sess), !.ev = Tail(@)]
  BY <1>1 DEF NodeType
<1>3. /\ e \in EventType /\ r \in Seq(EventType)
      /\ Falls(s) <=> e.t = "Down" \/ Falls(r)
      /\ Locks(s) <=> e.t = "Secure" \/ Locks(r)
      /\ Rises(s) <=> Rises(r) \/ (e.t = "Up" /\ ~Falls(r))
      /\ UpUnlocked(s) <=> UpUnlocked(r) \/ (e.t = "Up" /\ ~Locks(r))
      /\ DownUnlocked(s) <=>
           DownUnlocked(r) \/ (e.t = "Up" /\ ~Locks(r) /\ Falls(r))
      /\ \A h : LastLock(s, h) <=> LastLock(r, h) \/ (e = Secure(h) /\ ~Locks(r))
  BY <1>1, Taken
<1> HIDE DEF r, e
<1>4. e.t \in {"Up", "Down", "Secure"} /\ e.id \in Id \cup {NoId}
  BY <1>3 DEF EventType
<1>5. /\ b \in MemberType
      /\ ~n.mem.here => b = n.mem
      /\ n.mem.here => b.here
      /\ n.mem.here /\ e.t = "Up" => b.linked /\ b.fingerprint = n.mem.fingerprint
      /\ n.mem.here /\ e.t = "Down" =>
           \/ ~b.linked /\ b.fingerprint = NoId
           \/ ~n.mem.linked /\ b = n.mem
      /\ n.mem.here /\ e.t = "Secure" => b.fingerprint = e.id /\ b.linked = n.mem.linked
  <2> DEFINE k == n.sess # NoId
  <2>1. AfterEvent(n.mem, e, n.sess) =
          CASE ~n.mem.here -> n.mem
            [] n.mem.here /\ e.t = "Up" ->
                 [n.mem EXCEPT !.linked = TRUE, !.secure = k, !.down = FALSE]
            [] n.mem.here /\ e.t = "Down" ->
                 IF FreshDrop(n.mem)
                   THEN [n.mem EXCEPT !.linked = FALSE, !.secure = FALSE,
                                  !.fingerprint = NoId, !.down = TRUE]
                   ELSE n.mem
            [] n.mem.here /\ e.t = "Secure" -> [n.mem EXCEPT !.secure = TRUE, !.fingerprint = e.id]
    BY DEF AfterEvent
  <2>2. k \in BOOLEAN
    OBVIOUS
  <2> HIDE DEF k
  <2>3. CASE ~n.mem.here
    BY <1>1, <2>1, <2>3
  <2>4. CASE n.mem.here /\ e.t = "Up"
    <3>1. b = [n.mem EXCEPT !.linked = TRUE, !.secure = k, !.down = FALSE]
      BY <2>1, <2>4
    <3> HIDE DEF b
    <3> QED BY <1>1, <2>2, <2>4, <3>1 DEF MemberType
  <2>5. CASE n.mem.here /\ e.t = "Down"
    <3>1. b = IF FreshDrop(n.mem)
                THEN [n.mem EXCEPT !.linked = FALSE, !.secure = FALSE,
                                   !.fingerprint = NoId, !.down = TRUE]
                ELSE n.mem
      BY <2>1, <2>5
    <3> HIDE DEF b
    <3> QED BY <1>1, <2>5, <3>1 DEF MemberType, FreshDrop
  <2>6. CASE n.mem.here /\ e.t = "Secure"
    <3>1. b = [n.mem EXCEPT !.secure = TRUE, !.fingerprint = e.id]
      BY <2>1, <2>6
    <3> HIDE DEF b
    <3> QED BY <1>1, <1>4, <2>6, <3>1 DEF MemberType
  <2> QED BY <1>4, <2>3, <2>4, <2>5, <2>6
<1> HIDE DEF b
<1>6. /\ m \in NodeType /\ m.pc = n.pc /\ m.sess = n.sess /\ m.pending = n.pending
      /\ m.ev = r /\ m.mem = b
  BY <1>1, <1>3, <1>5 DEF NodeType, MemberType
<1> HIDE DEF m
<1>7. NodeOK(m)
  BY <1>6 DEF NodeOK, HasPC
<1>8. PcUp(m) <=> PcUp(n)
  BY <1>6 DEF PcUp, HasPC
<1>9. /\ Rises(s) => PcUp(n)
      /\ n.mem.linked => PcUp(n) \/ Falls(s)
      /\ ~n.mem.here => ~n.mem.linked /\ n.mem.fingerprint = NoId
  BY DEF Reports
<1>10. Reports(m)
  <2>1. ~b.here => ~b.linked /\ b.fingerprint = NoId
    BY <1>5, <1>9
  <2>2. Rises(r) => PcUp(m)
    BY <1>3, <1>8, <1>9
  <2>3. b.linked => PcUp(m) \/ Falls(r)
    BY <1>3, <1>4, <1>5, <1>8, <1>9
  <2> QED BY <1>6, <2>1, <2>2, <2>3 DEF Reports
<1>11. ClearsOnDown(n) => ClearsOnDown(m)
  <2>1. ClearsOnDown(n) <=> UpUnlocked(s) \/ (~Locks(s) /\ (n.mem.linked \/ n.mem.fingerprint = NoId))
    BY DEF ClearsOnDown
  <2>2. ClearsOnDown(m) <=> UpUnlocked(r) \/ (~Locks(r) /\ (b.linked \/ b.fingerprint = NoId))
    BY <1>6 DEF ClearsOnDown
  <2> QED BY <1>3, <1>4, <1>5, <1>9, <2>1, <2>2
<1>12. Clearing(n) => Clearing(m)
  <2>1. Clearing(n) <=> \/ DownUnlocked(s)
                        \/ ~Locks(s) /\ ((n.mem.linked /\ Falls(s)) \/ n.mem.fingerprint = NoId)
    BY DEF Clearing
  <2>2. Clearing(m) <=> \/ DownUnlocked(r)
                        \/ ~Locks(r) /\ ((b.linked /\ Falls(r)) \/ b.fingerprint = NoId)
    BY <1>6 DEF Clearing
  <2> QED BY <1>3, <1>4, <1>5, <1>9, <2>1, <2>2
<1>13. ASSUME NEW h, ShowsOnly(n, h) PROVE ShowsOnly(m, h)
  <2>1. LastLock(s, h) \/ (~Locks(s) /\ n.mem.fingerprint \in {NoId, h})
    BY <1>13 DEF ShowsOnly
  <2>2. ShowsOnly(m, h) <=> LastLock(r, h) \/ (~Locks(r) /\ b.fingerprint \in {NoId, h})
    BY <1>6 DEF ShowsOnly
  <2>3. e = Secure(h) => e.t = "Secure" /\ e.id = h
    BY EventKinds
  <2> QED BY <1>3, <1>4, <1>5, <1>9, <2>1, <2>2, <2>3
<1>14. m = [n EXCEPT !.mem = AfterEvent(@, Head(n.ev), n.sess), !.ev = Tail(@)]
  BY <1>2 DEF m, b, e, r
<1> HIDE DEF s
<1> QED BY <1>6, <1>7, <1>10, <1>11, <1>12, <1>13, <1>14 DEF r, s

-----------------------------------------------------------------------------
(***************************************************************************)
(* What the two ends and the handshake between them have to do with each   *)
(* other.                                                                  *)
(***************************************************************************)
\* (a, b: the offering and the answering end; d1, d2: the handshake frames on
\* their way to each.)
\* A hello on its way is the only frame, there is no session at the offering end,
\* and it comes from the PC of that end; or that PC is gone, and its end clears.
HelloOut(a, b, d1, d2) ==
  d2 # <<>> =>
    /\ HasPC(b) /\ b.pc.remote # NoId
    /\ d2 = <<Frame("KemHello", b.pc.remote)>>
    /\ a.sess = NoId
    /\ d1 = <<>>
    /\ a.pc.id = b.pc.remote => a.pc.open /\ a.pending = a.pc.id /\ Carrying(a)
    /\ a.pc.id # b.pc.remote => Clearing(a)

\* A reply on its way finds its handshake pending, and the other end with no
\* session and no fingerprint but that of this handshake.
ReplyOut(a, b, d1) ==
  d1 # <<>> =>
    /\ Carrying(a) /\ a.pc.open
    /\ d1 = <<Frame("KemReply", a.pc.id)>>
    /\ a.pending = a.pc.id
    /\ b.sess \in {NoId, a.pc.id}
    /\ ShowsOnly(b, a.pc.id)

\* A link with no handshake behind it: what the row shows is from before it went
\* up, and is cleared when it goes down.
NewLinkClears(a) ==
  Carrying(a) /\ (~a.pc.open \/ a.pending = a.pc.id) => ClearsOnDown(a)

SameSession(a, b) == a.sess # NoId /\ b.sess # NoId => a.sess = b.sess

\* Both ends are going to show one fingerprint, or the offering end none, or it
\* is about to be told.
SameShown(a, b, d1) ==
  \/ \E h \in Id : ShowsOnly(a, h) /\ ShowsOnly(b, h)
  \/ d1 # <<>>
  \/ Clearing(a)

Pact(a, b, d1, d2) ==
  /\ HelloOut(a, b, d1, d2)
  /\ ReplyOut(a, b, d1)
  /\ NewLinkClears(a)
  /\ SameSession(a, b)
  /\ SameShown(a, b, d1)

\* Each step keeps the pact, at the one end and at the other: a frame served or a
\* rebuild.
LEMMA OffererMoves ==
  ASSUME NEW a, NodeOK(a), NEW b, NodeOK(b), NEW d1, NEW d2, Pact(a, b, d1, d2),
         NEW m, NEW i \in Id, Moves(a, m, i),
         HasPC(a) => i # a.pc.id, HasPC(b) => i # b.pc.remote
  PROVE  Pact(m, b, IF m.pc.id # a.pc.id THEN <<>> ELSE d1, d2)
<1> DEFINE d == IF m.pc.id # a.pc.id THEN <<>> ELSE d1
<1>1. /\ NodeOK(m) /\ MemMoves(a.mem, m.mem)
      /\ NoId \notin Id
      /\ ~HasPC(a) => a.pc.id = NoId
      /\ HasPC(a) => a.pc.id \in Id
      /\ ~HasPC(m) => m.pc.id = NoId
  BY HasFields DEF Moves, NodeOK
<1>2. m.ev = a.ev \/ m.ev = Append(a.ev, Down)
  BY DEF Moves, Stays, Renewed
<1>3. /\ ClearsOnDown(a) => ClearsOnDown(m)
      /\ Clearing(a) => Clearing(m)
      /\ \A h : ShowsOnly(a, h) => ShowsOnly(m, h)
      /\ ClearsOnDown(a) /\ m.ev = Append(a.ev, Down) => Clearing(m)
  BY <1>1, <1>2, MovedShows
<1>4. CASE Stays(a, m)
  <2>1. /\ m.pc.id = a.pc.id /\ m.sess = a.sess /\ m.pending = a.pending
        /\ Carrying(a) => m.pc.open = a.pc.open
        /\ Carrying(m) <=> Carrying(a)
    BY <1>4 DEF Stays, Carrying
  <2>2. d = d1
    BY <2>1
  <2> HIDE DEF d
  <2>3. HelloOut(m, b, d, d2)
    BY <1>3, <2>1, <2>2 DEF Pact, HelloOut
  <2>4. ReplyOut(m, b, d)
    BY <2>1, <2>2 DEF Pact, ReplyOut
  <2>5. NewLinkClears(m) /\ SameSession(m, b)
    BY <1>3, <2>1 DEF Pact, NewLinkClears, SameSession
  <2>6. SameShown(m, b, d)
    BY <1>3, <2>2 DEF Pact, SameShown
  <2> QED BY <2>3, <2>4, <2>5, <2>6 DEF Pact, d
<1>5. CASE Renewed(a, m, i)
  <2>1. /\ m.sess \in {a.sess, NoId}
        /\ HasPC(a) => m.ev = Append(a.ev, Down)
        /\ HasPC(m) => m.pc.id = i /\ m.pc.st = "new"
    BY <1>5 DEF Renewed
  <2>2. ~Carrying(m)
    BY <2>1 DEF Carrying
  <2>3. HasPC(a) => m.pc.id # a.pc.id
    BY <1>1, <2>1
  <2>4. d = <<>>
    <3>1. CASE HasPC(a)
      BY <2>3, <3>1
    <3>2. CASE ~HasPC(a)
      <4>1. d1 = <<>>
        BY <3>2 DEF Pact, ReplyOut, Carrying
      <4> QED BY <4>1
    <3> QED BY <3>1, <3>2
  <2>5. Carrying(a) /\ a.pending = a.pc.id => Clearing(m)
    <3> SUFFICES ASSUME Carrying(a), a.pending = a.pc.id PROVE Clearing(m)
      OBVIOUS
    <3>1. ClearsOnDown(a)
      BY DEF Pact, NewLinkClears
    <3>2. m.ev = Append(a.ev, Down)
      BY <2>1 DEF Carrying
    <3> QED BY <1>3, <3>1, <3>2
  <2> HIDE DEF d
  <2>6. HelloOut(m, b, d, d2)
    <3> SUFFICES ASSUME d2 # <<>> PROVE HelloOut(m, b, d, d2)
      BY DEF HelloOut
    <3>1. /\ HasPC(b) /\ b.pc.remote # NoId
          /\ d2 = <<Frame("KemHello", b.pc.remote)>>
          /\ a.sess = NoId
          /\ a.pc.id = b.pc.remote => a.pending = a.pc.id /\ Carrying(a)
          /\ a.pc.id # b.pc.remote => Clearing(a)
      BY DEF Pact, HelloOut
    <3>2. Clearing(m)
      BY <1>3, <2>5, <3>1
    <3>3. m.pc.id # b.pc.remote
      BY <1>1, <2>1, <3>1
    <3>4. m.sess = NoId
      BY <2>1, <3>1
    <3> QED BY <2>4, <3>1, <3>2, <3>3, <3>4 DEF HelloOut
  <2>7. ReplyOut(m, b, d)
    BY <2>4 DEF ReplyOut
  <2>8. NewLinkClears(m) /\ SameSession(m, b)
    BY <2>1, <2>2 DEF Pact, NewLinkClears, SameSession
  <2>9. SameShown(m, b, d)
    <3>1. CASE d1 # <<>>
      <4>1. Carrying(a) /\ a.pending = a.pc.id
        BY <3>1 DEF Pact, ReplyOut
      <4> QED BY <2>5, <4>1 DEF SameShown
    <3>2. CASE d1 = <<>>
      BY <1>3, <3>2 DEF Pact, SameShown
    <3> QED BY <3>1, <3>2
  <2> QED BY <2>6, <2>7, <2>8, <2>9 DEF Pact, d
<1> QED BY <1>4, <1>5 DEF Moves

LEMMA AnswererMoves ==
  ASSUME NEW a, NodeOK(a), NEW b, NodeOK(b), NEW d1, NEW d2, Pact(a, b, d1, d2),
         NEW m, NEW i \in Id, Moves(b, m, i), HasPC(b) => i # b.pc.id
  PROVE  Pact(a, m, d1, IF m.pc.id # b.pc.id THEN <<>> ELSE d2)
<1> DEFINE d == IF m.pc.id # b.pc.id THEN <<>> ELSE d2
<1>1. /\ NodeOK(m) /\ MemMoves(b.mem, m.mem)
      /\ NoId \notin Id
      /\ HasPC(b) => b.pc.id \in Id
      /\ ~HasPC(m) => m.pc.id = NoId
  BY HasFields DEF Moves, NodeOK
<1>2. m.ev = b.ev \/ m.ev = Append(b.ev, Down)
  BY DEF Moves, Stays, Renewed
<1>3. \A h : ShowsOnly(b, h) => ShowsOnly(m, h)
  BY <1>1, <1>2, MovedShows
<1>4. m.sess \in {b.sess, NoId}
  BY DEF Moves, Stays, Renewed
<1>5. HelloOut(a, m, d1, d)
  <2>1. CASE Stays(b, m)
    <3>1. /\ HasPC(m) <=> HasPC(b)
          /\ HasPC(b) /\ b.pc.remote # NoId => m.pc.remote = b.pc.remote
          /\ d = d2
      BY <2>1 DEF Stays
    <3> HIDE DEF d
    <3> QED BY <3>1 DEF Pact, HelloOut
  <2>2. CASE Renewed(b, m, i)
    <3>1. d = <<>>
      <4>1. CASE HasPC(b)
        <5>1. m.pc.id # b.pc.id
          BY <1>1, <2>2, <4>1 DEF Renewed
        <5> QED BY <5>1
      <4>2. CASE ~HasPC(b)
        <5>1. d2 = <<>>
          BY <4>2 DEF Pact, HelloOut
        <5> QED BY <5>1
      <4> QED BY <4>1, <4>2
    <3> QED BY <3>1 DEF HelloOut
  <2> QED BY <2>1, <2>2 DEF Moves
<1> HIDE DEF d
<1>6. ReplyOut(a, m, d1)
  BY <1>3, <1>4 DEF Pact, ReplyOut
<1>7. NewLinkClears(a) /\ SameSession(a, m)
  BY <1>4 DEF Pact, SameSession
<1>8. SameShown(a, m, d1)
  BY <1>3 DEF Pact, SameShown
<1> QED BY <1>5, <1>6, <1>7, <1>8 DEF Pact, d

\* A report of the PC: it is in the state x, and the event e tells so.
Marked(n, m, x, e) ==
  /\ HasPC(n) /\ HasPC(m) /\ NodeOK(m)
  /\ m.mem = n.mem /\ m.sess = n.sess /\ m.pending = n.pending
  /\ m.ev = Append(n.ev, e)
  /\ m.pc.st = x /\ m.pc.id = n.pc.id /\ m.pc.remote = n.pc.remote /\ m.pc.open = n.pc.open

LEMMA MarkIs ==
  ASSUME NEW n, NodeOK(n), HasPC(n), NEW x \in {"connected", "disconnected", "failed"},
         NEW e \in {Up, Down}
  PROVE  Marked(n, [n EXCEPT !.pc.st = x, !.ev = Append(@, e)], x, e)
<1> DEFINE c == [n.pc EXCEPT !.st = x]
           s == Append(n.ev, e)
           m == [n EXCEPT !.pc = c, !.ev = s]
<1>1. /\ n \in NodeType /\ n.pc \in PCType /\ n.pc.id \in Id /\ NoId \notin Id
      /\ n.ev \in Seq(EventType)
  BY HasFields DEF NodeOK
<1>2. /\ c \in PCType /\ c.st = x /\ c.id = n.pc.id /\ c.remote = n.pc.remote
      /\ c.open = n.pc.open /\ c.pending_ice = n.pc.pending_ice
  BY <1>1 DEF PCType
<1>3. s \in Seq(EventType)
  BY <1>1, Appended, EventKinds
<1>4. [n EXCEPT !.pc.st = x, !.ev = Append(@, e)] = m
  BY <1>1 DEF NodeType
<1> HIDE DEF c, s
<1>5. /\ m \in NodeType /\ m.pc = c /\ m.ev = s /\ m.mem = n.mem /\ m.sess = n.sess
      /\ m.pending = n.pending
  BY <1>1, <1>2, <1>3 DEF NodeType
<1>6. c # NoPC
  BY <1>1, <1>2 DEF NoPC
<1> HIDE DEF m
<1>7. NodeOK(m) /\ HasPC(m)
  BY <1>2, <1>5, <1>6 DEF NodeOK, HasPC
<1>8. s = Append(n.ev, e)
  BY DEF s
<1> QED BY <1>2, <1>4, <1>5, <1>7, <1>8 DEF Marked

LEMMA MarkedShows ==
  ASSUME NEW n, NodeOK(n), NEW m, NEW x, NEW e \in {Up, Down}, Marked(n, m, x, e)
  PROVE  /\ e = Up => ClearsOnDown(m)
         /\ ClearsOnDown(n) => ClearsOnDown(m)
         /\ Clearing(n) => Clearing(m)
         /\ \A h : ShowsOnly(n, h) <=> ShowsOnly(m, h)
<1> DEFINE s == n.ev  a == Append(s, e)
<1>1. /\ Falls(a) <=> Falls(s) \/ e = Down
      /\ Locks(a) <=> Locks(s)
      /\ UpUnlocked(a) <=> e = Up \/ UpUnlocked(s)
      /\ DownUnlocked(s) => DownUnlocked(a)
      /\ \A h : LastLock(a, h) <=> LastLock(s, h)
  BY HasFields, Appended, EventKinds DEF NodeOK
<1>2. m.ev = a /\ m.mem = n.mem
  BY DEF Marked
<1> HIDE DEF a
<1> QED BY <1>1, <1>2 DEF ClearsOnDown, Clearing, ShowsOnly, s

\* A report of the PC keeps the pact.
LEMMA OffererMarked ==
  ASSUME NEW a, NodeOK(a), NEW b, NEW d1, NEW d2, Pact(a, b, d1, d2),
         NEW m, NEW x, NEW e \in {Up, Down}, Marked(a, m, x, e),
         Carrying(m) => e = Up \/ Carrying(a),
         Carrying(m) \/ (d1 = <<>> /\ d2 = <<>>)
  PROVE  Pact(m, b, d1, d2)
<1>1. /\ m.sess = a.sess /\ m.pending = a.pending /\ m.pc.id = a.pc.id /\ m.pc.open = a.pc.open
  BY DEF Marked
<1>2. /\ e = Up => ClearsOnDown(m)
      /\ ClearsOnDown(a) => ClearsOnDown(m)
      /\ Clearing(a) => Clearing(m)
      /\ \A h : ShowsOnly(a, h) <=> ShowsOnly(m, h)
  BY MarkedShows
<1>3. HelloOut(m, b, d1, d2)
  BY <1>1, <1>2 DEF Pact, HelloOut
<1>4. ReplyOut(m, b, d1)
  BY <1>1 DEF Pact, ReplyOut
<1>5. NewLinkClears(m) /\ SameSession(m, b) /\ SameShown(m, b, d1)
  BY <1>1, <1>2 DEF Pact, NewLinkClears, SameSession, SameShown
<1> QED BY <1>3, <1>4, <1>5 DEF Pact

LEMMA AnswererMarked ==
  ASSUME NEW a, NEW b, NodeOK(b), NEW d1, NEW d2, Pact(a, b, d1, d2),
         NEW m, NEW x, NEW e \in {Up, Down}, Marked(b, m, x, e)
  PROVE  Pact(a, m, d1, d2)
<1>1. m.sess = b.sess /\ HasPC(m) /\ m.pc.remote = b.pc.remote
  BY DEF Marked
<1>2. \A h : ShowsOnly(b, h) <=> ShowsOnly(m, h)
  BY MarkedShows
<1>3. HelloOut(a, m, d1, d2)
  BY <1>1 DEF Pact, HelloOut
<1>4. ReplyOut(a, m, d1)
  BY <1>1, <1>2 DEF Pact, ReplyOut
<1>5. NewLinkClears(a) /\ SameSession(a, m) /\ SameShown(a, m, d1)
  BY <1>1, <1>2 DEF Pact, SameSession, SameShown
<1> QED BY <1>3, <1>4, <1>5 DEF Pact

\* A report that arrives in the row keeps it.
LEMMA OffererSettles ==
  ASSUME NEW a, NEW b, NEW d1, NEW d2, Pact(a, b, d1, d2),
         NEW m, m.pc = a.pc, m.sess = a.sess, m.pending = a.pending,
         ClearsOnDown(a) => ClearsOnDown(m), Clearing(a) => Clearing(m),
         \A h : ShowsOnly(a, h) => ShowsOnly(m, h)
  PROVE  Pact(m, b, d1, d2)
<1>1. Carrying(m) <=> Carrying(a)
  BY DEF Carrying, HasPC
<1> QED BY <1>1 DEF Pact, HelloOut, ReplyOut, NewLinkClears, SameSession, SameShown

LEMMA AnswererSettles ==
  ASSUME NEW a, NEW b, NEW d1, NEW d2, Pact(a, b, d1, d2),
         NEW m, m.pc = b.pc, m.sess = b.sess,
         \A h : ShowsOnly(b, h) => ShowsOnly(m, h)
  PROVE  Pact(a, m, d1, d2)
BY DEF Pact, HelloOut, ReplyOut, SameSession, SameShown, HasPC

\* The data channel opens, and the hello goes out.
LEMMA OpenIs ==
  ASSUME NEW n, NodeOK(n), HasPC(n), n.pc.st = "connected"
  PROVE  LET m == Begin([n EXCEPT !.pc.open = TRUE]) IN
         /\ NodeOK(m) /\ m.mem = n.mem /\ m.ev = n.ev
         /\ m.pc.id = n.pc.id /\ m.pc.open /\ Carrying(m) /\ PcUp(m)
         /\ m.pending = n.pc.id /\ m.sess = NoId
<1> DEFINE c == [n.pc EXCEPT !.open = TRUE]
           k == [n EXCEPT !.pc.open = TRUE]
           m == Begin(k)
<1>1. n \in NodeType /\ n.pc \in PCType /\ n.pc.id \in Id /\ NoId \notin Id
  BY HasFields DEF NodeOK
<1>2. /\ c \in PCType /\ c.st = n.pc.st /\ c.id = n.pc.id /\ c.open
      /\ c.pending_ice = n.pc.pending_ice
  BY <1>1 DEF PCType
<1>3. k = [n EXCEPT !.pc = c]
  BY <1>1 DEF NodeType
<1> HIDE DEF c
<1>4. /\ k \in NodeType /\ k.pc = c /\ k.ev = n.ev /\ k.mem = n.mem
  BY <1>1, <1>2, <1>3 DEF NodeType
<1> HIDE DEF k
<1>5. m = [k EXCEPT !.pending = k.pc.id, !.sess = NoId]
  BY DEF Begin
<1> HIDE DEF m
<1>6. /\ m \in NodeType /\ m.pc = c /\ m.ev = n.ev /\ m.mem = n.mem /\ m.pending = n.pc.id
      /\ m.sess = NoId
  BY <1>1, <1>2, <1>4, <1>5 DEF NodeType
<1>7. c # NoPC
  BY <1>1, <1>2 DEF NoPC
<1>8. NodeOK(m) /\ Carrying(m) /\ PcUp(m)
  BY <1>2, <1>6, <1>7 DEF NodeOK, HasPC, Carrying, PcUp
<1> QED BY <1>2, <1>6, <1>8 DEF m, k

LEMMA OffererOpens ==
  ASSUME NEW a, NodeOK(a), NEW b, NodeOK(b), NEW d1, NEW d2, Pact(a, b, d1, d2),
         HasPC(a), HasPC(b), a.pc.st = "connected", ~a.pc.open, b.pc.remote = a.pc.id,
         NEW m, m.mem = a.mem, m.ev = a.ev, m.pc.id = a.pc.id, m.pc.open, Carrying(m),
         m.pending = a.pc.id, m.sess = NoId
  PROVE  d2 = <<>> /\ Pact(m, b, d1, <<Frame("KemHello", a.pc.id)>>)
<1>1. a.pc.id # NoId
  BY HasFields DEF NodeOK
<1>2. d2 = <<>>
  BY DEF Pact, HelloOut
<1>3. d1 = <<>>
  BY DEF Pact, ReplyOut
<1>4. Carrying(a)
  BY DEF Carrying
<1>5. ClearsOnDown(a) /\ (ClearsOnDown(m) <=> ClearsOnDown(a))
  BY <1>4 DEF Pact, NewLinkClears, ClearsOnDown
<1>6. HelloOut(m, b, d1, <<Frame("KemHello", a.pc.id)>>)
  BY <1>1, <1>3 DEF HelloOut
<1>7. ReplyOut(m, b, d1) /\ NewLinkClears(m) /\ SameSession(m, b)
  BY <1>3, <1>5 DEF ReplyOut, NewLinkClears, SameSession
<1>8. (Clearing(m) <=> Clearing(a)) /\ \A h : ShowsOnly(m, h) <=> ShowsOnly(a, h)
  BY DEF Clearing, ShowsOnly
<1>9. SameShown(m, b, d1)
  BY <1>8 DEF Pact, SameShown
<1> QED BY <1>2, <1>6, <1>7, <1>9 DEF Pact

\* The session of a handshake with the PC h, and the report of it.
Secured(n, m, h) ==
  /\ NodeOK(m) /\ m.pc = n.pc /\ m.mem = n.mem
  /\ m.sess = h /\ m.ev = Append(n.ev, Secure(h))

LEMMA SecuredIs ==
  ASSUME NEW n, NodeOK(n), NEW h \in Id
  PROVE  /\ Secured(n, [n EXCEPT !.sess = h, !.ev = Append(@, Secure(h))], h)
         /\ Secured(n, [n EXCEPT !.pending = NoId, !.sess = h, !.ev = Append(@, Secure(h))], h)
         /\ [n EXCEPT !.pending = NoId, !.sess = h, !.ev = Append(@, Secure(h))].pending = NoId
         /\ [n EXCEPT !.sess = h, !.ev = Append(@, Secure(h))].pending = n.pending
<1> DEFINE s == Append(n.ev, Secure(h))
           k == [n EXCEPT !.sess = h, !.ev = s]
           l == [n EXCEPT !.pending = NoId, !.sess = h, !.ev = s]
<1>1. n \in NodeType /\ n.ev \in Seq(EventType)
  BY HasFields DEF NodeOK
<1>2. s \in Seq(EventType)
  BY <1>1, Appended, EventKinds
<1>3. /\ k = [n EXCEPT !.sess = h, !.ev = Append(@, Secure(h))]
      /\ l = [n EXCEPT !.pending = NoId, !.sess = h, !.ev = Append(@, Secure(h))]
  BY <1>1 DEF NodeType
<1> HIDE DEF s
<1>4. /\ k \in NodeType /\ k.pc = n.pc /\ k.mem = n.mem /\ k.sess = h /\ k.ev = s
      /\ k.pending = n.pending
  BY <1>1, <1>2 DEF NodeType
<1>5. /\ l \in NodeType /\ l.pc = n.pc /\ l.mem = n.mem /\ l.sess = h /\ l.ev = s
      /\ l.pending = NoId
  BY <1>1, <1>2 DEF NodeType
<1> HIDE DEF k, l
<1>6. NodeOK(k) /\ NodeOK(l)
  BY <1>4, <1>5 DEF NodeOK, HasPC
<1> QED BY <1>3, <1>4, <1>5, <1>6 DEF Secured, s

LEMMA SecuredShows ==
  ASSUME NEW n, NodeOK(n), NEW m, NEW h \in Id, Secured(n, m, h)
  PROVE  ShowsOnly(m, h) /\ (Reports(n) => Reports(m))
<1> DEFINE s == n.ev  a == Append(s, Secure(h))
<1>1. s \in Seq(EventType)
  BY HasFields DEF NodeOK
<1>2. LastLock(a, h) /\ (Rises(a) => Rises(s)) /\ (Falls(s) => Falls(a))
  BY <1>1, Appended, EventKinds
<1>3. m.ev = a /\ m.mem = n.mem /\ m.pc = n.pc
  BY DEF Secured
<1> HIDE DEF a
<1>4. PcUp(m) <=> PcUp(n)
  BY <1>3 DEF PcUp, HasPC
<1> QED BY <1>2, <1>3, <1>4 DEF ShowsOnly, Reports

\* The hello arrives: the other end has a session and replies.
LEMMA AnswererSecures ==
  ASSUME NEW a, NodeOK(a), NEW b, NodeOK(b), NEW d1, NEW d2, Pact(a, b, d1, d2), d2 # <<>>,
         NEW m, Secured(b, m, b.pc.remote)
  PROVE  /\ d1 = <<>>
         /\ Pact(a, m, IF a.pc.id = b.pc.remote THEN <<Frame("KemReply", b.pc.remote)>> ELSE <<>>,
                 <<>>)
<1> DEFINE h == b.pc.remote
           d == IF a.pc.id = h THEN <<Frame("KemReply", h)>> ELSE <<>>
<1>1. /\ HasPC(b) /\ h # NoId
      /\ a.sess = NoId
      /\ d1 = <<>>
      /\ a.pc.id = h => a.pc.open /\ a.pending = a.pc.id /\ Carrying(a)
      /\ a.pc.id # h => Clearing(a)
  BY DEF Pact, HelloOut
<1>2. h \in Id
  BY <1>1, HasFields DEF NodeOK, PCType
<1>3. ShowsOnly(m, h) /\ m.sess = h
  BY <1>2, SecuredShows DEF Secured
<1>4. a.pc.id = h => d = <<Frame("KemReply", h)>> /\ d # <<>>
  OBVIOUS
<1>5. a.pc.id # h => d = <<>>
  OBVIOUS
<1> HIDE DEF d, h
<1>6. HelloOut(a, m, d, <<>>)
  BY DEF HelloOut
<1>7. ReplyOut(a, m, d)
  BY <1>1, <1>3, <1>4, <1>5 DEF ReplyOut
<1>8. NewLinkClears(a) /\ SameSession(a, m)
  BY <1>1 DEF Pact, SameSession
<1>9. SameShown(a, m, d)
  BY <1>1, <1>4, <1>5 DEF SameShown
<1> QED BY <1>1, <1>6, <1>7, <1>8, <1>9 DEF Pact, d, h

\* The reply arrives: both ends have the session.
LEMMA OffererSecures ==
  ASSUME NEW a, NodeOK(a), NEW b, NEW d1, NEW d2, Pact(a, b, d1, d2), d1 # <<>>,
         NEW m, Secured(a, m, a.pc.id), m.pending = NoId
  PROVE  d2 = <<>> /\ Pact(m, b, <<>>, <<>>)
<1> DEFINE h == a.pc.id
<1>1. Carrying(a) /\ a.pc.open /\ b.sess \in {NoId, h} /\ ShowsOnly(b, h)
  BY DEF Pact, ReplyOut
<1>2. h \in Id /\ NoId \notin Id
  BY <1>1, HasFields DEF NodeOK, Carrying
<1>3. d2 = <<>>
  BY DEF Pact, HelloOut
<1>4. ShowsOnly(m, h) /\ m.sess = h /\ m.pc = a.pc
  BY <1>2, SecuredShows DEF Secured
<1>5. HelloOut(m, b, <<>>, <<>>) /\ ReplyOut(m, b, <<>>)
  BY DEF HelloOut, ReplyOut
<1>6. NewLinkClears(m)
  BY <1>1, <1>2, <1>4 DEF NewLinkClears
<1>7. SameSession(m, b)
  BY <1>1, <1>4 DEF SameSession
<1>8. SameShown(m, b, <<>>)
  BY <1>1, <1>2, <1>4 DEF SameShown
<1> QED BY <1>3, <1>5, <1>6, <1>7, <1>8 DEF Pact

\* A process that starts shows nothing.
LEMMA NewNodeIs ==
  /\ NodeOK(NewNode) /\ Reports(NewNode) /\ ~HasPC(NewNode) /\ ~Carrying(NewNode)
  /\ NewNode.sess = NoId /\ NewNode.pc.id = NoId
  /\ Clearing(NewNode) /\ \A h : ShowsOnly(NewNode, h)
<1>1. /\ ~Falls(<<>>) /\ ~Rises(<<>>) /\ ~Locks(<<>>)
  BY DEF Falls, Rises, Locks
<1>2. <<>> \in Seq(EventType)
  OBVIOUS
<1>3. NewNode.mem = NoMember /\ NewNode.ev = <<>> /\ NewNode.pc = NoPC /\ NewNode.sess = NoId
  BY DEF NewNode
<1>4. NewNode \in NodeType
  BY <1>2, NoMemberIs DEF NewNode, NodeType, MemberType
<1>5. NodeOK(NewNode) /\ ~HasPC(NewNode) /\ NewNode.pc.id = NoId
  BY <1>3, <1>4 DEF NodeOK, HasPC, NoPC
<1> QED BY <1>1, <1>3, <1>5, NoMemberIs DEF Reports, Carrying, Clearing, ShowsOnly

LEMMA OffererRestarts ==
  ASSUME NEW a, NEW b, NEW d1, NEW d2, Pact(a, b, d1, d2)
  PROVE  Pact(NewNode, b, <<>>, d2)
<1>1. HelloOut(NewNode, b, <<>>, d2)
  BY NewNodeIs DEF Pact, HelloOut
<1>2. ReplyOut(NewNode, b, <<>>)
  BY DEF ReplyOut
<1> QED BY <1>1, <1>2, NewNodeIs DEF Pact, NewLinkClears, SameSession, SameShown

LEMMA AnswererRestarts ==
  ASSUME NEW a, NEW b, NEW d1, NEW d2, Pact(a, b, d1, d2)
  PROVE  Pact(a, NewNode, d1, <<>>)
<1>1. HelloOut(a, NewNode, d1, <<>>)
  BY DEF HelloOut
<1>2. ReplyOut(a, NewNode, d1)
  BY NewNodeIs DEF Pact, ReplyOut
<1> QED BY <1>1, <1>2, NewNodeIs DEF Pact, SameSession, SameShown

-----------------------------------------------------------------------------
(***************************************************************************)
(* The invariant and its steps, one lemma per action or kind of action.    *)
(***************************************************************************)
\* Handshake frames.
ChanFrame == [t : {"KemHello", "KemReply"}, id : Id]

\* Both processes have their type, and what is reported is true.
NodesOK == \A p \in Peer : NodeOK(node[p]) /\ Reports(node[p])

\* The inductive invariant of a link.
LinkInv ==
  /\ node \in [Peer -> NodeType]
  /\ NodesOK
  /\ SigTyped
  /\ dc \in [Peer -> Seq(ChanFrame)]
  /\ up \subseteq Peer /\ room \subseteq Peer
  /\ faults \in 0..MaxFaults
  /\ Pact(node[1], node[2], dc[1], dc[2])

LEMMA LinkInvInit == Init => LinkInv
<1> SUFFICES ASSUME Init PROVE LinkInv
  OBVIOUS
<1>1. node[1] = NewNode /\ node[2] = NewNode /\ dc[1] = <<>> /\ dc[2] = <<>>
  BY DEF Init, Peer
<1>2. NodesOK /\ node \in [Peer -> NodeType]
  BY NewNodeIs DEF Init, NodesOK, NodeOK
<1>3. sig \in [Peer -> Seq(SigFrame)] /\ dc \in [Peer -> Seq(ChanFrame)]
  BY DEF Init
<1>4. Pact(NewNode, NewNode, <<>>, <<>>)
  BY NewNodeIs DEF Pact, HelloOut, ReplyOut, NewLinkClears, SameSession, SameShown
<1> QED BY <1>1, <1>2, <1>3, <1>4, LinkConstants DEF LinkInv, Init, SigTyped

\* The two ends.
LEMMA Peers == Peer = {1, 2} /\ Other(1) = 2 /\ Other(2) = 1 /\ Offers(1) /\ ~Offers(2)
BY DEF Peer, Other, Offers

\* One process takes a step.
LEMMA NodeStep ==
  ASSUME node \in [Peer -> NodeType], NodesOK, NEW p \in Peer, NEW m, NodeOK(m), Reports(m),
         node' = [node EXCEPT ![p] = m]
  PROVE  /\ node' \in [Peer -> NodeType] /\ NodesOK'
         /\ node'[p] = m /\ \A q \in Peer : q # p => node'[q] = node[q]
<1>1. m \in NodeType
  BY DEF NodeOK
<1>2. node' \in [Peer -> NodeType] /\ node'[p] = m /\ \A q \in Peer : q # p => node'[q] = node[q]
  BY <1>1
<1>3. \A q \in Peer : NodeOK(node'[q]) /\ Reports(node'[q])
  BY <1>2 DEF NodesOK
<1> QED BY <1>2, <1>3 DEF NodesOK

\* An id that nothing refers to is not that of a PC.
LEMMA IdsUsed ==
  ASSUME NEW i, i \notin UsedIds, NEW p \in Peer, HasPC(node[p])
  PROVE  i # node[p].pc.id /\ i # node[p].pc.remote
<1>1. IdsOf(node[p]) \subseteq UsedIds
  BY DEF UsedIds
<1>2. node[p].pc.id \in IdsOf(node[p]) /\ node[p].pc.remote \in IdsOf(node[p])
  BY DEF IdsOf
<1> QED BY <1>1, <1>2

\* A process serves a frame, or the watchdog rebuilds.
LEMMA ProcessedKeeps ==
  ASSUME LinkInv, NEW p \in Peer, Processed(p), faults' \in 0..MaxFaults
  PROVE  LinkInv'
<1>1. PICK m, i : /\ i \in Id \ UsedIds
                  /\ Moves(node[p], m, i)
                  /\ node' = [node EXCEPT ![p] = m]
                  /\ dc' = IF m.pc.id # node[p].pc.id THEN [dc EXCEPT ![p] = <<>>] ELSE dc
                  /\ sig' \in [Peer -> Seq(SigFrame)]
                  /\ up' = up /\ room' = room
  BY DEF Processed
<1>2. NodeOK(node[p]) /\ Reports(node[p]) /\ NodeOK(m)
  BY <1>1 DEF LinkInv, NodesOK, Moves
<1>3. Reports(m)
  BY <1>1, <1>2, MovedReports
<1>4. /\ node' \in [Peer -> NodeType] /\ NodesOK'
      /\ node'[p] = m /\ \A q \in Peer : q # p => node'[q] = node[q]
  BY <1>1, <1>2, <1>3, NodeStep DEF LinkInv
<1>5. dc' \in [Peer -> Seq(ChanFrame)]
  <2>1. <<>> \in Seq(ChanFrame)
    OBVIOUS
  <2> QED BY <1>1, <2>1 DEF LinkInv
<1>6. Pact(node'[1], node'[2], dc'[1], dc'[2])
  <2>1. NodeOK(node[1]) /\ NodeOK(node[2]) /\ Pact(node[1], node[2], dc[1], dc[2])
    BY Peers DEF LinkInv, NodesOK
  <2>2. /\ HasPC(node[1]) => i # node[1].pc.id
        /\ HasPC(node[2]) => i # node[2].pc.id /\ i # node[2].pc.remote
    BY <1>1, IdsUsed, Peers
  <2>3. DOMAIN dc = Peer
    BY DEF LinkInv
  <2>4. CASE p = 1
    <3>1. Pact(m, node[2], IF m.pc.id # node[1].pc.id THEN <<>> ELSE dc[1], dc[2])
      BY <1>1, <2>1, <2>2, <2>4, OffererMoves
    <3>2. /\ dc'[1] = (IF m.pc.id # node[1].pc.id THEN <<>> ELSE dc[1]) /\ dc'[2] = dc[2]
      BY <1>1, <2>3, <2>4, Peers
    <3> QED BY <1>4, <2>4, <3>1, <3>2, Peers
  <2>5. CASE p = 2
    <3>1. Pact(node[1], m, dc[1], IF m.pc.id # node[2].pc.id THEN <<>> ELSE dc[2])
      BY <1>1, <2>1, <2>2, <2>5, AnswererMoves
    <3>2. /\ dc'[2] = (IF m.pc.id # node[2].pc.id THEN <<>> ELSE dc[2]) /\ dc'[1] = dc[1]
      BY <1>1, <2>3, <2>5, Peers
    <3> QED BY <1>4, <2>5, <3>1, <3>2, Peers
  <2> QED BY <2>4, <2>5, Peers
<1> QED BY <1>1, <1>4, <1>5, <1>6 DEF LinkInv, SigTyped

LEMMA ServeKeeps ==
  ASSUME LinkInv, IdsSuffice, NEW p \in Peer, Serve(p) \/ Watchdog(p) \/ PrematureRetry(p)
  PROVE  LinkInv'
<1>1. Ready(p)
  BY DEF LinkInv, NodesOK, Ready
<1>2. Serve(p) \/ Retry(p)
  BY DEF Watchdog, PrematureRetry
<1>3. Processed(p)
  BY <1>1, <1>2, ServeProcesses
<1>4. faults' \in 0..MaxFaults
  BY LinkConstants DEF LinkInv, Serve, Watchdog, PrematureRetry, Fault
<1> QED BY <1>3, <1>4, ProcessedKeeps

\* A report of the PC: its state is x, and the event e tells so.
LEMMA MarkedKeeps ==
  ASSUME LinkInv, NEW p \in Peer, NEW x \in {"connected", "disconnected", "failed"},
         NEW e \in {Up, Down}, HasPC(node[p]),
         Local(p, [node[p] EXCEPT !.pc.st = x, !.ev = Append(@, e)]),
         e = Up <=> x = "connected",
         x = "disconnected" => node[p].pc.st = "connected",
         x = "failed" => \A q \in Peer : dc[q] = <<>>,
         UNCHANGED <<sig, dc, up, room>>, faults' \in 0..MaxFaults
  PROVE  LinkInv'
<1> DEFINE n == node[p]
           m == [n EXCEPT !.pc.st = x, !.ev = Append(@, e)]
<1>1. NodeOK(n) /\ Reports(n) /\ HasPC(n)
  BY DEF LinkInv, NodesOK
<1>2. node' = [node EXCEPT ![p] = m]
  BY DEF Local
<1>3. Marked(n, m, x, e)
  BY <1>1, MarkIs
<1> HIDE DEF m
<1>4. NodeOK(m) /\ HasPC(m)
  BY <1>3 DEF Marked
<1>5. Reports(m)
  <2>1. /\ n.ev \in Seq(EventType) /\ m.ev = Append(n.ev, e) /\ m.mem = n.mem
        /\ PcUp(m) <=> x = "connected"
    BY <1>1, <1>3, HasFields DEF Marked, NodeOK, PcUp
  <2>2. /\ Rises(m.ev) => e = Up \/ (Rises(n.ev) /\ e # Down)
        /\ Falls(m.ev) <=> Falls(n.ev) \/ e = Down
    BY <2>1, Appended, EventKinds
  <2>3. e = Up \/ e = Down
    OBVIOUS
  <2> QED BY <1>1, <2>1, <2>2, <2>3 DEF Reports
<1>6. /\ node' \in [Peer -> NodeType] /\ NodesOK'
      /\ node'[p] = m /\ \A q \in Peer : q # p => node'[q] = node[q]
  BY <1>2, <1>4, <1>5, NodeStep DEF LinkInv
<1>7. Pact(node'[1], node'[2], dc[1], dc[2])
  <2>1. NodeOK(node[1]) /\ NodeOK(node[2]) /\ Pact(node[1], node[2], dc[1], dc[2])
    BY Peers DEF LinkInv, NodesOK
  <2>2. CASE p = 1
    <3>1. Carrying(m) <=> x # "failed"
      BY <1>3 DEF Marked, Carrying
    <3>2. Carrying(m) => e = Up \/ Carrying(n)
      BY <3>1, <1>1 DEF Carrying
    <3>3. Carrying(m) \/ (dc[1] = <<>> /\ dc[2] = <<>>)
      BY <3>1, Peers
    <3>4. Marked(node[1], m, x, e) /\ (Carrying(m) => e = Up \/ Carrying(node[1]))
      BY <1>3, <2>2, <3>2
    <3>5. Pact(m, node[2], dc[1], dc[2])
      BY <2>1, <3>3, <3>4, OffererMarked
    <3> QED BY <1>6, <2>2, <3>5, Peers
  <2>3. CASE p = 2
    <3>1. Marked(node[2], m, x, e)
      BY <1>3, <2>3
    <3>2. Pact(node[1], m, dc[1], dc[2])
      BY <2>1, <3>1, AnswererMarked
    <3> QED BY <1>6, <2>3, <3>2, Peers
  <2> QED BY <2>2, <2>3, Peers
<1> QED BY <1>6, <1>7 DEF LinkInv, SigTyped

\* Connected, Failed and Disconnected.
LEMMA ReportsKeep ==
  ASSUME LinkInv, NEW p \in Peer, Connected(p) \/ Failed(p) \/ Disconnected(p)
  PROVE  LinkInv'
<1>1. faults \in 0..MaxFaults
  BY DEF LinkInv
<1>2. ASSUME Connected(p) PROVE LinkInv'
  <2>1. /\ HasPC(node[p])
        /\ Local(p, [node[p] EXCEPT !.pc.st = "connected", !.ev = Append(@, Up)])
        /\ UNCHANGED <<sig, dc, up, room>> /\ faults' \in 0..MaxFaults
    BY <1>1, <1>2 DEF Connected, Wired, Alive
  <2> QED BY <2>1, MarkedKeeps
<1>3. ASSUME Failed(p) PROVE LinkInv'
  <2>1. /\ HasPC(node[p])
        /\ Local(p, [node[p] EXCEPT !.pc.st = "failed", !.ev = Append(@, Down)])
        /\ UNCHANGED <<sig, dc, up, room>> /\ faults' \in 0..MaxFaults
        /\ \A q \in Peer : dc[q] = <<>>
    BY <1>1, <1>3 DEF Failed, Alive, Quiet
  <2>2. Up # Down
    BY EventKinds
  <2> QED BY <2>1, <2>2, MarkedKeeps
<1>4. ASSUME Disconnected(p) PROVE LinkInv'
  <2>1. /\ HasPC(node[p]) /\ node[p].pc.st = "connected"
        /\ Local(p, [node[p] EXCEPT !.pc.st = "disconnected", !.ev = Append(@, Down)])
        /\ UNCHANGED <<sig, dc, up, room>>
    BY <1>4 DEF Disconnected
  <2>2. faults' \in 0..MaxFaults
    BY <1>1, <1>4, LinkConstants DEF Disconnected, Fault
  <2>3. Up # Down
    BY EventKinds
  <2> QED BY <2>1, <2>2, <2>3, MarkedKeeps
<1> QED BY <1>2, <1>3, <1>4

\* The engine loop takes a report.
LEMMA EventKeeps ==
  ASSUME LinkInv, NEW p \in Peer, OnEvent(p)
  PROVE  LinkInv'
<1> DEFINE n == node[p]
           m == [n EXCEPT !.mem = AfterEvent(@, Head(n.ev), n.sess), !.ev = Tail(@)]
<1>1. NodeOK(n) /\ Reports(n) /\ n.ev # <<>>
  BY DEF LinkInv, NodesOK, OnEvent
<1>2. node' = [node EXCEPT ![p] = m] /\ UNCHANGED <<sig, dc, up, room, faults>>
  BY DEF OnEvent, Local
<1>3. /\ NodeOK(m) /\ m.pc = n.pc /\ m.sess = n.sess /\ m.pending = n.pending
      /\ Reports(m)
      /\ ClearsOnDown(n) => ClearsOnDown(m)
      /\ Clearing(n) => Clearing(m)
      /\ \A h : ShowsOnly(n, h) => ShowsOnly(m, h)
  BY <1>1, SettledReports
<1> HIDE DEF m
<1>4. /\ node' \in [Peer -> NodeType] /\ NodesOK'
      /\ node'[p] = m /\ \A q \in Peer : q # p => node'[q] = node[q]
  BY <1>2, <1>3, NodeStep DEF LinkInv
<1>5. Pact(node[1], node[2], dc[1], dc[2])
  BY DEF LinkInv
<1>6. Pact(node'[1], node'[2], dc[1], dc[2])
  <2>1. CASE p = 1
    <3>1. Pact(m, node[2], dc[1], dc[2])
      BY <1>3, <1>5, <2>1, OffererSettles
    <3> QED BY <1>4, <2>1, <3>1, Peers
  <2>2. CASE p = 2
    <3>1. Pact(node[1], m, dc[1], dc[2])
      BY <1>3, <1>5, <2>2, AnswererSettles
    <3> QED BY <1>4, <2>2, <3>1, Peers
  <2> QED BY <2>1, <2>2, Peers
<1> QED BY <1>2, <1>4, <1>6 DEF LinkInv, SigTyped

\* The three steps of the handshake.
LEMMA OpenKeeps ==
  ASSUME LinkInv, NEW p \in Peer, Open(p)
  PROVE  LinkInv'
<1> DEFINE n == node[1]
           m == Begin([n EXCEPT !.pc.open = TRUE])
           f == Frame("KemHello", n.pc.id)
<1>1. p = 1
  BY Peers DEF Open
<1>2. /\ NodeOK(n) /\ Reports(n) /\ NodeOK(node[2])
      /\ Pact(n, node[2], dc[1], dc[2])
  BY Peers DEF LinkInv, NodesOK
<1>3. /\ HasPC(n) /\ HasPC(node[2]) /\ n.pc.st = "connected" /\ ~n.pc.open
      /\ node[2].pc.remote = n.pc.id
  BY <1>1, Peers DEF Open, Wired, Alive
<1>4. /\ node' = [node EXCEPT ![1] = m]
      /\ dc' = [dc EXCEPT ![2] = Append(dc[2], f)]
      /\ UNCHANGED <<sig, up, room, faults>>
  BY <1>1, Peers DEF Open, Local, LinkInv
<1>5. /\ NodeOK(m) /\ m.mem = n.mem /\ m.ev = n.ev
      /\ m.pc.id = n.pc.id /\ m.pc.open /\ Carrying(m) /\ PcUp(m)
      /\ m.pending = n.pc.id /\ m.sess = NoId
  BY <1>2, <1>3, OpenIs
<1> HIDE DEF m
<1>6. Reports(m)
  BY <1>2, <1>5 DEF Reports
<1>7. /\ node' \in [Peer -> NodeType] /\ NodesOK'
      /\ node'[1] = m /\ node'[2] = node[2]
  BY <1>4, <1>5, <1>6, NodeStep, Peers DEF LinkInv
<1>8. dc[2] = <<>> /\ Pact(m, node[2], dc[1], <<f>>)
  BY <1>2, <1>3, <1>5, OffererOpens
<1>9. n.pc.id \in Id
  BY <1>2, <1>3, HasFields DEF NodeOK
<1>10. f \in ChanFrame
  BY <1>9 DEF Frame, ChanFrame
<1> HIDE DEF f
<1>11. Append(dc[2], f) = <<f>> /\ <<f>> \in Seq(ChanFrame)
  BY <1>8, <1>10
<1>12. dc' \in [Peer -> Seq(ChanFrame)] /\ dc'[1] = dc[1] /\ dc'[2] = <<f>>
  BY <1>4, <1>11, Peers DEF LinkInv
<1> QED BY <1>4, <1>7, <1>8, <1>12 DEF LinkInv, SigTyped

LEMMA OneFrame ==
  ASSUME NEW f
  PROVE  Head(<<f>>) = f /\ Tail(<<f>>) = <<>> /\ <<f>> # <<>>
OBVIOUS

LEMMA HelloKeeps ==
  ASSUME LinkInv, NEW p \in Peer, OnHello(p)
  PROVE  LinkInv'
<1> DEFINE n == node[2]
           h == n.pc.remote
           m == [n EXCEPT !.sess = h, !.ev = Append(@, Secure(h))]
           r == IF node[1].pc.id = h THEN <<Frame("KemReply", h)>> ELSE <<>>
<1>1. Pact(node[1], node[2], dc[1], dc[2]) /\ NodeOK(node[1]) /\ NodeOK(n) /\ Reports(n)
  BY Peers DEF LinkInv, NodesOK
<1>2. p = 2
  <2>1. dc[p] # <<>> /\ Head(dc[p]).t = "KemHello"
    BY DEF OnHello
  <2>2. ASSUME p = 1 PROVE FALSE
    <3>1. dc[1] = <<Frame("KemReply", node[1].pc.id)>>
      BY <1>1, <2>1, <2>2 DEF Pact, ReplyOut
    <3>2. Head(dc[1]) = Frame("KemReply", node[1].pc.id)
      BY <3>1, OneFrame
    <3> QED BY <2>1, <2>2, <3>2 DEF Frame
  <2> QED BY <2>2, Peers
<1>3. dc[2] # <<>>
  BY <1>2 DEF OnHello
<1>4. HasPC(n) /\ h # NoId /\ dc[2] = <<Frame("KemHello", h)>>
  BY <1>1, <1>3 DEF Pact, HelloOut
<1>5. Head(dc[2]).id = h /\ Tail(dc[2]) = <<>>
  <2>1. Head(dc[2]) = Frame("KemHello", h) /\ Tail(dc[2]) = <<>>
    BY <1>4, OneFrame
  <2> QED BY <2>1 DEF Frame
<1>6. h \in Id
  BY <1>1, <1>4, HasFields DEF NodeOK, PCType
<1>7. /\ node' = [node EXCEPT ![2] = m]
      /\ dc' = [dc EXCEPT ![2] = Tail(dc[2]), ![1] = dc[1] \o r]
      /\ UNCHANGED <<sig, up, room, faults>>
  BY <1>2, <1>5, Peers DEF OnHello, Local, LinkInv
<1>8. Secured(n, m, h)
  BY <1>1, <1>6, SecuredIs
<1> HIDE DEF m
<1>9. NodeOK(m) /\ Reports(m)
  BY <1>1, <1>6, <1>8, SecuredShows DEF Secured
<1>10. /\ node' \in [Peer -> NodeType] /\ NodesOK'
       /\ node'[2] = m /\ node'[1] = node[1]
  BY <1>7, <1>9, NodeStep, Peers DEF LinkInv
<1>11. dc[1] = <<>> /\ Pact(node[1], m, r, <<>>)
  BY <1>1, <1>3, <1>8, AnswererSecures
<1>12. r \in Seq(ChanFrame) /\ <<>> \in Seq(ChanFrame)
  <2>1. Frame("KemReply", h) \in ChanFrame
    BY <1>6 DEF Frame, ChanFrame
  <2> DEFINE g == Frame("KemReply", h)
  <2>2. g \in ChanFrame
    BY <2>1
  <2> HIDE DEF g
  <2>3. <<g>> \in Seq(ChanFrame) /\ <<>> \in Seq(ChanFrame)
    BY <2>2
  <2> QED BY <2>3 DEF g
<1> HIDE DEF r
<1>13. dc[1] \o r = r
  BY <1>11, <1>12, ConcatEmptySeq
<1>14. dc' = [dc EXCEPT ![2] = <<>>, ![1] = r]
  BY <1>5, <1>7, <1>13
<1>15. dc' \in [Peer -> Seq(ChanFrame)] /\ dc'[1] = r /\ dc'[2] = <<>>
  BY <1>12, <1>14, Peers DEF LinkInv
<1> QED BY <1>7, <1>10, <1>11, <1>15 DEF LinkInv, SigTyped

LEMMA ReplyKeeps ==
  ASSUME LinkInv, NEW p \in Peer, OnReply(p)
  PROVE  LinkInv'
<1> DEFINE n == node[1]
           h == n.pc.id
           m == [n EXCEPT !.pending = NoId, !.sess = h, !.ev = Append(@, Secure(h))]
<1>1. Pact(node[1], node[2], dc[1], dc[2]) /\ NodeOK(node[2]) /\ NodeOK(n) /\ Reports(n)
  BY Peers DEF LinkInv, NodesOK
<1>2. p = 1
  <2>1. dc[p] # <<>> /\ Head(dc[p]).t = "KemReply"
    BY DEF OnReply
  <2>2. ASSUME p = 2 PROVE FALSE
    <3>1. dc[2] = <<Frame("KemHello", node[2].pc.remote)>>
      BY <1>1, <2>1, <2>2 DEF Pact, HelloOut
    <3>2. Head(dc[2]) = Frame("KemHello", node[2].pc.remote)
      BY <3>1, OneFrame
    <3> QED BY <2>1, <2>2, <3>2 DEF Frame
  <2> QED BY <2>2, Peers
<1>3. dc[1] # <<>>
  BY <1>2 DEF OnReply
<1>4. Carrying(n) /\ n.pending = h /\ dc[1] = <<Frame("KemReply", h)>>
  BY <1>1, <1>3 DEF Pact, ReplyOut
<1>5. Tail(dc[1]) = <<>>
  BY <1>4, OneFrame
<1>6. h \in Id /\ h # NoId
  BY <1>1, <1>4, HasFields DEF NodeOK, Carrying
<1>7. /\ node' = [node EXCEPT ![1] = m]
      /\ dc' = [dc EXCEPT ![1] = <<>>]
      /\ UNCHANGED <<sig, up, room, faults>>
  BY <1>2, <1>4, <1>5, <1>6 DEF OnReply, Local
<1>8. Secured(n, m, h) /\ m.pending = NoId
  BY <1>1, <1>6, SecuredIs
<1> HIDE DEF m
<1>9. NodeOK(m) /\ Reports(m)
  BY <1>1, <1>6, <1>8, SecuredShows DEF Secured
<1>10. /\ node' \in [Peer -> NodeType] /\ NodesOK'
       /\ node'[1] = m /\ node'[2] = node[2]
  BY <1>7, <1>9, NodeStep, Peers DEF LinkInv
<1>11. dc[2] = <<>> /\ Pact(m, node[2], <<>>, <<>>)
  BY <1>1, <1>3, <1>8, OffererSecures
<1>12. dc' \in [Peer -> Seq(ChanFrame)] /\ dc'[1] = <<>> /\ dc'[2] = dc[2]
  BY <1>7, Peers DEF LinkInv
<1> QED BY <1>7, <1>10, <1>11, <1>12 DEF LinkInv, SigTyped

\* The server and the network touch only frames of the server.
LEMMA SignalKeeps ==
  ASSUME LinkInv, UNCHANGED <<node, dc>>, sig' \in [Peer -> Seq(SigFrame)],
         up' \subseteq Peer, room' \subseteq Peer, faults' \in 0..MaxFaults
  PROVE  LinkInv'
BY DEF LinkInv, NodesOK, SigTyped

\* Frames that name no PC.
LEMMA SignalFrames ==
  \A t \in {"Roster", "EmptyRoster", "PeerJoined", "PeerLeft", "Rekey"} :
     /\ Frame(t, NoId) \in SigFrame
     /\ \A s \in Seq(SigFrame) : Append(s, Frame(t, NoId)) \in Seq(SigFrame)
     /\ <<Frame(t, NoId)>> \in Seq(SigFrame)
<1> SUFFICES ASSUME NEW t \in {"Roster", "EmptyRoster", "PeerJoined", "PeerLeft", "Rekey"}
             PROVE  /\ Frame(t, NoId) \in SigFrame
                    /\ \A s \in Seq(SigFrame) : Append(s, Frame(t, NoId)) \in Seq(SigFrame)
                    /\ <<Frame(t, NoId)>> \in Seq(SigFrame)
  OBVIOUS
<1> DEFINE f == Frame(t, NoId)
<1>1. f \in SigFrame
  BY DEF Frame, SigFrame
<1> HIDE DEF f
<1>2. <<f>> \in Seq(SigFrame) /\ \A s \in Seq(SigFrame) : Append(s, f) \in Seq(SigFrame)
  BY <1>1
<1> QED BY <1>1, <1>2 DEF f

\* A socket that is lost.
LEMMA LostSocket ==
  ASSUME LinkInv, NEW p \in Peer, SocketLost(p)
  PROVE  sig' \in [Peer -> Seq(SigFrame)] /\ up' \subseteq Peer /\ room' \subseteq Peer
<1>1. /\ Other(p) \in Peer /\ sig \in [Peer -> Seq(SigFrame)] /\ <<>> \in Seq(SigFrame)
      /\ up \subseteq Peer /\ room \subseteq Peer
  BY Peers DEF LinkInv, SigTyped
<1>2. Append(sig[Other(p)], Frame("PeerLeft", NoId)) \in Seq(SigFrame)
  BY <1>1, SignalFrames
<1> DEFINE a == Append(sig[Other(p)], Frame("PeerLeft", NoId))
<1>3. \/ sig' = [sig EXCEPT ![p] = <<>>, ![Other(p)] = a]
      \/ sig' = [sig EXCEPT ![p] = <<>>, ![Other(p)] = sig[Other(p)]]
      \/ sig' = [sig EXCEPT ![p] = <<>>]
  BY <1>1, Peers DEF SocketLost
<1> HIDE DEF a
<1>4. sig' \in [Peer -> Seq(SigFrame)]
  BY <1>1, <1>2, <1>3 DEF a
<1> QED BY <1>1, <1>4 DEF SocketLost

\* The signaling connection, frames that are lost, a rekey.
LEMMA SignalingKeeps ==
  ASSUME LinkInv, NEW p \in Peer,
         SignalingUp(p) \/ SignalingLost(p) \/ LoseFrame(p) \/ RekeyAsked
  PROVE  LinkInv'
<1>1. /\ Other(p) \in Peer /\ sig \in [Peer -> Seq(SigFrame)] /\ <<>> \in Seq(SigFrame)
      /\ up \subseteq Peer /\ room \subseteq Peer /\ faults \in 0..MaxFaults
  BY Peers DEF LinkInv, SigTyped
<1>2. ASSUME SignalingUp(p) PROVE LinkInv'
  <2> DEFINE w == <<Frame(IF Other(p) \in room THEN "Roster" ELSE "EmptyRoster", NoId)>>
             a == Append(sig[Other(p)], Frame("PeerJoined", NoId))
  <2>1. w \in Seq(SigFrame) /\ a \in Seq(SigFrame)
    BY <1>1, SignalFrames
  <2>2. \/ sig' = [sig EXCEPT ![p] = w, ![Other(p)] = a]
        \/ sig' = [sig EXCEPT ![p] = w, ![Other(p)] = sig[Other(p)]]
    BY <1>1, <1>2, Peers DEF SignalingUp
  <2> HIDE DEF w, a
  <2>3. sig' \in [Peer -> Seq(SigFrame)]
    BY <1>1, <2>1, <2>2
  <2> QED BY <1>1, <1>2, <2>3, SignalKeeps DEF SignalingUp
<1>3. ASSUME SignalingLost(p) PROVE LinkInv'
  <2>1. SocketLost(p) /\ UNCHANGED <<node, dc>> /\ faults' \in 0..MaxFaults
    BY <1>1, <1>3, LinkConstants DEF SignalingLost, Fault
  <2> QED BY <2>1, LostSocket, SignalKeeps
<1>4. ASSUME LoseFrame(p) PROVE LinkInv'
  <2>1. sig[p] # <<>> /\ sig' = [sig EXCEPT ![p] = Tail(sig[p])] /\ UNCHANGED <<node, dc, up, room>>
    BY <1>4 DEF LoseFrame
  <2>2. faults' \in 0..MaxFaults
    BY <1>1, <1>4, LinkConstants DEF LoseFrame, Fault
  <2>3. Tail(sig[p]) \in Seq(SigFrame)
    BY <2>1, QueueTail DEF LinkInv
  <2>4. sig' \in [Peer -> Seq(SigFrame)]
    BY <1>1, <2>1, <2>3
  <2> QED BY <1>1, <2>1, <2>2, <2>4, SignalKeeps
<1>5. ASSUME RekeyAsked PROVE LinkInv'
  <2> DEFINE f == Frame("Rekey", NoId)
  <2>1. sig' = [q \in Peer |-> IF q \in up THEN Append(sig[q], f) ELSE sig[q]]
        /\ UNCHANGED <<node, dc, up, room>>
    BY <1>5 DEF RekeyAsked
  <2>2. faults' \in 0..MaxFaults
    BY <1>1, <1>5, LinkConstants DEF RekeyAsked, Fault
  <2>3. \A s \in Seq(SigFrame) : Append(s, f) \in Seq(SigFrame)
    BY SignalFrames
  <2> HIDE DEF f
  <2>4. sig' \in [Peer -> Seq(SigFrame)]
    BY <1>1, <2>1, <2>3
  <2> QED BY <1>1, <2>1, <2>2, <2>4, SignalKeeps
<1> QED BY <1>2, <1>3, <1>4, <1>5

\* A process is killed and starts again.
LEMMA RestartKeeps ==
  ASSUME LinkInv, NEW p \in Peer, Restart(p)
  PROVE  LinkInv'
<1>1. /\ node' = [node EXCEPT ![p] = NewNode]
      /\ dc' = [dc EXCEPT ![p] = <<>>]
      /\ SocketLost(p)
  BY DEF Restart
<1>2. faults' \in 0..MaxFaults
  BY LinkConstants DEF Restart, Fault, LinkInv
<1>3. sig' \in [Peer -> Seq(SigFrame)] /\ up' \subseteq Peer /\ room' \subseteq Peer
  BY <1>1, LostSocket
<1>4. /\ node' \in [Peer -> NodeType] /\ NodesOK'
      /\ node'[p] = NewNode /\ \A q \in Peer : q # p => node'[q] = node[q]
  BY <1>1, NewNodeIs, NodeStep DEF LinkInv
<1>5. <<>> \in Seq(ChanFrame)
  OBVIOUS
<1>6. dc' \in [Peer -> Seq(ChanFrame)] /\ dc'[p] = <<>> /\ \A q \in Peer : q # p => dc'[q] = dc[q]
  BY <1>1, <1>5 DEF LinkInv
<1>7. Pact(node[1], node[2], dc[1], dc[2])
  BY DEF LinkInv
<1>8. Pact(NewNode, node[2], <<>>, dc[2]) /\ Pact(node[1], NewNode, dc[1], <<>>)
  BY <1>7, OffererRestarts, AnswererRestarts
<1>9. Pact(node'[1], node'[2], dc'[1], dc'[2])
  <2>1. CASE p = 1
    BY <1>4, <1>6, <1>8, <2>1, Peers
  <2>2. CASE p = 2
    BY <1>4, <1>6, <1>8, <2>2, Peers
  <2> QED BY <2>1, <2>2, Peers
<1> QED BY <1>2, <1>3, <1>4, <1>6, <1>9 DEF LinkInv, SigTyped

\* Every step keeps the invariant.
LEMMA LinkInvStep ==
  ASSUME LinkInv, IdsSuffice, [Next]_vars
  PROVE  LinkInv'
<1>1. CASE Next
  <2>1. 1 \in Peer
    BY Peers
  <2>2. ASSUME NEW p \in Peer,
               \/ Serve(p) \/ OnEvent(p)
               \/ Connected(p) \/ Failed(p) \/ Handshake(p) \/ SignalingUp(p)
               \/ Watchdog(p)
        PROVE  LinkInv'
    BY <2>2, ServeKeeps, EventKeeps, ReportsKeep, OpenKeeps, HelloKeeps, ReplyKeeps,
       SignalingKeeps DEF Handshake
  <2>3. ASSUME NEW p \in Peer,
               \/ PrematureRetry(p) \/ SignalingLost(p) \/ Restart(p)
               \/ LoseFrame(p) \/ Disconnected(p)
        PROVE  LinkInv'
    BY <2>3, ServeKeeps, ReportsKeep, RestartKeeps, SignalingKeeps
  <2>4. ASSUME RekeyAsked PROVE LinkInv'
    BY <2>1, <2>4, SignalingKeeps
  <2> QED BY <1>1, <2>2, <2>3, <2>4 DEF Next, Progress
<1>2. CASE UNCHANGED vars
  BY <1>2 DEF vars, LinkInv, NodesOK, SigTyped
<1> QED BY <1>1, <1>2

\* The invariant says what the users see.
LEMMA LinkInvTrue == LinkInv => LinkIsTrue
<1> SUFFICES ASSUME LinkInv PROVE LinkIsTrue
  OBVIOUS
<1>1. TypeOK
  <2>1. \A p \in Peer : HasPC(node[p]) => Cardinality(node[p].pc.pending_ice) <= MAX_PENDING_ICE
    BY DEF LinkInv, NodesOK, NodeOK
  <2>2. ASSUME NEW p \in Peer, NEW k \in DOMAIN sig[p] PROVE sig[p][k].id \in Id \cup {NoId}
    <3>1. sig[p] \in Seq(SigFrame)
      BY DEF LinkInv, SigTyped
    <3>2. sig[p][k] \in SigFrame
      BY <2>2, <3>1, ElementOfSeq, LenProperties
    <3> QED BY <3>2 DEF SigFrame
  <2>3. ASSUME NEW p \in Peer, NEW k \in DOMAIN dc[p] PROVE dc[p][k].id \in Id
    <3>1. dc[p] \in Seq(ChanFrame)
      BY DEF LinkInv
    <3>2. dc[p][k] \in ChanFrame
      BY <2>3, <3>1, ElementOfSeq, LenProperties
    <3> QED BY <3>2 DEF ChanFrame
  <2> QED BY <2>1, <2>2, <2>3 DEF LinkInv, TypeOK
<1>2. LinkedIsTrue
  <2> SUFFICES ASSUME NEW p \in Peer, node[p].ev = <<>>, node[p].mem.linked
               PROVE  HasPC(node[p]) /\ node[p].pc.st = "connected"
    BY DEF LinkedIsTrue
  <2>1. Reports(node[p])
    BY DEF LinkInv, NodesOK
  <2>2. ~Falls(node[p].ev)
    BY DEF Falls
  <2> QED BY <2>1, <2>2 DEF Reports, PcUp
<1>3. OneSession
  <2>1. Pact(node[1], node[2], dc[1], dc[2])
    BY DEF LinkInv
  <2>2. ASSUME Quiet, node[1].mem.fingerprint # NoId, node[2].mem.fingerprint # NoId
        PROVE  node[1].mem.fingerprint = node[2].mem.fingerprint
    <3>1. dc[1] = <<>> /\ node[1].ev = <<>> /\ node[2].ev = <<>>
      BY <2>2, Peers DEF Quiet
    <3>2. ~Clearing(node[1])
      BY <2>2, <3>1 DEF Clearing, DownUnlocked, Falls
    <3>3. PICK h \in Id : ShowsOnly(node[1], h) /\ ShowsOnly(node[2], h)
      BY <2>1, <3>1, <3>2 DEF Pact, SameShown
    <3>4. node[1].mem.fingerprint \in {NoId, h} /\ node[2].mem.fingerprint \in {NoId, h}
      BY <3>1, <3>3 DEF ShowsOnly, LastLock
    <3> QED BY <2>2, <3>4
  <2>3. node[1].sess # NoId /\ node[2].sess # NoId => node[1].sess = node[2].sess
    BY <2>1 DEF Pact, SameSession
  <2> QED BY <2>2, <2>3 DEF OneSession
<1> QED BY <1>1, <1>2, <1>3 DEF LinkIsTrue

\* What two members see of their link is true, through any faults, restarts, lost
\* frames, glare, rekeys and rebuilds, premature ones too: a row that says linked,
\* with no report outstanding, belongs to a connected PC; two sessions are the
\* same session; and once nothing is on its way, two fingerprints are equal.
\* Provided an id is left for each new PC (a bound of the model, not of the code).
THEOREM LinkShowsTruth == Spec /\ []IdsSuffice => []LinkIsTrue
<1>1. LinkInv /\ IdsSuffice /\ [Next]_vars => LinkInv'
  BY LinkInvStep
<1> QED BY LinkInvInit, LinkInvTrue, <1>1, PTL DEF Spec
=============================================================================

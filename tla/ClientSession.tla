--------------------------- MODULE ClientSession ---------------------------
(***************************************************************************)
(* A session from the click on "connect" to the start screen (desktop shell *)
(* lib.rs, core lib.rs start() and its loop, signaling.rs, serverless.rs,   *)
(* selfcheck.rs; App.tsx as far as it decides).                             *)
(*                                                                         *)
(* Every call of connect, serverless_offer or serverless_accept_offer is a  *)
(* member of Call; it opens the microphone, dials, and only then stores     *)
(* what it built in a slot of the shell.  Dropping a slot stops the audio   *)
(* threads; the engine loop notices, says goodbye and tells the webview.    *)
(* Inside the loop signaling comes and goes while the mesh stays.           *)
(***************************************************************************)
EXTENDS Integers, Sequences, FiniteSets

CONSTANTS
    Call,            \* calls, numbered in the order they are made
    RendersFirst,    \* the webview renders between two deep links
    ClScenario       \* bounds: mesh calls, direct calls, faults, clicks, probes

ASSUME ClConstants ==
    /\ IsFiniteSet(Call) /\ Call = 1 .. Cardinality(Call)
    /\ RendersFirst \in BOOLEAN
    /\ ClScenario \subseteq
         [mesh : Nat, direct : Nat, faults : Nat, clicks : Nat, probes : {0, 1}]

VARIABLES
    sess,       \* what each call built
    slot,       \* AppState.engine, 0 for None
    direct,     \* AppState.serverless
    ui,         \* webview: connected, connecting, and what its refs show
    status,     \* Status events on their way to the webview
    mixed,      \* history: a serverless session reported its state
    probe,      \* the network self-check
    clBudget

clVars == <<sess, slot, direct, ui, status, mixed, probe, clBudget>>

ServerMsgs == {"roster", "refused", "error", "eof"}
Cmds == {"toggle", "on", "off", "reconnect"}
Backoffs == {2, 4, 8, 16, 30}

Inbox == UNION {[1 .. n -> ServerMsgs] : n \in 0 .. 2}

SessType ==
    [pc    : {"idle", "check", "audio", "dial", "store", "done"},
     kind  : {"mesh", "direct"},
     rig   : {"none", "on", "stop"},                  \* audio threads
     open  : BOOLEAN,                                 \* the handle exists
     loop  : {"none", "run", "dial", "over"},         \* engine task
     link  : {"none", "live", "silent", "gone"},      \* signaling socket
     inbox : Inbox,
     armed : BOOLEAN,                                 \* next_try is set
     backoff : Backoffs,
     tx    : BOOLEAN,
     cmds  : Seq(Cmds)]

NewSess ==
    [pc |-> "idle", kind |-> "mesh", rig |-> "none", open |-> FALSE,
     loop |-> "none", link |-> "none", inbox |-> <<>>, armed |-> FALSE,
     backoff |-> 2, tx |-> FALSE, cmds |-> <<>>]

NoProbe == [step |-> "off", pcs |-> {}, b |-> FALSE, a |-> FALSE,
            send |-> FALSE, recv |-> FALSE, crossed |-> FALSE]

ClInit ==
    /\ sess = [c \in Call |-> NewSess]
    /\ slot = 0 /\ direct = 0
    /\ ui = [connected |-> FALSE, connecting |-> FALSE, shown |-> FALSE]
    /\ status = <<>>
    /\ mixed = FALSE
    /\ probe = NoProbe
    /\ clBudget \in ClScenario

Spend(what) == /\ clBudget[what] > 0
               /\ clBudget' = [clBudget EXCEPT ![what] = @ - 1]
Tell(up) == status' = Append(status, up)

\* Drop of an Engine or a Serverless: the audio threads are told to stop; the
\* engine's command channel closes, the direct connection closes at once.
Dropped(s, c) ==
    IF c = 0 THEN s
    ELSE [s EXCEPT ![c].rig = "stop", ![c].open = FALSE,
                   ![c].link = IF s[c].kind = "direct" THEN "none" ELSE @]

----------------------------------------------------------------------------
\* connect

Fresh(c) == sess[c].pc = "idle" /\ \A d \in 1 .. c - 1 : sess[d].pc # "idle"

\* A deep link or a click: refused while the refs of the last rendering show
\* a session or an attempt.
Ask(c) ==
    /\ Fresh(c) /\ Spend("mesh")
    /\ ~ui.shown
    /\ RendersFirst => ui.shown = (ui.connected \/ ui.connecting)
    /\ sess' = [sess EXCEPT ![c].pc = "check"]
    /\ ui' = [ui EXCEPT !.connecting = TRUE]
    /\ UNCHANGED <<slot, direct, status, mixed, probe>>

Render ==
    /\ ui.shown # (ui.connected \/ ui.connecting)
    /\ ui' = [ui EXCEPT !.shown = ui.connected \/ ui.connecting]
    /\ UNCHANGED <<sess, slot, direct, status, mixed, probe, clBudget>>

\* The call fails: the webview leaves its connecting state.
Rejected(kind) ==
    ui' = IF kind = "mesh" THEN [ui EXCEPT !.connecting = FALSE] ELSE ui

\* One engine at a time, and no serverless session beside it.
Check(c) ==
    /\ sess[c].pc = "check"
    /\ \/ /\ slot # 0
          /\ sess' = [sess EXCEPT ![c].pc = "done"]
          /\ Rejected("mesh") /\ UNCHANGED direct
       \/ /\ slot = 0
          /\ sess' = [Dropped(sess, direct) EXCEPT ![c].pc = "audio"]
          /\ direct' = 0 /\ UNCHANGED ui
    /\ UNCHANGED <<slot, status, mixed, probe, clBudget>>

\* setup_audio: the devices are open, or the thread that opens them ends.
OpenAudio(c) ==
    /\ sess[c].pc = "audio"
    /\ \/ /\ sess' = [sess EXCEPT ![c].pc = "dial", ![c].rig = "on"]
          /\ UNCHANGED <<ui, clBudget>>
       \/ /\ Spend("faults")
          /\ sess' = [sess EXCEPT ![c].pc = "done"]
          /\ Rejected(sess[c].kind)
    /\ UNCHANGED <<slot, direct, status, mixed, probe>>

\* Mutant: no guard, the rig outlives the failed attempt.
UnguardedReturn(c) == sess' = [sess EXCEPT ![c].pc = "done"]

\* Leaving start() early drops the StopGuard, which stops the rig.
GuardedReturn(c) ==
    sess' = [sess EXCEPT ![c].pc = "done", ![c].rig = "stop"]

\* What the server answers to a Join; it closes the socket of a refused one.
Replies == {<<"roster">>, <<"refused", "eof">>, <<"error", "eof">>}
Replied(reply) ==
    IF reply = <<"roster">> THEN UNCHANGED clBudget ELSE Spend("faults")

\* signaling::connect fails or times out; or the engine loop starts and the
\* webview hears of it before the handle is stored.
Dial(c) ==
    /\ sess[c].pc = "dial" /\ sess[c].kind = "mesh"
    /\ \/ /\ Spend("faults") /\ GuardedReturn(c) /\ Rejected("mesh")
          /\ UNCHANGED status
       \/ /\ \E reply \in Replies :
               /\ Replied(reply)
               /\ sess' = [sess EXCEPT
                    ![c].pc = "store", ![c].open = TRUE, ![c].loop = "run",
                    ![c].link = "live", ![c].inbox = reply]
          /\ Tell(TRUE) /\ UNCHANGED ui
    /\ UNCHANGED <<slot, direct, mixed, probe>>

\* The handle replaces whatever the slot holds by now.
Store(c) ==
    /\ sess[c].pc = "store"
    /\ LET done == [sess EXCEPT ![c].pc = "done"]
       IN IF sess[c].kind = "mesh"
          THEN /\ sess' = Dropped(done, slot) /\ slot' = c
               /\ UNCHANGED direct
          ELSE /\ sess' = Dropped(done, direct) /\ direct' = c
               /\ UNCHANGED slot
    /\ UNCHANGED <<ui, status, mixed, probe, clBudget>>

----------------------------------------------------------------------------
\* The engine loop

Running(c) == sess[c].loop = "run"

\* The end of the loop: its half of the channels goes with it, so the writer
\* task closes the socket and commands are no longer taken.
Over(s, c) == [s EXCEPT ![c].loop = "over", ![c].link = "none",
                        ![c].inbox = <<>>, ![c].armed = FALSE, ![c].cmds = <<>>]

\* Signaling dropped: forget the connection, retry in two seconds.
DroppedSignaling(s, c) ==
    [s EXCEPT ![c].link = "none", ![c].backoff = 2, ![c].armed = TRUE]

\* RoomFull, id_in_use and protocol_mismatch end the session; other errors are
\* only logged.
Receive(c) ==
    /\ Running(c) /\ sess[c].inbox # <<>>
    /\ LET msg == Head(sess[c].inbox)
           s == [sess EXCEPT ![c].inbox = Tail(@)]
       IN \/ msg \in {"roster", "error"} /\ sess' = s /\ UNCHANGED status
          \/ msg = "refused" /\ sess' = Over(s, c) /\ Tell(FALSE)
          \/ msg = "eof" /\ sess' = DroppedSignaling(s, c) /\ UNCHANGED status
    /\ UNCHANGED <<slot, direct, ui, mixed, probe, clBudget>>

\* The retry timer: the loop dials inline and takes nothing else meanwhile.
Redial(c) ==
    /\ Running(c) /\ sess[c].link = "none" /\ sess[c].armed
    /\ sess' = [sess EXCEPT ![c].loop = "dial"]
    /\ UNCHANGED <<slot, direct, ui, status, mixed, probe, clBudget>>

Doubled(b) == IF 2 * b > 30 THEN 30 ELSE 2 * b

\* Mutant: the dial has no bound, and a server that is silent for good never
\* answers.
RedialledUnbounded(c) ==
    /\ sess[c].loop = "dial" /\ clBudget["faults"] > 0
    /\ sess' = [sess EXCEPT ![c].loop = "run", ![c].link = "live",
                  ![c].inbox = <<"roster">>, ![c].armed = FALSE, ![c].backoff = 2]
    /\ UNCHANGED <<slot, direct, ui, status, mixed, probe, clBudget>>

Redialled(c) ==
    /\ sess[c].loop = "dial"
    /\ \/ \E reply \in Replies :
            /\ Replied(reply)
            /\ sess' = [sess EXCEPT ![c].loop = "run", ![c].link = "live",
                          ![c].inbox = reply, ![c].armed = FALSE, ![c].backoff = 2]
       \/ /\ Spend("faults")
          /\ sess' = [sess EXCEPT ![c].loop = "run",
                        ![c].backoff = Doubled(@), ![c].armed = TRUE]
    /\ UNCHANGED <<slot, direct, ui, status, mixed, probe>>

\* A command; a repeated SetTx changes nothing and says nothing.
Command(c) ==
    /\ Running(c) /\ sess[c].cmds # <<>>
    /\ LET cmd == Head(sess[c].cmds)
           s == [sess EXCEPT ![c].cmds = Tail(@)]
           tx == IF cmd = "toggle" THEN ~sess[c].tx ELSE cmd = "on"
       IN \/ /\ cmd = "reconnect"
             /\ sess' = IF sess[c].link = "none"
                        THEN [s EXCEPT ![c].backoff = 2, ![c].armed = TRUE] ELSE s
             /\ UNCHANGED status
          \/ /\ cmd # "reconnect" /\ tx = sess[c].tx
             /\ sess' = s /\ UNCHANGED status
          \/ /\ cmd # "reconnect" /\ tx # sess[c].tx
             /\ sess' = [s EXCEPT ![c].tx = tx] /\ Tell(TRUE)
    /\ UNCHANGED <<slot, direct, ui, mixed, probe, clBudget>>

\* Mutant: the loop ends without a last status.
LeaveUnreported(c) ==
    /\ Running(c) /\ ~sess[c].open /\ sess[c].cmds = <<>>
    /\ sess' = Over(sess, c)
    /\ UNCHANGED <<slot, direct, ui, status, mixed, probe, clBudget>>

\* The engine was dropped and its commands are used up: leave, close, report.
Leave(c) ==
    /\ Running(c) /\ ~sess[c].open /\ sess[c].cmds = <<>>
    /\ sess' = Over(sess, c) /\ Tell(FALSE)
    /\ UNCHANGED <<slot, direct, ui, mixed, probe, clBudget>>

\* The network: the server closes the socket, or the path goes silent and the
\* reader gives up after RECV_IDLE.
Closes(c) ==
    /\ sess[c].kind = "mesh"
    /\ sess[c].link = "live" /\ sess[c].inbox = <<>> /\ Spend("faults")
    /\ \/ sess' = [sess EXCEPT ![c].link = "gone", ![c].inbox = <<"eof">>]
       \/ sess' = [sess EXCEPT ![c].link = "silent"]
    /\ UNCHANGED <<slot, direct, ui, status, mixed, probe>>

IdleOut(c) ==
    /\ sess[c].link = "silent"
    /\ sess' = [sess EXCEPT ![c].link = "gone", ![c].inbox = Append(@, "eof")]
    /\ UNCHANGED <<slot, direct, ui, status, mixed, probe, clBudget>>

----------------------------------------------------------------------------
\* Serverless: the code of the peer is checked before anything is opened

DirectAsk(c) ==
    /\ Fresh(c) /\ Spend("direct")
    /\ sess' = [sess EXCEPT ![c].pc = "audio", ![c].kind = "direct"]
    /\ UNCHANGED <<slot, direct, ui, status, mixed, probe>>

\* Building the connection and the offer or answer, with all candidates.
DirectDial(c) ==
    /\ sess[c].pc = "dial" /\ sess[c].kind = "direct"
    /\ \/ /\ sess' = [sess EXCEPT ![c].pc = "store", ![c].open = TRUE]
          /\ UNCHANGED clBudget
       \/ Spend("faults") /\ GuardedReturn(c)
    /\ UNCHANGED <<slot, direct, ui, status, mixed, probe>>

\* The connection comes up, and may fail; both are reported.
DirectState(c) ==
    /\ sess[c].kind = "direct" /\ sess[c].pc = "done" /\ sess[c].open
    /\ \/ /\ sess[c].link = "none" /\ UNCHANGED clBudget
          /\ sess' = [sess EXCEPT ![c].link = "live"] /\ Tell(TRUE)
       \/ /\ sess[c].link = "live" /\ Spend("faults")
          /\ sess' = [sess EXCEPT ![c].link = "none"] /\ Tell(FALSE)
    /\ mixed' = TRUE
    /\ UNCHANGED <<slot, direct, ui, probe>>

----------------------------------------------------------------------------
\* The user and the webview

\* toggle_transmit, set_transmit, reconnect_session: the serverless session is
\* asked first; a handle whose loop has ended swallows the command.
Talk(cmd) ==
    /\ Spend("clicks")
    /\ \/ /\ direct # 0 /\ cmd # "reconnect"
          /\ LET tx == IF cmd = "toggle" THEN ~sess[direct].tx ELSE cmd = "on"
             IN IF tx = sess[direct].tx THEN UNCHANGED <<sess, status, mixed>>
                ELSE /\ sess' = [sess EXCEPT ![direct].tx = tx]
                     /\ Tell(TRUE) /\ mixed' = TRUE
       \/ /\ direct = 0 \/ cmd = "reconnect"
          /\ slot # 0 /\ sess[slot].loop # "over"
          /\ sess' = [sess EXCEPT ![slot].cmds = Append(@, cmd)]
          /\ UNCHANGED <<status, mixed>>
    /\ UNCHANGED <<slot, direct, ui, probe>>

Disconnect ==
    /\ ui.connected /\ Spend("clicks")
    /\ sess' = Dropped(Dropped(sess, slot), direct)
    /\ slot' = 0 /\ direct' = 0
    /\ UNCHANGED <<ui, status, mixed, probe>>

OnStatus ==
    /\ status # <<>>
    /\ status' = Tail(status)
    /\ ui' = [ui EXCEPT !.connected = Head(status),
                        !.connecting = IF Head(status) THEN FALSE ELSE @]
    /\ UNCHANGED <<sess, slot, direct, mixed, probe, clBudget>>

----------------------------------------------------------------------------
\* Network self-check: two connections of this process, a ping and its echo

ProbeStart ==
    /\ probe.step = "off" /\ Spend("probes")
    /\ probe' = [probe EXCEPT !.step = "wait", !.pcs = {"a", "b"}]
    /\ UNCHANGED <<sess, slot, direct, ui, status, mixed>>

Ping == /\ probe.pcs # {} /\ ~probe.b
        /\ probe' = [probe EXCEPT !.b = TRUE, !.crossed = probe.step = "read"]
Echo == /\ probe.pcs # {} /\ probe.b /\ ~probe.a
        /\ probe' = [probe EXCEPT !.a = TRUE]

\* The echo came, eight seconds passed or a step failed; then the two flags are
\* read one after the other and both connections are closed.
ProbeWaited == /\ probe.step = "wait"
               /\ probe' = [probe EXCEPT !.step = "read", !.send = probe.b]
\* A step failed: nothing is reported.
ProbeFailed == /\ probe.step = "wait"
               /\ probe' = [NoProbe EXCEPT !.step = "done"]
ProbeClosed == /\ probe.step = "read"
               /\ probe' = [probe EXCEPT !.step = "done", !.pcs = {}, !.recv = probe.a]

ProbeStep == /\ Ping \/ Echo \/ ProbeWaited \/ ProbeFailed \/ ProbeClosed
             /\ UNCHANGED <<sess, slot, direct, ui, status, mixed, clBudget>>

ClNext ==
    \/ \E c \in Call :
         \/ Ask(c) \/ Check(c) \/ OpenAudio(c) \/ Dial(c) \/ Store(c)
         \/ Receive(c) \/ Redial(c) \/ Redialled(c) \/ Command(c) \/ Leave(c)
         \/ Closes(c) \/ IdleOut(c)
         \/ DirectAsk(c) \/ DirectDial(c) \/ DirectState(c)
    \/ Render \/ OnStatus \/ Disconnect
    \/ \E cmd \in Cmds : Talk(cmd)
    \/ ProbeStart \/ ProbeStep

\* The runtime polls every task; the dial is bounded by CONNECT_TIMEOUT and the
\* silence by RECV_IDLE.  Between two attempts the loop is idle for seconds, so
\* a waiting command or message is taken although attempts recur.
ClFair ==
    /\ \A c \in Call :
         /\ WF_clVars(Redial(c)) /\ WF_clVars(Redialled(c)) /\ WF_clVars(IdleOut(c))
         /\ SF_clVars(Receive(c)) /\ SF_clVars(Command(c)) /\ SF_clVars(Leave(c))
    /\ WF_clVars(OnStatus)

ClSpec == ClInit /\ [][ClNext]_clVars /\ ClFair

----------------------------------------------------------------------------

\* Every record stays in its type; in particular the backoff takes the values
\* of the doubling that is cut off at 30 seconds.
ClTypeOK ==
    /\ sess \in [Call -> SessType]
    /\ slot \in Call \cup {0} /\ direct \in Call \cup {0}
    /\ ui \in [connected : BOOLEAN, connecting : BOOLEAN, shown : BOOLEAN]
    /\ status \in Seq(BOOLEAN)

\* An open microphone has an owner: the call that is setting the session up,
\* or a slot of the shell.  No failed, refused, replaced or cancelled attempt
\* leaves one behind (StopGuard, Drop of Engine and of Serverless).
MicHasOwner ==
    \A c \in Call :
        sess[c].rig = "on" => \/ sess[c].pc \in {"dial", "store"}
                              \/ c \in {slot, direct}

\* A dropped engine is heard by the webview: once every call has returned and
\* every event is delivered, the webview shows a session exactly when the slot
\* holds an engine whose loop runs.
Settled ==
    /\ status = <<>>
    /\ \A c \in Call :
         /\ sess[c].pc \in {"idle", "done"}
         /\ sess[c].loop \in {"run", "dial"} => sess[c].open
ScreenIsTrue ==
    Settled /\ ~mixed =>
        (ui.connected <=> slot # 0 /\ sess[slot].loop \in {"run", "dial"})

\* The start screen is never a dead end: when it is shown and all is settled,
\* connect() is not refused.
CanJoinAgain == Settled /\ ~mixed /\ ~ui.connected => slot = 0

\* While the loop runs, lost signaling comes back (or the server refuses the
\* session for good, or the engine is dropped), whether the socket closed or
\* went silent.
SignalingResumes ==
    \A c \in Call :
        sess[c].loop \in {"run", "dial"} /\ sess[c].link # "live"
            ~> sess[c].link = "live" \/ sess[c].loop = "over"

\* Commands are taken although the loop dials inline: push-to-talk released
\* during an outage is not forgotten.
CommandsAreTaken ==
    \A c \in Call : sess[c].cmds # <<>> ~> sess[c].cmds = <<>>

\* A loop that is over has closed its socket, or the server would keep the
\* member until its idle timeout.
NoGhost ==
    \A c \in Call : sess[c].loop = "over" => sess[c].link = "none"

\* The self-check closes its two connections whatever happens, and an echo
\* that came back implies a ping that arrived, unless both crossed the reading
\* of the two flags.
ProbeHonest ==
    probe.step = "done" => /\ probe.pcs = {}
                           /\ probe.recv => probe.send \/ probe.crossed

\* Nothing is left open: no microphone without an owner, no socket of a loop
\* that is over, no connection of a finished self-check.
NothingLeftOpen == ClTypeOK /\ MicHasOwner /\ NoGhost /\ ProbeHonest

\* An outage of the signaling ends, and what was asked meanwhile is not lost.
OutageEnds == SignalingResumes /\ CommandsAreTaken

=============================================================================

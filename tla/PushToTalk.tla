----------------------------- MODULE PushToTalk -----------------------------
(***************************************************************************)
(* From a finger on a key to the transmit flag of the engine (desktop       *)
(* shell lib.rs, control.rs, and App.tsx as far as it decides).             *)
(*                                                                         *)
(* The raw-input thread turns packets of keyboards, mice and pads into      *)
(* edges and matches them against two push-to-talk and two channel-cycle    *)
(* bindings, each a key with modifiers.  Controllers (Stream Deck) send     *)
(* push-to-talk through a local socket.  Both sources are merged; the       *)
(* webview hears of a change on the event bus and keeps mute and latch.     *)
(* Its state flows back to the controllers as a snapshot.                   *)
(***************************************************************************)
EXTENDS Integers, Sequences, FiniteSets

CONSTANTS
    Client,           \* controllers
    MAX_AUTH_TRIES,   \* wrong tokens before a controller is dropped
    Careful,          \* users bind keys with no key held and no key pressed
                      \* meanwhile; controllers release before they leave
    PttScenario       \* bound: packets, commands of the user, of controllers

ASSUME PttConstants ==
    /\ IsFiniteSet(Client)
    /\ MAX_AUTH_TRIES \in Nat \ {0}
    /\ Careful \in BOOLEAN
    /\ PttScenario \subseteq [packets : Nat, ops : Nat, ctl : Nat]

VARIABLES
    held,      \* keys and buttons that are physically down
    pads,      \* HID_PRESSED: buttons of the last report of a device
    raw,       \* bindings, slots, captures, modifiers and merged sources
    rebind,    \* a set_ptt_binding between its two stores
    rebound,   \* history: a binding changed since the last edge
    wv,        \* webview: mute, latch, on-screen button, last snapshot
    tx,        \* transmit flag of the engine
    bus,       \* events on their way to the webview
    out,       \* commands of controllers on their way to the shell
    conn,      \* controllers
    srv,       \* control server: running, cached snapshot
    pttBudget

pttVars == <<held, pads, raw, rebind, rebound, wv, tx, bus, out, conn, srv, pttBudget>>

-----------------------------------------------------------------------------
(***************************************************************************)
(* Keys and bindings.                                                      *)
(***************************************************************************)
Slot == {0, 1}

\* A physical input; both shift keys, and the same button of two pads, carry
\* one label (vk_label(), "Pad:<usage>").
KeyName == {"F8", "shiftL", "shiftR"}
Device == {"pad1", "pad2"}
Input == KeyName \cup Device
Label(p) == CASE p \in {"shiftL", "shiftR"} -> "ShiftLeft"
              [] p \in Device -> "Pad:1"
              [] OTHER -> p

\* mod_of_label(): the modifier group of a label.
ModOf(code) == IF code = "ShiftLeft" THEN {"Shift"} ELSE {}

\* A binding: modifiers and a base key (parse_binding(), build_combo()).
Binding == [mods : SUBSET {"Shift"}, base : {"F8", "Pad:1", "Mouse:WheelUp"}]
Unbound == [mods |-> {}, base |-> "none"]
BuildCombo(code, mods) == [mods |-> mods, base |-> code]

\* mods_ok(): further modifiers do no harm.
ModsOk(required, mods) == required \subseteq mods

\* What holding a binding means: its key and all its modifiers are down.
ChordHeld(b) ==
    /\ b # Unbound
    /\ \E p \in held : Label(p) = b.base
    /\ \A m \in b.mods : \E p \in held : m \in ModOf(Label(p))

-----------------------------------------------------------------------------
(***************************************************************************)
(* Sources.                                                                *)
(***************************************************************************)
NoSources == [key |-> FALSE, ctl |-> FALSE, emitted |-> FALSE]

Ev(t, v) == [t |-> t, v |-> v]

\* PttSources::update() and publish_ptt(): the webview hears when the
\* combination changes.
Update(s, key, ctl) ==
    [src |-> [key |-> key, ctl |-> ctl, emitted |-> key \/ ctl],
     events |-> IF (key \/ ctl) # s.emitted THEN <<Ev("ptt", key \/ ctl)>> ELSE <<>>]

\* The state of handle_raw(): events it emits are collected in `emits`.
Raw == [bind : [Slot -> Binding \cup {Unbound}], down : [Slot -> BOOLEAN], cap : Slot \cup {-1},
        cbind : [Slot -> Binding \cup {Unbound}], cdown : [Slot -> BOOLEAN], ccap : Slot \cup {-1},
        any : BOOLEAN, mods : SUBSET {"Shift"},
        src : [key : BOOLEAN, ctl : BOOLEAN, emitted : BOOLEAN], emits : {<<>>}]

AnyBound(cbind) == \E s \in Slot : cbind[s] # Unbound

\* An edge while a capture runs: the first press of a key that is no modifier
\* becomes the binding; every other edge is dropped.
CapturePtt(r, code, isDown) ==
    IF isDown /\ ModOf(code) = {}
      THEN [r EXCEPT !.cap = -1, !.down[r.cap] = FALSE,
                     !.bind[r.cap] = BuildCombo(code, r.mods),
                     !.emits = Append(@, Ev("ptt-bound", r.cap))]
      ELSE r

CaptureChan(r, code, isDown) ==
    IF isDown /\ ModOf(code) = {}
      THEN LET cb == [r.cbind EXCEPT ![r.ccap] = BuildCombo(code, r.mods)]
           IN [r EXCEPT !.ccap = -1, !.cdown[r.ccap] = FALSE, !.cbind = cb,
                        !.any = AnyBound(cb), !.emits = Append(@, Ev("chan-bound", r.ccap))]
      ELSE r

Is(b, code) == b.base = code

\* Mutant: only edges of a bound key count.
MatchPttBaseOnly(r, code, isDown) ==
    IF ~\E s \in Slot : Is(r.bind[s], code) THEN r
    ELSE LET down == [s \in Slot |-> IF Is(r.bind[s], code) THEN isDown ELSE r.down[s]]
             key == \E s \in Slot : r.bind[s] # Unbound /\ down[s] /\ ModsOk(r.bind[s].mods, r.mods)
             u == Update(r.src, key, r.src.ctl)
         IN [r EXCEPT !.down = down, !.src = u.src, !.emits = @ \o u.events]

\* Push-to-talk is recomputed on every edge, of modifiers too.
MatchPtt(r, code, isDown) ==
    LET down == [s \in Slot |-> IF Is(r.bind[s], code) THEN isDown ELSE r.down[s]]
        key == \E s \in Slot : r.bind[s] # Unbound /\ down[s] /\ ModsOk(r.bind[s].mods, r.mods)
        u == Update(r.src, key, r.src.ctl)
    IN [r EXCEPT !.down = down, !.src = u.src, !.emits = @ \o u.events]

\* Channels cycle on the press of a bound key, once.
MatchChan(r, code, isDown) ==
    LET Fires(s) == /\ Is(r.cbind[s], code)
                    /\ isDown /\ ~r.cdown[s] /\ ModsOk(r.cbind[s].mods, r.mods)
        Cycle(s) == IF Fires(s) THEN <<Ev("chan-cycle", s)>> ELSE <<>>
    IN IF ~r.any THEN r
       ELSE [r EXCEPT !.cdown = [s \in Slot |-> IF Is(r.cbind[s], code) THEN isDown ELSE @[s]],
                      !.emits = @ \o Cycle(0) \o Cycle(1)]

\* handle_raw(): modifiers first, then a capture, or else the bindings.
HandleRaw(r0, edge) ==
    LET code == edge.code
        m == ModOf(code)
        r == [r0 EXCEPT !.mods = IF edge.down THEN @ \cup m ELSE @ \ m]
    IN IF r.cap >= 0 THEN CapturePtt(r, code, edge.down)
       ELSE IF r.ccap >= 0 THEN CaptureChan(r, code, edge.down)
       ELSE MatchChan(MatchPtt(r, code, edge.down), code, edge.down)

-----------------------------------------------------------------------------
(***************************************************************************)
(* The raw-input thread: one packet, its edges in order.                   *)
(***************************************************************************)
Edge(code, d) == [code |-> code, down |-> d]

Spend(f) == pttBudget[f] > 0 /\ pttBudget' = [pttBudget EXCEPT ![f] = @ - 1]

\* `r`: what the edges of the packet make of the state.
Packet(r) ==
    /\ Spend("packets")
    /\ Careful => rebind = <<>>
    /\ raw' = [r EXCEPT !.emits = <<>>]
    /\ bus' = bus \o r.emits
    /\ rebound' = FALSE
    /\ UNCHANGED <<rebind, wv, tx, out, conn, srv>>

\* process_input(), keyboard: a press, its repetition, or a release.
KeyPacket(k, d) ==
    /\ d \/ k \in held
    /\ held' = IF d THEN held \cup {k} ELSE held \ {k}
    /\ Packet(HandleRaw(raw, Edge(Label(k), d)))
    /\ UNCHANGED pads

\* process_input(), wheel: a press and a release at once.
WheelPacket ==
    /\ Packet(HandleRaw(HandleRaw(raw, Edge("Mouse:WheelUp", TRUE)), Edge("Mouse:WheelUp", FALSE)))
    /\ UNCHANGED <<held, pads>>

\* process_hid(), diff_buttons(): a report of a pad lists what is down; what
\* changed since the last one is an edge.
PadReport(p) ==
    /\ held' = IF p \in held THEN held \ {p} ELSE held \cup {p}
    /\ pads' = [pads EXCEPT ![p] = {p} \cap held']
    /\ Packet(IF pads[p] # pads'[p] THEN HandleRaw(raw, Edge(Label(p), p \in held')) ELSE raw)

-----------------------------------------------------------------------------
(***************************************************************************)
(* Commands of the webview to the shell.                                   *)
(***************************************************************************)
HandsOff == Careful => held = {}

\* set_ptt_binding(): the slot is cleared, then, under the lock, bound.
RebindClear(s, b) ==
    /\ Spend("ops") /\ HandsOff
    /\ rebind = <<>>
    /\ raw' = [raw EXCEPT !.down[s] = FALSE]
    /\ rebind' = <<[slot |-> s, to |-> b]>>
    /\ UNCHANGED <<held, pads, rebound, wv, tx, bus, out, conn, srv>>

RebindStore ==
    /\ rebind # <<>>
    /\ raw' = [raw EXCEPT !.bind[rebind[1].slot] = rebind[1].to]
    /\ rebind' = <<>>
    /\ rebound' = TRUE
    /\ UNCHANGED <<held, pads, wv, tx, bus, out, conn, srv, pttBudget>>

\* set_chan_binding(), refresh_chan_bound().
SetChanBinding(s, b) ==
    /\ Spend("ops") /\ HandsOff
    /\ LET cb == [raw.cbind EXCEPT ![s] = b]
       IN raw' = [raw EXCEPT !.cdown[s] = FALSE, !.cbind = cb, !.any = AnyBound(cb)]
    /\ UNCHANGED <<held, pads, rebind, rebound, wv, tx, bus, out, conn, srv>>

\* start_ptt_capture(), start_chan_capture().
StartCapture(s) ==
    /\ Spend("ops") /\ HandsOff
    /\ \/ raw' = [raw EXCEPT !.cap = s]
       \/ raw' = [raw EXCEPT !.ccap = s]
    /\ UNCHANGED <<held, pads, rebind, rebound, wv, tx, bus, out, conn, srv>>

-----------------------------------------------------------------------------
(***************************************************************************)
(* The webview.  `recent`: the last press was less than PTT_LATCH_MS ago.   *)
(***************************************************************************)
Next1(t) == bus # <<>> /\ Head(bus).t = t /\ bus' = Tail(bus)

\* Mutant: a release waits for the second tap.
AfterReleaseWaits == tx /\ (wv.latched \/ wv.recent)

\* After a release only a latch keeps transmitting.
AfterRelease == tx /\ wv.latched

\* The "ptt" listener: muted, release, press while latched, second tap, press.
WvPtt ==
    /\ Next1("ptt")
    /\ LET isDown == Head(bus).v
       IN CASE wv.muted -> UNCHANGED <<wv, tx>>
            [] ~wv.muted /\ ~isDown ->
                 /\ tx' = AfterRelease
                 /\ UNCHANGED wv
            [] ~wv.muted /\ isDown /\ wv.latched ->
                 /\ wv' = [wv EXCEPT !.latched = FALSE, !.recent = FALSE]
                 /\ tx' = FALSE
            [] OTHER ->
                 /\ wv' = [wv EXCEPT !.latched = wv.recent, !.recent = ~@]
                 /\ tx' = TRUE
    /\ UNCHANGED <<held, pads, raw, rebind, rebound, out, conn, srv, pttBudget>>

\* Muting ends a transmission.
Mute(on) == tx' = (tx /\ ~on)

ToggleMic ==
    /\ wv' = [wv EXCEPT !.muted = ~@, !.latched = @ /\ wv.muted]
    /\ Mute(~wv.muted)

\* The "ctl" listener, mic-toggle.
WvCtl ==
    /\ Next1("ctl")
    /\ ToggleMic
    /\ UNCHANGED <<held, pads, raw, rebind, rebound, out, conn, srv, pttBudget>>

\* Other events: the UI notes a binding or switches the channel.
WvOther ==
    /\ Next1("ptt-bound") \/ Next1("chan-bound") \/ Next1("chan-cycle")
    /\ UNCHANGED <<held, pads, raw, rebind, rebound, wv, tx, out, conn, srv, pttBudget>>

\* The mute button.
UiMute ==
    /\ Spend("ops")
    /\ ToggleMic
    /\ UNCHANGED <<held, pads, raw, rebind, rebound, bus, out, conn, srv>>

\* The on-screen button: pttDown(), the long press, pttUp().
UiDown ==
    /\ Spend("ops")
    /\ ~wv.muted /\ ~wv.screen
    /\ wv' = [wv EXCEPT !.latched = FALSE, !.screen = ~wv.latched, !.timer = ~wv.latched]
    /\ tx' = ~wv.latched
    /\ UNCHANGED <<held, pads, raw, rebind, rebound, bus, out, conn, srv>>

UiLongPress ==
    /\ wv.screen /\ wv.timer
    /\ wv' = [wv EXCEPT !.latched = TRUE, !.timer = FALSE]
    /\ UNCHANGED <<held, pads, raw, rebind, rebound, tx, bus, out, conn, srv, pttBudget>>

UiUp ==
    /\ wv.screen
    /\ wv' = [wv EXCEPT !.screen = FALSE, !.timer = FALSE]
    /\ tx' = (tx /\ wv.latched)
    /\ UNCHANGED <<held, pads, raw, rebind, rebound, bus, out, conn, srv, pttBudget>>

\* The time of a double tap passes.
TapOver ==
    /\ wv.recent
    /\ wv' = [wv EXCEPT !.recent = FALSE]
    /\ UNCHANGED <<held, pads, raw, rebind, rebound, tx, bus, out, conn, srv, pttBudget>>

-----------------------------------------------------------------------------
(***************************************************************************)
(* The control server.                                                     *)
(***************************************************************************)
Snapshot == [known |-> TRUE, muted |-> wv.muted, tx |-> tx]
NoSnapshot == [known |-> FALSE, muted |-> FALSE, tx |-> FALSE]

NoConn == [st |-> "off", tries |-> 0, seen |-> NoSnapshot, hold |-> FALSE]

\* control_state, publish_state(): cached, and sent to whoever registered; a
\* report that comes before the server runs is lost.
Publish(s) ==
    IF srv.up
      THEN /\ srv' = [srv EXCEPT !.state = s]
           /\ conn' = [c \in Client |-> IF conn[c].st = "in"
                                          THEN [conn[c] EXCEPT !.seen = s] ELSE conn[c]]
      ELSE UNCHANGED <<srv, conn>>

\* The effect that follows a change of the state.
WvReport ==
    /\ wv.shown # Snapshot
    /\ wv' = [wv EXCEPT !.shown = Snapshot]
    /\ Publish(Snapshot)
    /\ UNCHANGED <<held, pads, raw, rebind, rebound, tx, bus, out, pttBudget>>

\* "ctl-refresh": the last snapshot is reported again.
WvRefresh ==
    /\ Next1("ctl-refresh")
    /\ IF wv.shown.known THEN Publish(wv.shown) ELSE UNCHANGED <<srv, conn>>
    /\ UNCHANGED <<held, pads, raw, rebind, rebound, wv, tx, out, pttBudget>>

\* ControlServer::start().
CtlStart ==
    /\ ~srv.up
    /\ srv' = [srv EXCEPT !.up = TRUE]
    /\ UNCHANGED <<held, pads, raw, rebind, rebound, wv, tx, bus, out, conn, pttBudget>>

\* A controller connects.
CtlConnect(c) ==
    /\ Spend("ctl")
    /\ srv.up /\ conn[c].st = "off"
    /\ conn' = [conn EXCEPT ![c] = [NoConn EXCEPT !.st = "auth", !.hold = conn[c].hold]]
    /\ UNCHANGED <<held, pads, raw, rebind, rebound, wv, tx, bus, out, srv>>

TriesUsedUp(n) == n >= MAX_AUTH_TRIES

\* A wrong token; the last one that is tolerated ends the connection.
CtlBadAuth(c) ==
    /\ Spend("ctl")
    /\ conn[c].st = "auth"
    /\ conn' = [conn EXCEPT ![c].tries = @ + 1,
                            ![c].st = IF TriesUsedUp(conn[c].tries + 1) THEN "off" ELSE @]
    /\ UNCHANGED <<held, pads, raw, rebind, rebound, wv, tx, bus, out, srv>>

\* The right token: hello carries the cached snapshot ...
CtlAuth(c) ==
    /\ conn[c].st = "auth"
    /\ conn' = [conn EXCEPT ![c].st = "hello", ![c].seen = srv.state]
    /\ UNCHANGED <<held, pads, raw, rebind, rebound, wv, tx, bus, out, srv, pttBudget>>

\* Mutant: no fresh snapshot is asked for.
WelcomeNothing == <<>>

Welcome == <<Ev("refresh", TRUE)>>

\* ... then the controller is registered and a fresh snapshot asked for.
CtlRegister(c) ==
    /\ conn[c].st = "hello"
    /\ conn' = [conn EXCEPT ![c].st = "in"]
    /\ out' = out \o Welcome
    /\ UNCHANGED <<held, pads, raw, rebind, rebound, wv, tx, bus, srv, pttBudget>>

\* route(): commands of a controller; before it is authenticated they are
\* ignored.
CtlSend(c) ==
    /\ Spend("ctl")
    /\ conn[c].st \in {"auth", "in"}
    /\ \E cmd \in {Ev("ptt", ~conn[c].hold), Ev("chan-cycle", 0), Ev("ctl", "mic-toggle")} :
         /\ out' = IF conn[c].st = "in" THEN Append(out, cmd) ELSE out
         /\ conn' = IF cmd.t = "ptt" THEN [conn EXCEPT ![c].hold = cmd.v] ELSE conn
    /\ UNCHANGED <<held, pads, raw, rebind, rebound, wv, tx, bus, srv>>

\* The connection of a controller ends; nothing is released for it.
CtlDrop(c) ==
    /\ Spend("ctl")
    /\ conn[c].st # "off"
    /\ Careful => ~conn[c].hold
    /\ conn' = [conn EXCEPT ![c] = NoConn]
    /\ UNCHANGED <<held, pads, raw, rebind, rebound, wv, tx, bus, out, srv>>

\* The shell's loop over the commands of controllers.
CtlForward ==
    /\ out # <<>>
    /\ out' = Tail(out)
    /\ LET cmd == Head(out)
           u == Update(raw.src, raw.src.key, cmd.v)
       IN CASE cmd.t = "ptt" -> raw' = [raw EXCEPT !.src = u.src] /\ bus' = bus \o u.events
            [] cmd.t = "refresh" -> bus' = Append(bus, Ev("ctl-refresh", TRUE)) /\ UNCHANGED raw
            [] OTHER -> bus' = Append(bus, cmd) /\ UNCHANGED raw
    /\ UNCHANGED <<held, pads, rebind, rebound, wv, tx, conn, srv, pttBudget>>

-----------------------------------------------------------------------------
\* The defaults: F8 talks, nothing cycles.
PttInit ==
    /\ pttBudget \in PttScenario
    /\ held = {} /\ pads = [p \in Device |-> {}]
    /\ raw = [bind |-> [s \in Slot |-> IF s = 0 THEN BuildCombo("F8", {}) ELSE Unbound],
              down |-> [s \in Slot |-> FALSE], cap |-> -1,
              cbind |-> [s \in Slot |-> Unbound], cdown |-> [s \in Slot |-> FALSE], ccap |-> -1,
              any |-> FALSE, mods |-> {}, src |-> NoSources, emits |-> <<>>]
    /\ rebind = <<>> /\ rebound = FALSE
    /\ wv = [muted |-> FALSE, latched |-> FALSE, recent |-> FALSE, screen |-> FALSE,
             timer |-> FALSE, shown |-> NoSnapshot]
    /\ tx = FALSE
    /\ bus = <<>> /\ out = <<>>
    /\ conn = [c \in Client |-> NoConn]
    /\ srv = [up |-> FALSE, state |-> NoSnapshot]

\* Steps that are on their way whatever the user does.
PttProgress ==
    \/ RebindStore \/ WvPtt \/ WvCtl \/ WvOther \/ WvReport \/ WvRefresh
    \/ CtlStart \/ CtlForward
    \/ \E c \in Client : CtlRegister(c)

PttNext ==
    \/ PttProgress
    \/ \E k \in KeyName : KeyPacket(k, TRUE) \/ KeyPacket(k, FALSE)
    \/ WheelPacket
    \/ \E p \in Device : PadReport(p)
    \/ \E s \in Slot, b \in Binding \cup {Unbound} : RebindClear(s, b) \/ SetChanBinding(s, b)
    \/ \E s \in Slot : StartCapture(s)
    \/ UiMute \/ UiDown \/ UiLongPress \/ UiUp \/ TapOver
    \/ \E c \in Client : CtlConnect(c) \/ CtlBadAuth(c) \/ CtlAuth(c) \/ CtlSend(c) \/ CtlDrop(c)

PttSpec == PttInit /\ [][PttNext]_pttVars

-----------------------------------------------------------------------------
\* Every variable has its type; no controller gets more than its tries.
PttTypeOK ==
    /\ held \subseteq Input /\ raw \in Raw
    /\ {tx, rebound, srv.up} \subseteq BOOLEAN
    /\ \A c \in Client :
         /\ conn[c].st \in {"off", "auth", "hello", "in"}
         /\ conn[c].tries <= MAX_AUTH_TRIES
         /\ conn[c].tries = MAX_AUTH_TRIES => conn[c].st = "off"

\* Never on without a holder: once commands are forwarded, the merged state is on
\* only if a bound chord is down or a controller holds its button (handle_raw(),
\* PttSources).  Not the converse: two pads, or two controllers, share one flag,
\* and the release of one silences the other while it still holds.
HeldToTransmit ==
    out = <<>> /\ ~rebound /\ raw.src.emitted =>
      \/ \E s \in Slot : ChordHeld(raw.bind[s])
      \/ \E c \in Client : conn[c].hold

\* No hot microphone: once the webview has seen every event, it transmits only
\* for a source that is held, its own button, or a latch.
NoHotMic == bus = <<>> /\ tx => raw.src.emitted \/ wv.screen \/ wv.latched

\* Muted means silent, whatever events are still under way.
MutedIsSilent == wv.muted => ~tx

\* The microphone is the user's: never open but for a source that is held, the
\* button on the screen, or a latch, and never open while muted.
MicIsSafe == PttTypeOK /\ HeldToTransmit /\ NoHotMic /\ MutedIsSilent

\* Once nothing is on its way, every controller shows the state of the webview
\* (hello, registration and the refresh that closes the gap between them).
SnapshotFresh ==
    bus = <<>> /\ out = <<>> /\ wv.shown = Snapshot =>
      \A c \in Client : conn[c].st = "in" => conn[c].seen = Snapshot
=============================================================================

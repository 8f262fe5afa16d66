----------------------------- MODULE AudioPipe -----------------------------
(***************************************************************************)
(* The audio rig of a session (core audio.rs, setup_audio in lib.rs): the   *)
(* device thread with its streams, the encoder, the decoder and the mixer,  *)
(* which share buffers and flags and no clock.                              *)
(*                                                                         *)
(* Captured audio is counted in blocks of 10 ms, frames have 20 ms.  The    *)
(* rate of a device is the number of units a frame takes in its playback    *)
(* ring.                                                                   *)
(***************************************************************************)
EXTENDS Integers, Sequences, FiniteSets

CONSTANTS
    Speaker,      \* peers whose frames arrive
    Rate,         \* device rates
    CAP_MAX,      \* captured blocks kept (2 s)
    MIX_MAX,      \* decoded frames kept of a peer (400 ms)
    SELF_MAX,     \* frames of the mic self-check kept (200 ms)
    TARGET,       \* frames the mixer keeps ready (60 ms)
    PLAY_MAX,     \* frames the playback ring holds at most (0.5 s)
    AuScenario    \* bounds: blocks, frames, clicks, ticks, rigs

ASSUME AuConstants ==
    /\ IsFiniteSet(Speaker) /\ Rate \subseteq Nat \ {0}
    /\ CAP_MAX \in Nat \ {0} /\ MIX_MAX \in Nat \ {0} /\ SELF_MAX \in Nat \ {0}
    /\ TARGET \in Nat \ {0} /\ PLAY_MAX \in Nat /\ TARGET <= PLAY_MAX
    /\ AuScenario \subseteq
         [blocks : Nat, frames : Nat, clicks : Nat, ticks : Nat, rigs : {0, 1}]

VARIABLES
    dev,       \* device thread: where it is, open streams, requests
    flag,      \* shared atomics: stop, transmit, monitor, dtx, in_rate, out_rate
    cap,       \* captured blocks
    enc,       \* encoder
    mix,       \* what waits to be mixed, by source
    seen,      \* decoders: time since the last frame of a peer
    gc,        \* time since the last collection
    arrived,   \* frames waiting for the decoder, and whether the mesh is gone
    mixer,     \* mixer thread
    play,      \* playback ring
    sent,      \* history: a monitored frame was sent
    auBudget

auVars == <<dev, flag, cap, enc, mix, seen, gc, arrived, mixer, play, sent, auBudget>>
capVars == <<cap, enc, sent>>
decVars == <<seen, gc, arrived>>
outVars == <<mixer, play>>

Self == "self"
Earcon == "__earcon__"
Idle == 2    \* DECODER_IDLE, in ticks of half of it

AuInit ==
    /\ dev = [pc |-> "off", ins |-> {}, outs |-> {}, todo |-> <<>>]
    /\ flag = [stop |-> FALSE, tx |-> FALSE, monitor |-> FALSE, dtx |-> FALSE,
               in |-> 1, out |-> 1]
    /\ cap = 0
    /\ enc = [pc |-> "off", clean |-> 0, self |-> FALSE, turned |-> FALSE]
    /\ mix = [x \in {} |-> 0]
    /\ seen = [x \in {} |-> 0]
    /\ gc = 0
    /\ arrived = [queue |-> <<>>, open |-> FALSE]
    /\ mixer = [pc |-> "off", rate |-> 1]
    /\ play = 0
    /\ sent = FALSE
    /\ auBudget \in AuScenario

AuSpend(what) == /\ auBudget[what] > 0
                 /\ auBudget' = [auBudget EXCEPT ![what] = @ - 1]
AtMost(n, max) == IF n > max THEN max ELSE n

----------------------------------------------------------------------------
\* Device thread

\* Both streams run before the rig is reported; then the other threads start.
\* A failure is reported instead, and nothing starts.
StartRig ==
    /\ dev.pc = "off" /\ AuSpend("rigs")
    /\ \/ \E i, o \in Rate :
            /\ dev' = [dev EXCEPT !.pc = "poll", !.ins = {i}, !.outs = {o}]
            /\ flag' = [flag EXCEPT !.in = i, !.out = o]
            /\ enc' = [enc EXCEPT !.pc = "top"]
            /\ mixer' = [mixer EXCEPT !.pc = "top", !.rate = o]
            /\ arrived' = [arrived EXCEPT !.open = TRUE]
       \/ dev' = [dev EXCEPT !.pc = "over"] /\ UNCHANGED <<flag, enc, mixer, arrived>>
    /\ UNCHANGED <<cap, mix, seen, gc, play, sent>>

\* A request: the new stream is built and started beside the old one; a device
\* that is missing, unsupported or will not start changes nothing.
Switch ==
    /\ dev.pc = "poll" /\ dev.todo # <<>>
    /\ LET want == Head(dev.todo)
           rest == [dev EXCEPT !.todo = Tail(@)]
       IN \/ dev' = rest
          \/ want.input /\ dev' = [rest EXCEPT !.pc = "input", !.ins = @ \cup {want.rate}]
          \/ ~want.input /\ dev' = [rest EXCEPT !.pc = "output", !.outs = @ \cup {want.rate}]
    /\ UNCHANGED <<flag, capVars, mix, decVars, outVars, auBudget>>

\* Its rate is published and it replaces the old one.
Switched(r) ==
    \/ /\ dev.pc = "input" /\ dev' = [dev EXCEPT !.pc = "poll", !.ins = {r}]
       /\ flag' = [flag EXCEPT !.in = r]
    \/ /\ dev.pc = "output" /\ dev' = [dev EXCEPT !.pc = "poll", !.outs = {r}]
       /\ flag' = [flag EXCEPT !.out = r]

\* The new stream is the one the published rate is not about, if they differ.
Newer(rates, old) == IF rates = {old} THEN old ELSE CHOOSE r \in rates : r # old

FinishSwitch ==
    /\ dev.pc \in {"input", "output"}
    /\ Switched(IF dev.pc = "input" THEN Newer(dev.ins, flag.in)
                                    ELSE Newer(dev.outs, flag.out))
    /\ UNCHANGED <<capVars, mix, decVars, outVars, auBudget>>

\* Checked every 100 ms, between two requests.
DevicesEnd ==
    /\ dev.pc = "poll" /\ dev.todo = <<>> /\ flag.stop
    /\ dev' = [dev EXCEPT !.pc = "over", !.ins = {}, !.outs = {}]
    /\ UNCHANGED <<flag, capVars, mix, decVars, outVars, auBudget>>

----------------------------------------------------------------------------
\* Capture and encoder

\* cap_push: the oldest samples go.
Kept(n) == AtMost(n, CAP_MAX)

Capture ==
    /\ dev.ins # {} /\ AuSpend("blocks")
    /\ cap' = Kept(cap + 1)
    /\ UNCHANGED <<dev, flag, enc, sent, mix, decVars, outVars>>

\* Follow the rate published, or end.
EncodeTop ==
    /\ enc.pc = "top"
    /\ enc' = IF flag.stop THEN [enc EXCEPT !.pc = "over"]
              ELSE [enc EXCEPT !.pc = "drain"]
    /\ UNCHANGED <<dev, flag, cap, sent, mix, decVars, outVars, auBudget>>

\* Everything captured is resampled and denoised, block by block.
Drain ==
    /\ enc.pc = "drain"
    /\ cap' = 0
    /\ enc' = IF cap = 0 THEN [enc EXCEPT !.pc = "top"]
              ELSE [enc EXCEPT !.pc = "frame", !.clean = @ + cap]
    /\ UNCHANGED <<dev, flag, sent, mix, decVars, outVars, auBudget>>

Has(m, x) == IF x \in DOMAIN m THEN m[x] ELSE 0
Put(m, x, n) == [y \in DOMAIN m \cup {x} |-> IF y = x THEN n ELSE m[y]]

\* The next 20 ms, through the DSP; while monitoring they are played back.
NextFrame ==
    /\ enc.pc = "frame"
    /\ \/ /\ enc.clean < 2 /\ enc' = [enc EXCEPT !.pc = "top"]
          /\ UNCHANGED mix
       \/ /\ enc.clean >= 2
          /\ enc' = [enc EXCEPT !.pc = "send", !.clean = @ - 2,
                                !.self = flag.monitor, !.turned = FALSE]
          /\ mix' = IF flag.monitor
                    THEN Put(mix, Self, AtMost(Has(mix, Self) + 1, SELF_MAX))
                    ELSE mix
    /\ UNCHANGED <<dev, flag, cap, sent, decVars, outVars, auBudget>>

\* Mutant: the self-check is sent to the room as well.
MaySendMonitored(silent) == flag.tx /\ ~(flag.dtx /\ silent)

MaySend(silent) == flag.tx /\ ~flag.monitor /\ ~(flag.dtx /\ silent)

\* The flags are read again; then the frame is encoded and sent, or dropped.
Send ==
    /\ enc.pc = "send"
    /\ enc' = [enc EXCEPT !.pc = "frame", !.self = FALSE, !.turned = FALSE]
    /\ \E silent \in BOOLEAN :
         sent' = IF MaySend(silent)
                 THEN sent \/ (enc.self /\ ~enc.turned) ELSE sent
    /\ UNCHANGED <<dev, flag, cap, mix, decVars, outVars, auBudget>>

----------------------------------------------------------------------------
\* Decoder

FrameArrives(p) ==
    /\ arrived.open /\ AuSpend("frames")
    /\ arrived' = [arrived EXCEPT !.queue = Append(@, p)]
    /\ UNCHANGED <<dev, flag, capVars, mix, seen, gc, outVars>>

\* At the earliest half the idle time after the last collection.
Due == gc >= 1

\* A frame; one that does not decode still counts as a sign of life.  Peers
\* silent for the idle time are forgotten when a collection is due.
Decode ==
    /\ arrived.queue # <<>>
    /\ LET p == Head(arrived.queue)
           now == Put(seen, p, 0)
           stale == IF Due THEN {q \in DOMAIN now : now[q] >= Idle} ELSE {}
       IN /\ \E m \in {mix, Put(mix, p, AtMost(Has(mix, p) + 1, MIX_MAX))} :
               mix' = [x \in DOMAIN m \ stale |-> m[x]]
          /\ seen' = [q \in DOMAIN now \ stale |-> now[q]]
          /\ gc' = IF Due THEN 0 ELSE gc
    /\ arrived' = [arrived EXCEPT !.queue = Tail(@)]
    /\ UNCHANGED <<dev, flag, capVars, outVars, auBudget>>

Tick ==
    /\ AuSpend("ticks")
    /\ gc' = gc + 1
    /\ seen' = [q \in DOMAIN seen |-> seen[q] + 1]
    /\ UNCHANGED <<dev, flag, capVars, mix, arrived, outVars>>

----------------------------------------------------------------------------
\* Mixer and playback

\* Mutant: the ring is cut below what the mixer wants to keep ready.
RingMaxTooSmall(r) == (TARGET - 1) * r

RingMax(r) == PLAY_MAX * r

\* Retune to the rate published, or end; then fill the ring up to the target.
MixTop ==
    /\ mixer.pc = "top"
    /\ mixer' = IF flag.stop THEN [mixer EXCEPT !.pc = "over"]
                ELSE [pc |-> "fill", rate |-> flag.out]
    /\ UNCHANGED <<dev, flag, capVars, mix, decVars, play, auBudget>>

Fill ==
    /\ mixer.pc = "fill"
    /\ \/ /\ play >= TARGET * mixer.rate
          /\ mixer' = [mixer EXCEPT !.pc = "top"] /\ UNCHANGED <<mix, play>>
       \/ /\ play < TARGET * mixer.rate
          /\ mix' = [x \in DOMAIN mix |-> IF mix[x] > 0 THEN mix[x] - 1 ELSE 0]
          /\ play' = AtMost(play + mixer.rate, RingMax(mixer.rate))
          /\ UNCHANGED mixer
    /\ UNCHANGED <<dev, flag, capVars, decVars, auBudget>>

\* A stream takes what is there and plays silence for the rest.
Playback ==
    /\ AuSpend("blocks")
    /\ \E r \in dev.outs : play' = IF play > r THEN play - r ELSE 0
    /\ UNCHANGED <<dev, flag, capVars, mix, decVars, mixer>>

----------------------------------------------------------------------------
\* The user, the engine loop, and the end of the session

Toggle(f) ==
    /\ dev.pc \notin {"off", "over"} /\ AuSpend("clicks")
    /\ flag' = [flag EXCEPT ![f] = ~@]
    /\ enc' = IF f = "monitor" /\ enc.pc = "send" THEN [enc EXCEPT !.turned = TRUE]
              ELSE enc
    /\ UNCHANGED <<dev, cap, sent, mix, decVars, outVars>>

\* A click or a latch cue replaces the one not played yet.
Cue(m) == Put(m, Earcon, 2)

PlayCue ==
    /\ dev.pc \notin {"off", "over"} /\ AuSpend("clicks")
    /\ mix' = Cue(mix)
    /\ UNCHANGED <<dev, flag, capVars, decVars, outVars>>

Request(input, r) ==
    /\ dev.pc \notin {"off", "over"} /\ AuSpend("clicks")
    /\ dev' = [dev EXCEPT !.todo = Append(@, [input |-> input, rate |-> r])]
    /\ UNCHANGED <<flag, capVars, mix, decVars, outVars>>

\* The owner of the rig goes; the loop closes the mesh and with it the sender
\* of decoded frames; the decoder finishes what it was given.
StopRig ==
    /\ dev.pc \notin {"off", "over"} /\ ~flag.stop
    /\ flag' = [flag EXCEPT !.stop = TRUE]
    /\ arrived' = [arrived EXCEPT !.open = FALSE]
    /\ UNCHANGED <<dev, capVars, mix, seen, gc, outVars, auBudget>>

AuThread ==
    \/ Switch \/ FinishSwitch \/ DevicesEnd
    \/ EncodeTop \/ Drain \/ NextFrame \/ Send
    \/ Decode \/ MixTop \/ Fill

AuNext ==
    \/ StartRig \/ StopRig \/ AuThread
    \/ Capture \/ Playback \/ Tick \/ PlayCue
    \/ \E p \in Speaker : FrameArrives(p)
    \/ \E f \in {"tx", "monitor", "dtx"} : Toggle(f)
    \/ \E r \in Rate, input \in BOOLEAN : Request(input, r)

\* Every thread runs.
AuFair ==
    /\ WF_auVars(Switch) /\ WF_auVars(FinishSwitch) /\ WF_auVars(DevicesEnd)
    /\ WF_auVars(EncodeTop \/ Drain \/ NextFrame \/ Send)
    /\ WF_auVars(Decode) /\ WF_auVars(MixTop \/ Fill)

AuSpec == AuInit /\ [][AuNext]_auVars /\ AuFair

----------------------------------------------------------------------------

\* No buffer outgrows its bound, whatever the threads, devices and peers do:
\* capture, every mix queue, the self-check, one cue, and the playback ring
\* (which after a switch may still hold what the faster device left).
BuffersBounded ==
    /\ cap <= CAP_MAX
    /\ \A x \in DOMAIN mix :
         mix[x] <= CASE x = Self -> SELF_MAX [] x = Earcon -> 2 [] OTHER -> MIX_MAX
    /\ \E r \in Rate \cup {1} : play <= PLAY_MAX * r

\* Audio of the mic self-check stays at home: a frame that was played back to
\* the user is not sent, unless the user turned the check off in between.
SelfTestStaysHome == ~sent

\* A switch never leaves the user without a device: while the rig runs, some
\* stream captures and some stream plays.
NeverDeviceless ==
    dev.pc \in {"poll", "input", "output"} => dev.ins # {} /\ dev.outs # {}

\* The rates the threads tune to are those of the streams that run: between
\* two switches, the published rate is that of the one open stream, so at most
\* the audio around a switch is resampled with the wrong rate.
RatesSettle ==
    dev.pc = "poll" => dev.ins = {flag.in} /\ dev.outs = {flag.out}

\* Memory of peers that left is bounded by time: whenever the decoder has just
\* handled a frame, it knows nobody who was silent for one and a half times
\* the idle time.
\* (a frame just handled is the only way to an age of 0)
QuietPeersForgotten ==
    (\E p \in DOMAIN seen : seen[p] = 0) => \A q \in DOMAIN seen : seen[q] <= Idle

\* The end of a session frees the devices: once the rig is told to stop, every
\* thread ends.
RigEnds ==
    flag.stop ~> /\ dev.pc = "over" /\ enc.pc = "over" /\ mixer.pc = "over"
                 /\ arrived.queue = <<>>

\* The rig is safe to run for hours: buffers, self-check, devices, rates and
\* departed peers, whichever thread is late.
RigIsSafe ==
    /\ BuffersBounded /\ SelfTestStaysHome
    /\ NeverDeviceless /\ RatesSettle
    /\ QuietPeersForgotten
=============================================================================

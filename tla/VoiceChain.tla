----------------------------- MODULE VoiceChain -----------------------------
(***************************************************************************)
(* The sample-by-sample stages of the audio rig (core audio.rs): the        *)
(* resampler between device and codec, gate, compressor and limiter before  *)
(* encoding, and the radio effect on what is heard.  Settings change while  *)
(* samples pass.                                                           *)
(*                                                                         *)
(* Levels, gains, limits and the ratio are in thousandths and rounded       *)
(* down; a smoothing coefficient is in eighths.  Filters and the tanh       *)
(* shaper do not change what a sample is here, only which settings made it. *)
(***************************************************************************)
EXTENDS Integers, Sequences

CONSTANTS
    Pace,           \* rates of a device and of the codec, in lowest terms
    Level,          \* levels of a sample
    Knobs,          \* thresholds, ratio, makeup and ceiling a user can set
    Factor,         \* tenths of a tick the bitcrusher holds a sample, by setting
    VcScenario      \* bound: samples and settings of each stage

ASSUME VcConstants ==
    /\ Pace \subseteq [src : Nat \ {0}, dst : Nat \ {0}]
    /\ Level \subseteq 0 .. 1000
    /\ Knobs \subseteq [gate_threshold : 0 .. 500, comp_threshold : 10 .. 1000,
                      comp_ratio : 1000 .. 20000, comp_makeup : 100 .. 4000,
                      limiter_ceiling : 50 .. 1000]       \* normalize_dsp()
    /\ Factor \subseteq 10 .. 120
    /\ VcScenario \subseteq [resample : Nat, shape : Nat, radio : Nat, settings : Nat]

VARIABLES
    res,       \* Resampler, and how many samples went in and out
    dsp,       \* Dsp and DspConfig
    passed,    \* last sample of the DSP chain: in, out, limiter gain before
    fx,        \* RadioFx and RadioCfg
    vcBudget

vcVars == <<res, dsp, passed, fx, vcBudget>>

Unity == 1000

DefaultKnobs == [gate_threshold |-> 15, comp_threshold |-> 150, comp_ratio |-> 3000,
                 comp_makeup |-> 1400, limiter_ceiling |-> 970]

\* Resampler::new(), DspConfig::default() with shorter time constants, and
\* RadioFx::new().
VcInit ==
    /\ res \in [pace : Pace, t : {0}, have_prev : {FALSE}, fed : {0}, made : {0}]
    /\ dsp = [gate |-> TRUE, compressor |-> TRUE, limiter |-> TRUE, knobs |-> DefaultKnobs,
              gate_env |-> 0, gate_gain |-> Unity, comp_env |-> 0, lim_gain |-> Unity]
    /\ passed = [in |-> 0, out |-> 0, before |-> Unity]
    /\ fx = [enabled |-> FALSE, factor |-> 10, phase |-> 0, age |-> 0, stale |-> TRUE]
    /\ vcBudget \in VcScenario

VcSpend(f) == vcBudget[f] > 0 /\ vcBudget' = [vcBudget EXCEPT ![f] = @ - 1]

-----------------------------------------------------------------------------
(***************************************************************************)
(* Resampler.  The phase t is in dst-ths of an input sample.               *)
(***************************************************************************)
\* Samples made between the last one and this one, from phase t on.
Made(t, p) == IF t >= p.dst THEN 0 ELSE (p.dst - t + p.src - 1) \div p.src

\* Mutant: every input sample starts a new phase.
PhaseForgotten(t, p) == 0

\* The phase that is left for the next input sample.
PhaseAfter(t, p) == t + Made(t, p) * p.src - p.dst

\* process(): the first sample of all is only remembered.
Resample ==
    /\ VcSpend("resample")
    /\ res' = IF res.have_prev
                THEN [res EXCEPT !.fed = @ + 1, !.made = @ + Made(res.t, res.pace),
                                 !.t = PhaseAfter(@, res.pace)]
                ELSE [res EXCEPT !.fed = @ + 1, !.have_prev = TRUE]
    /\ UNCHANGED <<dsp, passed, fx>>

-----------------------------------------------------------------------------
(***************************************************************************)
(* Dsp::process(): gate, compressor, limiter.                              *)
(***************************************************************************)
Scaled(s, g) == (s * g) \div Unity
Smooth(old, new, k) == (k * old + (8 - k) * new) \div 8
Most(a, b) == IF a > b THEN a ELSE b

\* Each stage: the state d after a sample s.
Gated(d, s) ==
    IF ~d.gate THEN d
    ELSE LET env == IF s > d.gate_env THEN s ELSE Smooth(d.gate_env, s, 7)
             target == IF env >= d.knobs.gate_threshold THEN Unity ELSE 0
         IN [d EXCEPT !.gate_env = env,
                      !.gate_gain = Smooth(@, target, IF target > @ THEN 2 ELSE 7)]

Compressed(d, s) ==
    IF ~d.compressor THEN d
    ELSE [d EXCEPT !.comp_env = Smooth(@, s, IF s > @ THEN 4 ELSE 7)]

\* The gain of the compressor at envelope env, with the knobs k.
CompGain(k, env) ==
    IF env > k.comp_threshold
      THEN ((k.comp_threshold + ((env - k.comp_threshold) * Unity) \div k.comp_ratio) * Unity)
             \div Most(env, 1)
      ELSE Unity

\* The gain at which sample s is at the ceiling of the knobs k.
LimTarget(k, s) ==
    IF s > k.limiter_ceiling THEN (k.limiter_ceiling * Unity) \div s ELSE Unity

\* A gain too high for the sample is lowered at once, else it is released.
LimGain(g, target) == IF target < g THEN target ELSE Smooth(g, Unity, 7)

Limited(d, s) ==
    IF ~d.limiter THEN d
    ELSE [d EXCEPT !.lim_gain = LimGain(@, LimTarget(d.knobs, s))]

Shape(x) ==
    /\ VcSpend("shape")
    /\ LET g == Gated(dsp, x)
           s1 == IF g.gate THEN Scaled(x, g.gate_gain) ELSE x
           c == Compressed(g, s1)
           s2 == IF c.compressor THEN Scaled(Scaled(s1, CompGain(c.knobs, c.comp_env)), c.knobs.comp_makeup)
                 ELSE s1
           l == Limited(c, s2)
           s3 == IF l.limiter THEN Scaled(s2, l.lim_gain) ELSE s2
       IN /\ dsp' = l
          /\ passed' = [in |-> x, out |-> IF s3 > Unity THEN Unity ELSE s3,
                        before |-> dsp.lim_gain]
    /\ UNCHANGED <<res, fx>>

\* set_dsp() while samples pass: a switch or the knobs, and one after the other
\* for both.  A stage keeps its state, one that is switched off too.
SetDsp ==
    /\ VcSpend("settings")
    /\ \/ \E f \in {"gate", "compressor", "limiter"} : dsp' = [dsp EXCEPT ![f] = ~@]
       \/ \E k \in Knobs : dsp' = [dsp EXCEPT !.knobs = k]
    /\ passed' = [passed EXCEPT !.in = 0, !.out = 0]
    /\ UNCHANGED <<res, fx>>

-----------------------------------------------------------------------------
(***************************************************************************)
(* RadioFx::process(): the bitcrusher takes a sample whenever its phase     *)
(* reaches the factor, and repeats it until then.                          *)
(***************************************************************************)
\* The phase after a sample was taken: what is over counts for the next.
PhaseTaken(f) == f.phase + 10 - f.factor

\* `age`: samples since the one that is played was taken; `stale`: it was taken
\* before the effect was last switched off.
Radio ==
    /\ VcSpend("radio")
    /\ \/ (~fx.enabled \/ fx.factor = 10)
          /\ fx' = [fx EXCEPT !.stale = TRUE]
       \/ fx.enabled /\ fx.factor # 10 /\ fx.phase + 10 >= fx.factor
          /\ fx' = [fx EXCEPT !.phase = PhaseTaken(fx), !.age = 0, !.stale = FALSE]
       \/ fx.enabled /\ fx.factor # 10 /\ fx.phase + 10 < fx.factor
          /\ fx' = [fx EXCEPT !.phase = @ + 10, !.age = @ + 1]
    /\ UNCHANGED <<res, dsp, passed>>

SetRadio ==
    /\ VcSpend("settings")
    /\ \/ fx' = [fx EXCEPT !.enabled = ~@]
       \/ \E k \in Factor : fx' = [fx EXCEPT !.factor = k]
    /\ UNCHANGED <<res, dsp, passed>>

VcNext ==
    \/ Resample
    \/ \E x \in Level : Shape(x)
    \/ SetDsp
    \/ Radio \/ SetRadio

VcSpec == VcInit /\ [][VcNext]_vcVars

-----------------------------------------------------------------------------
\* The resampler keeps the pace of the device however long it runs: what was
\* made differs from what the rates ask for by less than one sample each way
\* (a drift would fill or drain the buffers behind it).
NoDrift ==
    res.have_prev =>
      LET ahead == res.made * res.pace.src - (res.fed - 1) * res.pace.dst
      IN ahead >= 0 /\ ahead < res.pace.src + res.pace.dst

\* The comments of the limiter and its test say that the ceiling is hard and no
\* peak ever gets through.  It does not hold: a sample the kept gain would bring
\* exactly to the ceiling, or a little below, finds the gain released by a step.
NoPeakEscapes == dsp.limiter => passed.out <= dsp.knobs.limiter_ceiling

\* What holds instead: no peak gets further above the ceiling than one step of
\* the release lifts the loudest sample there is, four times full scale after
\* the highest makeup.
EscapesByOneStep ==
    dsp.limiter =>
      LET step == Smooth(passed.before, Unity, 7) - passed.before
      IN passed.out <= dsp.knobs.limiter_ceiling + 4 * step

\* Nothing but the makeup gain makes a sample louder, whichever stages are on
\* and whatever state they kept while they were off or set differently.
OnlyMakeupAmplifies ==
    passed.out <= Scaled(passed.in, Most(dsp.knobs.comp_makeup, Unity))

\* The radio effect plays no sample that is older than the 12 ticks the
\* bitcrusher may hold one, whichever way the slider moved meanwhile, but for
\* the one it held when it was switched off.
HoldsBriefly == fx.stale \/ fx.age < 12

\* The stages a sample passes, while switches, knobs and sliders are moved: pace,
\* loudness, the age of what is played, and how far a peak can escape.
ChainIsSound == NoDrift /\ EscapesByOneStep /\ OnlyMakeupAmplifies /\ HoldsBriefly
=============================================================================

---------------------------- MODULE MCVoiceChain ----------------------------
(***************************************************************************)
(* VoiceChain with a few settings, levels and rates.                        *)
(***************************************************************************)
EXTENDS VoiceChain

\* Each stage by itself, with what the user switches meanwhile.
Stages(resample, shape, radio, settings) ==
    [resample |-> resample, shape |-> shape, radio |-> radio, settings |-> settings]

NoStages == Stages(0, 0, 0, 0)
Chain == {Stages(12, 0, 0, 0), Stages(0, 4, 0, 1), Stages(0, 3, 0, 2), Stages(0, 0, 30, 3), NoStages}

\* One change of the settings and two samples.
TwoSamples == {Stages(0, 2, 0, 1)}

\* A loud voice against a low ceiling, and hardly any processing.
Tunings == {[gate_threshold |-> 500, comp_threshold |-> 10, comp_ratio |-> 20000,
             comp_makeup |-> 4000, limiter_ceiling |-> 50],
            [gate_threshold |-> 0, comp_threshold |-> 1000, comp_ratio |-> 1000,
             comp_makeup |-> 4000, limiter_ceiling |-> 600]}

\* A device at 44.1 kHz and one at 96 kHz, roughly, and one at the codec's.
Paces == {[src |-> 3, dst |-> 2], [src |-> 2, dst |-> 3], [src |-> 1, dst |-> 1]}
=============================================================================

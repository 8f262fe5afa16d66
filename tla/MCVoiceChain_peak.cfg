SPECIFICATION VcSpec
CONSTANTS
    Pace <- Paces
    Level = {0, 10, 200, 1000}
    Knobs <- Tunings
    Factor = {10, 21, 65, 120}
    VcScenario <- TwoSamples
CHECK_DEADLOCK FALSE
INVARIANT NoPeakEscapes

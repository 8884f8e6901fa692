SPECIFICATION Spec
CONSTANTS
    warmup_iters = 1
    iters = 3
    eff_batch = 2
CHECK_DEADLOCK FALSE
INVARIANTS
    SampledExactly
    CountsExact
PROPERTIES
    RunnerEnds

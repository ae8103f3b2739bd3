SPECIFICATION PromptSpec
CONSTANTS
    Requests = {r1, r2}
    Workers = {w1, w2}
    MaxDelay = 2
    GenerationMod = 4
CHECK_DEADLOCK FALSE
INVARIANTS TimerCoversNextDeadline

SPECIFICATION Spec
CONSTANTS
    c1 = c1
    c2 = c2
    None = None
    Clients = {c1, c2}
    Timed = {c1, c2}
    Low = {}
    MaxSlots = 2
    PipeDepth = 1
    MaxLate = 0
    Wrap = TRUE
    PromptFetch = TRUE
    HasCtx = FALSE
    Start = 0
    Size = 4
    Half = 5
SYMMETRY Symm
INVARIANTS TypeOK PushNeverFull RingHoldsQueue CountConserved  HandlesFollowRing TimerWatchesQueue

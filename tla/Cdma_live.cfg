SPECIFICATION FairSpec
CONSTANTS
    c1 = c1
    c2 = c2
    None = None
    Clients = {c1, c2}
    Timed = {c1, c2}
    Low = {}
    MaxSlots = 2
    PipeDepth = 1
    MaxLate = 0
    Wrap = FALSE
    PromptFetch = TRUE
    HasCtx = TRUE
    Start = 2
    Size = 3
    Half = 4
PROPERTIES SubmitFinishes StopReturns IsJobQueue
CHECK_DEADLOCK FALSE

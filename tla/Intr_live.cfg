SPECIFICATION FairSpec
CONSTANTS
    Half = 3
    SubmitWaiters = {s1}
    WakeWaiters = {w1}
    Channel <- OneChannel
    Irq = Irq
    PromptIrq = FALSE
    ClientManaged = FALSE
    MaxIncrs = 2
    MaxAhead = 0
    MaxLeaks = 0
PROPERTIES  PutRefReturns

SPECIFICATION Spec
CONSTANTS
    Half = 3
    SubmitWaiters = {}
    WakeWaiters = {w1, w2}
    Channel <- OneChannel
    Irq = Irq
    PromptIrq = TRUE
    ClientManaged = TRUE
    MaxIncrs = 1
    MaxAhead = 1
    MaxLeaks = 0
SYMMETRY Symm
INVARIANTS  StopFindsNobody 

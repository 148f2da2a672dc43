SPECIFICATION Spec
CONSTANTS
    Half = 3
    SubmitWaiters = {s1, s2}
    WakeWaiters = {w1}
    Channel <- OneChannel
    Irq = Irq
    PromptIrq = FALSE
    ClientManaged = FALSE
    MaxIncrs = 2
    MaxAhead = 0
    MaxLeaks = 1
SYMMETRY Symm
INVARIANTS TypeOK RefsMatchHolders WakeupFindsItsStack BusyMatchesWork InterruptArmed

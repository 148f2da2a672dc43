SPECIFICATION Spec
CONSTANTS
    gr3d = gr3d
    host = host
    u1 = u1
    u2 = u2
    k1 = k1
    Pm = Pm
    None = None
    Children = {gr3d}
    Host = host
    CanPowergate = {gr3d}
    HasPoweroff = {gr3d}
    Keepalive = {}
    Users = {u1, u2}
    Ctrls = {k1}
    Depth = 2
    PromptIrq = TRUE
    SuspendSaves = TRUE
    JobMemory = TRUE
    MaxStarted = 1
    MaxClkFails = 1
SYMMETRY Symm
INVARIANTS TypeOK ReferencedIsPowered ParentRefs ChildRefs StopFindsQuiet SavingAlone IdleIsWatched CtxIsOpen OwnState

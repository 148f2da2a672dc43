SPECIFICATION Spec
CONSTANTS
    Half = 3
    Threads = {t1, t2}
    Jobs = {j1, j2}
    Incrementers = {}
    ClientManaged = FALSE
    MaxJobIncrs = 2
SYMMETRY Symm
INVARIANTS TypeOK  ExpiryTestsAgree SaveIsSafe
PROPERTIES ShadowNeverBack CounterSurvives

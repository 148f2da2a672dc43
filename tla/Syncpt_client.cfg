SPECIFICATION Spec
CONSTANTS
    Half = 3
    Threads = {t1, t2}
    Jobs = {j1}
    Incrementers = {t1}
    ClientManaged = TRUE
    MaxJobIncrs = 1
PROPERTIES ShadowNeverBack 

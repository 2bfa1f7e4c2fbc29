\* Two threads of one process and a command line.
SPECIFICATION Spec
CONSTANTS
    c1 = c1
    c2 = c2
    t1 = t1
    t2 = t2
    t3 = t3
    Client = {c1, c2}
    Thread = {t1, t2, t3}
    owner <- MCOwner
    Ops <- MCOps
    None = None
    LockTicks = 4
    MaxCalls = 3
    MaxFails = 2
CONSTRAINT Budget
INVARIANTS TypeOK  DeadlineHolds 

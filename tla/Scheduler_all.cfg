CONSTANTS
    t1 = t1
    t2 = t2
    t3 = t3
    t4 = t4
    NoThread = NoThread
    Threads = {t1, t2, t3}
    MaxWork = 2
    MaxExecutes = 2
    SignalIn <- Everywhere
SPECIFICATION FairSpec
INVARIANTS TypeOK SwitchesSound TurnsFair
PROPERTIES Returns

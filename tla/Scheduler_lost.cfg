CONSTANTS
    t1 = t1
    t2 = t2
    t3 = t3
    t4 = t4
    NoThread = NoThread
    Threads = {t1, t2, t3, t4}
    MaxWork = 1
    MaxExecutes = 1
    SignalIn = {"create"}
SPECIFICATION Spec
INVARIANT OthersTerminated

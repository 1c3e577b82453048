SPECIFICATION Spec
CONSTANTS
    Conns = {c1, c2}
    NoFd = NoFd
    auto_failback = FALSE
    detect_times = 1
    DeadTicks = 1
    AtomicStatus = FALSE
    Faults = {"health"}
    MaxEvents = 1
    MaxQueue = 2
SYMMETRY ConnSymmetry
PROPERTY FlagMeansTaken
CHECK_DEADLOCK FALSE

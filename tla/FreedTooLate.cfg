SPECIFICATION Spec
CONSTANTS
    Conns = {c1, c2}
    NoFd = NoFd
    auto_failback = FALSE
    detect_times = 1
    DeadTicks = 1
    AtomicStatus = TRUE
    Faults = {"late", "health"}
    MaxEvents = 2
    MaxQueue = 2
SYMMETRY ConnSymmetry
PROPERTY BackupReleasedFirst
CHECK_DEADLOCK FALSE

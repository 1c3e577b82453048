CONSTANTS
    keepalive = 2
    deadtime = 5
    MaxConnect = 1
    FdLimit = 9
SPECIFICATION Spec
INVARIANTS ActsInTime OnlyFailuresLeak
CHECK_DEADLOCK FALSE

SPECIFICATION MCSpec
CONSTANTS
    Pid = {p1, p2, p3}
    readable = TRUE
    MaxScripts = 3
INVARIANTS OneDaemon StopStops StopFreesVip ScriptObeyed
CHECK_DEADLOCK FALSE

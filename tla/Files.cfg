SPECIFICATION MCSpec
CONSTANTS
    MaxLen = 4
    Host = {"a", "b", "c"}
    Lines <- HaCfLines
    MaxLines = 4
    Tails <- HaResTails
    MaxEntries = 2
    MaxAlias = 1
    Threads = {main, status}
    max_keep_day = 1
    LastDay = 2
    MaxFailures = 1
INVARIANTS
    CoalescedIsMerge HeartbeatsTransparent GetResIsGenuine
    RolesComplementary SimpleNodesStart PortsAsWritten PeerIsUcast
    EntryUnderstood LeaksBounded
PROPERTY KeepsRecent
CHECK_DEADLOCK FALSE

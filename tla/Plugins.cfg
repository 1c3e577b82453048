SPECIFICATION MCFairSpec
CONSTANTS
    Services = 2
    connect_retry = 1
    TIMEOUT = 1
    MaxLen = 3
    MaxBack = 1
    icmp = icmp
    Files = {icmp, netsign, broken, readme}
    Named = {icmp, netsign, broken}
    Loadable = {icmp, netsign}
    slash = TRUE
    directory = TRUE
    MaxFlips = 2
    Bytes = {107, 250}
    MinLen = 0
    MaxString = 4
    MaxTrash = 1
    Number = {500, 2000}
    MaxLines = 2
    MaxEdits = 1
INVARIANTS HealthIsProbed IllnessHasCause SendsWhatIsMeant LastFileCounts SocketsClosed
PROPERTIES AnswerHeard RoundEnds

SPECIFICATION FairSpec
CONSTANTS
    Services = 1
    connect_retry = 1
    TIMEOUT = 1
    MaxLen = 2
    MaxBack = 1
PROPERTY EveryRoundEnds

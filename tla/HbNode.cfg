SPECIFICATION FairSpec
CONSTANTS
    spelling = "exact"
    ipv4 = TRUE
    Events = {"fail", "kill", "crash", "manual", "order", "health"}
    MaxEvents = 5
INVARIANT ScriptFollowsVip
PROPERTIES FlagRepaired TakenInTheEnd

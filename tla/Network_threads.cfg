SPECIFICATION FairSpec
CONSTANTS
    a1 = a1
    d1 = d1
    Addr = {a1}
    Dialer = {d1}
    MaxOutbound = 1
    MaxInbound = 1
    BanScore = 3
    Penalty = {2}
    MaxNodes = 2
    MaxCommands = 1
INVARIANT UsedNodesExist
INVARIANT UnwantedLeave
PROPERTY MisbehavingLeaves
 

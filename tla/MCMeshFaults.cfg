\* Two agent processes, one provider agent; any connection may be refused or
\* reset; ids are distinct.
SPECIFICATION FairSpec
CONSTANTS
    Agents = {"ca1", "ca2"}
    Endpoints = {"pa1"}
    Hashes <- SameKeys
    Keys = {1}
    HashOf <- OneHash
    Links <- MCLinks
    AgentOf <- MCAgentOf
    EndpointOf <- MCEndpointOf
    LinkKeys <- MCLinkKeys
    NoLink = NoLink
    Ids = {1, 2, 3}
    Faults = TRUE
    Conns = {1, 2}
    ConnAgent <- InTurn
    NoConn = NoConn
    FreshIds = TRUE
    MaxFetch = 3
PROPERTIES
    ImplementsPeer
    EventuallyAnswered
CHECK_DEADLOCK FALSE

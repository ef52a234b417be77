\* One agent process, one provider agent whose connect to the provider may be
\* refused.
SPECIFICATION FairSpec
CONSTANTS
    Agents = {"ca1"}
    Endpoints = {"pa1"}
    Hashes <- SameKeys
    Keys = {1}
    HashOf <- OneHash
    Links <- MCLinks
    AgentOf <- MCAgentOf
    EndpointOf <- MCEndpointOf
    LinkKeys <- MCLinkKeys
    NoLink = NoLink
    Ids = {1, 2, 3}
    Faults = TRUE
    Conns = {1, 2}
    ConnAgent <- OneProcess
    NoConn = NoConn
    FreshIds = TRUE
    MaxFetch = 1
PROPERTIES
    DubboConnectRetried
CHECK_DEADLOCK FALSE

\* Two agent processes share two provider agents; two of their three keys have
\* the same hash, and rand() may repeat itself.
SPECIFICATION Spec
CONSTANTS
    Agents = {"ca1", "ca2"}
    Endpoints = {pa1, pa2}
    Keys = {1, 2, 3}
    Hashes <- OwnKeys
    HashOf <- SharedHash
    Links <- MCLinks
    AgentOf <- MCAgentOf
    EndpointOf <- MCEndpointOf
    LinkKeys <- MCLinkKeys
    NoLink = NoLink
    Ids = {1, 2}
    Faults = FALSE
    Conns = {1, 2}
    ConnAgent <- InTurn
    NoConn = NoConn
    FreshIds = FALSE
    MaxFetch = 3
SYMMETRY EndpointSymmetry
INVARIANTS
    PaCrashNeedsCollision
    KeyFidelity
    NeverSpins
CHECK_DEADLOCK FALSE

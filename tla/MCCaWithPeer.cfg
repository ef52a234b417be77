SPECIFICATION Spec
CONSTANTS
    Agents = {"ca"}
    Endpoints = {1, 2}
    l1 = l1
    l2 = l2
    l3 = l3
    Links = {l1, l2, l3}
    AgentOf <- MCAgentOf
    EndpointOf <- MCEndpointOf
    Keys = {k1}
    LinkKeys <- MCLinkKeys
    Ids = {1, 2}
    Faults = TRUE
    Conns = {c1, c2}
    ConnAgent <- MCConnAgent
    NoConn = NoConn
    FreshIds = FALSE
    MaxFetch = 3
SYMMETRY Symmetry
INVARIANTS
    AnswersMatch
    AnsweredOnce
    CrashNeedsCollision
    HeaderFirst
PROPERTIES
    ImplementsRpc
CHECK_DEADLOCK FALSE

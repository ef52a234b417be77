---------------------------- MODULE MCCaWithPeer ----------------------------
\* One agent process and two endpoints, the first of them reached over two key
\* hashes, so that an answer can be misdirected between l1 and l2.
EXTENDS CaWithPeer, TLC

CONSTANTS l1, l2, l3

MCAgentOf == [l \in Links |-> "ca"]
MCEndpointOf == [l \in Links |-> IF l = l3 THEN 2 ELSE 1]
MCLinkKeys == [l \in Links |-> Keys]
MCConnAgent == [c \in Conns |-> "ca"]

\* HTTP connections can be exchanged, and so can the links of one endpoint.
Symmetry == Permutations(Conns) \cup Permutations({l1, l2})
=============================================================================

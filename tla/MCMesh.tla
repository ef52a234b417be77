------------------------------- MODULE MCMesh -------------------------------
\* Instances of Mesh: a link is <<agent, endpoint, hash>>.
EXTENDS Mesh, TLC

CONSTANTS Hashes,     \* of each process: the hashes of the keys asked of it
          HashOf

MCLinks == UNION {{a} \X Endpoints \X Hashes[a] : a \in Agents}
MCAgentOf == [l \in MCLinks |-> l[1]]
MCEndpointOf == [l \in MCLinks |-> l[2]]
MCLinkKeys == [l \in MCLinks |-> {k \in Keys : HashOf[k] = l[3]}]

\* One hash for every key.
OneHash == [k \in Keys |-> "h1"]
SameKeys == [a \in Agents |-> {"h1"}]

\* Keys 1 and 2 collide, key 3 has a hash of its own.  Process ca1 is asked
\* for the first two, ca2 for the third: to a provider agent two links are
\* the same whether one process opened them or two.
SharedHash == [k \in Keys |-> IF k = 3 THEN "h2" ELSE "h1"]
OwnKeys == [a \in Agents |-> IF a = "ca1" THEN {"h1"} ELSE {"h2"}]

OneProcess == [c \in Conns |-> "ca1"]

\* Connections are numbered from 1; they go to the two processes in turn.
InTurn == [c \in Conns |-> IF c % 2 = 1 THEN "ca1" ELSE "ca2"]

\* nextIdx is left open, so the endpoints can be exchanged.
EndpointSymmetry == Permutations(Endpoints)
=============================================================================

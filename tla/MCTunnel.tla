------------------------------ MODULE MCTunnel ------------------------------
EXTENDS Tunnel

CONSTANTS c1, a, k1, k2, k3

OneClient == {c1}
ThreeConns == {k1, k2, k3}
OwnKey == [c \in Client |-> {c}]
OwnService == [c \in Client |-> {a}]

OneConfig ==
  {[id |-> c1, key |-> c1, pqKey |-> c1, services |-> {a}, skewed |-> FALSE, pinned |-> TRUE]}

=============================================================================

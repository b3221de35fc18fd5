--------------------------- MODULE MCControlPlane ---------------------------
EXTENDS ControlPlane, TLC

CONSTANTS c1, c2, a, b, k1, k2, k3

OneClient == {c1}
TwoClients == {c1, c2}
TwoConns == {k1, k2}
ThreeConns == {k1, k2, k3}

\* A client's keys are named by the client; the service of c1 is a, of c2 b.
OwnKey == [c \in Client |-> {c}]
OwnService == [c \in Client |-> IF c = c1 THEN {a} ELSE {b}]

Good(c) ==
  [id |-> c, key |-> c, pqKey |-> c, services |-> OwnService[c],
   skewed |-> FALSE, pinned |-> TRUE]

GoodConfigs == {Good(c) : c \in Client}

\* Each way of being configured wrongly that the two ends tell apart.
BadConfigs ==
  LET g == Good(c1) IN
    {[g EXCEPT !.id = k1], [g EXCEPT !.key = c2], [g EXCEPT !.pqKey = c2],
     [g EXCEPT !.services = {b}], [g EXCEPT !.services = {a, b}],
     [g EXCEPT !.skewed = TRUE], [g EXCEPT !.pinned = FALSE]}

AllConfigs == GoodConfigs \cup BadConfigs

ConnSymmetry == Permutations(Session)

=============================================================================

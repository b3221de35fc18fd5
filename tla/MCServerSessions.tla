-------------------------- MODULE MCServerSessions --------------------------
EXTENDS ServerSessions, TLC

CONSTANTS c1, c2, a, b, s1, s2, s3

TwoClients == {c1, c2}
OneService == {a}
TwoServices == {a, b}
ThreeSessions == {s1, s2, s3}
AllowAll == [c \in Client |-> Service]
NoneOccupied == {}

\* c1 has one service; c2 has two, and the address of one of them is taken.
OneAndTwo == [c \in Client |-> IF c = c1 THEN {a} ELSE {a, b}]
SecondOccupied == {<<c2, a>>}

SessionSymmetry == Permutations(Session)

\* One client at a time: three sessions of c1, or two of c2.  Only who connects
\* is restricted, so the fairness of Spec is that of this specification.
OneClientConnects ==
  /\ \A s, t \in Session : None \notin {clientID[s], clientID[t]} => clientID[s] = clientID[t]
  /\ clientID[s3] # c2

ChainSpec == Init /\ [][Next /\ OneClientConnects']_vars /\ Fairness

=============================================================================

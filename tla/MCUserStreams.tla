--------------------------- MODULE MCUserStreams ---------------------------
EXTENDS UserStreams

CONSTANTS c1, a, b, s1, s2, s3, u1, u2, ta, tb

OneClient == {c1}
TwoServices == {a, b}
TwoSessions == {s1, s2}
ThreeSessions == {s1, s2, s3}
TwoUsers == {u1, u2}
AllowAll == [c \in Client |-> Service]
NoneOccupied == {}

\* Both users are within a prefix of a; b takes u1 only.
Prefixes == [svc \in Service |-> IF svc = a THEN {{u1}, {u1, u2}} ELSE {{u1}}]
NoPrefixes == [svc \in Service |-> {}]

Targets == [svc \in Service |-> IF svc = a THEN ta ELSE tb]

\* Two users on the two services of s1, or one user while s2 replaces s1 on one
\* service.  Only who connects is restricted, so the fairness of UserSpec is
\* that of this specification.
UsersOrReplacement ==
  pc[s2] # "idle" =>
    /\ uc[u2] = "none"
    /\ \A s \in Session : b \notin todo[s] \cup listeners[s] /\ binding[s] # b

UnionSpec ==
  /\ UserInit
  /\ [][UserNext /\ UsersOrReplacement']_<<vars, userVars>>
  /\ WF_<<vars, userVars>>(~panicked /\ ((Server /\ UNCHANGED userVars) \/ \E u \in User : Proxy(u)))

\* A part of the state space: s1 has a user when s2 arrives, s2 is slow to shut
\* s1 down, and s3 replaces s2 meanwhile; nobody stops or disconnects.
SlowReplacement ==
  /\ ~stopped
  /\ \A s \in Session : yam[s] \in {"closing", "closed"} => Superseded(s)
  /\ pc[s1] \in {"idle", "replace", "listen", "append", "wait"}
  /\ pc[s2] # "idle" => uc[u1] = "opened"
  /\ pc[s2] \in {"idle", "replace", "cancelOld"}
  /\ pc[s3] # "idle" => pc[s2] = "cancelOld"
  /\ uc[u2] # "none" => uc[u1] = "opened"
  /\ \A u \in User : handler[u] = "none" /\ uc[u] # "closed"

=============================================================================

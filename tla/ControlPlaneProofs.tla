------------------------- MODULE ControlPlaneProofs -------------------------
(***************************************************************************)
(* The handshake semaphore is exact, and sessions exist only for entitled  *)
(* clients, for any number of connections, clients and configurations.     *)
(***************************************************************************)
EXTENDS ControlPlane, FiniteSetTheorems, TLAPS

Live == {"pending", "current", "superseded"}

(* What the two ends and the messages between them know of a connection.   *)
ConnInv(k) ==
  /\ cli[k] = "none" => srv[k] = "none" /\ toServer[k] = None /\ toClient[k] = None
  /\ cli[k] # "none" => conf[k] \in Config
  /\ cli[k] = "hello" => conf[k].pinned
  /\ toServer[k] # None => toServer[k] = ClientAuth(k, conf[k]) /\ conf[k].pinned
  /\ srv[k] \in {"accept", "mux"} => toServer[k] # None /\ ValidateAuth(k, toServer[k])
  /\ toClient[k] = "accepted" => Entitled(conf[k])
  /\ cli[k] = "serving" => Entitled(conf[k])
  /\ status[k] \in Live => srv[k] = "session" /\ Entitled(conf[k])
  /\ owner[k] # None => cli[k] # "none" /\ owner[k] = conf[k].id

ControlInv ==
  /\ ControlTypeOK
  /\ SlotsExact
  /\ OneCurrent
  /\ \A k \in Session : ConnInv(k)

-----------------------------------------------------------------------------
(* The semaphore.                                                          *)

Holders == {k \in Session : srv[k] \in Handshaking}

\* The connections that hold a token are finitely many.
LEMMA HoldersFinite == IsFiniteSet(Holders) /\ Cardinality(Holders) \in Nat
<1>1. Holders \in SUBSET Session
  BY DEF Holders
<1> QED
  BY <1>1, FiniteSessions, FS_Subset, FS_CardinalityType

\* A step of a connection that neither takes nor returns a token.
LEMMA KeepToken ==
  ASSUME ControlTypeOK, SlotsExact, NEW k \in Session, NEW x,
         srv' = [srv EXCEPT ![k] = x],
         x \in Handshaking <=> srv[k] \in Handshaking,
         slots' = slots
  PROVE  SlotsExact' /\ slots' \in 0..MaxPending
<1>1. Holders' = Holders
  BY DEF Holders, ControlTypeOK
<1> QED
  BY <1>1 DEF SlotsExact, Holders, ControlTypeOK

\* case s.handshakeSem <- struct{}{}
LEMMA AcquireToken ==
  ASSUME ControlTypeOK, SlotsExact, NEW k \in Session, NEW x \in Handshaking,
         srv' = [srv EXCEPT ![k] = x], srv[k] \notin Handshaking,
         slots < MaxPending, slots' = slots + 1
  PROVE  SlotsExact' /\ slots' \in 0..MaxPending
<1>1. Holders' = Holders \cup {k} /\ k \notin Holders
  BY DEF Holders, ControlTypeOK
<1>2. Cardinality(Holders \cup {k}) = Cardinality(Holders) + 1
  BY <1>1, HoldersFinite, FS_AddElement
<1>3. slots = Cardinality(Holders) /\ slots \in 0..MaxPending
  BY DEF SlotsExact, Holders, ControlTypeOK
<1>4. slots' \in 0..MaxPending
  BY <1>3, MaxPendingAssumption
<1> QED
  BY <1>1, <1>2, <1>3, <1>4, Zenon DEF SlotsExact, Holders

\* <-s.handshakeSem, by the deferred function or before runSession.
LEMMA ReleaseToken ==
  ASSUME ControlTypeOK, SlotsExact, NEW k \in Session, NEW x,
         srv' = [srv EXCEPT ![k] = x], srv[k] \in Handshaking, x \notin Handshaking,
         slots' = slots - 1
  PROVE  SlotsExact' /\ slots' \in 0..MaxPending
<1>1. Holders' = Holders \ {k} /\ k \in Holders
  BY DEF Holders, ControlTypeOK
<1>2. Cardinality(Holders \ {k}) = Cardinality(Holders) - 1
  BY <1>1, HoldersFinite, FS_RemoveElement
<1>3. Cardinality(Holders \ {k}) \in Nat
  BY <1>1, HoldersFinite, FS_RemoveElement, FS_CardinalityType
<1>4. slots = Cardinality(Holders) /\ slots \in 0..MaxPending
  BY DEF SlotsExact, Holders, ControlTypeOK
<1>5. slots' \in 0..MaxPending
  BY <1>2, <1>3, <1>4, MaxPendingAssumption
<1> QED
  BY <1>1, <1>2, <1>4, <1>5, Zenon DEF SlotsExact, Holders

-----------------------------------------------------------------------------
(* Authentication.                                                         *)

\* A ClientAuth that validateAuth accepts comes from an entitled client.
LEMMA ValidIsEntitled ==
  ASSUME NEW k, NEW c, c.pinned, ValidateAuth(k, ClientAuth(k, c))
  PROVE  Entitled(c) /\ ClientAuth(k, c).id = c.id
BY DEF ValidateAuth, ClientAuth, Sign, PQSign, Verify, PQVerify, SigningInput, PQSigningInput, Entitled

-----------------------------------------------------------------------------
(* The steps.                                                              *)

\* Steps of the server's end that only move it on.
LEMMA ServerMoves ==
  ASSUME ControlInv, NEW k \in Session, AcceptConn(k) \/ DropConn(k) \/ ServerTLS(k)
  PROVE  ControlInv'
<1>1. SlotsExact' /\ slots' \in 0..MaxPending
  <2>1. CASE AcceptConn(k)
    BY <2>1, AcquireToken, Zenon DEF ControlInv, AcceptConn, Srv, Handshaking
  <2>2. CASE DropConn(k) \/ ServerTLS(k)
    BY <2>2, KeepToken DEF ControlInv, DropConn, ServerTLS, Srv, Handshaking
  <2> QED
    BY <2>1, <2>2
<1>2. /\ srv' \in [Session -> {"none", "queued", "session", "closed"} \cup Handshaking]
      /\ \E x \in {"tls", "closed", "hello"} : srv' = [srv EXCEPT ![k] = x]
      /\ srv[k] \in {"queued", "tls"}
      /\ UNCHANGED <<dialVars, cli, wire, accepting, registryVars>>
  BY DEF ControlInv, ControlTypeOK, AcceptConn, DropConn, ServerTLS, Srv, Handshaking
<1>3. \A j \in Session : ConnInv(j)'
  BY <1>2 DEF ControlInv, ControlTypeOK, ConnInv, dialVars, wire, registryVars
<1> QED
  BY <1>1, <1>2, <1>3 DEF ControlInv, OneCurrent, ControlTypeOK, RegistryTypeOK, dialVars, wire, registryVars

\* Steps of the server's end that write a message or judge one.
LEMMA ServerAnswers ==
  ASSUME ControlInv, NEW k \in Session,
         SendHello(k) \/ AuthAccepted(k) \/ AuthRejected(k) \/ SendAccepted(k)
  PROVE  ControlInv'
<1>1. SlotsExact' /\ slots' \in 0..MaxPending
  <2>1. CASE AuthRejected(k)
    BY <2>1, ReleaseToken, Zenon DEF ControlInv, AuthRejected, Srv, Handshaking
  <2>2. CASE SendHello(k) \/ AuthAccepted(k) \/ SendAccepted(k)
    BY <2>2, KeepToken DEF ControlInv, SendHello, AuthAccepted, SendAccepted, Srv, Handshaking
  <2> QED
    BY <2>1, <2>2
<1>2. ControlTypeOK'
  BY <1>1 DEF ControlInv, ControlTypeOK, SendHello, AuthAccepted, AuthRejected, SendAccepted,
              Srv, Send, Handshaking, RegistryTypeOK, dialVars, wire, registryVars
<1>3. ASSUME NEW j \in Session PROVE ConnInv(j)'
  <2>1. CASE SendHello(k)
    BY <2>1, ControlNone DEF ControlInv, ControlTypeOK, ConnInv, SendHello, Srv, Send, dialVars, wire, registryVars
  <2>2. CASE AuthAccepted(k)
    BY <2>2 DEF ControlInv, ControlTypeOK, ConnInv, AuthAccepted, Srv, dialVars, wire, registryVars
  <2>3. CASE AuthRejected(k)
    BY <2>3, ControlNone DEF ControlInv, ControlTypeOK, ConnInv, AuthRejected, Srv, Send, dialVars, wire, registryVars
  <2>4. CASE SendAccepted(k)
    <3>1. Entitled(conf[k])
      BY <2>4, ValidIsEntitled DEF ControlInv, ConnInv, SendAccepted, Srv
    <3> QED
      BY <2>4, <3>1, ControlNone DEF ControlInv, ControlTypeOK, ConnInv, SendAccepted, Srv, Send, dialVars, wire, registryVars
  <2> QED
    BY <2>1, <2>2, <2>3, <2>4
<1>4. OneCurrent'
  BY DEF ControlInv, OneCurrent, SendHello, AuthAccepted, AuthRejected, SendAccepted, registryVars
<1> QED
  BY <1>1, <1>2, <1>3, <1>4 DEF ControlInv

\* handleControl gives the token back: on the way to runSession, or on an error.
LEMMA ServerLeaves ==
  ASSUME ControlInv, NEW k \in Session, MuxServer(k) \/ ServerFails(k)
  PROVE  ControlInv'
<1>1. SlotsExact' /\ slots' \in 0..MaxPending
  BY ReleaseToken, Zenon DEF ControlInv, MuxServer, ServerFails, Srv, Handshaking
<1>2. CASE ServerFails(k)
  <2>1. \A j \in Session : ConnInv(j)'
    BY <1>2 DEF ControlInv, ControlTypeOK, ConnInv, ServerFails, Handshaking, dialVars, wire, registryVars
  <2> QED
    BY <1>1, <1>2, <2>1 DEF ControlInv, OneCurrent, ControlTypeOK, ServerFails, RegistryTypeOK, dialVars, wire, registryVars
<1>3. CASE MuxServer(k)
  <2>1. Entitled(conf[k]) /\ toServer[k].id = conf[k].id /\ cli[k] # "none"
    BY <1>3, ValidIsEntitled DEF ControlInv, ConnInv, MuxServer, Srv
  <2>2. conf[k].id \in Client
    BY <2>1 DEF Entitled
  <2>3. ControlTypeOK'
    BY <1>1, <1>3, <2>1, <2>2 DEF ControlInv, ControlTypeOK, MuxServer, Srv, Admit, RegistryTypeOK, Status, dialVars, wire
  <2>4. \A j \in Session : ConnInv(j)'
    BY <1>3, <2>1 DEF ControlInv, ControlTypeOK, RegistryTypeOK, ConnInv, MuxServer, Srv, Admit, dialVars, wire
  <2>5. OneCurrent'
    BY <1>3 DEF ControlInv, ControlTypeOK, RegistryTypeOK, OneCurrent, MuxServer, Admit
  <2> QED
    BY <1>1, <2>3, <2>4, <2>5 DEF ControlInv
<1> QED
  BY <1>2, <1>3

\* The client's end moves on: Dial is the only step that changes a configuration.
LEMMA ClientMoves ==
  ASSUME ControlInv, NEW k \in Session,
         \/ ClientTLS(k) \/ SendAuth(k) \/ ReadVerdict(k) \/ ClientFails(k)
         \/ ClientSessionEnds(k) \/ ClientVanishes(k)
  PROVE  ControlInv'
<1> USE DEF Cli, Send, Receive, dialVars, wire, registryVars
<1>1. srv' = srv /\ slots' = slots
  BY DEF ClientTLS, SendAuth, ReadVerdict, ClientFails, ClientSessionEnds, ClientVanishes
<1>2. SlotsExact'
  BY <1>1 DEF ControlInv, SlotsExact
<1>3. ControlTypeOK'
  <2>1. CASE SendAuth(k)
    <3>1. conf[k] \in Config
      BY <2>1 DEF ControlInv, ConnInv, SendAuth
    <3> QED
      BY <2>1, <3>1 DEF ControlInv, ControlTypeOK, SendAuth, RegistryTypeOK
  <2>2. CASE ~SendAuth(k)
    BY <2>2 DEF ControlInv, ControlTypeOK, RegistryTypeOK,
                ClientTLS, ReadVerdict, ClientFails, ClientSessionEnds, ClientVanishes
  <2> QED
    BY <2>1, <2>2
<1>4. ASSUME NEW j \in Session PROVE ConnInv(j)'
  <2>1. CASE SendAuth(k)
    BY <2>1, ControlNone DEF ControlInv, ControlTypeOK, ConnInv, SendAuth
  <2>2. CASE ReadVerdict(k)
    BY <2>2, ControlNone DEF ControlInv, ControlTypeOK, ConnInv, ReadVerdict, HasSessionID
  <2>3. CASE ClientTLS(k)
    BY <2>3 DEF ControlInv, ControlTypeOK, ConnInv, ClientTLS
  <2>4. CASE ClientFails(k) \/ ClientSessionEnds(k) \/ ClientVanishes(k)
    BY <2>4 DEF ControlInv, ControlTypeOK, ConnInv, ClientFails, ClientSessionEnds, ClientVanishes
  <2> QED
    BY <2>1, <2>2, <2>3, <2>4
<1>5. OneCurrent'
  BY DEF ControlInv, OneCurrent, ClientTLS, SendAuth, ReadVerdict, ClientFails, ClientSessionEnds, ClientVanishes
<1> QED
  BY <1>2, <1>3, <1>4, <1>5 DEF ControlInv

\* A connection that was never used gets its configuration.
LEMMA DialStep ==
  ASSUME ControlInv, NEW k \in Session, NEW c \in Config, NEW m \in {"run", "verify"},
         Dial(k, c, m)
  PROVE  ControlInv'
<1> USE DEF Dial, Cli, wire, registryVars
<1>1. SlotsExact' /\ slots' \in 0..MaxPending
  BY KeepToken, Zenon DEF ControlInv, ConnInv, Handshaking
<1>2. ControlTypeOK'
  BY <1>1 DEF ControlInv, ControlTypeOK, RegistryTypeOK
<1>3. ASSUME NEW j \in Session PROVE ConnInv(j)'
  <2>1. CASE j = k
    BY <2>1, ControlNone DEF ControlInv, ControlTypeOK, ConnInv
  <2>2. CASE j # k
    BY <2>2 DEF ControlInv, ControlTypeOK, ConnInv
  <2> QED
    BY <2>1, <2>2
<1> QED
  BY <1>1, <1>2, <1>3 DEF ControlInv, OneCurrent

\* runSession registers a session in place of the current one.
LEMMA RegisterStep ==
  ASSUME ControlInv, NEW k \in Session, RegisterSession(k)
  PROVE  ControlInv'
<1> USE DEF RegisterSession, Promote, dialVars, wire
<1>1. ControlTypeOK' /\ SlotsExact'
  BY DEF ControlInv, ControlTypeOK, RegistryTypeOK, Status, SlotsExact
<1>2. \A j \in Session : status'[j] \in Live => status[j] \in Live
  BY DEF ControlInv, ControlTypeOK, RegistryTypeOK, Status, Live
<1>3. \A j \in Session : ConnInv(j)'
  BY <1>2 DEF ControlInv, ConnInv
<1>4. OneCurrent'
  BY DEF ControlInv, ControlTypeOK, RegistryTypeOK, OneCurrent
<1> QED
  BY <1>1, <1>3, <1>4 DEF ControlInv

\* A session ends; the token was given back when it began.
LEMMA EndStep ==
  ASSUME ControlInv, NEW k \in Session, EndSession(k)
  PROVE  ControlInv'
<1> USE DEF EndSession, End, dialVars, wire
<1>1. srv[k] \notin Handshaking
  BY DEF ControlInv, ConnInv, Live, Handshaking
<1>2. SlotsExact' /\ slots' \in 0..MaxPending
  BY <1>1, KeepToken, Zenon DEF ControlInv, Handshaking
<1>3. ControlTypeOK'
  BY <1>2 DEF ControlInv, ControlTypeOK, RegistryTypeOK, Status
<1>4. \A j \in Session : ConnInv(j)'
  BY DEF ControlInv, ControlTypeOK, RegistryTypeOK, ConnInv, Live
<1>5. OneCurrent'
  BY DEF ControlInv, ControlTypeOK, RegistryTypeOK, OneCurrent
<1> QED
  BY <1>2, <1>3, <1>4, <1>5 DEF ControlInv

\* The process dies, and the semaphore with it.
LEMMA CrashStep ==
  ASSUME ControlInv, ServerCrash
  PROVE  ControlInv'
<1> USE DEF ServerCrash, Crash, dialVars, wire
<1>1. Holders' = {}
  BY DEF Holders, Handshaking
<1>2. SlotsExact'
  BY <1>1, FS_EmptySet DEF SlotsExact, Holders
<1>3. ControlTypeOK'
  <2>1. slots' \in 0..MaxPending
    BY MaxPendingAssumption
  <2>2. srv' \in [Session -> {"none", "queued", "session", "closed"} \cup Handshaking]
    OBVIOUS
  <2>3. RegistryTypeOK'
    BY DEF ControlInv, ControlTypeOK, RegistryTypeOK, Status
  <2>4. accepting' \in BOOLEAN
    BY Zenon
  <2> QED
    BY <2>1, <2>2, <2>3, <2>4 DEF ControlInv, ControlTypeOK
<1>4. \A j \in Session : ConnInv(j)'
  BY DEF ControlInv, ControlTypeOK, ConnInv, Live
<1>5. OneCurrent'
  BY DEF OneCurrent
<1> QED
  BY <1>2, <1>3, <1>4, <1>5 DEF ControlInv

\* Every step keeps the invariant.
LEMMA ControlStep ==
  ASSUME ControlInv, [ControlNext]_vars
  PROVE  ControlInv'
<1>1. CASE UNCHANGED vars
  BY <1>1 DEF vars, dialVars, wire, registryVars, ControlInv, ControlTypeOK, RegistryTypeOK,
              SlotsExact, OneCurrent, ConnInv
<1>2. CASE StopAccepting
  <2>1. accepting' \in BOOLEAN /\ UNCHANGED <<dialVars, cli, srv, wire, slots, registryVars>>
    BY <1>2, Zenon DEF StopAccepting
  <2> QED
    BY <2>1 DEF dialVars, wire, registryVars, ControlInv, ControlTypeOK, RegistryTypeOK,
                SlotsExact, OneCurrent, ConnInv
<1>3. CASE ServerCrash
  BY <1>3, CrashStep
<1>4. ASSUME NEW k \in Session, Handshake(k) \/ Notice(k) \/ EndSession(k)
                                 \/ ClientSessionEnds(k) \/ ClientVanishes(k)
      PROVE  ControlInv'
  BY <1>4, ServerMoves, ServerAnswers, ServerLeaves, ClientMoves, RegisterStep, EndStep
     DEF Handshake, Notice
<1>5. ASSUME NEW k \in Session, NEW c \in Config, NEW m \in {"run", "verify"}, Dial(k, c, m)
      PROVE  ControlInv'
  BY <1>5, DialStep
<1> QED
  BY <1>1, <1>2, <1>3, <1>4, <1>5 DEF ControlNext

\* The invariant holds at the start.
LEMMA ControlStart == ControlInit => ControlInv
<1> SUFFICES ASSUME ControlInit PROVE ControlInv
  OBVIOUS
<1> USE DEF ControlInit, RegistryInit
<1>1. Holders = {}
  BY DEF Holders, Handshaking
<1>2. SlotsExact
  BY <1>1, FS_EmptySet DEF SlotsExact, Holders
<1>3. ControlTypeOK /\ OneCurrent
  BY MaxPendingAssumption DEF ControlTypeOK, RegistryTypeOK, Status, OneCurrent
<1>4. \A k \in Session : ConnInv(k)
  BY ControlNone DEF ConnInv, Live
<1> QED
  BY <1>2, <1>3, <1>4 DEF ControlInv

-----------------------------------------------------------------------------
(* The theorems.                                                           *)

\* The inductive invariant of the control plane.
THEOREM ControlInvariance == ControlSpec => []ControlInv
BY ControlStart, ControlStep, PTL DEF ControlSpec

\* The control plane's state is well typed: in particular, the semaphore never
\* holds more than maxPendingHandshakes tokens.
THEOREM ControlTypeCorrect == ControlSpec => []ControlTypeOK
<1>1. ControlInv => ControlTypeOK
  BY DEF ControlInv
<1> QED
  BY <1>1, ControlInvariance, PTL

\* No path through handleControl loses a token or returns one twice.
THEOREM SlotsAreExact == ControlSpec => []SlotsExact
<1>1. ControlInv => SlotsExact
  BY DEF ControlInv
<1> QED
  BY <1>1, ControlInvariance, PTL

\* Only clients that hold both keys of their id, and ask for its services, ever
\* have a session, at either end.
THEOREM EntitledSessions == ControlSpec => []SessionsAreEntitled
<1>1. ControlInv => SessionsAreEntitled
  BY DEF ControlInv, ConnInv, Live, SessionsAreEntitled
<1> QED
  BY <1>1, ControlInvariance, PTL

\* A client never has two current sessions.
THEOREM OneCurrentSession == ControlSpec => []OneCurrent
<1>1. ControlInv => OneCurrent
  BY DEF ControlInv
<1> QED
  BY <1>1, ControlInvariance, PTL

=============================================================================

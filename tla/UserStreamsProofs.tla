------------------------- MODULE UserStreamsProofs -------------------------
(***************************************************************************)
(* The stream semaphore and the routing of users, for any number of        *)
(* clients, services, sessions and users, on top of the inductive          *)
(* invariant of ServerSessions.                                            *)
(***************************************************************************)
EXTENDS UserStreams, ServerSessionsProofs, FiniteSetTheorems

\* A session listens, and will listen, only on services of its client.
ServiceInv ==
  \A s \in Session :
    /\ pc[s] # "idle" => todo[s] \subseteq Allowed[clientID[s]]
    /\ \A svc \in Service :
         ln[s][svc] # "none" => pc[s] # "idle" /\ svc \in Allowed[clientID[s]]

\* What is known of a user connection from its accept on, also after proxyUser
\* has returned: handleStream may still be at work then.
RouteInv ==
  \A u \in User :
    /\ uc[u] # "none" =>
         /\ via[u] \in Session /\ pc[via[u]] # "idle"
         /\ svcOf[u] \in Service /\ svcOf[u] \in Allowed[clientID[via[u]]]
    /\ uc[u] \in Proxying \cup {"accepted"} => CidrAllowed(u, AllowedUserCIDRs[svcOf[u]])
    /\ handler[u] # "none" => uc[u] # "none" /\ CidrAllowed(u, AllowedUserCIDRs[svcOf[u]])
    /\ target[u] # None => handler[u] # "none" /\ target[u] = Services[svcOf[u]]

UserInv == IInv /\ ServiceInv /\ UserTypeOK /\ RouteInv /\ TokensExact

-----------------------------------------------------------------------------
(* Sessions.                                                               *)

\* No step gives a session in use another client, or starts it over.
LEMMA SessionsStay ==
  ASSUME IInv, [Next]_vars
  PROVE  \A s \in Session : pc[s] # "idle" => pc'[s] # "idle" /\ clientID'[s] = clientID[s]
<1> USE DEF IInv, TypeOK, Goto, setupVars, mapVars, lnVars, procVars
<1>1. ASSUME NEW s \in Session, RunSession(s), ~ReplaceSession(s)
      PROVE  UNCHANGED clientID /\ \E x : x # "idle" /\ pc' = [pc EXCEPT ![s] = x]
  BY <1>1, Zenon DEF RunSession, ShutdownCancel, ShutdownListeners, ShutdownPanics,
     ShutdownListenersClosed, ShutdownYam, ShutdownReturns, Listen, ListenFails, AppendListener,
     SetupDone, SessionClosed, RemoveSession, RemoveReturns, DeferredYamClose, DeferredYamReturns,
     DeferredCancel, BeginYamClose
<1>2. ASSUME NEW s \in Session, ReplaceSession(s)
      PROVE  UNCHANGED clientID /\ \E x : x # "idle" /\ pc' = [pc EXCEPT ![s] = x]
  BY <1>2, Zenon DEF ReplaceSession, AfterReplace
<1>3. CASE \E s \in Session : RunSession(s)
  BY <1>1, <1>2, <1>3
<1>4. CASE UNCHANGED <<pc, clientID>>
  BY <1>4
<1>5. ASSUME NEW s \in Session, NEW c \in Client, NEW req \in Requests(c), Establish(s, c, req)
      PROVE  \A t \in Session : pc[t] # "idle" => pc'[t] # "idle" /\ clientID'[t] = clientID[t]
  BY <1>5 DEF Establish
<1> QED
  BY <1>3, <1>4, <1>5 DEF Next, Server, Environment, WatcherCloses, ListenerReleased, YamClosed,
     YamFails, BeginYamClose, Stop, vars

\* Sessions keep to the services of their client.
LEMMA ServiceStep ==
  ASSUME IInv, ServiceInv, [Next]_vars
  PROVE  ServiceInv'
<1> USE DEF IInv, TypeOK, ServiceInv, Goto, setupVars, mapVars, lnVars, procVars
<1>1. CASE \E s \in Session : Listen(s)
  <2>1. PICK s \in Session : Listen(s)
    BY <1>1
  <2>2. PICK svc \in todo[s] :
          /\ ln' = [ln EXCEPT ![s][svc] = "open"]
          /\ todo' = [todo EXCEPT ![s] = @ \ {svc}]
    BY <2>1, Zenon DEF Listen
  <2>3. pc[s] = "listen" /\ pc' = [pc EXCEPT ![s] = "append"] /\ UNCHANGED clientID
    BY <2>1 DEF Listen
  <2> QED
    BY <2>2, <2>3
<1>2. ASSUME NEW s \in Session, NEW c \in Client, NEW req \in Requests(c), Establish(s, c, req)
      PROVE  ServiceInv'
  BY <1>2 DEF Establish, Requests
<1>3. ASSUME UNCHANGED <<clientID, todo>>,
             \A s \in Session : pc[s] # "idle" => pc'[s] # "idle",
             \A s \in Session : pc'[s] # "idle" => pc[s] # "idle",
             \A s \in Session, svc \in Service : ln'[s][svc] # "none" => ln[s][svc] # "none"
      PROVE  ServiceInv'
  BY <1>3
<1>4. ASSUME NEW s \in Session, RunSession(s), ~Listen(s)
      PROVE  ServiceInv'
  <2>1. UNCHANGED <<clientID, todo>> /\ pc[s] # "idle"
    BY <1>4, Zenon DEF RunSession, ReplaceSession, ShutdownCancel, ShutdownListeners, ShutdownPanics,
       ShutdownListenersClosed, ShutdownYam, ShutdownReturns, ListenFails, AppendListener,
       SetupDone, SessionClosed, RemoveSession, RemoveReturns, DeferredYamClose,
       DeferredYamReturns, DeferredCancel, BeginYamClose
  <2>2. \A t \in Session : t # s => pc'[t] = pc[t]
    BY <1>4, Zenon DEF RunSession, ReplaceSession, ShutdownCancel, ShutdownListeners, ShutdownPanics,
       ShutdownListenersClosed, ShutdownYam, ShutdownReturns, ListenFails, AppendListener,
       SetupDone, SessionClosed, RemoveSession, RemoveReturns, DeferredYamClose,
       DeferredYamReturns, DeferredCancel, BeginYamClose
  <2>3. \A t \in Session, svc \in Service : ln'[t][svc] # "none" => ln[t][svc] # "none"
    <3>1. CASE ShutdownListeners(s) \/ RemoveSession(s)
      <4>1. PICK r : ln' = [ln EXCEPT ![r] = [svc \in Service |->
                        IF svc \in OpenListeners(r) THEN "closing" ELSE ln[r][svc]]]
        BY <3>1, ZenonT(60) DEF ShutdownListeners, RemoveSession, CloseListeners
      <4>2. ASSUME NEW t \in Session, NEW svc \in Service, ln'[t][svc] # "none"
            PROVE  ln[t][svc] # "none"
        <5>1. CASE t = r
          BY <4>1, <4>2, <5>1 DEF OpenListeners
        <5>2. CASE t # r
          BY <4>1, <4>2, <5>2
        <5> QED
          BY <5>1, <5>2
      <4> QED
        BY <4>2
    <3>2. CASE UNCHANGED ln
      BY <3>2
    <3> QED
      BY <1>4, <3>1, <3>2, Zenon DEF RunSession, ReplaceSession, ShutdownCancel, ShutdownPanics,
         ShutdownListenersClosed, ShutdownYam, ShutdownReturns, ListenFails, AppendListener,
         SetupDone, SessionClosed, RemoveReturns, DeferredYamClose,
         DeferredYamReturns, DeferredCancel, BeginYamClose, CloseReturned
  <2> QED
    BY <1>3, <2>1, <2>2, <2>3, SessionsStay
<1>5. ASSUME NEW s \in Session, NEW svc \in Service,
             WatcherCloses(s, svc) \/ ListenerReleased(s, svc)
      PROVE  ServiceInv'
  <2>1. UNCHANGED <<pc, clientID, todo>>
    BY <1>5 DEF WatcherCloses, ListenerReleased
  <2>2. PICK y : ln' = [ln EXCEPT ![s][svc] = y]
    BY <1>5, Zenon DEF WatcherCloses, ListenerReleased
  <2>3. ln[s][svc] # "none"
    BY <1>5 DEF WatcherCloses, ListenerReleased, OpenListeners
  <2>4. \A t \in Session, v \in Service : ln'[t][v] # "none" => ln[t][v] # "none"
    BY <2>2, <2>3
  <2> QED
    BY <2>1, <2>4, <1>3
<1>6. CASE Stop \/ UNCHANGED vars \/ \E s \in Session : YamClosed(s) \/ YamFails(s)
  BY <1>6, <1>3 DEF Stop, YamClosed, YamFails, BeginYamClose, vars
<1> QED
  BY <1>1, <1>2, <1>4, <1>5, <1>6 DEF Next, Server, Environment

-----------------------------------------------------------------------------
(* The stream semaphore.                                                   *)

HoldersOf(s) == {u \in User : via[u] = s /\ uc[u] \in Proxying}

\* The users that hold a token of a session are finitely many.
LEMMA HoldersOfFinite ==
  ASSUME NEW s \in Session
  PROVE  IsFiniteSet(HoldersOf(s)) /\ Cardinality(HoldersOf(s)) \in Nat
<1>1. HoldersOf(s) \in SUBSET User
  BY DEF HoldersOf
<1> QED
  BY <1>1, FiniteUsers, FS_Subset, FS_CardinalityType

\* A step that neither takes nor returns a token.
LEMMA KeepTokens ==
  ASSUME UserTypeOK, TokensExact, NEW u \in User, NEW x, uc' = [uc EXCEPT ![u] = x],
         x \in Proxying <=> uc[u] \in Proxying,
         UNCHANGED via \/ (uc[u] \notin Proxying /\ \E s : via' = [via EXCEPT ![u] = s]),
         UNCHANGED streamSem
  PROVE  TokensExact'
<1>1. \A s \in Session : HoldersOf(s)' = HoldersOf(s)
  <2>1. ASSUME NEW v \in User, NEW s \in Session
        PROVE  (via'[v] = s /\ uc'[v] \in Proxying) <=> (via[v] = s /\ uc[v] \in Proxying)
    BY DEF UserTypeOK
  <2> QED
    BY <2>1 DEF HoldersOf
<1> QED
  BY <1>1 DEF TokensExact, HoldersOf

\* case sess.streamSem <- struct{}{}
LEMMA AcquireStream ==
  ASSUME UserTypeOK, TokensExact, NEW u \in User, via[u] \in Session, TakeToken(u)
  PROVE  TokensExact' /\ streamSem' \in [Session -> 0..MaxStreams]
<1>0. PICK s \in Session : s = via[u]
  OBVIOUS
<1>1. /\ uc[u] = "accepted" /\ uc' = [uc EXCEPT ![u] = "token"] /\ UNCHANGED via
      /\ streamSem[s] < MaxStreams /\ streamSem' = [streamSem EXCEPT ![s] = @ + 1]
  BY <1>0 DEF TakeToken, Uc
<1>2. HoldersOf(s)' = HoldersOf(s) \cup {u} /\ u \notin HoldersOf(s)
  BY <1>0, <1>1 DEF HoldersOf, UserTypeOK, Proxying
<1>3. \A t \in Session \ {s} : HoldersOf(t)' = HoldersOf(t)
  BY <1>0, <1>1 DEF HoldersOf, UserTypeOK, Proxying
<1>4. Cardinality(HoldersOf(s) \cup {u}) = Cardinality(HoldersOf(s)) + 1
  BY <1>2, HoldersOfFinite, FS_AddElement, Zenon
<1>5. streamSem[s] \in 0..MaxStreams /\ MaxStreams \in Nat
  BY MaxStreamsAssumption DEF UserTypeOK
<1>6. streamSem'[s] = streamSem[s] + 1 /\ \A t \in Session \ {s} : streamSem'[t] = streamSem[t]
  BY <1>1 DEF UserTypeOK
<1>7. streamSem' \in [Session -> 0..MaxStreams]
  <2>1. streamSem[s] + 1 \in 0..MaxStreams
    BY <1>1, <1>5
  <2> QED
    BY <1>1, <2>1 DEF UserTypeOK
<1>8. \A t \in Session : streamSem[t] = Cardinality(HoldersOf(t))
  BY DEF TokensExact, HoldersOf
<1>9. streamSem'[s] = Cardinality(HoldersOf(s)')
  BY <1>2, <1>4, <1>6, <1>8
<1>10. \A t \in Session \ {s} : streamSem'[t] = Cardinality(HoldersOf(t)')
  BY <1>3, <1>6, <1>8
<1> QED
  BY <1>7, <1>9, <1>10 DEF TokensExact, HoldersOf

\* defer func() { <-sess.streamSem }(), on every way out of proxyUser.
LEMMA ReleaseStream ==
  ASSUME UserTypeOK, TokensExact, NEW u \in User, via[u] \in Session, uc[u] \in Proxying,
         ReturnToken(u), uc' = [uc EXCEPT ![u] = "closed"], UNCHANGED via
  PROVE  TokensExact' /\ streamSem' \in [Session -> 0..MaxStreams]
<1>0. PICK s \in Session : s = via[u]
  OBVIOUS
<1>1. streamSem' = [streamSem EXCEPT ![s] = @ - 1]
  BY <1>0 DEF ReturnToken
<1>2. HoldersOf(s)' = HoldersOf(s) \ {u} /\ u \in HoldersOf(s)
  BY <1>0 DEF HoldersOf, UserTypeOK, Proxying
<1>3. \A t \in Session \ {s} : HoldersOf(t)' = HoldersOf(t)
  BY <1>0 DEF HoldersOf, UserTypeOK, Proxying
<1>4. /\ Cardinality(HoldersOf(s) \ {u}) = Cardinality(HoldersOf(s)) - 1
      /\ Cardinality(HoldersOf(s) \ {u}) \in Nat
  BY <1>2, HoldersOfFinite, FS_RemoveElement, FS_CardinalityType
<1>5. streamSem[s] \in 0..MaxStreams /\ MaxStreams \in Nat
  BY MaxStreamsAssumption DEF UserTypeOK
<1>6. streamSem'[s] = streamSem[s] - 1 /\ \A t \in Session \ {s} : streamSem'[t] = streamSem[t]
  BY <1>1 DEF UserTypeOK
<1>7. streamSem' \in [Session -> 0..MaxStreams]
  <2>1. streamSem[s] = Cardinality(HoldersOf(s))
    BY DEF TokensExact, HoldersOf
  <2>2. streamSem[s] - 1 \in 0..MaxStreams
    BY <1>4, <1>5, <2>1
  <2> QED
    BY <1>1, <2>2 DEF UserTypeOK
<1>8. \A t \in Session : streamSem[t] = Cardinality(HoldersOf(t))
  BY DEF TokensExact, HoldersOf
<1>9. streamSem'[s] = Cardinality(HoldersOf(s)')
  BY <1>2, <1>4, <1>6, <1>8
<1>10. \A t \in Session \ {s} : streamSem'[t] = Cardinality(HoldersOf(t)')
  BY <1>3, <1>6, <1>8
<1> QED
  BY <1>7, <1>9, <1>10, Zenon DEF TokensExact, HoldersOf

-----------------------------------------------------------------------------
(* Steps of a user connection: they leave the sessions alone.              *)

UserPart == UserTypeOK /\ RouteInv /\ TokensExact

\* A user connects to a bound address.
LEMMA ConnectsPart ==
  ASSUME ServiceInv, UserPart, NEW u \in User, NEW s \in Session, NEW svc \in Service,
         UserConnects(u, s, svc)
  PROVE  UserPart'
<1> USE DEF UserPart
<1>1. /\ ln[s][svc] = "open" /\ uc[u] = "none" /\ uc' = [uc EXCEPT ![u] = "backlog"]
      /\ via' = [via EXCEPT ![u] = s] /\ svcOf' = [svcOf EXCEPT ![u] = svc]
      /\ UNCHANGED <<pc, clientID, streamSem, handler, target>>
  BY DEF UserConnects, Uc, handlerVars, vars, setupVars
<1>2. UserTypeOK'
  BY <1>1 DEF UserTypeOK
<1>3. TokensExact'
  BY <1>1, KeepTokens, Zenon DEF Proxying
<1>4. pc[s] # "idle" /\ svc \in Allowed[clientID[s]]
  BY <1>1 DEF ServiceInv
<1>5. handler[u] = "none" /\ target[u] = None
  BY <1>1 DEF RouteInv
<1>6. RouteInv'
  BY <1>1, <1>4, <1>5 DEF RouteInv, UserTypeOK, Proxying
<1> QED
  BY <1>2, <1>3, <1>6

\* acceptUsers and proxyUser, but for the tokens.
LEMMA ProxyMovesPart ==
  ASSUME UserPart, NEW u \in User,
         BacklogReset(u) \/ AcceptUser(u) \/ NoToken(u) \/ OpenStream(u) \/ UserHangsUp(u)
  PROVE  UserPart'
<1> USE DEF UserPart
<1>1. PICK x : /\ uc' = [uc EXCEPT ![u] = x]
               /\ x \in {"accepted", "closed", "opened", "draining"} /\ uc[u] # "none"
               /\ x \in Proxying <=> uc[u] \in Proxying
               /\ x \in Proxying \cup {"accepted"} =>
                    uc[u] \in Proxying \/ CidrAllowed(u, AllowedUserCIDRs[svcOf[u]])
  BY DEF BacklogReset, AcceptUser, NoToken, OpenStream, UserHangsUp, Uc, Proxying
<1>2. UNCHANGED <<pc, clientID, via, svcOf, streamSem, handler, target>>
  BY DEF BacklogReset, AcceptUser, NoToken, OpenStream, UserHangsUp, handlerVars, vars, setupVars
<1>3. UserTypeOK'
  BY <1>1, <1>2 DEF UserTypeOK, Proxying
<1>4. TokensExact'
  BY <1>1, <1>2, KeepTokens, Zenon
<1>5. RouteInv'
  BY <1>1, <1>2 DEF RouteInv, UserTypeOK, Proxying
<1> QED
  BY <1>3, <1>4, <1>5

\* The Open header starts the client's handler.
LEMMA WriteOpenPart ==
  ASSUME UserPart, NEW u \in User, WriteOpen(u)
  PROVE  UserPart'
<1> USE DEF UserPart
<1>1. /\ uc[u] = "opened" /\ uc' = [uc EXCEPT ![u] = "relay"]
      /\ handler' = [handler EXCEPT ![u] = "reading"]
      /\ UNCHANGED <<pc, clientID, via, svcOf, streamSem, target>>
  BY DEF WriteOpen, Uc, Handler, vars, setupVars
<1>2. UserTypeOK'
  BY <1>1 DEF UserTypeOK, Proxying
<1>3. TokensExact'
  BY <1>1, KeepTokens, Zenon DEF Proxying
<1>4. RouteInv'
  BY <1>1 DEF RouteInv, UserTypeOK, Proxying
<1> QED
  BY <1>2, <1>3, <1>4

\* proxyUser takes its token and returns it.
LEMMA TokenPart ==
  ASSUME UserPart, NEW u \in User, TakeToken(u) \/ ProxyFails(u) \/ ProxyEnds(u)
  PROVE  UserPart'
<1> USE DEF UserPart
<1>1. PICK x \in {"token", "closed"} : uc' = [uc EXCEPT ![u] = x]
  BY DEF TakeToken, ProxyFails, ProxyEnds, Uc
<1>2. /\ uc[u] \in Proxying \cup {"accepted"}
      /\ UNCHANGED <<pc, clientID, via, svcOf, handler, target>>
  BY DEF TakeToken, ProxyFails, ProxyEnds, Uc, Proxying, handlerVars, vars, setupVars
<1>3. via[u] \in Session
  BY <1>2 DEF RouteInv, Proxying
<1>4. TokensExact' /\ streamSem' \in [Session -> 0..MaxStreams]
  <2>1. CASE TakeToken(u)
    BY <1>3, <2>1, AcquireStream
  <2>2. CASE ProxyFails(u) \/ ProxyEnds(u)
    BY <1>2, <1>3, <2>2, ReleaseStream DEF ProxyFails, ProxyEnds, Proxying
  <2> QED
    BY <2>1, <2>2
<1>5. UserTypeOK'
  BY <1>1, <1>2, <1>4 DEF UserTypeOK, Proxying
<1>6. RouteInv'
  BY <1>1, <1>2 DEF RouteInv, UserTypeOK, Proxying
<1> QED
  BY <1>4, <1>5, <1>6

\* handleStream at the client.
LEMMA HandlerPart ==
  ASSUME UserPart, NEW u \in User, ReadOpen(u) \/ DialLocal(u) \/ HandlerReturns(u)
  PROVE  UserPart'
<1> USE DEF UserPart
<1>1. UNCHANGED <<pc, clientID, uc, via, svcOf, streamSem>>
  BY DEF ReadOpen, DialLocal, HandlerReturns, ucVars, vars, setupVars
<1>2. PICK x \in {"closed", "dialing", "relay"} : handler' = [handler EXCEPT ![u] = x]
  BY DEF ReadOpen, DialLocal, HandlerReturns, Handler
<1>3. handler[u] # "none" /\ svcOf[u] \in Service
  BY DEF ReadOpen, DialLocal, HandlerReturns, Handler, RouteInv
<1>4. UNCHANGED target \/ target' = [target EXCEPT ![u] = Services[svcOf[u]]]
  BY DEF ReadOpen, DialLocal, HandlerReturns, DialTarget
<1>5. UserTypeOK'
  BY <1>1, <1>2, <1>3, <1>4 DEF UserTypeOK
<1>6. TokensExact'
  BY <1>1 DEF TokensExact
<1>7. RouteInv'
  BY <1>1, <1>2, <1>3, <1>4 DEF RouteInv, UserTypeOK
<1> QED
  BY <1>5, <1>6, <1>7

-----------------------------------------------------------------------------
\* Every step of the system preserves the invariant.
LEMMA UserStep == UserInv /\ [UserNext]_<<vars, userVars>> => UserInv'
<1> SUFFICES ASSUME UserInv, [UserNext]_<<vars, userVars>> PROVE UserInv'
  OBVIOUS
<1>1. UserInv <=> IInv /\ ServiceInv /\ UserPart
  BY DEF UserInv, UserPart
<1>2. IInv /\ ServiceInv /\ UserPart
  BY <1>1
<1>3. ASSUME [Next]_vars PROVE IInv' /\ ServiceInv'
  BY <1>2, <1>3, NextInv, ServiceStep
<1>4. ASSUME [Next]_vars, UNCHANGED userVars PROVE UserInv'
  <2>1. UNCHANGED <<uc, via, svcOf, streamSem, handler, target>>
    BY <1>4 DEF userVars, ucVars, handlerVars
  <2>2. \A s \in Session : pc[s] # "idle" => pc'[s] # "idle" /\ clientID'[s] = clientID[s]
    BY <1>2, <1>4, SessionsStay
  <2>3. UserTypeOK' /\ TokensExact'
    BY <1>2, <2>1 DEF UserPart, UserTypeOK, TokensExact
  <2>4. RouteInv'
    BY <1>2, <2>1, <2>2 DEF UserPart, RouteInv
  <2> QED
    BY <1>3, <1>4, <2>3, <2>4 DEF UserInv
<1>5. ASSUME UNCHANGED vars, UserPart' PROVE UserInv'
  BY <1>3, <1>5 DEF UserInv, UserPart
<1>6. CASE (Server \/ Environment) /\ ~panicked /\ UNCHANGED userVars
  BY <1>4, <1>6 DEF Next
<1>7. ASSUME NEW u \in User, Proxy(u) \/ UserHangsUp(u) \/ HandlerReturns(u) PROVE UserInv'
  <2>1. UNCHANGED vars
    BY <1>7 DEF Proxy, BacklogReset, AcceptUser, TakeToken, NoToken, OpenStream, WriteOpen,
       ProxyFails, ProxyEnds, ReadOpen, DialLocal, HandlerReturns, UserHangsUp
  <2>2. UserPart'
    BY <1>2, <1>7, ProxyMovesPart, WriteOpenPart, TokenPart, HandlerPart DEF Proxy
  <2> QED
    BY <1>5, <2>1, <2>2
<1>8. ASSUME NEW u \in User, NEW s \in Session, NEW svc \in Service, UserConnects(u, s, svc)
      PROVE  UserInv'
  <2>1. UNCHANGED vars
    BY <1>8 DEF UserConnects
  <2> QED
    BY <1>2, <1>5, <1>8, <2>1, ConnectsPart
<1>9. CASE UNCHANGED <<vars, userVars>>
  BY <1>4, <1>9
<1> QED
  BY <1>6, <1>7, <1>8, <1>9 DEF UserNext

\* The invariant holds in every reachable state.
THEOREM UserInvariance == UserSpec => []UserInv
<1>1. UserInit => UserInv
  <2> SUFFICES ASSUME UserInit PROVE UserInv
    OBVIOUS
  <2>1. IInv
    BY InitInv DEF UserInit
  <2>2. ServiceInv
    BY DEF UserInit, Init, ServiceInv
  <2>3. UserTypeOK
    BY MaxStreamsAssumption DEF UserInit, UserTypeOK
  <2>4. RouteInv
    BY DEF UserInit, RouteInv, Proxying
  <2>5. TokensExact
    <3>1. \A s \in Session : HoldersOf(s) = {}
      BY DEF UserInit, HoldersOf, Proxying
    <3>2. Cardinality({}) = 0
      BY FS_EmptySet
    <3> QED
      BY <3>1, <3>2 DEF UserInit, TokensExact, HoldersOf
  <2> QED
    BY <2>1, <2>2, <2>3, <2>4, <2>5 DEF UserInv
<1> QED
  BY <1>1, UserStep, PTL DEF UserSpec

\* Type correctness.
THEOREM UserTypeCorrect == UserSpec => []UserTypeOK
<1>1. UserInv => UserTypeOK
  BY DEF UserInv
<1> QED
  BY <1>1, UserInvariance, PTL

\* A session's streamSem counts exactly its users between the select and the
\* return of proxyUser, for any number of them.
THEOREM TokensAreExact == UserSpec => []TokensExact
<1>1. UserInv => TokensExact
  BY DEF UserInv
<1> QED
  BY <1>1, UserInvariance, PTL

\* handleStream connects a user only to the target of the service it connected
\* to, which admits its address and belongs to the client of the session.
THEOREM UsersAreRouted == UserSpec => []RoutedToOwnService
<1>1. UserInv => RoutedToOwnService
  BY DEF UserInv, RouteInv, RoutedToOwnService
<1> QED
  BY <1>1, UserInvariance, PTL

=============================================================================

---------------------------- MODULE UserStreams ----------------------------
(***************************************************************************)
(* User connections on top of ServerSessions: the kernel's accept queue,   *)
(* acceptUsers, proxyUser with the stream semaphore of its session, and    *)
(* the client's handleStream at the other end of the yamux stream.  A user *)
(* connection u and the stream opened for it share the name u.             *)
(***************************************************************************)
EXTENDS ServerSessions

CONSTANTS
  User,              \* user connections
  AllowedUserCIDRs,  \* AllowedUserCIDRs[svc]: prefixes, each a set of users
  Services,          \* the client's services: a target, or None if not configured
  MaxStreams         \* limits.max_streams_per_client

ASSUME FiniteUsers == IsFiniteSet(User)
ASSUME MaxStreamsAssumption == MaxStreams \in Nat \ {0}
ASSUME ServicesAssumption == Service \subseteq DOMAIN Services

VARIABLES
  uc,         \* where proxyUser, or acceptUsers before it, is with u
  via,        \* the session whose listener u connected to
  svcOf,      \* the service of that listener
  streamSem,  \* tokens in the session's streamSem
  handler,    \* where handleStream is with the stream of u
  target      \* what handleStream dialled

ucVars == <<uc, via, svcOf, streamSem>>
handlerVars == <<handler, target>>
userVars == <<ucVars, handlerVars>>

\* proxyUser holds a token of streamSem.
Proxying == {"token", "opened", "relay", "draining"}

UserTypeOK ==
  /\ uc \in [User -> {"none", "backlog", "accepted", "closed"} \cup Proxying]
  /\ via \in [User -> Session \cup {None}]
  /\ svcOf \in [User -> Service \cup {None}]
  /\ streamSem \in [Session -> 0..MaxStreams]
  /\ handler \in [User -> {"none", "reading", "dialing", "relay", "closed"}]
  /\ target \in [User -> {None} \cup {Services[svc] : svc \in Service}]

UserInit ==
  /\ Init
  /\ uc = [u \in User |-> "none"]
  /\ via = [u \in User |-> None]
  /\ svcOf = [u \in User |-> None]
  /\ streamSem = [s \in Session |-> 0]
  /\ handler = [u \in User |-> "none"]
  /\ target = [u \in User |-> None]

Uc(u, from, to) == uc[u] = from /\ uc' = [uc EXCEPT ![u] = to]
Handler(u, from, to) == handler[u] = from /\ handler' = [handler EXCEPT ![u] = to]

YamOpen(u) == yam[via[u]] = "open"

-----------------------------------------------------------------------------
(* The server.                                                             *)

\* The kernel completes a connection to a bound address.
UserConnects(u, s, svc) ==
  /\ ln[s][svc] = "open"
  /\ Uc(u, "none", "backlog")
  /\ via' = [via EXCEPT ![u] = s]
  /\ svcOf' = [svcOf EXCEPT ![u] = svc]
  /\ UNCHANGED <<vars, streamSem, handlerVars>>

\* The address was released before Accept returned the connection.
BacklogReset(u) ==
  /\ Uc(u, "backlog", "closed")
  /\ ln[via[u]][svcOf[u]] \in {"closing", "closed"}
  /\ UNCHANGED <<vars, via, svcOf, streamSem, handlerVars>>

CidrAllowed(u, prefixes) == prefixes = {} \/ \E p \in prefixes : u \in p

\* acceptUsers, which runs once the listener is appended.
AcceptUser(u) ==
  /\ Uc(u, "backlog",
        IF CidrAllowed(u, AllowedUserCIDRs[svcOf[u]]) THEN "accepted" ELSE "closed")
  /\ svcOf[u] \in OpenListeners(via[u])
  /\ UNCHANGED <<vars, via, svcOf, streamSem, handlerVars>>

\* Faulty variant: no limit.
TakeTokenUnbounded(u) ==
  /\ Uc(u, "accepted", "token")
  /\ streamSem' = [streamSem EXCEPT ![via[u]] = @ + 1]
  /\ UNCHANGED <<vars, via, svcOf, handlerVars>>

TakeToken(u) ==
  /\ Uc(u, "accepted", "token")
  /\ streamSem[via[u]] < MaxStreams
  /\ streamSem' = [streamSem EXCEPT ![via[u]] = @ + 1]
  /\ UNCHANGED <<vars, via, svcOf, handlerVars>>

\* Max streams reached: the user is dropped.
NoToken(u) ==
  /\ Uc(u, "accepted", "closed")
  /\ streamSem[via[u]] = MaxStreams
  /\ UNCHANGED <<vars, via, svcOf, streamSem, handlerVars>>

OpenStream(u) ==
  /\ Uc(u, "token", "opened")
  /\ YamOpen(u)
  /\ UNCHANGED <<vars, via, svcOf, streamSem, handlerVars>>

\* WriteMessage(stream, open); the client's AcceptStream starts handleStream.
WriteOpen(u) ==
  /\ Uc(u, "opened", "relay")
  /\ YamOpen(u)
  /\ Handler(u, "none", "reading")
  /\ UNCHANGED <<vars, via, svcOf, streamSem, target>>

\* Faulty variant: the early returns forget the token.
ReturnTokenAfterRelay(u) ==
  streamSem' = [streamSem EXCEPT ![via[u]] = IF uc[u] \in {"relay", "draining"} THEN @ - 1 ELSE @]

\* defer func() { <-sess.streamSem }()
ReturnToken(u) == streamSem' = [streamSem EXCEPT ![via[u]] = @ - 1]

\* Faulty variant: OpenStream waits while the session is down.
ProxyWaits(u) ==
  /\ uc[u] = "opened"
  /\ ~YamOpen(u)
  /\ ReturnToken(u)
  /\ uc' = [uc EXCEPT ![u] = "closed"]
  /\ UNCHANGED <<vars, via, svcOf, handlerVars>>

\* OpenStream or WriteMessage fails, because the yamux session is closed.
ProxyFails(u) ==
  /\ uc[u] \in {"token", "opened"}
  /\ ~YamOpen(u)
  /\ ReturnToken(u)
  /\ uc' = [uc EXCEPT ![u] = "closed"]
  /\ UNCHANGED <<vars, via, svcOf, handlerVars>>

\* relay: the copy from the user ends and closes the server's half of the stream.
UserHangsUp(u) ==
  /\ Uc(u, "relay", "draining")
  /\ UNCHANGED <<vars, via, svcOf, streamSem, handlerVars>>

\* Faulty variant: the client's closing of the stream goes unnoticed.
StreamOverWithSession(u) == yam[via[u]] = "closed"

\* The stream gives no more data: the client closed it or the session is gone.
StreamOver(u) == handler[u] = "closed" \/ yam[via[u]] = "closed"

\* relay: the copy to the user ends, closes the user connection, and with it
\* the other copy; relay and proxyUser return.
ProxyEnds(u) ==
  /\ uc[u] \in {"relay", "draining"}
  /\ StreamOver(u)
  /\ ReturnToken(u)
  /\ uc' = [uc EXCEPT ![u] = "closed"]
  /\ UNCHANGED <<vars, via, svcOf, handlerVars>>

-----------------------------------------------------------------------------
(* The client.                                                             *)

\* ReadMessage(&open): an unknown service ends the handler.
ReadOpen(u) ==
  /\ Handler(u, "reading", IF Services[svcOf[u]] = None THEN "closed" ELSE "dialing")
  /\ UNCHANGED <<vars, ucVars, target>>

\* Faulty variant: the target of some service is dialled.
DialAny(u) == {Services[svc] : svc \in Service} \ {None}

\* c.cfg.Services[open.ServiceName]
DialTarget(u) == {Services[svcOf[u]]}

DialLocal(u) ==
  /\ Handler(u, "dialing", "relay")
  /\ \E t \in DialTarget(u) : target' = [target EXCEPT ![u] = t]
  /\ UNCHANGED <<vars, ucVars>>

\* The header does not arrive in time, the dial fails, the target closes its
\* connection, or the stream does: handleStream returns and closes the stream.
HandlerReturns(u) ==
  /\ handler[u] \in {"reading", "dialing", "relay"}
  /\ handler' = [handler EXCEPT ![u] = "closed"]
  /\ UNCHANGED <<vars, ucVars, target>>

-----------------------------------------------------------------------------
\* Steps the two processes take once they can.  handleStream returns once the
\* user's half of the stream, or the session, is over.
Proxy(u) ==
  \/ BacklogReset(u) \/ AcceptUser(u) \/ TakeToken(u) \/ NoToken(u)
  \/ OpenStream(u) \/ WriteOpen(u) \/ ProxyFails(u) \/ ProxyEnds(u)
  \/ ReadOpen(u) \/ DialLocal(u)
  \/ uc[u] # "none" /\ (uc[u] \in {"draining", "closed"} \/ ~YamOpen(u)) /\ HandlerReturns(u)

UserNext ==
  /\ ~panicked
  /\ \/ (Server \/ Environment) /\ UNCHANGED userVars
     \/ \E u \in User :
          \/ Proxy(u)
          \/ \E s \in Session, svc \in Service : UserConnects(u, s, svc)
          \/ UserHangsUp(u) \/ HandlerReturns(u)

UserSpec ==
  /\ UserInit
  /\ [][UserNext]_<<vars, userVars>>
  /\ WF_<<vars, userVars>>(~panicked /\ ((Server /\ UNCHANGED userVars) \/ \E u \in User : Proxy(u)))

-----------------------------------------------------------------------------
\* The tokens of a session are exactly its users between the select and the
\* return of proxyUser, however proxyUser returns.
TokensExact ==
  \A s \in Session :
    streamSem[s] = Cardinality({u \in User : via[u] = s /\ uc[u] \in Proxying})

\* A user reaches only the target configured for the service it connected to,
\* and only if that service's prefixes admit it.
RoutedToOwnService ==
  \A u \in User :
    target[u] # None =>
      /\ target[u] = Services[svcOf[u]]
      /\ CidrAllowed(u, AllowedUserCIDRs[svcOf[u]])
      /\ svcOf[u] \in Allowed[clientID[via[u]]]

\* Users with a stream of client c on a connection that still works.
Streaming(c) ==
  {u \in User : /\ uc[u] \in {"opened", "relay", "draining"}
               /\ clientID[via[u]] = c
               /\ YamOpen(u)}

\* The limit is per client, not per session: every session has a streamSem of
\* its own, and a client never has more streams than one of them holds.
StreamsPerClientBounded ==
  \A c \in Client : Cardinality(Streaming(c)) <= MaxStreams

\* Nobody is left hanging: once a session's yamux connection is closed, its
\* users are disconnected, queued and half-opened ones included.
UsersDisconnected ==
  <>[](panicked \/ \A u \in User :
         uc[u] # "none" /\ yam[via[u]] = "closed" => uc[u] = "closed")

\* A user that hangs up gives its token back.
HangUpFreesToken == <>[](panicked \/ \A u \in User : uc[u] # "draining")

=============================================================================

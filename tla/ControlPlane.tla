---------------------------- MODULE ControlPlane ----------------------------
(***************************************************************************)
(* Control connections from dial to session, at both ends: the accept loop *)
(* of Server.Run with its handshake semaphore, handleControl, runHandshake *)
(* and validateAuth on the server; connectAndServe, VerifyOnce and         *)
(* runHandshake on the client.  What runSession then does is taken from    *)
(* SessionRegistry, which ServerSessions implements; a session is named by *)
(* its control connection.                                                 *)
(*                                                                         *)
(* A connection is a reliable ordered byte stream until an end closes it.  *)
(* The handshake is in lockstep, so one message per direction is in        *)
(* flight.  Signatures are pairs of a key and what was signed; the nonce   *)
(* and the TLS exporter are fresh for each connection, and named by it.    *)
(***************************************************************************)
EXTENDS Naturals, FiniteSets, SessionRegistry

CONSTANTS
  Config,      \* configurations of the client processes that connect
  ClientPubs,  \* ClientPubs[c]: the Ed25519 keys accepted for c
  PQPubs,      \* PQPubs[c]: the ML-DSA keys accepted for c
  Allowed,     \* Allowed[c]: the services of c
  MaxPending   \* maxPendingHandshakes

ASSUME ControlNone ==
  /\ None \notin Client \cup Session
  /\ None \notin Config
  /\ None \notin {"hello", "accepted", "authFailed"}
ASSUME FiniteSessions == IsFiniteSet(Session)
ASSUME MaxPendingAssumption == MaxPending \in Nat \ {0}

VARIABLES
  conf,       \* configuration of the process that dialled
  mode,       \* "run" for connectAndServe, "verify" for VerifyOnce
  cli,        \* the client's end
  srv,        \* the server's end
  toServer,   \* the ClientAuth on its way to the server or read by it, or None
  toClient,   \* the message on its way to the client, or None
  slots,      \* tokens in s.handshakeSem
  accepting   \* the control listener is open

wire == <<toServer, toClient>>
dialVars == <<conf, mode>>
vars == <<dialVars, cli, srv, wire, slots, accepting, registryVars>>

-----------------------------------------------------------------------------
(* Authentication.                                                         *)

\* Three of the four fields have a fixed size, so that their concatenation
\* determines them, like the tuple here.
SigningInput(nonce, exporter, id, skewed) == <<nonce, exporter, id, skewed>>

\* The fields of varying size have their length in front.
PQSigningInput(nonce, exporter, id, skewed, requested) ==
  <<nonce, exporter, id, skewed, requested>>

\* A signature can be made only with the key, and tells what was signed.
Sign(key, input) == <<"ed25519", key, input>>

PQSign(key, input) == <<"mldsa", key, input>>

Verify(pubs, sig, input) == \E pub \in pubs : sig = Sign(pub, input)

PQVerify(pubs, sig, input) == \E pub \in pubs : sig = PQSign(pub, input)

\* What the client process configured as c sends on connection k.  Of the
\* client's time, only whether it is off by more than MaxClockSkew matters.
ClientAuth(k, c) ==
  [id |-> c.id, skewed |-> c.skewed, requested |-> c.services,
   sig |-> Sign(c.key, SigningInput(k, k, c.id, c.skewed)),
   pqSig |-> PQSign(c.pqKey, PQSigningInput(k, k, c.id, c.skewed, c.services))]

ValidateAuth(k, ca) ==
  /\ ~ca.skewed
  /\ ca.id \in Client
  /\ Verify(ClientPubs[ca.id], ca.sig, SigningInput(k, k, ca.id, ca.skewed))
  /\ ca.requested # {}
  /\ ca.requested \subseteq Allowed[ca.id]
  /\ PQVerify(PQPubs[ca.id], ca.pqSig, PQSigningInput(k, k, ca.id, ca.skewed, ca.requested))

-----------------------------------------------------------------------------
\* The server's handleControl holds a token of the semaphore.
Handshaking == {"tls", "hello", "auth", "accept", "mux"}

ControlTypeOK ==
  /\ conf \in [Session -> Config \cup {None}]
  /\ mode \in [Session -> {"run", "verify"}]
  /\ cli \in [Session -> {"none", "tls", "hello", "verdict", "serving", "closed", "vanished"}]
  /\ srv \in [Session -> {"none", "queued", "session", "closed"} \cup Handshaking]
  /\ toServer \in [Session -> {None} \cup {ClientAuth(k, c) : k \in Session, c \in Config}]
  /\ toClient \in [Session -> {None, "hello", "accepted", "authFailed"}]
  /\ slots \in 0..MaxPending
  /\ accepting \in BOOLEAN
  /\ RegistryTypeOK

ControlInit ==
  /\ conf = [k \in Session |-> None]
  /\ mode = [k \in Session |-> "run"]
  /\ cli = [k \in Session |-> "none"]
  /\ srv = [k \in Session |-> "none"]
  /\ toServer = [k \in Session |-> None]
  /\ toClient = [k \in Session |-> None]
  /\ slots = 0
  /\ accepting = TRUE
  /\ RegistryInit

Cli(k, from, to) == cli[k] = from /\ cli' = [cli EXCEPT ![k] = to]
Srv(k, from, to) == srv[k] = from /\ srv' = [srv EXCEPT ![k] = to]
Send(chan, k, m) == chan[k] = None /\ chan' = [chan EXCEPT ![k] = m]
Receive(chan, k) == chan' = [chan EXCEPT ![k] = None]

-----------------------------------------------------------------------------
(* The server.                                                             *)

\* Faulty variant: handleControl is started whether or not a token is free.
AcceptConnUnbounded(k) ==
  /\ accepting
  /\ Srv(k, "queued", "tls")
  /\ slots' = slots + 1
  /\ UNCHANGED <<dialVars, cli, wire, accepting, registryVars>>

\* Run: a token is free, so handleControl is started.
AcceptConn(k) ==
  /\ accepting
  /\ Srv(k, "queued", "tls")
  /\ slots < MaxPending
  /\ slots' = slots + 1
  /\ UNCHANGED <<dialVars, cli, wire, accepting, registryVars>>

\* Run: handshake backpressure, or the listener was closed under the queue.
DropConn(k) ==
  /\ slots = MaxPending \/ ~accepting
  /\ Srv(k, "queued", "closed")
  /\ UNCHANGED <<dialVars, cli, wire, slots, accepting, registryVars>>

\* The client has verified the server and sent its last TLS flight.
ServerTLS(k) ==
  /\ Srv(k, "tls", "hello")
  /\ cli[k] = "hello"
  /\ UNCHANGED <<dialVars, cli, wire, slots, accepting, registryVars>>

SendHello(k) ==
  /\ Srv(k, "hello", "auth")
  /\ Send(toClient, k, "hello")
  /\ UNCHANGED <<dialVars, cli, toServer, slots, accepting, registryVars>>

\* ReadMessage(&ca) and validateAuth succeed.
AuthAccepted(k) ==
  /\ toServer[k] # None /\ ValidateAuth(k, toServer[k])
  /\ Srv(k, "auth", "accept")
  /\ UNCHANGED <<dialVars, cli, wire, slots, accepting, registryVars>>

\* validateAuth fails: AuthFailed is written, and the deferred function
\* returns the token and closes the connection.
AuthRejected(k) ==
  /\ toServer[k] # None /\ ~ValidateAuth(k, toServer[k])
  /\ Srv(k, "auth", "closed")
  /\ Send(toClient, k, "authFailed")
  /\ slots' = slots - 1
  /\ UNCHANGED <<dialVars, cli, toServer, accepting, registryVars>>

SendAccepted(k) ==
  /\ Srv(k, "accept", "mux")
  /\ Send(toClient, k, "accepted")
  /\ UNCHANGED <<dialVars, cli, toServer, slots, accepting, registryVars>>

\* Faulty variant: the token is kept until the session ends.
MuxServerKeepsToken(k) ==
  /\ Srv(k, "mux", "session")
  /\ Admit(k, toServer[k].id)
  /\ UNCHANGED <<dialVars, cli, wire, slots, accepting>>

\* mux.Server; <-s.handshakeSem; semHeld = false; runSession
MuxServer(k) ==
  /\ Srv(k, "mux", "session")
  /\ slots' = slots - 1
  /\ Admit(k, toServer[k].id)
  /\ UNCHANGED <<dialVars, cli, wire, accepting>>

\* Faulty variant: no deadline on the connection, only errors end the wait.
ServerFailsOnError(k) ==
  /\ srv[k] \in Handshaking
  /\ cli[k] = "closed"
  /\ srv' = [srv EXCEPT ![k] = "closed"]
  /\ slots' = slots - 1
  /\ UNCHANGED <<dialVars, cli, wire, accepting, registryVars>>

\* Any error return of handleControl before semHeld = false: the deadline of
\* HandshakeTimeout, a closed or broken connection, a failing TLS handshake.
ServerFails(k) ==
  /\ srv[k] \in Handshaking
  /\ srv' = [srv EXCEPT ![k] = "closed"]
  /\ slots' = slots - 1
  /\ UNCHANGED <<dialVars, cli, wire, accepting, registryVars>>

\* runSession registers the session.
RegisterSession(k) ==
  /\ Promote(k)
  /\ UNCHANGED <<dialVars, cli, srv, wire, slots, accepting>>

\* Faulty variant: the connection stays open.
EndSessionLeavesOpen(k) ==
  /\ End(k)
  /\ UNCHANGED <<dialVars, cli, srv, wire, slots, accepting>>

\* The session ends and its connection is closed.
EndSession(k) ==
  /\ End(k)
  /\ srv' = [srv EXCEPT ![k] = "closed"]
  /\ UNCHANGED <<dialVars, cli, wire, slots, accepting>>

\* The server's context is cancelled: tlsL.Close().
StopAccepting ==
  /\ accepting
  /\ accepting' = FALSE
  /\ UNCHANGED <<dialVars, cli, srv, wire, slots, registryVars>>

\* The server process dies; the kernel closes its connections.
ServerCrash ==
  /\ Crash
  /\ srv' = [k \in Session |-> IF srv[k] = "none" THEN "none" ELSE "closed"]
  /\ accepting' = FALSE
  /\ slots' = 0
  /\ UNCHANGED <<dialVars, cli, wire>>

-----------------------------------------------------------------------------
(* The client.                                                             *)

Dial(k, c, m) ==
  /\ accepting
  /\ Cli(k, "none", "tls")
  /\ conf' = [conf EXCEPT ![k] = c]
  /\ mode' = [mode EXCEPT ![k] = m]
  /\ srv' = [srv EXCEPT ![k] = "queued"]
  /\ UNCHANGED <<wire, slots, accepting, registryVars>>

\* The certificate has the pinned fingerprint and the key exchange is hybrid.
ClientTLS(k) ==
  /\ srv[k] = "tls" /\ conf[k].pinned
  /\ Cli(k, "tls", "hello")
  /\ UNCHANGED <<dialVars, srv, wire, slots, accepting, registryVars>>

\* Read the hello, sign, write ClientAuth.
SendAuth(k) ==
  /\ toClient[k] = "hello"
  /\ Cli(k, "hello", "verdict")
  /\ Receive(toClient, k)
  /\ Send(toServer, k, ClientAuth(k, conf[k]))
  /\ UNCHANGED <<dialVars, srv, slots, accepting, registryVars>>

\* Faulty variant: the session id is not checked.
HasSessionIDUnchecked(m) == m # None

\* Both Accepted and AuthFailed decode as an Accepted; AuthFailed has no
\* session_id, so only the former leaves acc.SessionID non-empty.
HasSessionID(m) == m = "accepted"

\* connectAndServe goes on to acceptStreams; VerifyOnce closes and returns nil.
ReadVerdict(k) ==
  /\ Cli(k, "verdict", IF mode[k] = "run" THEN "serving" ELSE "closed")
  /\ HasSessionID(toClient[k])
  /\ Receive(toClient, k)
  /\ UNCHANGED <<dialVars, srv, toServer, slots, accepting, registryVars>>

\* Any error return of connectAndServe or VerifyOnce before the session: a
\* deadline, a closed connection, a failing pin, no session id in the verdict.
ClientFails(k) ==
  /\ cli[k] \in {"tls", "hello", "verdict"}
  /\ cli' = [cli EXCEPT ![k] = "closed"]
  /\ UNCHANGED <<dialVars, srv, wire, slots, accepting, registryVars>>

\* Faulty variant: connectAndServe returns and leaves the connection open.
ClientSessionLeftOpen(k) ==
  /\ Cli(k, "serving", "serving")
  /\ UNCHANGED <<dialVars, srv, wire, slots, accepting, registryVars>>

\* AcceptStream fails: connectAndServe returns, closing the connection.
ClientSessionEnds(k) ==
  /\ Cli(k, "serving", "closed")
  /\ UNCHANGED <<dialVars, srv, wire, slots, accepting, registryVars>>

\* The client's host disappears without closing the connection.
ClientVanishes(k) ==
  /\ cli[k] \notin {"none", "closed", "vanished"}
  /\ cli' = [cli EXCEPT ![k] = "vanished"]
  /\ UNCHANGED <<dialVars, srv, wire, slots, accepting, registryVars>>

-----------------------------------------------------------------------------
\* Steps that are taken once they can be, and deadlines, which expire.
Handshake(k) ==
  \/ AcceptConn(k) \/ DropConn(k) \/ ServerTLS(k) \/ SendHello(k)
  \/ AuthAccepted(k) \/ AuthRejected(k) \/ SendAccepted(k) \/ MuxServer(k)
  \/ ServerFails(k) \/ RegisterSession(k)
  \/ ClientTLS(k) \/ SendAuth(k) \/ ReadVerdict(k) \/ ClientFails(k)

\* A keep-alive without an answer, or end of file, tells either end that the
\* other is gone, and a superseded session is shut down.
Notice(k) ==
  \/ (cli[k] \in {"closed", "vanished"} \/ status[k] = "superseded") /\ EndSession(k)
  \/ srv[k] = "closed" /\ ClientSessionEnds(k)

ControlNext ==
  \/ \E k \in Session : Handshake(k) \/ Notice(k)
  \/ \E k \in Session, c \in Config, m \in {"run", "verify"} : Dial(k, c, m)
  \/ \E k \in Session : EndSession(k) \/ ClientSessionEnds(k) \/ ClientVanishes(k)
  \/ StopAccepting \/ (accepting /\ ServerCrash)

ControlSpec ==
  /\ ControlInit
  /\ [][ControlNext]_vars
  /\ WF_vars(\E k \in Session : Handshake(k) \/ Notice(k))

-----------------------------------------------------------------------------
\* The tokens in handshakeSem are exactly the connections whose handshake the
\* server is running: none is lost on an error path and none given back twice.
SlotsExact == slots = Cardinality({k \in Session : srv[k] \in Handshaking})

\* The configuration a client needs for the server to let it in.
Entitled(c) ==
  /\ c.pinned /\ ~c.skewed
  /\ c.id \in Client
  /\ c.key \in ClientPubs[c.id] /\ c.pqKey \in PQPubs[c.id]
  /\ c.services # {} /\ c.services \subseteq Allowed[c.id]

\* A session exists at either end only for a client with both keys of its id,
\* asking for services of its id: AuthFailed is never taken for Accepted, and
\* no rejected connection reaches runSession.
SessionsAreEntitled ==
  \A k \in Session :
    cli[k] = "serving" \/ status[k] \in {"pending", "current", "superseded"} =>
      /\ Entitled(conf[k])
      /\ owner[k] \in {None, conf[k].id}

\* A token is never kept by a peer that stops answering: every handshake ends.
HandshakesEnd ==
  <>[](\A k \in Session : srv[k] \notin Handshaking \cup {"queued"})

\* No split view persists: in the end whoever believes to be serving has the
\* current session of its client, so at most one process per id does.
ViewsConverge ==
  <>[](\A k \in Session : cli[k] = "serving" => status[k] = "current")

\* "passage verify" is a dry run: it never takes the place of a live session.
VerifyIsDryRun ==
  [][\A j, k \in Session :
       status[j] = "current" /\ status'[j] = "superseded"
         /\ status[k] = "pending" /\ status'[k] = "current"
       => mode[k] = "run"]_vars

=============================================================================

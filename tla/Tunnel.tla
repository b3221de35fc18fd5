------------------------------- MODULE Tunnel -------------------------------
(***************************************************************************)
(* A client that keeps itself connected: Client.Run (ClientLoop) calls     *)
(* connectAndServe, each call a new control connection (ControlPlane).     *)
(* The client gives a connection up when the server has closed it, at the  *)
(* end of a deadline or when its network fails; the server may be slow to  *)
(* learn of it, and goes on with the handshake of a connection nobody      *)
(* waits for any more.                                                     *)
(*                                                                         *)
(* The name of a connection that is over at both ends is used again, so    *)
(* that there is no bound on the attempts.  Failures that the other end    *)
(* did not cause are bounded by MaxFaults.                                 *)
(***************************************************************************)
EXTENDS ControlPlane, ClientLoop

CONSTANT MaxFaults

\* Enough names: an abandoned connection that lingers takes a fault each.
ASSUME FaultsAssumption == MaxFaults \in Nat /\ Cardinality(Session) > MaxFaults

VARIABLES
  attempt,  \* the connection of the current connectAndServe, or None
  faults    \* failures so far

tunnelVars == <<vars, loopVars, attempt, faults>>

TunnelInit == ControlInit /\ LoopInit /\ attempt = None /\ faults = 0

Fault == faults < MaxFaults /\ faults' = faults + 1

-----------------------------------------------------------------------------
\* The parts of Client.Run without a connection.
Loop ==
  /\ CheckCtx \/ TimerFires \/ SleepCancelled
  /\ UNCHANGED <<vars, attempt, faults>>

DialServer(k) ==
  /\ at = "connect" /\ attempt = None
  /\ status[k] = "absent"   \* a fresh name
  /\ \E c \in Config : Dial(k, c, "run")
  /\ attempt' = k
  /\ UNCHANGED <<loopVars, faults>>

\* Nobody listens.
DialFails ==
  /\ attempt = None /\ ~accepting
  /\ ConnectFails
  /\ UNCHANGED <<vars, attempt, faults>>

\* connectAndServe up to acceptStreams.
Attempt(k) ==
  /\ attempt = k
  /\ \/ (ClientTLS(k) \/ SendAuth(k)) /\ UNCHANGED loopVars
     \/ ReadVerdict(k) /\ Connected
  /\ UNCHANGED <<attempt, faults>>

\* The server has closed the connection, and nothing is left to be read.
ServerClosed(k) == srv[k] = "closed" /\ ~HasSessionID(toClient[k])

\* connectAndServe returns an error, which the server caused.
ServerEnds(k) ==
  /\ attempt = k /\ ServerClosed(k)
  /\ \/ ClientFails(k) /\ ConnectFails
     \/ ClientSessionEnds(k) /\ SessionLost
  /\ attempt' = None
  /\ UNCHANGED faults

\* A deadline or the network: connectAndServe returns an error, and what it
\* sends to close the connection may not arrive.
AttemptFails(k) ==
  /\ attempt = k /\ Fault
  /\ \/ at = "connect" /\ (ClientFails(k) \/ ClientVanishes(k)) /\ ConnectFails
     \/ at = "serve" /\ (ClientSessionEnds(k) \/ ClientVanishes(k)) /\ SessionLost
  /\ attempt' = None

\* The context is done: acceptStreams or HandshakeContext returns.
AttemptCancelled(k) ==
  /\ attempt = k /\ cancelled
  /\ \/ WatcherClosesSession /\ ClientSessionEnds(k)
     \/ cli[k] = "tls" /\ ClientFails(k) /\ ConnectFails
  /\ attempt' = None
  /\ UNCHANGED faults

CancelRun == Cancel /\ UNCHANGED <<vars, attempt, faults>>

-----------------------------------------------------------------------------
\* The server goes on for as long as nothing tells it otherwise.
ServerStep(k) ==
  /\ \/ AcceptConn(k) \/ DropConn(k) \/ ServerTLS(k) \/ SendHello(k)
     \/ AuthAccepted(k) \/ AuthRejected(k) \/ SendAccepted(k) \/ MuxServer(k) \/ RegisterSession(k)
     \/ (cli[k] \in {"closed", "vanished"} \/ status[k] = "superseded") /\ EndSession(k)
  /\ UNCHANGED <<loopVars, attempt, faults>>

\* HandshakeTimeout, or the end of a connection the client has closed.
ServerGivesUp(k) ==
  /\ cli[k] \in {"closed", "vanished"}
  /\ ServerFails(k)
  /\ UNCHANGED <<loopVars, attempt, faults>>

\* The server gives up a client that is still there.
ServerFaults(k) ==
  /\ Fault
  /\ ServerFails(k) \/ EndSession(k)
  /\ UNCHANGED <<loopVars, attempt>>

ServerDies ==
  /\ Fault
  /\ accepting /\ ServerCrash
  /\ UNCHANGED <<loopVars, attempt>>

\* The generated compose files say "restart: unless-stopped".
ServerRestarts ==
  /\ ~accepting
  /\ accepting' = TRUE
  /\ UNCHANGED <<dialVars, cli, srv, wire, slots, registryVars, loopVars, attempt, faults>>

Over(k) ==
  /\ cli[k] \in {"none", "closed", "vanished"} /\ srv[k] \in {"none", "closed"}
  /\ cli[k] # "none" \/ status[k] # "absent"

\* The name of k is free for the connection that Run is about to make.
Forget(k) ==
  /\ at = "connect" /\ attempt = None
  /\ Over(k)
  /\ conf' = [conf EXCEPT ![k] = None]
  /\ cli' = [cli EXCEPT ![k] = "none"]
  /\ srv' = [srv EXCEPT ![k] = "none"]
  /\ toServer' = [toServer EXCEPT ![k] = None]
  /\ toClient' = [toClient EXCEPT ![k] = None]
  /\ status' = [status EXCEPT ![k] = "absent"]
  /\ owner' = [owner EXCEPT ![k] = None]
  /\ UNCHANGED <<mode, slots, accepting, loopVars, attempt, faults>>

-----------------------------------------------------------------------------
ClientSteps ==
  \/ Loop \/ DialFails
  \/ \E k \in Session : DialServer(k) \/ Attempt(k) \/ ServerEnds(k) \/ AttemptCancelled(k)

ServerSteps(k) == ServerStep(k) \/ ServerGivesUp(k) \/ Forget(k)

TunnelNext ==
  \/ ClientSteps
  \/ \E k \in Session : ServerSteps(k) \/ AttemptFails(k) \/ ServerFaults(k)
  \/ CancelRun \/ ServerDies \/ ServerRestarts

\* The client's one goroutine runs, and so does the server's for each
\* connection; a deadline expires, and a server that died is started again.
TunnelSpec ==
  /\ TunnelInit
  /\ [][TunnelNext]_tunnelVars
  /\ WF_tunnelVars(ClientSteps)
  /\ \A k \in Session : WF_tunnelVars(ServerSteps(k))
  /\ WF_tunnelVars(ServerRestarts)

-----------------------------------------------------------------------------
\* A client process never has two connections, though it makes one after the
\* other and learns late, or never, what became of them at the server: whatever
\* ends connectAndServe also gives its connection up, and Run serves streams
\* exactly while the connection it last dialled has been accepted.
OneConnection ==
  /\ \A k \in Session : cli[k] \in {"tls", "hello", "verdict", "serving"} => attempt = k
  /\ at = "serve" <=> \E k \in Session : cli[k] = "serving"

\* The client ends up with the current session of its id, whatever failed
\* before: neither a token kept by an abandoned handshake, nor an abandoned
\* connection that is registered late and displaces its successor, can keep it
\* out for good.  Only a cancelled context ends the attempts.
ServedInTheEnd ==
  <>[](IF cancelled THEN at = "returned"
       ELSE at = "serve" /\ attempt # None /\ status[attempt] = "current")

=============================================================================

---------------------------- MODULE TunnelProofs ----------------------------
(***************************************************************************)
(* The client that reconnects and the server it reconnects to.  For every  *)
(* configuration ClientConfig.Validate accepts whose max_backoff can be    *)
(* doubled in an int64, the loop keeps its back-off and its waits in range. *)
(* However often connections are abandoned, and the server is started      *)
(* again, the handshake semaphore stays exact, sessions exist for entitled *)
(* clients only, and the client has one connection at a time.              *)
(***************************************************************************)
EXTENDS Tunnel, ControlPlaneProofs

-----------------------------------------------------------------------------
(* The reconnect loop by itself.                                           *)

LoopInv ==
  /\ at \in {"check", "connect", "serve", "sleep", "returned"}
  /\ BackoffBounded
  /\ delay \in Int
  /\ DelayInRange

\* Twice the largest back-off is representable.
Doublable == 2 * MaxBackoff <= MaxInt

\* Values that fit are not changed by the arithmetic of the type.
LEMMA WrapFits ==
  ASSUME NEW n \in Int, 0 <= n, n <= MaxInt
  PROVE  Wrap(n) = n
<1>1. MaxInt \in Nat
  BY ReconnectAssumption
<1>2. (n + MaxInt + 1) % (2 * (MaxInt + 1)) = n + MaxInt + 1
  BY <1>1
<1> QED
  BY <1>1, <1>2 DEF Wrap

\* jitterDelay returns a positive value in [base/2, 3*base/2).
LEMMA JitterRange ==
  ASSUME Doublable, NEW base \in InitialBackoff .. MaxBackoff, NEW d \in JitterDelay(base)
  PROVE  d \in Int /\ d > 0 /\ base \div 2 <= d /\ 2 * d < 3 * base
<1>1. base \in Int /\ 0 < base /\ 2 * base <= MaxInt /\ MaxInt \in Nat
  BY ReconnectAssumption DEF Doublable
<1>2. base \div 2 \in Int /\ 2 * (base \div 2) <= base /\ base <= 2 * (base \div 2) + 1
  BY <1>1
<1>3. CASE d = base
  BY <1>1, <1>2, <1>3
<1>4. CASE d # base
  <2>1. base \div 2 > 0
    BY <1>1, <1>2, <1>4 DEF JitterDelay
  <2>2. PICK add \in 0 .. base - 1 : d = Wrap(base \div 2 + add)
    BY <1>1, <1>4 DEF JitterDelay
  <2>3. base \div 2 + add \in Int /\ 0 <= base \div 2 + add /\ base \div 2 + add <= MaxInt
    BY <1>1, <1>2, <2>1
  <2>4. d = base \div 2 + add
    BY <2>2, <2>3, WrapFits
  <2> QED
    BY <1>1, <1>2, <2>1, <2>4
<1> QED
  BY <1>3, <1>4

\* Doubling and capping stays in the configured range.
LEMMA DoubledRange ==
  ASSUME Doublable, NEW b \in InitialBackoff .. MaxBackoff
  PROVE  Doubled(b) \in InitialBackoff .. MaxBackoff
<1>1. 2 * b \in Int /\ 0 <= 2 * b /\ 2 * b <= MaxInt /\ InitialBackoff <= 2 * b
  BY ReconnectAssumption DEF Doublable
<1>2. Wrap(2 * b) = 2 * b
  BY <1>1, WrapFits
<1> QED
  BY <1>1, <1>2, ReconnectAssumption DEF Doubled

\* Every step keeps the back-off and the drawn delay in range.
LEMMA LoopStep ==
  ASSUME Doublable, LoopInv, [LoopNext]_loopVars
  PROVE  LoopInv'
<1> USE DEF LoopInv, BackoffBounded, DelayInRange
<1>1. ASSUME AfterError PROVE LoopInv'
  <2>1. CASE at' = "returned" /\ UNCHANGED <<backoff, delay, cancelled>>
    BY <2>1
  <2>2. CASE at' = "sleep" /\ delay' \in JitterDelay(backoff) /\ UNCHANGED backoff
    BY <2>2, JitterRange
  <2> QED
    BY <1>1, <2>1, <2>2 DEF AfterError
<1>2. CASE TimerFires
  BY <1>2, DoubledRange DEF TimerFires
<1>3. CASE CheckCtx
  BY <1>3 DEF CheckCtx
<1>4. CASE Connected \/ SleepCancelled \/ WatcherClosesSession
  BY <1>4 DEF Connected, SleepCancelled, WatcherClosesSession
<1>5. CASE Cancel \/ UNCHANGED loopVars
  BY <1>5 DEF Cancel, loopVars
<1> QED
  BY <1>1, <1>2, <1>3, <1>4, <1>5 DEF LoopNext, Step, ConnectFails, SessionLost

\* The inductive invariant holds throughout.
LEMMA LoopInvariance == Doublable => (LoopSpec => []LoopInv)
<1>1. LoopInit => LoopInv
  BY ReconnectAssumption DEF LoopInit, LoopInv, BackoffBounded, DelayInRange
<1>2. ASSUME Doublable PROVE LoopInv /\ [LoopNext]_loopVars => LoopInv'
  BY <1>2, LoopStep
<1>3. ASSUME Doublable PROVE LoopSpec => []LoopInv
  BY <1>1, <1>2, <1>3, PTL DEF LoopSpec
<1> QED
  BY <1>3

\* The back-off of Run stays between initial_backoff and max_backoff, for every
\* accepted configuration with a max_backoff below half the int64 range.
THEOREM BackoffIsBounded == Doublable => (LoopSpec => []BackoffBounded)
<1>1. LoopInv => BackoffBounded
  BY DEF LoopInv
<1> QED
  BY <1>1, LoopInvariance, PTL

\* For the same configurations, the wait that jitterDelay draws is never zero
\* and within half of the back-off it is drawn from: Run never spins.
THEOREM DelaysAreInRange == Doublable => (LoopSpec => []DelayInRange)
<1>1. LoopInv => DelayInRange
  BY DEF LoopInv
<1> QED
  BY <1>1, LoopInvariance, PTL

-----------------------------------------------------------------------------
(* The loop in the tunnel.                                                 *)

\* Every step of the tunnel is a step of Client.Run or leaves it alone.
LEMMA TunnelStepsLoop ==
  ASSUME [TunnelNext]_tunnelVars
  PROVE  [LoopNext]_loopVars
<1> USE DEF LoopNext, Step
<1>1. CASE ClientSteps
  BY <1>1 DEF ClientSteps, Loop, DialFails, DialServer, Attempt, ServerEnds, AttemptCancelled
<1>2. ASSUME NEW k \in Session, ServerSteps(k) \/ AttemptFails(k) \/ ServerFaults(k)
      PROVE  [LoopNext]_loopVars
  BY <1>2 DEF ServerSteps, ServerStep, ServerGivesUp, Forget, AttemptFails, ServerFaults
<1>3. CASE CancelRun \/ ServerDies \/ ServerRestarts
  BY <1>3 DEF CancelRun, ServerDies, ServerRestarts
<1>4. CASE UNCHANGED tunnelVars
  BY <1>4 DEF tunnelVars
<1> QED
  BY <1>1, <1>2, <1>3, <1>4 DEF TunnelNext

\* So the invariant of the loop holds in the tunnel.
LEMMA TunnelLoopInvariance == Doublable => (TunnelSpec => []LoopInv)
<1>1. TunnelInit => LoopInv
  BY ReconnectAssumption DEF TunnelInit, LoopInit, LoopInv, BackoffBounded, DelayInRange
<1>2. ASSUME Doublable PROVE LoopInv /\ [TunnelNext]_tunnelVars => LoopInv'
  BY <1>2, LoopStep, TunnelStepsLoop
<1>3. ASSUME Doublable PROVE TunnelSpec => []LoopInv
  BY <1>1, <1>2, <1>3, PTL DEF TunnelSpec
<1> QED
  BY <1>3

\* Whatever the server and the network do to the attempts of Run, its back-off
\* stays between initial_backoff and max_backoff.
THEOREM TunnelBackoffIsBounded == Doublable => (TunnelSpec => []BackoffBounded)
<1>1. LoopInv => BackoffBounded
  BY DEF LoopInv
<1> QED
  BY <1>1, TunnelLoopInvariance, PTL

\* Nor does a server that refuses every attempt make the client spin.
THEOREM TunnelDelaysAreInRange == Doublable => (TunnelSpec => []DelayInRange)
<1>1. LoopInv => DelayInRange
  BY DEF LoopInv
<1> QED
  BY <1>1, TunnelLoopInvariance, PTL

-----------------------------------------------------------------------------
(* The server in the tunnel: names are used again, and the process is      *)
(* started again.                                                          *)

\* A connection that is over at both ends holds no token and has no session.
LEMMA ForgetStep ==
  ASSUME ControlInv, NEW k \in Session, Forget(k)
  PROVE  ControlInv'
<1> USE DEF Forget, Over
<1>1. srv[k] \notin Handshaking /\ "none" \notin Handshaking /\ status[k] \notin Live
  BY DEF ControlInv, ConnInv, Handshaking
<1>2. SlotsExact' /\ slots' \in 0..MaxPending
  BY <1>1, KeepToken, Zenon DEF ControlInv
<1>3. ControlTypeOK'
  BY <1>2 DEF ControlInv, ControlTypeOK, RegistryTypeOK, Status
<1>4. ASSUME NEW j \in Session PROVE ConnInv(j)'
  <2>1. CASE j = k
    BY <2>1, ControlNone DEF ControlInv, ControlTypeOK, RegistryTypeOK, ConnInv, Live
  <2>2. CASE j # k
    BY <2>2 DEF ControlInv, ControlTypeOK, RegistryTypeOK, ConnInv
  <2> QED
    BY <2>1, <2>2
<1>5. OneCurrent'
  BY DEF ControlInv, ControlTypeOK, RegistryTypeOK, OneCurrent
<1> QED
  BY <1>2, <1>3, <1>4, <1>5 DEF ControlInv

\* The new process has a full semaphore and no sessions.
LEMMA RestartStep ==
  ASSUME ControlInv, ServerRestarts
  PROVE  ControlInv'
<1>1. accepting' \in BOOLEAN /\ UNCHANGED <<dialVars, cli, srv, wire, slots, registryVars>>
  BY DEF ServerRestarts
<1> QED
  BY <1>1 DEF dialVars, wire, registryVars, ControlInv, ControlTypeOK, RegistryTypeOK,
              SlotsExact, OneCurrent, ConnInv

\* All other steps are those of the control plane.
LEMMA TunnelStepsControl ==
  ASSUME [TunnelNext]_tunnelVars
  PROVE  [ControlNext]_vars \/ ServerRestarts \/ \E k \in Session : Forget(k)
<1>1. CASE Loop \/ DialFails \/ CancelRun \/ UNCHANGED tunnelVars
  BY <1>1 DEF Loop, DialFails, CancelRun, tunnelVars
<1>2. ASSUME NEW k \in Session, DialServer(k)
      PROVE  ControlNext
  BY <1>2 DEF DialServer, ControlNext
<1>3. ASSUME NEW k \in Session,
             Attempt(k) \/ ServerEnds(k) \/ AttemptCancelled(k) \/ AttemptFails(k)
      PROVE  ControlNext
  BY <1>3 DEF Attempt, ServerEnds, AttemptCancelled, AttemptFails, ControlNext, Handshake
<1>4. ASSUME NEW k \in Session, ServerStep(k) \/ ServerGivesUp(k) \/ ServerFaults(k)
      PROVE  ControlNext
  BY <1>4 DEF ServerStep, ServerGivesUp, ServerFaults, ControlNext, Handshake, Notice
<1>5. CASE ServerDies
  BY <1>5 DEF ServerDies, ControlNext
<1> QED
  BY <1>1, <1>2, <1>3, <1>4, <1>5 DEF TunnelNext, ClientSteps, ServerSteps

\* The invariant of the control plane holds in the tunnel.
LEMMA TunnelControlInvariance == TunnelSpec => []ControlInv
<1>1. TunnelInit => ControlInv
  BY ControlStart DEF TunnelInit
<1>2. ASSUME ControlInv, [TunnelNext]_tunnelVars
      PROVE  ControlInv'
  BY <1>2, TunnelStepsControl, ControlStep, RestartStep, ForgetStep
<1> QED
  BY <1>1, <1>2, PTL DEF TunnelSpec

\* Handshakes that the client gave up, and a server that died and came back,
\* cost no token: the semaphore always counts the handshakes in progress.
THEOREM TunnelSlotsAreExact == TunnelSpec => []SlotsExact
<1>1. ControlInv => SlotsExact
  BY DEF ControlInv
<1> QED
  BY <1>1, TunnelControlInvariance, PTL

\* A connection that the server accepts only after the client gave it up still
\* belongs to an entitled client, and displaces its successor in one step.
THEOREM TunnelSessions == TunnelSpec => [](SessionsAreEntitled /\ OneCurrent)
<1>1. ControlInv => SessionsAreEntitled /\ OneCurrent
  BY DEF ControlInv, ConnInv, Live, SessionsAreEntitled
<1> QED
  BY <1>1, TunnelControlInvariance, PTL

-----------------------------------------------------------------------------
(* The client's connections.                                               *)

Trying == {"tls", "hello", "verdict"}

\* Where Run is, and the state of the connection of its connectAndServe.
AttemptInv ==
  /\ attempt \in Session \cup {None}
  /\ at \in {"check", "connect", "serve", "sleep", "returned"}
  /\ \A k \in Session : mode[k] = "run"
  /\ \A k \in Session : cli[k] \in Trying => attempt = k /\ at = "connect"
  /\ \A k \in Session : cli[k] = "serving" => attempt = k /\ at = "serve"
  /\ attempt # None => cli[attempt] \in Trying \cup {"serving"}
  /\ at = "serve" => attempt # None

\* Steps of the client's end of its connection, with those of the loop.
LEMMA AttemptStep ==
  ASSUME ControlTypeOK, AttemptInv, NEW k \in Session,
         DialServer(k) \/ Attempt(k) \/ ServerEnds(k) \/ AttemptCancelled(k) \/ AttemptFails(k)
  PROVE  AttemptInv'
<1> USE DEF Trying
<1>1. cli \in [Session -> Trying \cup {"none", "serving", "closed", "vanished"}] /\ k # None
  BY ControlNone DEF ControlTypeOK
<1>2. mode \in [Session -> {"run", "verify"}]
  BY DEF ControlTypeOK
<1>3. CASE DialServer(k)
  <2>1. PICK c \in Config : Dial(k, c, "run")
    BY <1>3 DEF DialServer
  <2>2. cli' = [cli EXCEPT ![k] = "tls"] /\ mode' = [mode EXCEPT ![k] = "run"]
    BY <2>1 DEF Dial, Cli
  <2>3. at = "connect" /\ attempt = None /\ attempt' = k /\ at' = at
    BY <1>3 DEF DialServer, loopVars
  <2> QED
    BY <1>1, <1>2, <2>2, <2>3, ControlNone DEF AttemptInv
<1>4. CASE Attempt(k)
  <2>1. mode' = mode /\ attempt = k /\ attempt' = k
    BY <1>4 DEF Attempt, ClientTLS, SendAuth, ReadVerdict, dialVars
  <2>2. CASE (ClientTLS(k) \/ SendAuth(k)) /\ UNCHANGED loopVars
    <3>1. cli[k] \in Trying /\ at' = at /\ \E x \in Trying : cli' = [cli EXCEPT ![k] = x]
      BY <2>2 DEF ClientTLS, SendAuth, Cli, loopVars
    <3> QED
      BY <1>1, <2>1, <3>1 DEF AttemptInv
  <2>3. CASE ReadVerdict(k) /\ Connected
    <3>1. mode[k] = "run"
      BY DEF AttemptInv
    <3>2. cli[k] = "verdict" /\ at = "connect" /\ at' = "serve" /\ cli' = [cli EXCEPT ![k] = "serving"]
      BY <2>3, <3>1 DEF ReadVerdict, Cli, Connected
    <3> QED
      BY <1>1, <2>1, <3>2 DEF AttemptInv
  <2> QED
    BY <1>4, <2>2, <2>3 DEF Attempt
<1>5. CASE ServerEnds(k) \/ AttemptCancelled(k) \/ AttemptFails(k)
  <2>1. mode' = mode /\ attempt = k /\ attempt' = None
    BY <1>5 DEF ServerEnds, AttemptCancelled, AttemptFails, ClientFails, ClientSessionEnds,
                ClientVanishes, dialVars
  <2>2. \E x \in {"closed", "vanished"} : cli' = [cli EXCEPT ![k] = x]
    BY <1>5 DEF ServerEnds, AttemptCancelled, AttemptFails, ClientFails, ClientSessionEnds,
                ClientVanishes, Cli
  <2>3. at' \in {"returned", "sleep"}
    BY <1>5 DEF ServerEnds, AttemptCancelled, AttemptFails, ConnectFails, SessionLost,
                AfterError, WatcherClosesSession
  <2> QED
    BY <1>1, <2>1, <2>2, <2>3 DEF AttemptInv
<1> QED
  BY <1>3, <1>4, <1>5

\* Steps of the loop that have no connection.
LEMMA LoopAlone ==
  ASSUME ControlTypeOK, AttemptInv, Loop \/ DialFails \/ CancelRun
  PROVE  AttemptInv'
<1>1. mode' = mode /\ cli' = cli /\ attempt' = attempt
  BY DEF Loop, DialFails, CancelRun, vars, dialVars
<1>2. CASE CancelRun
  BY <1>1, <1>2 DEF CancelRun, Cancel, AttemptInv
<1>3. CASE DialFails
  <2>1. attempt = None /\ at = "connect" /\ at' \in {"returned", "sleep"}
    BY <1>3 DEF DialFails, ConnectFails, AfterError
  <2>2. \A k \in Session : cli[k] \notin Trying \cup {"serving"}
    BY <2>1, ControlNone DEF AttemptInv
  <2> QED
    BY <1>1, <2>1, <2>2 DEF AttemptInv
<1>4. CASE Loop
  <2>1. at \in {"check", "sleep"} /\ at' \in {"returned", "connect", "check"}
    BY <1>4 DEF Loop, CheckCtx, TimerFires, SleepCancelled
  <2>2. \A k \in Session : cli[k] \notin Trying \cup {"serving"}
    BY <2>1 DEF AttemptInv
  <2> QED
    BY <1>1, <2>1, <2>2 DEF AttemptInv
<1> QED
  BY <1>2, <1>3, <1>4

\* The server's steps leave the client's end alone; only names that are not in
\* use are used again.
LEMMA ServerAlone ==
  ASSUME ControlTypeOK, AttemptInv,
         \/ \E k \in Session : ServerSteps(k) \/ ServerFaults(k)
         \/ ServerDies \/ ServerRestarts \/ UNCHANGED tunnelVars
  PROVE  AttemptInv'
<1>1. CASE \E k \in Session : Forget(k)
  <2>1. PICK k \in Session : Forget(k)
    BY <1>1
  <2>2. /\ cli[k] \in {"none", "closed", "vanished"} /\ cli' = [cli EXCEPT ![k] = "none"]
        /\ mode' = mode /\ attempt' = attempt /\ at' = at
    BY <2>1 DEF Forget, Over, loopVars
  <2>3. attempt # k
    BY <2>2, ControlNone DEF AttemptInv, Trying
  <2>4. DOMAIN cli = Session
    BY DEF ControlTypeOK
  <2> QED
    BY <2>2, <2>3, <2>4, ControlNone DEF AttemptInv, Trying
<1>2. CASE UNCHANGED <<mode, cli, attempt, at>>
  BY <1>2 DEF AttemptInv
<1>3. ASSUME NEW k \in Session, ServerStep(k)
      PROVE  UNCHANGED <<mode, cli, attempt, at>>
  BY <1>3 DEF ServerStep, AcceptConn, DropConn, ServerTLS, SendHello, AuthAccepted, AuthRejected,
              SendAccepted, MuxServer, RegisterSession, EndSession, dialVars, loopVars
<1>4. ASSUME NEW k \in Session, ServerGivesUp(k) \/ ServerFaults(k)
      PROVE  UNCHANGED <<mode, cli, attempt, at>>
  BY <1>4 DEF ServerGivesUp, ServerFaults, ServerFails, EndSession, dialVars, loopVars
<1>5. ASSUME ServerDies \/ ServerRestarts \/ UNCHANGED tunnelVars
      PROVE  UNCHANGED <<mode, cli, attempt, at>>
  BY <1>5 DEF ServerDies, ServerCrash, ServerRestarts, tunnelVars, vars, dialVars, loopVars
<1> QED
  BY <1>1, <1>2, <1>3, <1>4, <1>5 DEF ServerSteps

\* Run and its connection agree throughout.
LEMMA AttemptInvariance == TunnelSpec => []AttemptInv
<1>1. TunnelInit => AttemptInv
  BY DEF TunnelInit, ControlInit, LoopInit, AttemptInv, Trying
<1>2. ASSUME ControlInv, AttemptInv, [TunnelNext]_tunnelVars
      PROVE  AttemptInv'
  BY <1>2, AttemptStep, LoopAlone, ServerAlone DEF TunnelNext, ClientSteps, ControlInv
<1> QED
  BY <1>1, <1>2, TunnelControlInvariance, PTL DEF TunnelSpec

\* For any number of attempts and failures, the client process has at most one
\* connection, and Run is in acceptStreams exactly while that one is accepted.
THEOREM OneConnectionAtATime == TunnelSpec => []OneConnection
<1>1. ASSUME AttemptInv
      PROVE  OneConnection
  <2>1. \A k \in Session : cli[k] \in {"tls", "hello", "verdict", "serving"} => attempt = k
    BY <1>1 DEF AttemptInv, Trying
  <2>2. ASSUME at = "serve"
        PROVE  \E k \in Session : cli[k] = "serving"
    <3>1. attempt \in Session /\ cli[attempt] \in Trying \cup {"serving"}
      BY <1>1, <2>2 DEF AttemptInv
    <3>2. cli[attempt] \notin Trying
      BY <1>1, <2>2, <3>1 DEF AttemptInv
    <3> QED
      BY <3>1, <3>2
  <2>3. (\E k \in Session : cli[k] = "serving") => at = "serve"
    BY <1>1 DEF AttemptInv
  <2> QED
    BY <2>1, <2>2, <2>3 DEF OneConnection
<1> QED
  BY <1>1, AttemptInvariance, PTL

=============================================================================

----------------------------- MODULE ClientLoop -----------------------------
(***************************************************************************)
(* The client's reconnect loop: Client.Run with its exponential back-off,  *)
(* jitterDelay, sleepCtx and acceptStreams.  connectAndServe up to the     *)
(* session is one step here with either outcome; ControlPlane has its      *)
(* parts.  A time.Duration is a signed integer that wraps around.          *)
(***************************************************************************)
EXTENDS Integers

CONSTANTS
  MaxInt,          \* the largest int64
  InitialBackoff,  \* reconnect.initial_backoff
  MaxBackoff,      \* reconnect.max_backoff
  Jitter           \* reconnect.jitter

\* What ClientConfig.Validate enforces, and the range of the type.
ASSUME ReconnectAssumption ==
  /\ MaxInt \in Nat /\ InitialBackoff \in Nat /\ MaxBackoff \in Nat
  /\ 0 < InitialBackoff /\ InitialBackoff <= MaxBackoff /\ MaxBackoff <= MaxInt
  /\ Jitter \in BOOLEAN

VARIABLES
  at,         \* where Run is
  backoff,    \* the local variable of Run
  delay,      \* what sleepCtx was called with, 0 outside of it
  cancelled   \* the context is done

loopVars == <<at, backoff, delay, cancelled>>

Wrap(n) == ((n + MaxInt + 1) % (2 * (MaxInt + 1))) - (MaxInt + 1)

LoopInit ==
  /\ at = "check"
  /\ backoff = InitialBackoff
  /\ delay = 0
  /\ cancelled = FALSE

\* Faulty variant: the random part is added to the whole of base.
JitterAboveBase(base) ==
  IF ~Jitter \/ base <= 0 THEN {base} ELSE {Wrap(base + add) : add \in 0 .. base - 1}

\* The values jitterDelay may return.
JitterDelay(base) ==
  IF ~Jitter \/ base <= 0 \/ base \div 2 <= 0
  THEN {base}
  ELSE {Wrap(base \div 2 + add) : add \in 0 .. base - 1}

\* Faulty variant: compare, then double.
CappedBeforeDoubling(b) == Wrap(2 * (IF b > MaxBackoff THEN MaxBackoff ELSE b))

\* backoff *= 2; if backoff > MaxBackoff { backoff = MaxBackoff }
Doubled(b) == IF Wrap(2 * b) > MaxBackoff THEN MaxBackoff ELSE Wrap(2 * b)

-----------------------------------------------------------------------------
CheckCtx ==
  /\ at = "check"
  /\ at' = IF cancelled THEN "returned" ELSE "connect"
  /\ UNCHANGED <<backoff, delay, cancelled>>

\* connectAndServe has returned an error.
AfterError ==
  \/ /\ cancelled
     /\ at' = "returned"
     /\ UNCHANGED <<backoff, delay, cancelled>>
  \/ /\ ~cancelled
     /\ at' = "sleep"
     /\ delay' \in JitterDelay(backoff)
     /\ UNCHANGED <<backoff, cancelled>>

\* Dial, TLS handshake and authentication all have deadlines.
ConnectFails == at = "connect" /\ AfterError

Connected ==
  /\ at = "connect"
  /\ at' = "serve"
  /\ UNCHANGED <<backoff, delay, cancelled>>

\* AcceptStream fails.
SessionLost == at = "serve" /\ AfterError

\* Faulty variant: nothing closes the session when the context is done.
NoWatcher == FALSE /\ UNCHANGED loopVars

\* acceptStreams: <-ctx.Done(); yam.Close().  AcceptStream fails, and nil is
\* returned.
WatcherClosesSession ==
  /\ at = "serve" /\ cancelled
  /\ at' = "returned"
  /\ UNCHANGED <<backoff, delay, cancelled>>

TimerFires ==
  /\ at = "sleep"
  /\ at' = "check"
  /\ backoff' = Doubled(backoff)
  /\ delay' = 0
  /\ UNCHANGED cancelled

SleepCancelled ==
  /\ at = "sleep" /\ cancelled
  /\ at' = "returned"
  /\ delay' = 0
  /\ UNCHANGED <<backoff, cancelled>>

Cancel ==
  /\ ~cancelled
  /\ cancelled' = TRUE
  /\ UNCHANGED <<at, backoff, delay>>

Step == CheckCtx \/ ConnectFails \/ Connected \/ TimerFires \/ SleepCancelled \/ WatcherClosesSession

LoopNext == Step \/ SessionLost \/ Cancel

\* A session may last for ever; everything else in the loop comes to an end.
LoopSpec == LoopInit /\ [][LoopNext]_loopVars /\ WF_loopVars(Step)

-----------------------------------------------------------------------------
\* Doubling never leaves the configured range, not even around the end of the
\* integer type, where it would turn negative and the wait into none at all.
BackoffBounded == backoff \in InitialBackoff .. MaxBackoff

\* The wait is between half and three halves of the back-off it is drawn from,
\* and never zero: the loop does not spin.
DelayInRange ==
  at = "sleep" => delay > 0 /\ backoff \div 2 <= delay /\ 2 * delay < 3 * backoff

\* A cancelled context ends Run, wherever it is.
CancelReturns == cancelled ~> at = "returned"

=============================================================================

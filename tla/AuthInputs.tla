----------------------------- MODULE AuthInputs -----------------------------
(***************************************************************************)
(* The bytes that the client signs, and CheckClockSkew with the integers   *)
(* of Go's time package.  ControlPlane treats a signed input as a tuple    *)
(* and the skew as a Boolean; this module is why it may.                   *)
(*                                                                         *)
(* An integer has the range -MaxInt-1 .. MaxInt and wraps around.  Byte    *)
(* strings are sequences; a length has one digit here, four bytes in the   *)
(* code, and a time two digits to the base Radix, eight bytes in the code. *)
(***************************************************************************)
EXTENDS Bytes

CONSTANTS
  MaxInt,        \* the largest int64
  Radix,          \* values of a digit
  Second,        \* units of time.Duration in a second
  Epoch,         \* seconds from year 1, where time.Time counts from, to 1970
  MaxClockSkew,  \* in units of time.Duration
  Auths,         \* inputs of a signature
  Nows,          \* readings of the server's clock: <<seconds since 1970, units>>
  None

ASSUME ClockAssumption ==
  /\ MaxInt \in Nat /\ Second \in Nat \ {0} /\ Epoch \in Nat
  /\ MaxClockSkew \in Nat /\ MaxClockSkew <= MaxInt

\* The server's nonce and the keying material it exports have fixed lengths.
Input ==
  [nonce : Seq(Nat), exporter : Seq(Nat), id : Seq(Nat), time : -(MaxInt + 1) .. MaxInt,
   requested : Seq(Seq(Nat))]

ASSUME AuthsAssumption ==
  /\ Radix \in Nat \ {0} /\ Auths \subseteq Input
  /\ \A a, b \in Auths : Len(a.nonce) = Len(b.nonce) /\ Len(a.exporter) = Len(b.exporter)

VARIABLES auth, now

inputVars == <<auth, now>>

-----------------------------------------------------------------------------
(* What is signed.                                                         *)

PutUint64(t) == LET u == t % (2 * (MaxInt + 1)) IN <<u \div Radix, u % Radix>>

SigningInput(a) == a.nonce \o a.exporter \o a.id \o PutUint64(a.time)

\* Faulty variant: the parts are concatenated as they are.
AppendPlain(dst, src) == dst \o src

AppendLengthPrefixed(dst, src) == dst \o <<Len(src)>> \o src

\* The loop over the requested services.
AppendNames(dst, names) ==
  dst \o Concat([i \in DOMAIN names |-> AppendLengthPrefixed(<<>>, names[i])])

PQSigningInput(a) ==
  LET b == AppendLengthPrefixed(AppendLengthPrefixed(AppendLengthPrefixed(
             <<>>, a.nonce), a.exporter), a.id)
  IN  AppendNames(b \o PutUint64(a.time) \o <<Len(a.requested)>>, a.requested)

-----------------------------------------------------------------------------
(* CheckClockSkew.                                                         *)

Wrap(n) == ((n + MaxInt + 1) % (2 * (MaxInt + 1))) - (MaxInt + 1)

\* time.Unix adds the epoch; Time.Sub saturates.
Sub(t, clientTime) ==
  LET exact == (t[1] + Epoch - Wrap(clientTime + Epoch)) * Second + t[2]
  IN  IF exact > MaxInt THEN MaxInt ELSE IF exact < -(MaxInt + 1) THEN -(MaxInt + 1) ELSE exact

\* Faulty variant: clients that are behind are not looked at.
OneSided(delta) == Wrap(-delta)

\* if delta < 0 { delta = -delta }
Abs(delta) == IF delta < 0 THEN Wrap(-delta) ELSE delta

CheckClockSkew(t, clientTime) == ~(Abs(Sub(t, clientTime)) > MaxClockSkew)

\* How far apart the clocks are.
Skew(t, clientTime) == (t[1] - clientTime) * Second + t[2]
Within(d, bound) == -bound <= d /\ d <= bound

\* A client time near the server's clock can be counted from year 1, too.
ASSUME NowsAssumption ==
  \A t \in Nows, a \in Auths :
    /\ t \in Int \X Int /\ a.time \in Int
    /\ Within(Skew(t, a.time), MaxInt) => Within(a.time + Epoch, MaxInt)

-----------------------------------------------------------------------------
InputInit == auth = None /\ now = <<0, 0>>

\* A ClientAuth is signed and read.
Receive(a, t) == auth = None /\ auth' = a /\ now' = t

InputNext == \E a \in Auths, t \in Nows : Receive(a, t)

InputSpec == InputInit /\ [][InputNext]_inputVars

-----------------------------------------------------------------------------
\* Different requests never have the same bytes: not with ids and names of
\* different lengths, and not by moving the border between two names.
InputsBind ==
  auth # None =>
    \A a \in Auths :
      /\ SigningInput(a) = SigningInput(auth) =>
           a.nonce = auth.nonce /\ a.exporter = auth.exporter /\ a.id = auth.id /\ a.time = auth.time
      /\ PQSigningInput(a) = PQSigningInput(auth) => a = auth

\* As long as the difference of the clocks fits in a time.Duration, the check
\* admits exactly the times of the window, both of its ends included.
SkewExact ==
  auth # None /\ Within(Skew(now, auth.time), MaxInt) =>
    (CheckClockSkew(now, auth.time) <=> Within(Skew(now, auth.time), MaxClockSkew))

\* Whatever time the client claims, it is accepted only inside the window.
SkewWindow ==
  auth # None /\ CheckClockSkew(now, auth.time) => Within(Skew(now, auth.time), MaxClockSkew)

=============================================================================

------------------------------- MODULE Relay -------------------------------
(***************************************************************************)
(* The data of one user connection: relay(uc, stream) in the server and    *)
(* relay(stream, local) in the client, each with two io.Copy goroutines.   *)
(*                                                                         *)
(* A direction d has three links: 1 from its source host to the first      *)
(* relay, 2 the yamux stream, 3 to its sink host.  Link k of one direction *)
(* is link 4 - k of the other.  Copy <<d, i>> reads link i and writes link *)
(* i + 1.  Closing the stream ends only the closer's writing; closing a    *)
(* TCP connection ends both, and resets it if data comes in unread.  Of    *)
(* the data, only its amount is kept, in chunks.                           *)
(***************************************************************************)
EXTENDS Naturals

CONSTANTS
  Window,  \* chunks a link holds before a writer blocks
  Chunks   \* bound on the chunks a host sends

ASSUME RelayAssumption == Window \in Nat \ {0} /\ Chunks \in Nat

Direction == {"up", "down"}   \* from the user to the target and back
Other(d) == IF d = "up" THEN "down" ELSE "up"
Link(d, k) == IF k = 2 THEN "stream" ELSE IF (d = "up") = (k = 1) THEN "user" ELSE "local"
Copy == Direction \X {1, 2}

VARIABLES
  buf,    \* buf[d][k]: chunks on link k
  noWr,   \* noWr[d][k]: the writer of link k has closed it
  noRd,   \* noRd[d][k]: the reader of link k has closed it
  reset,  \* links that are gone: a TCP reset, the stream lost with its session
  copy,   \* copy[c]: "read", "write" (with a chunk in hand) or "done"
  sent,   \* sent[d]: chunks the source host has sent
  taken,  \* taken[d]: chunks copy <<d, 1>> has read
  got     \* got[d]: chunks the sink host has received

relayVars == <<buf, noWr, noRd, reset, copy, sent, taken, got>>

RelayTypeOK ==
  /\ buf \in [Direction -> [1..3 -> 0..Window]]
  /\ noWr \in [Direction -> [1..3 -> BOOLEAN]]
  /\ noRd \in [Direction -> [1..3 -> BOOLEAN]]
  /\ reset \in SUBSET {"user", "stream", "local"}
  /\ copy \in [Copy -> {"read", "write", "done"}]
  /\ sent \in [Direction -> Nat] /\ taken \in [Direction -> Nat] /\ got \in [Direction -> Nat]

RelayInit ==
  /\ buf = [d \in Direction |-> [k \in 1..3 |-> 0]]
  /\ noWr = [d \in Direction |-> [k \in 1..3 |-> FALSE]]
  /\ noRd = [d \in Direction |-> [k \in 1..3 |-> FALSE]]
  /\ reset = {}
  /\ copy = [c \in Copy |-> "read"]
  /\ sent = [d \in Direction |-> 0] /\ taken = [d \in Direction |-> 0] /\ got = [d \in Direction |-> 0]

Gone(d, k) == Link(d, k) \in reset
Put(d, k) == buf' = [buf EXCEPT ![d][k] = @ + 1]
Take(d, k) == buf' = [buf EXCEPT ![d][k] = @ - 1]

\* What was under way on a link that is reset may or may not arrive.
Reset(d, k) ==
  /\ reset' = reset \cup {Link(d, k)}
  /\ \E m \in 0..buf[d][k], n \in 0..buf[Other(d)][4 - k] :
       buf' = [buf EXCEPT ![d][k] = m, ![Other(d)][4 - k] = n]

\* Close of a TCP connection, by the end that writes link k of d.
CloseTCP(d, k) ==
  /\ noWr' = [noWr EXCEPT ![d][k] = TRUE]
  /\ noRd' = [noRd EXCEPT ![Other(d)][4 - k] = TRUE]
  /\ IF buf[Other(d)][4 - k] > 0 THEN Reset(d, k) ELSE UNCHANGED <<buf, reset>>

-----------------------------------------------------------------------------
(* The two hosts.                                                          *)

Send(d) ==
  /\ sent[d] < Chunks /\ ~noWr[d][1] /\ ~Gone(d, 1)
  /\ sent' = [sent EXCEPT ![d] = @ + 1]
  /\ IF noRd[d][1] THEN Reset(d, 1)
                   ELSE buf[d][1] < Window /\ Put(d, 1) /\ UNCHANGED reset
  /\ UNCHANGED <<noWr, noRd, copy, taken, got>>

Receive(d) ==
  /\ buf[d][3] > 0 /\ ~noRd[d][3]
  /\ Take(d, 3)
  /\ got' = [got EXCEPT ![d] = @ + 1]
  /\ UNCHANGED <<noWr, noRd, reset, copy, sent, taken>>

\* shutdown(SHUT_WR): the host has sent all and still listens.
HalfClose(d) ==
  /\ ~noWr[d][1]
  /\ noWr' = [noWr EXCEPT ![d][1] = TRUE]
  /\ UNCHANGED <<buf, noRd, reset, copy, sent, taken, got>>

HostCloses(d) ==
  /\ ~noRd[Other(d)][3]
  /\ CloseTCP(d, 1)
  /\ UNCHANGED <<copy, sent, taken, got>>

\* The session ends, or yamux gives up a half-closed stream.
StreamLost ==
  /\ "stream" \notin reset
  /\ Reset("up", 2)
  /\ UNCHANGED <<noWr, noRd, copy, sent, taken, got>>

-----------------------------------------------------------------------------
(* relay.                                                                  *)

\* io.Copy: a Read returns data.
CopyReads(d, i) ==
  /\ copy[<<d, i>>] = "read" /\ ~noRd[d][i] /\ buf[d][i] > 0
  /\ Take(d, i)
  /\ copy' = [copy EXCEPT ![<<d, i>>] = "write"]
  /\ taken' = IF i = 1 THEN [taken EXCEPT ![d] = @ + 1] ELSE taken
  /\ UNCHANGED <<noWr, noRd, reset, sent, got>>

\* The Write succeeds.  A reader that closed answers with a reset.
CopyWrites(d, i) ==
  /\ copy[<<d, i>>] = "write" /\ ~noWr[d][i + 1] /\ ~Gone(d, i + 1)
  /\ copy' = [copy EXCEPT ![<<d, i>>] = "read"]
  /\ IF noRd[d][i + 1] THEN Reset(d, i + 1)
                       ELSE buf[d][i + 1] < Window /\ Put(d, i + 1) /\ UNCHANGED reset
  /\ UNCHANGED <<noWr, noRd, sent, taken, got>>

\* The Read fails or is at the end of the data, or the Write fails.
CopyOver(d, i) ==
  \/ /\ copy[<<d, i>>] = "read"
     /\ noRd[d][i] \/ (buf[d][i] = 0 /\ (noWr[d][i] \/ Gone(d, i)))
  \/ copy[<<d, i>>] = "write" /\ (noWr[d][i + 1] \/ Gone(d, i + 1))

\* Faulty variant: the goroutines leave the closing to the caller of relay.
CloseLater(d, i) == UNCHANGED <<buf, noWr, noRd, reset>>

\* Faulty variant: relay waits for one copy only, and its caller closes both.
CloseBoth(d, i) ==
  LET e == IF i = 2 THEN d ELSE Other(d) IN   \* the TCP connection is link 3 of e
    /\ noWr' = [noWr EXCEPT ![e][3] = TRUE, ![Other(e)][2] = TRUE]
    /\ noRd' = [noRd EXCEPT ![Other(e)][1] = TRUE]
    /\ IF buf[Other(e)][1] > 0 THEN Reset(e, 3) ELSE UNCHANGED <<buf, reset>>

\* The goroutine closes what the copy has written to: the stream or, in both
\* directions, the TCP connection.
CloseDestination(d, i) ==
  IF i = 1
  THEN noWr' = [noWr EXCEPT ![d][2] = TRUE] /\ UNCHANGED <<buf, noRd, reset>>
  ELSE CloseTCP(d, 3)

CopyEnds(d, i) ==
  /\ CopyOver(d, i)
  /\ CloseDestination(d, i)
  /\ copy' = [copy EXCEPT ![<<d, i>>] = "done"]
  /\ UNCHANGED <<sent, taken, got>>

-----------------------------------------------------------------------------
Relays == \E d \in Direction, i \in {1, 2} : CopyReads(d, i) \/ CopyWrites(d, i) \/ CopyEnds(d, i)

RelayNext ==
  \/ Relays
  \/ \E d \in Direction : Send(d) \/ Receive(d) \/ HalfClose(d) \/ HostCloses(d)
  \/ StreamLost

\* The goroutines run; nothing is assumed of the hosts and the network.
RelaySpec == RelayInit /\ [][RelayNext]_relayVars /\ WF_relayVars(Relays)

-----------------------------------------------------------------------------
\* The sink host sees a regular end of the data.
AtEnd(d) == ~Gone(d, 3) /\ noWr[d][3] /\ ~noRd[d][3] /\ buf[d][3] = 0

\* Nothing is lost between the two relays: unless the session was lost, a host
\* that sees the end of the data has received all that the relay at the other
\* side took in, also when either direction was closed before the other.
NothingLostInside ==
  \A d \in Direction : AtEnd(d) /\ "stream" \notin reset => got[d] = taken[d]

Returned == \A c \in Copy : copy[c] = "done"

\* A host that neither reads nor closes, and a copy that waits for it.
Stalled(d) == copy[<<d, 2>>] = "write" /\ buf[d][3] = Window /\ ~noRd[d][3]

\* One end is enough: once a host has closed or half-closed its connection, or
\* the session is lost, both relays return, and with them the stream's token.
\* Only a host that stops reading can keep them.
RelaysReturn ==
  []<>(\/ Returned
       \/ \E d \in Direction : Stalled(d)
       \/ "stream" \notin reset /\ \A d \in Direction : ~noWr[d][1])

=============================================================================

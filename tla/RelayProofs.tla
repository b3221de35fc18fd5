---------------------------- MODULE RelayProofs ----------------------------
(***************************************************************************)
(* Nothing is lost between the two relays, for every window and every      *)
(* amount of data.                                                         *)
(***************************************************************************)
EXTENDS Relay, TLAPS

Hand(d, i) == IF copy[<<d, i>>] = "write" THEN 1 ELSE 0

\* Neither the session nor the connection to the sink host is lost.
Intact(d) == "stream" \notin reset /\ ~Gone(d, 3) /\ ~noRd[d][3]

\* What the first relay took in and the sink has not got is under way, a link
\* is closed for writing only by the copy that writes it and when that is
\* done, and the second copy is done only after the first.
DirectionInv(d) ==
  /\ ~noRd[d][2]
  /\ noWr[d][2] => copy[<<d, 1>>] = "done"
  /\ noWr[d][3] => copy[<<d, 2>>] = "done"
  /\ Intact(d) =>
       /\ taken[d] = Hand(d, 1) + buf[d][2] + Hand(d, 2) + buf[d][3] + got[d]
       /\ copy[<<d, 2>>] = "done" => copy[<<d, 1>>] = "done" /\ buf[d][2] = 0

RelayInv == RelayTypeOK /\ \A d \in Direction : DirectionInv(d)

-----------------------------------------------------------------------------
(* A step leaves what is under way in direction e alone, unless it resets  *)
(* a link of it.                                                           *)

Kept(e) ==
  "stream" \notin reset' /\ Link(e, 3) \notin reset' =>
    buf'[e][2] = buf[e][2] /\ buf'[e][3] = buf[e][3]

Frame == buf' \in [Direction -> [1..3 -> 0..Window]]
         /\ reset' \in SUBSET {"user", "stream", "local"}
         /\ reset \subseteq reset'
         /\ \A e \in Direction : Kept(e)

\* The links of the two directions are the same three connections.
LEMMA Links ==
  ASSUME NEW d \in Direction
  PROVE  /\ Other(d) \in Direction /\ Other(Other(d)) = d /\ Other(d) # d
         /\ \A e \in Direction : e = d \/ e = Other(d)
         /\ \A k \in 1..3 : Link(d, k) \in {"user", "stream", "local"}
         /\ Link(d, 2) = "stream"
         /\ Link(Other(d), 3) = Link(d, 1) /\ Link(Other(d), 1) = Link(d, 3)
BY DEF Direction, Other, Link

\* Whatever a reset loses belongs to a direction that is not intact after it.
LEMMA ResetFrame ==
  ASSUME RelayTypeOK, NEW d \in Direction, NEW k \in 1..3, Reset(d, k)
  PROVE  Frame
<1>1. PICK m \in 0..buf[d][k], n \in 0..buf[Other(d)][4 - k] :
        buf' = [buf EXCEPT ![d][k] = m, ![Other(d)][4 - k] = n]
  BY Zenon DEF Reset
<1>2. reset' = reset \cup {Link(d, k)}
  BY DEF Reset
<1>3. /\ Window \in Nat /\ buf \in [Direction -> [1..3 -> 0..Window]]
      /\ reset \in SUBSET {"user", "stream", "local"} /\ 4 - k \in 1..3
  BY RelayAssumption DEF RelayTypeOK
<1>4. m \in 0..Window /\ n \in 0..Window
  BY <1>1, <1>3, Links
<1>5. buf' \in [Direction -> [1..3 -> 0..Window]]
  <2>1. buf'[d] = [buf[d] EXCEPT ![k] = m] /\ buf'[Other(d)] = [buf[Other(d)] EXCEPT ![4 - k] = n]
    BY <1>1, <1>3, Links, Zenon
  <2>2. buf'[d] \in [1..3 -> 0..Window] /\ buf'[Other(d)] \in [1..3 -> 0..Window]
    BY <1>3, <1>4, <2>1, Links
  <2>3. DOMAIN buf' = Direction /\ buf' = [e \in Direction |-> buf'[e]]
    BY <1>1, <1>3, Zenon
  <2>4. \A e \in Direction : buf'[e] \in [1..3 -> 0..Window]
    BY <2>2, Links
  <2> QED
    BY <2>3, <2>4
<1>6. Kept(d) /\ Kept(Other(d))
  <2>1. CASE k = 1
    BY <1>1, <1>2, <1>3, <2>1, Links DEF Kept
  <2>2. CASE k = 2
    BY <1>2, <2>2, Links DEF Kept
  <2>3. CASE k = 3
    BY <1>1, <1>2, <1>3, <2>3, Links DEF Kept
  <2> QED
    BY <2>1, <2>2, <2>3
<1>7. \A e \in Direction : Kept(e)
  BY <1>6, Links DEF Kept
<1>8. reset' \in SUBSET {"user", "stream", "local"} /\ reset \subseteq reset'
  <2>1. Link(d, k) \in {"user", "stream", "local"}
    BY Links
  <2> QED
    BY <1>2, <1>3, <2>1, Zenon
<1> QED
  BY <1>5, <1>7, <1>8 DEF Frame

\* So does closing a TCP connection with unread data.
LEMMA CloseFrame ==
  ASSUME RelayTypeOK, NEW d \in Direction, NEW k \in {1, 3}, CloseTCP(d, k)
  PROVE  Frame
<1>1. CASE Reset(d, k)
  BY <1>1, ResetFrame
<1>2. CASE UNCHANGED <<buf, reset>>
  BY <1>2 DEF Frame, Kept, RelayTypeOK
<1> QED
  BY <1>1, <1>2 DEF CloseTCP

\* A step that leaves a direction alone but for resets keeps its invariant.
LEMMA QuietDirection ==
  ASSUME NEW e \in Direction, DirectionInv(e), Frame,
         copy'[<<e, 1>>] = copy[<<e, 1>>], copy'[<<e, 2>>] = copy[<<e, 2>>],
         taken'[e] = taken[e], got'[e] = got[e],
         noWr'[e][2] = noWr[e][2], noWr'[e][3] = noWr[e][3],
         noRd'[e][2] = noRd[e][2], noRd[e][3] => noRd'[e][3]
  PROVE  DirectionInv(e)'
<1>1. Kept(e) /\ reset \subseteq reset'
  BY DEF Frame
<1>2. Hand(e, 1)' = Hand(e, 1) /\ Hand(e, 2)' = Hand(e, 2)
  BY DEF Hand
<1>3. Intact(e)' => Intact(e) /\ buf'[e][2] = buf[e][2] /\ buf'[e][3] = buf[e][3]
  BY <1>1 DEF Intact, Gone, Kept
<1> QED
  BY <1>2, <1>3 DEF DirectionInv

\* Steps outside the relays.
LEMMA OutsideStep ==
  ASSUME RelayInv, RelayTypeOK', Frame, UNCHANGED <<copy, taken, got>>,
         \A e \in Direction :
           /\ noWr'[e][2] = noWr[e][2] /\ noWr'[e][3] = noWr[e][3]
           /\ noRd'[e][2] = noRd[e][2] /\ (noRd[e][3] => noRd'[e][3])
  PROVE  RelayInv'
BY QuietDirection DEF RelayInv

-----------------------------------------------------------------------------
(* One lemma per action, or for several that are alike.                    *)

\* A chunk put on a link that has room, or taken from one that has some.
LEMMA BufType ==
  ASSUME RelayTypeOK, NEW d \in Direction, NEW k \in 1..3
  PROVE  /\ Put(d, k) /\ buf[d][k] < Window => buf' \in [Direction -> [1..3 -> 0..Window]]
         /\ Take(d, k) /\ buf[d][k] > 0 => buf' \in [Direction -> [1..3 -> 0..Window]]
<1>1. Window \in Nat /\ buf \in [Direction -> [1..3 -> 0..Window]] /\ buf[d][k] \in 0..Window
  BY RelayAssumption DEF RelayTypeOK
<1>2. ASSUME NEW n \in 0..Window
      PROVE  [buf EXCEPT ![d][k] = n] \in [Direction -> [1..3 -> 0..Window]]
  BY <1>1
<1>3. buf[d][k] < Window => buf[d][k] + 1 \in 0..Window
  BY <1>1
<1>4. buf[d][k] > 0 => buf[d][k] - 1 \in 0..Window
  BY <1>1
<1> QED
  BY <1>2, <1>3, <1>4, Zenon DEF Put, Take

\* The hosts send, half-close and close; the stream is lost.
LEMMA HostStep ==
  ASSUME RelayInv, NEW d \in Direction, Send(d) \/ HalfClose(d) \/ HostCloses(d) \/ StreamLost
  PROVE  RelayInv'
<1>1. RelayTypeOK
  BY DEF RelayInv
<1>2. CASE Send(d)
  <2>1. Frame
    <3>1. CASE Reset(d, 1)
      BY <1>1, <3>1, ResetFrame
    <3>2. CASE buf[d][1] < Window /\ Put(d, 1) /\ UNCHANGED reset
      <4>1. buf' \in [Direction -> [1..3 -> 0..Window]]
        BY <1>1, <3>2, BufType
      <4>2. \A e \in Direction : Kept(e)
        BY <1>1, <3>2 DEF Put, Kept, RelayTypeOK
      <4> QED
        BY <1>1, <3>2, <4>1, <4>2 DEF Frame, RelayTypeOK
    <3> QED
      BY <1>2, <3>1, <3>2 DEF Send
  <2>2. sent' \in [Direction -> Nat]
    BY <1>1, <1>2 DEF Send, RelayTypeOK
  <2>3. UNCHANGED <<noWr, noRd, copy, taken, got>>
    BY <1>2 DEF Send
  <2>4. RelayTypeOK'
    BY <1>1, <2>1, <2>2, <2>3 DEF RelayTypeOK, Frame
  <2> QED
    BY <2>1, <2>3, <2>4, OutsideStep
<1>3. CASE HalfClose(d)
  <2>1. Frame
    BY <1>1, <1>3 DEF Frame, Kept, HalfClose, RelayTypeOK
  <2>2. RelayTypeOK'
    BY <1>1, <1>3 DEF HalfClose, RelayTypeOK
  <2>3. \A e \in Direction : noWr'[e][2] = noWr[e][2] /\ noWr'[e][3] = noWr[e][3]
    BY <1>1, <1>3 DEF HalfClose, RelayTypeOK
  <2> QED
    BY <1>3, <2>1, <2>2, <2>3, OutsideStep DEF HalfClose
<1>4. CASE HostCloses(d)
  <2>1. CloseTCP(d, 1) /\ UNCHANGED <<copy, sent, taken, got>>
    BY <1>4 DEF HostCloses
  <2>2. Frame
    BY <1>1, <2>1, CloseFrame
  <2>3. noWr' = [noWr EXCEPT ![d][1] = TRUE] /\ noRd' = [noRd EXCEPT ![Other(d)][3] = TRUE]
    BY <2>1 DEF CloseTCP
  <2>4. RelayTypeOK'
    BY <1>1, <2>1, <2>2, <2>3, Links DEF RelayTypeOK, Frame
  <2>5. \A e \in Direction :
          /\ noWr'[e][2] = noWr[e][2] /\ noWr'[e][3] = noWr[e][3]
          /\ noRd'[e][2] = noRd[e][2] /\ (noRd[e][3] => noRd'[e][3])
    BY <1>1, <2>3, Links DEF RelayTypeOK
  <2> QED
    BY <2>1, <2>2, <2>4, <2>5, OutsideStep
<1>5. CASE StreamLost
  <2>1. Reset("up", 2) /\ UNCHANGED <<noWr, noRd, copy, sent, taken, got>>
    BY <1>5 DEF StreamLost
  <2>2. Frame
    BY <1>1, <2>1, ResetFrame DEF Direction
  <2>3. RelayTypeOK'
    BY <1>1, <2>1, <2>2 DEF RelayTypeOK, Frame
  <2> QED
    BY <2>1, <2>2, <2>3, OutsideStep
<1> QED
  BY <1>2, <1>3, <1>4, <1>5

\* The sink host takes a chunk.
LEMMA ReceiveStep ==
  ASSUME RelayInv, NEW d \in Direction, Receive(d)
  PROVE  RelayInv'
<1>1. RelayTypeOK /\ DirectionInv(d) /\ DirectionInv(Other(d)) /\ Window \in Nat
  BY Links, RelayAssumption DEF RelayInv
<1>2. buf' = [buf EXCEPT ![d][3] = @ - 1] /\ got' = [got EXCEPT ![d] = @ + 1] /\ buf[d][3] > 0
  BY DEF Receive, Take
<1>3. UNCHANGED <<noWr, noRd, reset, copy, sent, taken>>
  BY DEF Receive
<1>4. buf' \in [Direction -> [1..3 -> 0..Window]]
  BY <1>1, BufType DEF Receive
<1>5. RelayTypeOK'
  BY <1>1, <1>2, <1>3, <1>4 DEF RelayTypeOK
<1>6. DirectionInv(Other(d))'
  <2>1. buf'[Other(d)] = buf[Other(d)] /\ got'[Other(d)] = got[Other(d)]
    BY <1>1, <1>2, Links DEF RelayTypeOK
  <2> QED
    BY <1>1, <1>3, <2>1 DEF DirectionInv, Intact, Gone, Hand
<1>7. DirectionInv(d)'
  <2>1. buf'[d][2] = buf[d][2] /\ buf'[d][3] = buf[d][3] - 1 /\ got'[d] = got[d] + 1
    BY <1>1, <1>2 DEF RelayTypeOK
  <2>2. Hand(d, 1)' = Hand(d, 1) /\ Hand(d, 2)' = Hand(d, 2) /\ (Intact(d)' <=> Intact(d))
    BY <1>3 DEF Hand, Intact, Gone
  <2>3. /\ buf[d][2] \in Nat /\ buf[d][3] \in Nat /\ got[d] \in Nat
        /\ Hand(d, 1) \in Nat /\ Hand(d, 2) \in Nat
    BY <1>1 DEF RelayTypeOK, Hand
  <2> QED
    BY <1>1, <1>3, <2>1, <2>2, <2>3 DEF DirectionInv
<1> QED
  BY <1>5, <1>6, <1>7, Links DEF RelayInv

\* Only the copy that takes the step is elsewhere after it.
LEMMA CopyMoves ==
  ASSUME RelayTypeOK, NEW d \in Direction, NEW i \in {1, 2}, NEW v \in {"read", "write", "done"},
         copy' = [copy EXCEPT ![<<d, i>>] = v]
  PROVE  /\ copy' \in [Copy -> {"read", "write", "done"}]
         /\ copy'[<<d, i>>] = v
         /\ copy'[<<d, 3 - i>>] = copy[<<d, 3 - i>>]
         /\ copy'[<<Other(d), 1>>] = copy[<<Other(d), 1>>]
         /\ copy'[<<Other(d), 2>>] = copy[<<Other(d), 2>>]
<1>1. /\ <<d, i>> \in Copy /\ <<d, 3 - i>> \in Copy
      /\ <<Other(d), 1>> \in Copy /\ <<Other(d), 2>> \in Copy
  BY Links DEF Copy
<1>2. <<d, 3 - i>> # <<d, i>> /\ <<Other(d), 1>> # <<d, i>> /\ <<Other(d), 2>> # <<d, i>>
  BY Links
<1>3. copy \in [Copy -> {"read", "write", "done"}]
  BY DEF RelayTypeOK
<1> QED
  BY <1>1, <1>2, <1>3

\* The amounts of a direction are natural numbers.
LEMMA Amounts ==
  ASSUME RelayTypeOK, NEW d \in Direction
  PROVE  /\ buf[d][1] \in Nat /\ buf[d][2] \in Nat /\ buf[d][3] \in Nat
         /\ taken[d] \in Nat /\ got[d] \in Nat
         /\ Hand(d, 1) \in Nat /\ Hand(d, 2) \in Nat
BY RelayAssumption DEF RelayTypeOK, Hand

\* io.Copy reads a chunk: it is in hand instead of on the link.
LEMMA CopyReadsStep ==
  ASSUME RelayInv, NEW d \in Direction, NEW i \in {1, 2}, CopyReads(d, i)
  PROVE  RelayInv'
<1>1. RelayTypeOK /\ DirectionInv(d) /\ DirectionInv(Other(d))
  BY Links DEF RelayInv
<1>2. /\ buf' = [buf EXCEPT ![d][i] = @ - 1] /\ buf[d][i] > 0
      /\ copy[<<d, i>>] = "read" /\ copy' = [copy EXCEPT ![<<d, i>>] = "write"]
      /\ taken' = IF i = 1 THEN [taken EXCEPT ![d] = @ + 1] ELSE taken
      /\ UNCHANGED <<noWr, noRd, reset, sent, got>>
  BY DEF CopyReads, Take
<1>3. buf' \in [Direction -> [1..3 -> 0..Window]]
  BY <1>1, BufType DEF CopyReads
<1>4. /\ copy' \in [Copy -> {"read", "write", "done"}]
      /\ copy'[<<d, i>>] = "write" /\ copy'[<<d, 3 - i>>] = copy[<<d, 3 - i>>]
      /\ copy'[<<Other(d), 1>>] = copy[<<Other(d), 1>>]
      /\ copy'[<<Other(d), 2>>] = copy[<<Other(d), 2>>]
  BY <1>1, <1>2, CopyMoves, Zenon
<1>5. RelayTypeOK'
  BY <1>1, <1>2, <1>3, <1>4 DEF RelayTypeOK
<1>6. buf'[Other(d)] = buf[Other(d)] /\ taken'[Other(d)] = taken[Other(d)]
  BY <1>1, <1>2, Links DEF RelayTypeOK
<1>7. DirectionInv(Other(d))'
  BY <1>1, <1>2, <1>4, <1>6 DEF DirectionInv, Intact, Gone, Hand
<1>8. Intact(d)' <=> Intact(d)
  BY <1>2 DEF Intact, Gone
<1>9. DirectionInv(d)'
  <2>1. CASE i = 1
    <3>1. /\ buf'[d][2] = buf[d][2] /\ buf'[d][3] = buf[d][3] /\ taken'[d] = taken[d] + 1
      BY <1>1, <1>2, <2>1 DEF RelayTypeOK
    <3>2. Hand(d, 1)' = 1 /\ Hand(d, 1) = 0 /\ Hand(d, 2)' = Hand(d, 2)
      BY <1>2, <1>4, <2>1 DEF Hand
    <3> QED
      BY <1>1, <1>2, <1>4, <1>8, <2>1, <3>1, <3>2, Amounts DEF DirectionInv
  <2>2. CASE i = 2
    <3>1. /\ buf'[d][2] = buf[d][2] - 1 /\ buf'[d][3] = buf[d][3] /\ taken'[d] = taken[d]
      BY <1>1, <1>2, <2>2 DEF RelayTypeOK
    <3>2. Hand(d, 2)' = 1 /\ Hand(d, 2) = 0 /\ Hand(d, 1)' = Hand(d, 1)
      BY <1>2, <1>4, <2>2 DEF Hand
    <3> QED
      BY <1>1, <1>2, <1>4, <1>8, <2>2, <3>1, <3>2, Amounts DEF DirectionInv
  <2> QED
    BY <2>1, <2>2
<1> QED
  BY <1>5, <1>7, <1>9, Links DEF RelayInv

\* io.Copy writes a chunk, or a closed reader answers with a reset.
LEMMA CopyWritesStep ==
  ASSUME RelayInv, NEW d \in Direction, NEW i \in {1, 2}, CopyWrites(d, i)
  PROVE  RelayInv'
<1>1. RelayTypeOK /\ DirectionInv(d) /\ DirectionInv(Other(d)) /\ i + 1 \in 1..3
  BY Links DEF RelayInv
<1>2. /\ copy[<<d, i>>] = "write" /\ copy' = [copy EXCEPT ![<<d, i>>] = "read"]
      /\ UNCHANGED <<noWr, noRd, sent, taken, got>>
      /\ ~noWr[d][i + 1] /\ ~Gone(d, i + 1)
  BY DEF CopyWrites
<1>3. /\ copy' \in [Copy -> {"read", "write", "done"}]
      /\ copy'[<<d, i>>] = "read" /\ copy'[<<d, 3 - i>>] = copy[<<d, 3 - i>>]
      /\ copy'[<<Other(d), 1>>] = copy[<<Other(d), 1>>]
      /\ copy'[<<Other(d), 2>>] = copy[<<Other(d), 2>>]
  BY <1>1, <1>2, CopyMoves, Zenon
<1>4. CASE noRd[d][i + 1]
  <2>1. Reset(d, i + 1) /\ i = 2
    BY <1>1, <1>4 DEF CopyWrites, DirectionInv
  <2>2. Frame
    BY <1>1, <2>1, ResetFrame
  <2>3. RelayTypeOK'
    BY <1>1, <1>2, <1>3, <2>2 DEF RelayTypeOK, Frame
  <2>4. DirectionInv(Other(d))'
    BY <1>1, <1>2, <1>3, <2>2, Links, QuietDirection
  <2>5. ~Intact(d)'
    BY <1>2, <1>4, <2>1 DEF Intact
  <2>6. DirectionInv(d)'
    BY <1>1, <1>2, <1>3, <2>1, <2>5 DEF DirectionInv
  <2> QED
    BY <2>3, <2>4, <2>6, Links DEF RelayInv
<1>5. CASE ~noRd[d][i + 1]
  <2>1. buf' = [buf EXCEPT ![d][i + 1] = @ + 1] /\ UNCHANGED reset
    BY <1>5 DEF CopyWrites, Put
  <2>2. buf' \in [Direction -> [1..3 -> 0..Window]]
    BY <1>1, <1>5, BufType DEF CopyWrites
  <2>3. RelayTypeOK'
    BY <1>1, <1>2, <1>3, <2>1, <2>2 DEF RelayTypeOK
  <2>4. buf'[Other(d)] = buf[Other(d)]
    BY <1>1, <2>1, Links DEF RelayTypeOK
  <2>5. DirectionInv(Other(d))'
    BY <1>1, <1>2, <1>3, <2>1, <2>4 DEF DirectionInv, Intact, Gone, Hand
  <2>6. Intact(d)' <=> Intact(d)
    BY <1>2, <2>1 DEF Intact, Gone
  <2>7. DirectionInv(d)'
    <3>1. CASE i = 1
      <4>1. buf'[d][2] = buf[d][2] + 1 /\ buf'[d][3] = buf[d][3]
        BY <1>1, <2>1, <3>1 DEF RelayTypeOK
      <4>2. Hand(d, 1)' = 0 /\ Hand(d, 1) = 1 /\ Hand(d, 2)' = Hand(d, 2)
        BY <1>2, <1>3, <3>1 DEF Hand
      <4> QED
        BY <1>1, <1>2, <1>3, <2>6, <3>1, <4>1, <4>2, Amounts DEF DirectionInv
    <3>2. CASE i = 2
      <4>1. buf'[d][2] = buf[d][2] /\ buf'[d][3] = buf[d][3] + 1
        BY <1>1, <2>1, <3>2 DEF RelayTypeOK
      <4>2. Hand(d, 2)' = 0 /\ Hand(d, 2) = 1 /\ Hand(d, 1)' = Hand(d, 1)
        BY <1>2, <1>3, <3>2 DEF Hand
      <4> QED
        BY <1>1, <1>2, <1>3, <2>6, <3>2, <4>1, <4>2, Amounts DEF DirectionInv
    <3> QED
      BY <3>1, <3>2
  <2> QED
    BY <2>3, <2>5, <2>7, Links DEF RelayInv
<1> QED
  BY <1>4, <1>5

\* A copy ends with nothing in hand, and the second one with nothing left on
\* the stream, unless a link is gone; then it closes its destination.
LEMMA CopyEndsStep ==
  ASSUME RelayInv, NEW d \in Direction, NEW i \in {1, 2}, CopyEnds(d, i)
  PROVE  RelayInv'
<1>1. RelayTypeOK /\ DirectionInv(d) /\ DirectionInv(Other(d))
  BY Links DEF RelayInv
<1>2. /\ copy' = [copy EXCEPT ![<<d, i>>] = "done"]
      /\ CopyOver(d, i) /\ CloseDestination(d, i)
      /\ UNCHANGED <<sent, taken, got>>
  BY DEF CopyEnds
<1>3. /\ copy' \in [Copy -> {"read", "write", "done"}]
      /\ copy'[<<d, i>>] = "done" /\ copy'[<<d, 3 - i>>] = copy[<<d, 3 - i>>]
      /\ copy'[<<Other(d), 1>>] = copy[<<Other(d), 1>>]
      /\ copy'[<<Other(d), 2>>] = copy[<<Other(d), 2>>]
  BY <1>1, <1>2, CopyMoves, Zenon
<1>4. CASE i = 1
  <2>1. noWr' = [noWr EXCEPT ![d][2] = TRUE] /\ UNCHANGED <<buf, noRd, reset>>
    BY <1>2, <1>4 DEF CloseDestination
  <2>2. RelayTypeOK'
    BY <1>1, <1>2, <1>3, <2>1 DEF RelayTypeOK
  <2>3. Frame
    BY <1>1, <2>1 DEF Frame, Kept, RelayTypeOK
  <2>4. noWr'[Other(d)] = noWr[Other(d)] /\ noWr'[d][3] = noWr[d][3]
    BY <1>1, <2>1, Links DEF RelayTypeOK
  <2>5. DirectionInv(Other(d))'
    BY <1>1, <1>2, <1>3, <2>1, <2>3, <2>4, Links, QuietDirection, Zenon
  <2>6. Intact(d)' => Intact(d) /\ Hand(d, 1) = 0
    BY <1>1, <1>2, <1>4, <2>1, Links DEF Intact, Gone, CopyOver, Hand, DirectionInv
  <2>7. Hand(d, 1)' = 0 /\ Hand(d, 2)' = Hand(d, 2)
    BY <1>3, <1>4 DEF Hand
  <2>8. DirectionInv(d)'
    BY <1>1, <1>2, <1>3, <1>4, <2>1, <2>4, <2>6, <2>7 DEF DirectionInv
  <2> QED
    BY <2>2, <2>5, <2>8, Links DEF RelayInv
<1>5. CASE i = 2
  <2>1. CloseTCP(d, 3)
    BY <1>2, <1>5 DEF CloseDestination
  <2>2. noWr' = [noWr EXCEPT ![d][3] = TRUE] /\ noRd' = [noRd EXCEPT ![Other(d)][1] = TRUE]
    BY <2>1 DEF CloseTCP
  <2>3. Frame
    BY <1>1, <2>1, CloseFrame
  <2>4. RelayTypeOK'
    BY <1>1, <1>2, <1>3, <2>2, <2>3, Links, Zenon DEF RelayTypeOK, Frame
  <2>5. /\ noWr'[Other(d)] = noWr[Other(d)] /\ noWr'[d][2] = noWr[d][2]
        /\ noRd'[Other(d)][2] = noRd[Other(d)][2] /\ noRd'[Other(d)][3] = noRd[Other(d)][3]
        /\ noRd'[d] = noRd[d]
    BY <1>1, <2>2, Links DEF RelayTypeOK
  <2>6. DirectionInv(Other(d))'
    BY <1>1, <1>2, <1>3, <2>3, <2>5, Links, QuietDirection
  <2>7. Intact(d)' => Intact(d) /\ buf'[d][2] = buf[d][2] /\ buf'[d][3] = buf[d][3]
    BY <2>3, <2>5, Zenon DEF Intact, Gone, Kept, Frame
  <2>8. Intact(d) => Hand(d, 2) = 0 /\ buf[d][2] = 0 /\ copy[<<d, 1>>] = "done"
    BY <1>1, <1>2, <1>5, Links DEF Intact, Gone, CopyOver, Hand, DirectionInv
  <2>9. Hand(d, 2)' = 0 /\ Hand(d, 1)' = Hand(d, 1)
    BY <1>3, <1>5 DEF Hand
  <2>10. DirectionInv(d)'
    BY <1>1, <1>2, <1>3, <1>5, <2>5, <2>7, <2>8, <2>9 DEF DirectionInv
  <2> QED
    BY <2>4, <2>6, <2>10, Links DEF RelayInv
<1> QED
  BY <1>4, <1>5

-----------------------------------------------------------------------------
\* The inductive invariant holds throughout.
THEOREM RelayInvariance == RelaySpec => []RelayInv
<1>1. RelayInit => RelayInv
  <2> SUFFICES ASSUME RelayInit PROVE RelayInv
    OBVIOUS
  <2>1. RelayTypeOK
    BY RelayAssumption DEF RelayInit, RelayTypeOK
  <2>2. ASSUME NEW d \in Direction PROVE DirectionInv(d)
    BY DEF RelayInit, DirectionInv, Hand, Copy
  <2> QED
    BY <2>1, <2>2 DEF RelayInv
<1>2. RelayInv /\ [RelayNext]_relayVars => RelayInv'
  <2> SUFFICES ASSUME RelayInv, [RelayNext]_relayVars PROVE RelayInv'
    OBVIOUS
  <2>1. CASE Relays
    BY <2>1, CopyReadsStep, CopyWritesStep, CopyEndsStep DEF Relays
  <2>2. CASE \E d \in Direction : Send(d) \/ Receive(d) \/ HalfClose(d) \/ HostCloses(d)
    BY <2>2, HostStep, ReceiveStep
  <2>3. CASE StreamLost
    BY <2>3, HostStep DEF Direction
  <2>4. CASE UNCHANGED relayVars
    BY <2>4 DEF relayVars, RelayInv, RelayTypeOK, DirectionInv, Intact, Gone, Hand
  <2> QED
    BY <2>1, <2>2, <2>3, <2>4 DEF RelayNext
<1> QED
  BY <1>1, <1>2, PTL DEF RelaySpec

\* For every window and amount of data: a host that sees the regular end of the
\* data has received all that the relay at the other end took in, as long as
\* the session was not lost.
THEOREM NothingIsLostInside == RelaySpec => []NothingLostInside
<1>1. RelayInv => NothingLostInside
  <2> SUFFICES ASSUME RelayInv, NEW d \in Direction, AtEnd(d), "stream" \notin reset
               PROVE  got[d] = taken[d]
    BY DEF NothingLostInside
  <2>1. RelayTypeOK /\ DirectionInv(d)
    BY DEF RelayInv
  <2>2. Intact(d) /\ copy[<<d, 2>>] = "done" /\ buf[d][3] = 0
    BY <2>1 DEF AtEnd, Intact, DirectionInv
  <2>3. copy[<<d, 1>>] = "done" /\ buf[d][2] = 0
    BY <2>1, <2>2 DEF DirectionInv
  <2>4. taken[d] = Hand(d, 1) + buf[d][2] + Hand(d, 2) + buf[d][3] + got[d]
    BY <2>1, <2>2 DEF DirectionInv
  <2> QED
    BY <2>1, <2>2, <2>3, <2>4, Amounts DEF Hand
<1> QED
  BY <1>1, RelayInvariance, PTL

=============================================================================

------------------------------ MODULE Framing ------------------------------
(***************************************************************************)
(* WriteMessage and ReadMessage at the two ends of a byte stream that      *)
(* delivers in pieces of any size.  A message is its JSON encoding, a      *)
(* sequence of bytes; a header has two digits to the base Base, as the     *)
(* four bytes of the code have base 256.  What follows the last message of *)
(* a handshake on the same connection belongs to yamux, so a reader must   *)
(* take no byte more than its frame.                                       *)
(***************************************************************************)
EXTENDS Bytes

CONSTANTS
  Base,            \* values of a byte
  MaxMessageSize,
  Messages,        \* what may be sent
  MaxSent          \* bound on the number of messages

Byte == 0 .. Base - 1

\* Every length up to the limit fits in a header.
ASSUME FramingAssumption ==
  /\ Base \in Nat \ {0} /\ MaxMessageSize \in Nat /\ MaxMessageSize < Base * Base
  /\ Messages \subseteq Seq(Byte)

VARIABLES
  written,  \* messages WriteMessage accepted
  out,      \* bytes of the current WriteMessage not yet on the wire
  wire,     \* bytes on the wire
  got,      \* bytes the current io.ReadFull has read
  body,     \* ReadMessage is reading a body of this length, or -1 for a header
  read,     \* messages ReadMessage returned
  closed,   \* the writer has closed, after an error or a deadline
  failed    \* ReadMessage returned an error

framingVars == <<written, out, wire, got, body, read, closed, failed>>

\* binary.BigEndian
PutUint32(n) == <<n \div Base, n % Base>>
Uint32(hdr) == hdr[1] * Base + hdr[2]

Frame(m) == PutUint32(Len(m)) \o m
Frames(ms) == Concat([i \in DOMAIN ms |-> Frame(ms[i])])

FramingInit ==
  /\ written = <<>> /\ out = <<>> /\ wire = <<>> /\ read = <<>>
  /\ got = <<>> /\ body = -1
  /\ closed = FALSE /\ failed = FALSE

-----------------------------------------------------------------------------
\* The caller gives up the connection if a message is too large.
WriteMessage(m) ==
  /\ ~closed /\ out = <<>> /\ Len(written) < MaxSent
  /\ IF Len(m) > MaxMessageSize
     THEN closed' = TRUE /\ UNCHANGED <<written, out>>
     ELSE /\ written' = Append(written, m)
          /\ out' = Frame(m)
          /\ UNCHANGED closed
  /\ UNCHANGED <<wire, got, body, read, failed>>

\* The next n bytes of w.Write(hdr) and w.Write(body) are sent.
Transmit(n) ==
  /\ ~closed
  /\ wire' = wire \o SubSeq(out, 1, n)
  /\ out' = SubSeq(out, n + 1, Len(out))
  /\ UNCHANGED <<written, got, body, read, closed, failed>>

\* A deadline or an error in the middle of a frame, or simply the end.
Close ==
  /\ ~closed
  /\ closed' = TRUE
  /\ UNCHANGED <<written, out, wire, got, body, read, failed>>

-----------------------------------------------------------------------------
Wanted == IF body = -1 THEN 2 ELSE body

\* Read returns n bytes, and no more than io.ReadFull asks for.
Read(n) ==
  /\ ~failed /\ n <= Wanted - Len(got)
  /\ got' = got \o SubSeq(wire, 1, n)
  /\ wire' = SubSeq(wire, n + 1, Len(wire))
  /\ UNCHANGED <<written, out, body, read, closed, failed>>

\* Faulty variant: one Read instead of io.ReadFull.
ReadSome == got # <<>>

ReadFull == Len(got) = Wanted

\* Faulty variant: the limit itself is refused.
TooLargeAtLimit(n) == n >= MaxMessageSize

TooLarge(n) == n > MaxMessageSize

\* hdr is zero where nothing was read.
ReadHeader ==
  /\ ~failed /\ body = -1 /\ ReadFull
  /\ LET n == Uint32(got \o <<0>>) IN
       IF TooLarge(n) THEN failed' = TRUE /\ UNCHANGED body
                      ELSE body' = n /\ UNCHANGED failed
  /\ got' = <<>>
  /\ UNCHANGED <<written, out, wire, read, closed>>

\* json.Unmarshal(body); the encodings of Messages are valid.
ReadBody ==
  /\ ~failed /\ body # -1 /\ ReadFull
  /\ read' = Append(read, got)
  /\ got' = <<>> /\ body' = -1
  /\ UNCHANGED <<written, out, wire, closed, failed>>

\* The stream ends before ReadFull has what it wants.
ReadEOF ==
  /\ ~failed /\ closed /\ wire = <<>> /\ ~ReadFull
  /\ failed' = TRUE
  /\ UNCHANGED <<written, out, wire, got, body, read, closed>>

Progress ==
  \/ \E n \in 1..Len(out) : Transmit(n)
  \/ \E n \in 1..Len(wire) : Read(n)
  \/ ReadHeader \/ ReadBody \/ ReadEOF

FramingNext == Progress \/ Close \/ \E m \in Messages : WriteMessage(m)

FramingSpec == FramingInit /\ [][FramingNext]_framingVars /\ WF_framingVars(Progress)

-----------------------------------------------------------------------------
\* Reader and writer never lose step, however the bytes are cut up: what has
\* been returned, what is being read and what is under way make up exactly the
\* frames written, so that no byte after a frame is consumed with it.
InStep ==
  ~failed =>
    Frames(read) \o (IF body = -1 THEN <<>> ELSE PutUint32(body)) \o got \o wire \o out
      = Frames(written)

\* The two ends agree on the limit, at its edge too: a message that
\* WriteMessage accepted is returned by ReadMessage unless the writer closes.
AcceptedArrives == []<>(closed \/ read = written)

=============================================================================

-------------------------- MODULE MCHandshakeBytes --------------------------
(***************************************************************************)
(* The bytes of a handshake: how its messages are framed, and what the     *)
(* signatures in them cover.  The two are explored side by side.           *)
(***************************************************************************)
EXTENDS Framing, AuthInputs

\* The shortest message, the longest and one byte more; with bytes that could
\* be taken for headers.
EdgeMessages == {<<0>>, <<1, 2, 0>>, <<0, 1, 2, 1>>, <<1, 1, 1, 1, 1>>}

Strings == {<<0>>, <<1>>, <<0, 1>>, <<1, 1>>, <<2, 1>>}
NameLists == {<<x>> : x \in Strings} \cup {<<x, y>> : x \in Strings, y \in Strings}

MakeInput(n, e, i, t, r) == [nonce |-> <<n>>, exporter |-> <<e>>, id |-> i, time |-> t, requested |-> r]

\* Requests over strings of one and two bytes, which may look like lengths, and
\* one with every time an int64 can hold.
Requests ==
  {MakeInput(n, 0, i, t, r) : n \in {0, 1}, i \in Strings, t \in {-1, 1}, r \in NameLists}
AllTimes == {MakeInput(0, 0, <<0>>, t, <<<<0>>>>) : t \in -(MaxInt + 1) .. MaxInt}

RequestsAndTimes == Requests \cup AllTimes

Clocks == {0, 1, 7, 10} \X (0 .. Second - 1)

BytesInit == FramingInit /\ InputInit

BytesNext ==
  \/ auth = None /\ FramingNext /\ UNCHANGED inputVars
  \/ FramingInit /\ InputNext /\ UNCHANGED framingVars

BytesSpec ==
  /\ BytesInit
  /\ [][BytesNext]_<<framingVars, inputVars>>
  /\ WF_<<framingVars, inputVars>>(auth = None /\ Progress /\ UNCHANGED inputVars)

=============================================================================

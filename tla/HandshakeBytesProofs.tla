------------------------ MODULE HandshakeBytesProofs ------------------------
(***************************************************************************)
(* Reader and writer stay in step for every message and every way to cut   *)
(* up the bytes; the signed bytes determine the request; CheckClockSkew is *)
(* exact.  What Concat makes of sequences of any length is proved by   *)
(* induction, which rests on < being well-founded.                         *)
(***************************************************************************)
EXTENDS Framing, AuthInputs, SequenceTheorems, WellFoundedInduction, TLAPS

-----------------------------------------------------------------------------
(* Induction.                                                              *)

\* Every set of natural numbers has a least one.
LEMMA LeastNumber ==
  ASSUME NEW T, T \subseteq Nat, T # {}
  PROVE  \E m \in T : \A k \in T : m <= k
<1> DEFINE R == OpToRel(<, Nat)
<1>1. IsWellFoundedOn(R, Nat)
  BY NatLessThanWellFounded, Zenon
<1>2. \A k, m \in Nat : k < m => <<k, m>> \in R
  BY DEF OpToRel
<1> HIDE DEF R
<1>3. PICK m \in T : \A k \in T : ~(<<k, m>> \in R)
  BY <1>1, WFMin, Zenon
<1>4. \A k \in T : ~(k < m)
  BY <1>2, <1>3, Zenon
<1> QED
  BY <1>4

\* A set with zero and every successor has all natural numbers.
LEMMA Induction ==
  ASSUME NEW S, 0 \in S, \A n \in Nat : n \in S => n + 1 \in S
  PROVE  Nat \subseteq S
<1> DEFINE T == Nat \ S
<1> SUFFICES ASSUME T # {} PROVE FALSE
  OBVIOUS
<1>1. PICK m \in T : \A k \in T : m <= k
  BY LeastNumber, Zenon
<1>2. m # 0
  OBVIOUS
<1>3. m - 1 \in Nat /\ m - 1 \in S
  BY <1>1, <1>2
<1> QED
  BY <1>1, <1>3

-----------------------------------------------------------------------------
(* Concat.                                                                 *)

\* The concatenations of the first sequences of w, up to each of them.
IsFlat(f, w, n) == f = [i \in 0 .. n |-> IF i = 0 THEN <<>> ELSE f[i - 1] \o w[i]]

\* There are such concatenations.
LEMMA FlatExists ==
  ASSUME NEW w, NEW n \in Nat
  PROVE  \E f : IsFlat(f, w, n)
<1> DEFINE S == {k \in Nat : \E f : IsFlat(f, w, k)}
<1>1. 0 \in S
  <2>1. PICK f : f = [i \in 0 .. 0 |-> <<>>]
    BY Zenon
  <2>2. IsFlat(f, w, 0)
    BY <2>1 DEF IsFlat
  <2> QED
    BY <2>2
<1>2. ASSUME NEW k \in Nat, k \in S
      PROVE  k + 1 \in S
  <2>1. PICK f : IsFlat(f, w, k)
    BY <1>2
  <2>2. PICK last : last = f[k] \o w[k + 1]
    BY Zenon
  <2>3. PICK g : g = [i \in 0 .. k + 1 |-> IF i = k + 1 THEN last ELSE f[i]]
    BY Zenon
  <2>4. \A i \in 0 .. k : f[i] = IF i = 0 THEN <<>> ELSE f[i - 1] \o w[i]
    BY <2>1, Zenon DEF IsFlat
  <2>5. ASSUME NEW i \in 0 .. k + 1
        PROVE  g[i] = IF i = 0 THEN <<>> ELSE g[i - 1] \o w[i]
    <3>1. CASE i = k + 1
      <4>1. g[i] = last /\ g[i - 1] = f[k] /\ i # 0
        BY <2>3, <3>1
      <4> QED
        BY <2>2, <3>1, <4>1, Zenon
    <3>2. CASE i # k + 1
      <4>1. i \in 0 .. k /\ g[i] = f[i]
        BY <2>3, <3>2
      <4>2. i # 0 => g[i - 1] = f[i - 1]
        BY <2>3, <3>2
      <4> QED
        BY <2>4, <4>1, <4>2
    <3> QED
      BY <3>1, <3>2
  <2>6. g = [i \in 0 .. k + 1 |-> g[i]]
    BY <2>3
  <2>7. IsFlat(g, w, k + 1)
    BY <2>5, <2>6 DEF IsFlat
  <2> QED
    BY <2>7
<1> HIDE DEF S
<1>3. Nat \subseteq S
  BY <1>1, <1>2, Induction
<1> QED
  BY <1>3 DEF S

\* Concat is the last of them.
LEMMA ConcatIsFlat ==
  ASSUME NEW T, NEW w \in Seq(T)
  PROVE  \E f : IsFlat(f, w, Len(w)) /\ Concat(w) = f[Len(w)]
<1>1. \E f : IsFlat(f, w, Len(w))
  BY FlatExists
<1> DEFINE F == CHOOSE f : IsFlat(f, w, Len(w))
<1>2. IsFlat(F, w, Len(w))
  BY <1>1
<1>3. Concat(w) = F[Len(w)]
  BY Zenon DEF Concat, IsFlat
<1> QED
  BY <1>2, <1>3, Zenon

\* Concatenations of the same sequences are the same.
LEMMA FlatAgree ==
  ASSUME NEW f, NEW w, NEW n \in Nat, IsFlat(f, w, n), NEW g, NEW v, NEW m \in Nat, IsFlat(g, v, m),
         n <= m, \A i \in 1 .. n : w[i] = v[i]
  PROVE  \A i \in 0 .. n : f[i] = g[i]
<1> DEFINE S == {k \in Nat : k \in 0 .. n => f[k] = g[k]}
<1>1. \A i \in 0 .. n : f[i] = IF i = 0 THEN <<>> ELSE f[i - 1] \o w[i]
  BY DEF IsFlat
<1>2. \A i \in 0 .. m : g[i] = IF i = 0 THEN <<>> ELSE g[i - 1] \o v[i]
  BY DEF IsFlat
<1>3. 0 \in S
  BY <1>1, <1>2
<1>4. ASSUME NEW k \in Nat, k \in S
      PROVE  k + 1 \in S
  <2> SUFFICES ASSUME k + 1 \in 0 .. n
               PROVE  f[k + 1] = g[k + 1]
    OBVIOUS
  <2>1. k \in 0 .. n /\ f[k] = g[k]
    BY <1>4
  <2>2. PICK j \in 0 .. n : j = k + 1 /\ j - 1 = k /\ j # 0 /\ j \in 0 .. m /\ w[j] = v[j]
    OBVIOUS
  <2>3. f[j] = f[j - 1] \o w[j]
    BY <1>1, <2>2, Zenon
  <2>4. g[j] = g[j - 1] \o v[j]
    BY <1>2, <2>2, Zenon
  <2> QED
    BY <2>1, <2>2, <2>3, <2>4, Zenon
<1> HIDE DEF S
<1>5. Nat \subseteq S
  BY <1>3, <1>4, Induction
<1> QED
  BY <1>5 DEF S

\* No sequences give the empty one.
LEMMA ConcatNone == Concat(<<>>) = <<>>
<1>1. <<>> \in Seq({}) /\ Len(<<>>) = 0
  OBVIOUS
<1>2. PICK f : IsFlat(f, <<>>, 0) /\ Concat(<<>>) = f[0]
  BY <1>1, ConcatIsFlat, Zenon
<1>3. \A i \in 0 .. 0 : f[i] = IF i = 0 THEN <<>> ELSE f[i - 1] \o <<>>[i]
  BY <1>2 DEF IsFlat
<1> QED
  BY <1>2, <1>3

\* One more sequence is one more concatenation.
LEMMA ConcatAppend ==
  ASSUME NEW B, NEW w \in Seq(Seq(B)), NEW s \in Seq(B)
  PROVE  Concat(Append(w, s)) = Concat(w) \o s
<1>1. PICK v, n : v = Append(w, s) /\ n = Len(w)
  BY Zenon
<1>2. /\ n \in Nat /\ v \in Seq(Seq(B)) /\ Len(v) = n + 1
      /\ v[n + 1] = s /\ \A i \in 1 .. n : w[i] = v[i]
  BY <1>1, AppendProperties
<1>3. PICK g : IsFlat(g, v, n + 1) /\ Concat(v) = g[n + 1]
  BY <1>2, ConcatIsFlat, Zenon
<1>4. \A i \in 0 .. n + 1 : g[i] = IF i = 0 THEN <<>> ELSE g[i - 1] \o v[i]
  BY <1>3, Zenon DEF IsFlat
<1>5. PICK f : IsFlat(f, w, n) /\ Concat(w) = f[n]
  BY <1>1, ConcatIsFlat
<1>6. n + 1 \in Nat /\ n <= n + 1 /\ n \in 0 .. n
  BY <1>2
<1>7. f[n] = g[n]
  BY <1>2, <1>3, <1>5, <1>6, FlatAgree
<1>8. PICK j \in 0 .. n + 1 : j = n + 1 /\ j - 1 = n /\ j # 0
  BY <1>2
<1>9. g[j] = g[j - 1] \o v[j]
  BY <1>4, <1>8, Zenon
<1> QED
  BY <1>1, <1>2, <1>3, <1>5, <1>7, <1>8, <1>9

\* A sequence of bytes comes out.
LEMMA ConcatType ==
  ASSUME NEW B, NEW w \in Seq(Seq(B))
  PROVE  Concat(w) \in Seq(B)
<1> DEFINE S == {k \in Nat : \A v \in Seq(Seq(B)) : Len(v) = k => Concat(v) \in Seq(B)}
<1>1. 0 \in S
  <2> SUFFICES ASSUME NEW v \in Seq(Seq(B)), Len(v) = 0
               PROVE  Concat(v) \in Seq(B)
    OBVIOUS
  <2>1. v = <<>>
    OBVIOUS
  <2>2. <<>> \in Seq(B)
    OBVIOUS
  <2> QED
    BY <2>1, <2>2, ConcatNone, Zenon
<1>2. ASSUME NEW k \in Nat, k \in S
      PROVE  k + 1 \in S
  <2> SUFFICES ASSUME NEW v \in Seq(Seq(B)), Len(v) = k + 1
               PROVE  Concat(v) \in Seq(B)
    OBVIOUS
  <2>1. v # <<>>
    OBVIOUS
  <2>2. PICK u \in Seq(Seq(B)), s \in Seq(B) : v = Append(u, s)
    BY <2>1, SequenceEmptyOrAppend, Zenon
  <2>3. Len(u) = k
    BY <2>2
  <2>4. Concat(u) \in Seq(B)
    BY <1>2, <2>3
  <2>5. Concat(v) = Concat(u) \o s
    BY <2>2, ConcatAppend
  <2> QED
    BY <2>4, <2>5, ConcatProperties
<1> HIDE DEF S
<1>3. Nat \subseteq S
  BY <1>1, <1>2, Induction, Zenon
<1>4. Len(w) \in Nat
  OBVIOUS
<1> QED
  BY <1>3, <1>4 DEF S

-----------------------------------------------------------------------------
(* Frames.                                                                 *)

\* Division with remainder.
LEMMA DivMod ==
  ASSUME NEW n \in Nat, NEW b \in Nat \ {0}
  PROVE  /\ n \div b \in Nat /\ n % b \in 0 .. b - 1
         /\ n = b * (n \div b) + (n % b)
OBVIOUS

\* The digits of a number are unique.
LEMMA DigitsUnique ==
  ASSUME NEW b \in Nat \ {0}, NEW q \in Nat, NEW r \in 0 .. b - 1
  PROVE  (q * b + r) \div b = q /\ (q * b + r) % b = r
<1>1. q * b + r \in Nat
  OBVIOUS
<1>2. PICK p, s : p = (q * b + r) \div b /\ s = (q * b + r) % b
  OBVIOUS
<1>3. p \in Nat /\ s \in 0 .. b - 1 /\ q * b + r = b * p + s
  BY <1>1, <1>2, DivMod, Zenon
<1>4. ~(p > q)
  <2> SUFFICES ASSUME p > q PROVE FALSE
    OBVIOUS
  <2>1. PICK d \in Nat : p = q + d /\ d >= 1
    <3>1. p - q \in Nat /\ p = q + (p - q) /\ p - q >= 1
      BY <1>3
    <3> QED
      BY <3>1
  <2>2. b * p = b * q + b * d
    BY <1>3, <2>1
  <2>3. b * d >= b
    BY <2>1
  <2> QED
    BY <1>3, <2>2, <2>3
<1>5. ~(p < q)
  <2> SUFFICES ASSUME p < q PROVE FALSE
    OBVIOUS
  <2>1. PICK d \in Nat : q = p + d /\ d >= 1
    <3>1. q - p \in Nat /\ q = p + (q - p) /\ q - p >= 1
      BY <1>3
    <3> QED
      BY <3>1
  <2>2. q * b = b * p + b * d
    BY <1>3, <2>1
  <2>3. b * d >= b
    BY <2>1
  <2> QED
    BY <1>3, <2>2, <2>3
<1>6. p = q
  BY <1>3, <1>4, <1>5
<1> QED
  BY <1>2, <1>3, <1>6

\* A length within the limit has a header, which is read as that length.
LEMMA HeaderType ==
  ASSUME NEW n \in 0 .. MaxMessageSize
  PROVE  PutUint32(n) \in Seq(Byte) /\ Len(PutUint32(n)) = 2
<1>1. Base \in Nat \ {0} /\ MaxMessageSize \in Nat /\ MaxMessageSize < Base * Base
  BY FramingAssumption
<1>2. PICK p, s : p = n \div Base /\ s = n % Base
  OBVIOUS
<1>0. n \in Nat
  BY <1>1
<1>3. p \in Nat /\ s \in 0 .. Base - 1 /\ n = Base * p + s
  BY <1>0, <1>1, <1>2, DivMod, Zenon
<1>4. n < Base * Base
  BY <1>1
<1>5. p < Base
  <2> SUFFICES ASSUME p >= Base PROVE FALSE
    BY <1>1, <1>3
  <2>1. Base * p >= Base * Base
    BY <1>1, <1>3
  <2> QED
    BY <1>1, <1>3, <1>4, <2>1
<1>6. p \in Byte /\ s \in Byte
  BY <1>1, <1>3, <1>5 DEF Byte
<1>7. <<p, s>> \in Seq(Byte) /\ Len(<<p, s>>) = 2
  BY <1>6
<1> QED
  BY <1>2, <1>7 DEF PutUint32

\* Two bytes are the header of the length they are read as.
LEMMA HeaderOfBytes ==
  ASSUME NEW hdr \in Seq(Byte), Len(hdr) = 2
  PROVE  Uint32(hdr \o <<0>>) \in Nat /\ PutUint32(Uint32(hdr \o <<0>>)) = hdr
<1>1. PICK p, s : p = hdr[1] /\ s = hdr[2]
  OBVIOUS
<1>2. p \in Byte /\ s \in Byte /\ hdr = <<p, s>>
  BY <1>1
<1>3. Base \in Nat \ {0} /\ p \in Nat /\ s \in 0 .. Base - 1
  BY <1>2, FramingAssumption DEF Byte
<1>4. (hdr \o <<0>>)[1] = p /\ (hdr \o <<0>>)[2] = s
  BY <1>1, <1>2
<1>5. Uint32(hdr \o <<0>>) = p * Base + s
  BY <1>4 DEF Uint32
<1>6. (p * Base + s) \div Base = p /\ (p * Base + s) % Base = s
  BY <1>3, DigitsUnique
<1>7. p * Base + s \in Nat
  BY <1>3
<1> QED
  BY <1>2, <1>5, <1>6, <1>7 DEF PutUint32

\* The frames of one message more.
LEMMA FramesAppend ==
  ASSUME NEW ms \in Seq(Seq(Byte)), \A i \in DOMAIN ms : Len(ms[i]) <= MaxMessageSize,
         NEW m \in Seq(Byte), Len(m) <= MaxMessageSize
  PROVE  /\ Frames(Append(ms, m)) = Frames(ms) \o Frame(m)
         /\ Frame(m) \in Seq(Byte) /\ Frames(ms) \in Seq(Byte)
<1>1. ASSUME NEW x \in Seq(Byte), Len(x) <= MaxMessageSize
      PROVE  Frame(x) \in Seq(Byte)
  <2>1. Len(x) \in 0 .. MaxMessageSize
    BY <1>1, FramingAssumption
  <2>2. PutUint32(Len(x)) \in Seq(Byte)
    BY <2>1, HeaderType
  <2> QED
    BY <2>2, ConcatProperties DEF Frame
<1>2. PICK w, v : /\ w = [i \in DOMAIN ms |-> Frame(ms[i])]
                  /\ v = [i \in DOMAIN Append(ms, m) |-> Frame(Append(ms, m)[i])]
  BY Zenon
<1>3. DOMAIN ms = 1..Len(ms) /\ Len(ms) \in Nat /\ \A i \in DOMAIN ms : ms[i] \in Seq(Byte)
  OBVIOUS
<1>4. w \in Seq(Seq(Byte)) /\ Len(w) = Len(ms)
  <2>1. \A i \in 1..Len(ms) : w[i] \in Seq(Byte)
    BY <1>1, <1>2, <1>3, Zenon
  <2>2. w = [i \in 1..Len(ms) |-> w[i]]
    BY <1>2, <1>3
  <2> QED
    BY <1>3, <2>1, <2>2
<1>5. v = Append(w, Frame(m))
  <2>1. PICK n : n = Len(ms)
    OBVIOUS
  <2>2. /\ DOMAIN Append(ms, m) = 1..n + 1 /\ Append(ms, m)[n + 1] = m
        /\ \A i \in 1..n : Append(ms, m)[i] = ms[i]
    BY <1>3, <2>1
  <2>3. DOMAIN v = 1..n + 1 /\ v[n + 1] = Frame(m) /\ \A i \in 1..n : v[i] = w[i]
    BY <1>2, <1>3, <2>1, <2>2
  <2>4. v = [i \in 1..n + 1 |-> v[i]]
    BY <1>2, <2>2, Zenon
  <2>5. PICK a : a = Append(w, Frame(m))
    BY Zenon
  <2>6. a = [i \in 1..n + 1 |-> a[i]] /\ a[n + 1] = Frame(m) /\ \A i \in 1..n : a[i] = w[i]
    <3>1. Frame(m) \in Seq(Byte)
      BY <1>1
    <3>2. a \in Seq(Seq(Byte)) /\ Len(a) = n + 1 /\ a[n + 1] = Frame(m) /\ \A i \in 1..n : a[i] = w[i]
      BY <1>4, <2>1, <2>5, <3>1, AppendProperties
    <3>3. DOMAIN a = 1..n + 1 /\ a = [i \in DOMAIN a |-> a[i]]
      BY <3>2
    <3> QED
      BY <3>2, <3>3
  <2>7. \A i \in 1..n + 1 : a[i] = v[i]
    <3>1. \A i \in 1..n + 1 : i \in 1..n \/ i = n + 1
      BY <1>3, <2>1
    <3> QED
      BY <2>3, <2>6, <3>1, Zenon
  <2> QED
    BY <2>4, <2>5, <2>6, <2>7, Zenon
<1>6. Frame(m) \in Seq(Byte)
  BY <1>1
<1>7. Concat(w) \in Seq(Byte) /\ Concat(v) = Concat(w) \o Frame(m)
  BY <1>4, <1>5, <1>6, ConcatAppend, ConcatType
<1> QED
  BY <1>2, <1>6, <1>7, Zenon DEF Frames

\* Messages that WriteMessage accepts.
Accepted(ms) == ms \in Seq(Seq(Byte)) /\ \A i \in DOMAIN ms : Len(ms[i]) <= MaxMessageSize

\* One more.
LEMMA AcceptedAppend ==
  ASSUME NEW ms, Accepted(ms), NEW m \in Seq(Byte), Len(m) <= MaxMessageSize
  PROVE  Accepted(Append(ms, m))
<1>1. PICK a, n : a = Append(ms, m) /\ n = Len(ms)
  BY Zenon
<1>2. ms \in Seq(Seq(Byte)) /\ DOMAIN ms = 1..n /\ n \in Nat
  BY <1>1 DEF Accepted
<1>3. /\ a \in Seq(Seq(Byte)) /\ Len(a) = n + 1 /\ a[n + 1] = m /\ \A i \in 1..n : a[i] = ms[i]
  BY <1>1, <1>2, AppendProperties
<1>4. \A i \in DOMAIN a : i \in 1..n \/ i = n + 1
  BY <1>2, <1>3
<1> QED
  BY <1>1, <1>2, <1>3, <1>4 DEF Accepted

\* The header whose body is being read.
Pending == IF body = -1 THEN <<>> ELSE PutUint32(body)

\* The inductive invariant: InStep, and what is in the sequences it speaks of.
FramingInv ==
  /\ Accepted(written) /\ Accepted(read)
  /\ out \in Seq(Byte) /\ wire \in Seq(Byte) /\ got \in Seq(Byte)
  /\ body \in {-1} \cup 0 .. MaxMessageSize
  /\ InStep

\* What it gives to every step.
LEMMA FramingTypes ==
  ASSUME FramingInv
  PROVE  /\ Frames(read) \in Seq(Byte) /\ Frames(written) \in Seq(Byte) /\ Pending \in Seq(Byte)
         /\ ~failed => (((Frames(read) \o Pending) \o got) \o wire) \o out = Frames(written)
<1>1. Accepted(written) /\ Accepted(read) /\ body \in {-1} \cup 0 .. MaxMessageSize
  BY DEF FramingInv
<1>2. <<>> \in Seq(Byte) /\ Len(<<>>) <= MaxMessageSize
  BY FramingAssumption
<1>3. Frames(read) \in Seq(Byte) /\ Frames(written) \in Seq(Byte)
  BY <1>1, <1>2, FramesAppend, Zenon DEF Accepted
<1>4. Pending \in Seq(Byte)
  BY <1>1, <1>2, HeaderType DEF Pending
<1> QED
  BY <1>3, <1>4 DEF FramingInv, InStep, Pending

\* A sequence in two pieces.
LEMMA TwoPieces ==
  ASSUME NEW B, NEW s \in Seq(B), NEW n \in 1..Len(s)
  PROVE  /\ SubSeq(s, 1, n) \in Seq(B) /\ SubSeq(s, n + 1, Len(s)) \in Seq(B)
         /\ SubSeq(s, 1, n) \o SubSeq(s, n + 1, Len(s)) = s
         /\ Len(SubSeq(s, 1, n)) = n
<1>1. Len(s) \in Nat
  OBVIOUS
<1>2. SubSeq(s, 1, n) \o SubSeq(s, n + 1, Len(s)) = SubSeq(s, 1, Len(s))
  <2>1. 1 \in 1..Len(s) + 1 /\ n \in 1 - 1..Len(s) /\ Len(s) \in n..Len(s)
    BY <1>1
  <2> QED
    BY <2>1, ConcatAdjacentSubSeq
<1>3. SubSeq(s, 1, Len(s)) = s
  BY SubSeqFull
<1>4. SubSeq(s, 1, n) \in Seq(B) /\ Len(SubSeq(s, 1, n)) = n
  BY <1>1
<1>5. SubSeq(s, n + 1, Len(s)) \in Seq(B)
  BY <1>1
<1> QED
  BY <1>2, <1>3, <1>4, <1>5, Zenon

\* Concatenation, as a name for the provers to reason with.
Cat(s, t) == s \o t

\* It is associative.
LEMMA CatLaws ==
  ASSUME NEW B
  PROVE  /\ \A s, t \in Seq(B) : Cat(s, t) \in Seq(B)
         /\ \A s, t, u \in Seq(B) : Cat(Cat(s, t), u) = Cat(s, Cat(t, u))
         /\ \A s \in Seq(B) : Cat(s, <<>>) = s /\ Cat(<<>>, s) = s
<1>1. \A s, t, u \in Seq(B) : (s \o t) \o u = s \o (t \o u)
  OBVIOUS
<1>2. \A s, t \in Seq(B) : s \o t \in Seq(B)
  OBVIOUS
<1>3. \A s \in Seq(B) : s \o <<>> = s /\ <<>> \o s = s
  BY ConcatEmptySeq
<1> QED
  BY <1>1, <1>2, <1>3 DEF Cat

\* Moving the border between two sequences.
LEMMA MoveBorder ==
  ASSUME NEW B, NEW x \in Seq(B), NEW s \in Seq(B), NEW p \in Seq(B), NEW q \in Seq(B)
  PROVE  Cat(Cat(x, Cat(s, p)), q) = Cat(Cat(x, s), Cat(p, q))
<1>1. Cat(x, Cat(s, p)) = Cat(Cat(x, s), p)
  BY CatLaws
<1>2. Cat(x, s) \in Seq(B)
  BY CatLaws
<1>3. Cat(Cat(Cat(x, s), p), q) = Cat(Cat(x, s), Cat(p, q))
  BY <1>2, CatLaws
<1> QED
  BY <1>1, <1>3

\* WriteMessage adds the same frame on both sides.
LEMMA WriteKeepsStep ==
  ASSUME FramingInv, NEW m \in Messages, WriteMessage(m)
  PROVE  FramingInv'
<1>1. CASE Len(m) > MaxMessageSize
  BY <1>1 DEF WriteMessage, FramingInv, InStep
<1>2. CASE ~(Len(m) > MaxMessageSize)
  <2>1. m \in Seq(Byte) /\ Len(m) <= MaxMessageSize
    BY <1>2, FramingAssumption
  <2>2. written' = Append(written, m) /\ out' = Frame(m) /\ out = <<>>
    BY <1>2 DEF WriteMessage
  <2>3. UNCHANGED <<wire, got, body, read, failed>>
    BY DEF WriteMessage
  <2>4. Accepted(written')
    BY <2>1, <2>2, AcceptedAppend DEF FramingInv
  <2>5. Frames(written') = Frames(written) \o Frame(m) /\ Frame(m) \in Seq(Byte)
    BY <2>1, <2>2, FramesAppend, Zenon DEF FramingInv, Accepted
  <2>6. PICK z : z = ((Frames(read) \o Pending) \o got) \o wire
    BY Zenon
  <2>7. z \in Seq(Byte)
    <3>1. Frames(read) \in Seq(Byte) /\ Pending \in Seq(Byte) /\ got \in Seq(Byte) /\ wire \in Seq(Byte)
      BY FramingTypes DEF FramingInv
    <3>2. PICK x : x = Frames(read) \o Pending
      BY Zenon
    <3>3. x \in Seq(Byte)
      BY <3>1, <3>2, ConcatProperties
    <3>4. PICK y : y = x \o got
      BY Zenon
    <3>5. y \in Seq(Byte)
      BY <3>1, <3>3, <3>4, ConcatProperties
    <3> QED
      BY <2>6, <3>1, <3>2, <3>4, <3>5, ConcatProperties
  <2>8. ~failed => z = Frames(written)
    BY <2>2, <2>6, <2>7, FramingTypes, ConcatEmptySeq
  <2>9. ~failed' => z \o out' = Frames(written')
    BY <2>2, <2>3, <2>5, <2>8
  <2>10. InStep'
    BY <2>3, <2>6, <2>9 DEF InStep, Pending
  <2> QED
    BY <2>2, <2>3, <2>4, <2>5, <2>10 DEF FramingInv
<1> QED
  BY <1>1, <1>2

\* Transmit and Read move bytes from the front of one sequence to the end of the
\* one before it.
LEMMA MovesKeepStep ==
  ASSUME FramingInv,
         (\E n \in 1..Len(out) : Transmit(n)) \/ (\E n \in 1..Len(wire) : Read(n))
  PROVE  FramingInv'
<1>0. /\ Frames(read) \in Seq(Byte) /\ Pending \in Seq(Byte)
      /\ got \in Seq(Byte) /\ wire \in Seq(Byte) /\ out \in Seq(Byte)
  BY FramingTypes DEF FramingInv
<1>x. PICK x : x = Cat(Frames(read), Pending)
  OBVIOUS
<1>xt. x \in Seq(Byte)
  BY <1>0, <1>x, CatLaws
<1>eq. ~failed => Cat(Cat(Cat(x, got), wire), out) = Frames(written)
  BY <1>x, FramingTypes DEF Cat
<1>1. ASSUME NEW n \in 1..Len(out), Transmit(n)
      PROVE  FramingInv'
  <2>1. PICK p, q : p = SubSeq(out, 1, n) /\ q = SubSeq(out, n + 1, Len(out))
    BY Zenon
  <2>2. p \in Seq(Byte) /\ q \in Seq(Byte) /\ Cat(p, q) = out
    BY <1>0, <2>1, TwoPieces DEF Cat
  <2>3. wire' = Cat(wire, p) /\ out' = q /\ UNCHANGED <<written, got, body, read, closed, failed>>
    BY <1>1, <2>1 DEF Transmit, Cat
  <2>4. Cat(x, got) \in Seq(Byte)
    BY <1>0, <1>xt, CatLaws
  <2>5. Cat(Cat(Cat(x, got), Cat(wire, p)), q) = Cat(Cat(Cat(x, got), wire), Cat(p, q))
    BY <1>0, <2>2, <2>4, MoveBorder
  <2>6. ~failed' => Cat(Cat(Cat(x, got), wire'), out') = Frames(written)
    BY <1>eq, <2>2, <2>3, <2>5
  <2>7. InStep'
    BY <1>x, <2>3, <2>6, Zenon DEF InStep, Pending, Cat
  <2>8. wire' \in Seq(Byte) /\ out' \in Seq(Byte)
    BY <1>0, <2>2, <2>3, CatLaws
  <2> QED
    BY <2>3, <2>7, <2>8 DEF FramingInv
<1>2. ASSUME NEW n \in 1..Len(wire), Read(n)
      PROVE  FramingInv'
  <2>1. PICK p, q : p = SubSeq(wire, 1, n) /\ q = SubSeq(wire, n + 1, Len(wire))
    BY Zenon
  <2>2. p \in Seq(Byte) /\ q \in Seq(Byte) /\ Cat(p, q) = wire
    BY <1>0, <2>1, TwoPieces DEF Cat
  <2>3. got' = Cat(got, p) /\ wire' = q /\ UNCHANGED <<written, out, body, read, closed, failed>>
    BY <1>2, <2>1 DEF Read, Cat
  <2>4. Cat(Cat(x, Cat(got, p)), q) = Cat(Cat(x, got), Cat(p, q))
    BY <1>0, <1>xt, <2>2, MoveBorder
  <2>5. ~failed' => Cat(Cat(Cat(x, got'), wire'), out') = Frames(written)
    BY <1>eq, <2>2, <2>3, <2>4
  <2>6. InStep'
    BY <1>x, <2>3, <2>5, Zenon DEF InStep, Pending, Cat
  <2>7. got' \in Seq(Byte) /\ wire' \in Seq(Byte)
    BY <1>0, <2>2, <2>3, CatLaws
  <2> QED
    BY <2>3, <2>6, <2>7 DEF FramingInv
<1> QED
  BY <1>1, <1>2

\* ReadHeader turns the bytes read into the length whose header they are.
LEMMA HeaderKeepsStep ==
  ASSUME FramingInv, ReadHeader
  PROVE  FramingInv'
<1>0. /\ Frames(read) \in Seq(Byte) /\ got \in Seq(Byte) /\ wire \in Seq(Byte) /\ out \in Seq(Byte)
  BY FramingTypes DEF FramingInv
<1>1. body = -1 /\ Len(got) = 2 /\ got' = <<>> /\ ~failed /\ UNCHANGED <<written, out, wire, read>>
  BY DEF ReadHeader, ReadFull, Wanted
<1>2. PICK n : n = Uint32(got \o <<0>>)
  OBVIOUS
<1>3. n \in Nat /\ PutUint32(n) = got
  BY <1>0, <1>1, <1>2, HeaderOfBytes
<1>4. Cat(Cat(Cat(Cat(Frames(read), <<>>), got), wire), out) = Frames(written)
  BY <1>1, FramingTypes DEF Pending, Cat
<1>5. CASE TooLarge(n)
  <2>1. failed' /\ UNCHANGED body
    BY <1>2, <1>5 DEF ReadHeader
  <2>2. got' \in Seq(Byte)
    BY <1>1
  <2> QED
    BY <1>1, <2>1, <2>2 DEF FramingInv, InStep
<1>6. CASE ~TooLarge(n)
  <2>1. body' = n /\ n \in 0 .. MaxMessageSize
    BY <1>2, <1>3, <1>6, FramingAssumption DEF ReadHeader, TooLarge
  <2>2. body' # -1
    BY <1>3, <2>1
  <2>3. Cat(Frames(read), <<>>) = Frames(read) /\ Cat(Cat(Frames(read), got), <<>>) = Cat(Frames(read), got)
    BY <1>0, CatLaws
  <2>4. Cat(Cat(Cat(Cat(Frames(read), got), <<>>), wire), out) = Frames(written)
    BY <1>4, <2>3
  <2>5. Cat(Cat(Cat(Cat(Frames(read), PutUint32(body')), got'), wire), out) = Frames(written)
    BY <1>1, <1>3, <2>1, <2>4
  <2>6. InStep'
    BY <1>1, <2>2, <2>5 DEF InStep, Cat
  <2>7. got' \in Seq(Byte)
    BY <1>1
  <2> QED
    BY <1>1, <2>1, <2>6, <2>7 DEF FramingInv
<1> QED
  BY <1>5, <1>6

\* ReadBody completes a frame.
LEMMA BodyKeepsStep ==
  ASSUME FramingInv, ReadBody
  PROVE  FramingInv'
<1>0. /\ Frames(read) \in Seq(Byte) /\ got \in Seq(Byte) /\ wire \in Seq(Byte) /\ out \in Seq(Byte)
      /\ body \in {-1} \cup 0 .. MaxMessageSize /\ Accepted(read)
  BY FramingTypes DEF FramingInv
<1>1. /\ body # -1 /\ Len(got) = body /\ ~failed /\ body' = -1 /\ got' = <<>>
      /\ read' = Append(read, got) /\ UNCHANGED <<written, out, wire, closed, failed>>
  BY DEF ReadBody, ReadFull, Wanted
<1>2. Len(got) <= MaxMessageSize /\ body \in 0 .. MaxMessageSize
  BY <1>0, <1>1, FramingAssumption
<1>3. Accepted(read')
  BY <1>0, <1>1, <1>2, AcceptedAppend
<1>4. PICK h : h = PutUint32(body)
  OBVIOUS
<1>5. h \in Seq(Byte)
  BY <1>2, <1>4, HeaderType
<1>6. Frames(read') = Cat(Frames(read), Cat(h, got))
  BY <1>0, <1>1, <1>2, <1>4, FramesAppend, Zenon DEF Accepted, Frame, Cat
<1>7. Cat(Cat(Cat(Cat(Frames(read), h), got), wire), out) = Frames(written)
  BY <1>1, <1>4, FramingTypes DEF Pending, Cat
<1>8. Cat(Cat(Frames(read), h), got) = Frames(read')
  BY <1>0, <1>5, <1>6, CatLaws
<1>9. Frames(read') \in Seq(Byte)
  BY <1>0, <1>5, <1>6, CatLaws
<1>10. Cat(Cat(Frames(read'), <<>>), <<>>) = Frames(read')
  BY <1>9, CatLaws
<1>11. Cat(Cat(Cat(Cat(Frames(read'), <<>>), <<>>), wire), out) = Frames(written)
  BY <1>7, <1>8, <1>10
<1>12. InStep'
  BY <1>1, <1>11 DEF InStep, Cat
<1>13. got' \in Seq(Byte)
  BY <1>1
<1> QED
  BY <1>1, <1>3, <1>12, <1>13 DEF FramingInv

\* Reader and writer never lose step: whatever messages are written, and however
\* the connection cuts up their bytes, what ReadMessage has returned and is reading
\* and what is under way are exactly the frames of WriteMessage.
THEOREM NeverOutOfStep == FramingSpec => []InStep
<1>1. FramingInit => FramingInv
  <2> SUFFICES ASSUME FramingInit
               PROVE  FramingInv
    OBVIOUS
  <2>1. Accepted(<<>>) /\ <<>> \in Seq(Byte)
    BY DEF Accepted
  <2>2. <<>> \in Seq(Seq(Byte)) /\ Frames(<<>>) = <<>>
    <3>1. [i \in DOMAIN <<>> |-> Frame(<<>>[i])] = <<>>
      OBVIOUS
    <3>2. Concat(<<>>) = <<>>
      BY ConcatNone
    <3> QED
      BY <3>1, <3>2 DEF Frames
  <2>3. Cat(Cat(Cat(Cat(<<>>, <<>>), <<>>), <<>>), <<>>) = <<>>
    <3>1. PICK e : e = <<>>
      OBVIOUS
    <3>2. e \in Seq(Byte) /\ Cat(e, <<>>) = e
      BY <2>1, <3>1, CatLaws, Zenon
    <3> QED
      BY <3>1, <3>2
  <2>4. InStep
    BY <2>2, <2>3 DEF FramingInit, InStep, Cat
  <2> QED
    BY <2>1, <2>4 DEF FramingInit, FramingInv
<1>2. ASSUME FramingInv, [FramingNext]_framingVars
      PROVE  FramingInv'
  <2>1. ASSUME NEW m \in Messages, WriteMessage(m)
        PROVE  FramingInv'
    BY <1>2, <2>1, WriteKeepsStep
  <2>2. CASE (\E n \in 1..Len(out) : Transmit(n)) \/ (\E n \in 1..Len(wire) : Read(n))
    BY <1>2, <2>2, MovesKeepStep
  <2>3. CASE ReadHeader
    BY <1>2, <2>3, HeaderKeepsStep
  <2>4. CASE ReadBody
    BY <1>2, <2>4, BodyKeepsStep
  <2>5. CASE ReadEOF \/ Close \/ UNCHANGED framingVars
    <3>1. UNCHANGED <<written, out, wire, got, body, read>> /\ (failed' \/ UNCHANGED failed)
      BY <2>5 DEF ReadEOF, Close, framingVars
    <3> QED
      BY <1>2, <3>1 DEF FramingInv, InStep
  <2> QED
    BY <1>2, <2>1, <2>2, <2>3, <2>4, <2>5 DEF FramingNext, Progress
<1>3. FramingInv => InStep
  BY DEF FramingInv
<1> QED
  BY <1>1, <1>2, <1>3, PTL DEF FramingSpec

-----------------------------------------------------------------------------
(* What is signed.                                                         *)

\* The elements of a concatenation.
Joins(x, s, u) ==
  /\ Len(x) = Len(s) + Len(u)
  /\ \A i \in 1..Len(s) : x[i] = s[i]
  /\ \A i \in 1..Len(u) : x[Len(s) + i] = u[i]

\* As Cat joins them.
LEMMA CatParts ==
  ASSUME NEW B, NEW s \in Seq(B), NEW u \in Seq(B), NEW x, x = Cat(s, u)
  PROVE  Joins(x, s, u)
<1>1. x = s \o u
  BY DEF Cat
<1>2. Len(x) = Len(s) + Len(u)
  BY <1>1
<1>3. \A i \in 1..Len(s) : x[i] = s[i]
  BY <1>1
<1>4. ASSUME NEW i \in 1..Len(u)
      PROVE  x[Len(s) + i] = u[i]
  BY <1>1
<1> QED
  BY <1>2, <1>3, <1>4 DEF Joins

\* Sequences that begin with parts of the same length.
LEMMA CatCancel ==
  ASSUME NEW B, NEW s \in Seq(B), NEW t \in Seq(B), NEW u \in Seq(B), NEW v \in Seq(B),
         Len(s) = Len(t), Cat(s, u) = Cat(t, v)
  PROVE  s = t /\ u = v
<1>1. PICK x : x = Cat(s, u) /\ x = Cat(t, v)
  OBVIOUS
<1>2. /\ Len(x) = Len(s) + Len(u)
      /\ \A i \in 1..Len(s) : x[i] = s[i]
      /\ \A i \in 1..Len(u) : x[Len(s) + i] = u[i]
  <2>1. Joins(x, s, u)
    BY <1>1, CatParts
  <2> QED
    BY <2>1 DEF Joins
<1>3. /\ Len(x) = Len(t) + Len(v)
      /\ \A i \in 1..Len(t) : x[i] = t[i]
      /\ \A i \in 1..Len(v) : x[Len(t) + i] = v[i]
  <2>1. Joins(x, t, v)
    BY <1>1, CatParts
  <2> QED
    BY <2>1 DEF Joins
<1>4. Len(s) \in Nat /\ Len(u) \in Nat /\ Len(v) \in Nat
  OBVIOUS
<1>5. Len(u) = Len(v)
  BY <1>2, <1>3, <1>4
<1>6. \A i \in 1..Len(s) : s[i] = t[i]
  BY <1>2, <1>3
<1>7. \A i \in 1..Len(u) : u[i] = v[i]
  BY <1>2, <1>3, <1>5
<1> QED
  BY <1>5, <1>6, <1>7, SeqEqual

\* A string behind its length.
Prefixed(s) == Cat(<<Len(s)>>, s)

\* It ends where its length says.
LEMMA PrefixedCancel ==
  ASSUME NEW s \in Seq(Nat), NEW t \in Seq(Nat), NEW u \in Seq(Nat), NEW v \in Seq(Nat),
         Cat(Prefixed(s), u) = Cat(Prefixed(t), v)
  PROVE  s = t /\ u = v
<1>1. PICK m, n : m = <<Len(s)>> /\ n = <<Len(t)>>
  BY Zenon
<1>2. m \in Seq(Nat) /\ n \in Seq(Nat) /\ Len(m) = 1 /\ Len(n) = 1 /\ m[1] = Len(s) /\ n[1] = Len(t)
  BY <1>1
<1>3. Cat(Cat(m, s), u) = Cat(Cat(n, t), v)
  BY <1>1 DEF Prefixed
<1>4. Cat(m, Cat(s, u)) = Cat(n, Cat(t, v))
  BY <1>2, <1>3, CatLaws
<1>5. Cat(s, u) \in Seq(Nat) /\ Cat(t, v) \in Seq(Nat)
  BY CatLaws
<1>6. m = n /\ Cat(s, u) = Cat(t, v)
  BY <1>2, <1>4, <1>5, CatCancel
<1>7. Len(s) = Len(t)
  BY <1>2, <1>6
<1> QED
  BY <1>6, <1>7, CatCancel

\* Its type.
LEMMA PrefixedType ==
  ASSUME NEW s \in Seq(Nat)
  PROVE  Prefixed(s) \in Seq(Nat)
<1>1. <<Len(s)>> \in Seq(Nat)
  OBVIOUS
<1> QED
  BY <1>1, CatLaws, Zenon DEF Prefixed

\* The strings of a list, each behind its length.
PrefixedAll(ss) == [i \in DOMAIN ss |-> Prefixed(ss[i])]

\* They are as many as the strings.
LEMMA PrefixedAllType ==
  ASSUME NEW ss \in Seq(Seq(Nat))
  PROVE  PrefixedAll(ss) \in Seq(Seq(Nat)) /\ Len(PrefixedAll(ss)) = Len(ss)
<1>1. DOMAIN ss = 1..Len(ss) /\ Len(ss) \in Nat /\ \A i \in DOMAIN ss : ss[i] \in Seq(Nat)
  OBVIOUS
<1>2. PICK w : w = PrefixedAll(ss)
  OBVIOUS
<1>3. \A i \in 1..Len(ss) : w[i] \in Seq(Nat)
  BY <1>1, <1>2, PrefixedType DEF PrefixedAll
<1>4. w = [i \in 1..Len(ss) |-> w[i]]
  BY <1>1, <1>2 DEF PrefixedAll
<1> QED
  BY <1>1, <1>2, <1>3, <1>4

\* Concat from the front.
LEMMA ConcatCons ==
  ASSUME NEW B, NEW s \in Seq(B), NEW w \in Seq(Seq(B))
  PROVE  Concat(<<s>> \o w) = Cat(s, Concat(w))
<1> DEFINE P(v) == Concat(<<s>> \o v) = Cat(s, Concat(v))
           S == {k \in Nat : \A v \in Seq(Seq(B)) : Len(v) = k => P(v)}
<1> HIDE DEF P
<1>1. 0 \in S
  <2> SUFFICES ASSUME NEW v \in Seq(Seq(B)), Len(v) = 0
               PROVE  P(v)
    OBVIOUS
  <2>1. v = <<>>
    BY EmptySeq
  <2>2. Concat(v) = <<>>
    BY <2>1, ConcatNone
  <2>3. <<s>> \o v = Append(v, s)
    BY <2>1
  <2>4. Concat(Append(v, s)) = Cat(Concat(v), s)
    BY ConcatAppend, Zenon DEF Cat
  <2>5. Cat(<<>>, s) = s /\ Cat(s, <<>>) = s
    BY CatLaws
  <2> QED
    BY <2>2, <2>3, <2>4, <2>5 DEF P
<1>2. ASSUME NEW k \in Nat, k \in S
      PROVE  k + 1 \in S
  <2> SUFFICES ASSUME NEW v \in Seq(Seq(B)), Len(v) = k + 1
               PROVE  P(v)
    OBVIOUS
  <2>1. v # <<>>
    OBVIOUS
  <2>2. PICK u \in Seq(Seq(B)), x \in Seq(B) : v = Append(u, x)
    BY <2>1, SequenceEmptyOrAppend, Zenon
  <2>3. Len(u) = k
    BY <2>2
  <2>4. P(u)
    BY <1>2, <2>3
  <2>5. <<s>> \o v = Append(<<s>> \o u, x) /\ <<s>> \o u \in Seq(Seq(B))
    BY <2>2
  <2>6. Concat(<<s>> \o v) = Cat(Concat(<<s>> \o u), x)
    BY <2>5, ConcatAppend, Zenon DEF Cat
  <2>7. Concat(v) = Cat(Concat(u), x) /\ Concat(u) \in Seq(B)
    BY <2>2, ConcatAppend, ConcatType DEF Cat
  <2>8. Cat(Cat(s, Concat(u)), x) = Cat(s, Cat(Concat(u), x))
    BY <2>7, CatLaws
  <2> QED
    BY <2>4, <2>6, <2>7, <2>8 DEF P
<1> HIDE DEF S
<1>3. Nat \subseteq S
  BY <1>1, <1>2, Induction
<1>4. Len(w) \in Nat
  OBVIOUS
<1> QED
  BY <1>3, <1>4 DEF S, P

\* The bytes of the requested services.
NameBytes(ss) == Concat(PrefixedAll(ss))

\* Those of a list are those of its first string and of the others.
LEMMA NameBytesCons ==
  ASSUME NEW ss \in Seq(Seq(Nat)), ss # <<>>
  PROVE  /\ ss[1] \in Seq(Nat) /\ Tail(ss) \in Seq(Seq(Nat)) /\ Len(Tail(ss)) = Len(ss) - 1
         /\ ss = <<ss[1]>> \o Tail(ss)
         /\ NameBytes(ss) = Cat(Prefixed(ss[1]), NameBytes(Tail(ss)))
<1>1. PICK h, r, n : h = ss[1] /\ r = Tail(ss) /\ n = Len(ss)
  BY Zenon
<1>2. /\ h \in Seq(Nat) /\ r \in Seq(Seq(Nat)) /\ n \in Nat /\ n >= 1 /\ Len(r) = n - 1
      /\ \A i \in 1..n - 1 : r[i] = ss[i + 1]
  BY <1>1
<1>3. ss = <<h>> \o r
  BY <1>1, <1>2
<1>4. PICK w, v : w = PrefixedAll(ss) /\ v = PrefixedAll(r)
  OBVIOUS
<1>5. w \in Seq(Seq(Nat)) /\ v \in Seq(Seq(Nat)) /\ Len(w) = n /\ Len(v) = n - 1
  BY <1>1, <1>2, <1>4, PrefixedAllType, Zenon
<1>6. PICK p, x : p = Prefixed(h) /\ x = <<p>> \o v
  BY Zenon
<1>7. p \in Seq(Nat)
  BY <1>2, <1>6, PrefixedType
<1>8. x \in Seq(Seq(Nat)) /\ Len(x) = n /\ x[1] = p /\ \A i \in 1..n - 1 : x[i + 1] = v[i]
  BY <1>2, <1>5, <1>6, <1>7
<1>9. DOMAIN ss = 1..n /\ DOMAIN r = 1..n - 1
  BY <1>1, <1>2
<1>10. w[1] = p /\ \A i \in 1..n - 1 : w[i + 1] = v[i]
  <2>1. \A i \in 1..n : w[i] = Prefixed(ss[i])
    BY <1>4, <1>9 DEF PrefixedAll
  <2>2. \A i \in 1..n - 1 : v[i] = Prefixed(r[i])
    BY <1>4, <1>9 DEF PrefixedAll
  <2>3. 1 \in 1..n /\ \A i \in 1..n - 1 : i + 1 \in 1..n
    BY <1>2
  <2> QED
    BY <1>1, <1>2, <1>6, <2>1, <2>2, <2>3
<1>11. \A i \in 1..n : w[i] = x[i]
  <2>1. \A i \in 1..n : i = 1 \/ (i - 1 \in 1..n - 1 /\ i = (i - 1) + 1)
    BY <1>2
  <2> QED
    BY <1>8, <1>10, <2>1, Zenon
<1>12. w = x
  BY <1>5, <1>8, <1>11, SeqEqual
<1>13. Concat(x) = Cat(p, Concat(v))
  BY <1>5, <1>6, <1>7, ConcatCons
<1> QED
  BY <1>1, <1>2, <1>3, <1>4, <1>6, <1>12, <1>13, Zenon DEF NameBytes

\* Their type.
LEMMA NameBytesType ==
  ASSUME NEW ss \in Seq(Seq(Nat))
  PROVE  NameBytes(ss) \in Seq(Nat)
<1>1. PrefixedAll(ss) \in Seq(Seq(Nat))
  BY PrefixedAllType
<1> QED
  BY <1>1, ConcatType DEF NameBytes

\* Lists of the same length with the same bytes are the same.
LEMMA NamesBind ==
  ASSUME NEW ss \in Seq(Seq(Nat)), NEW tt \in Seq(Seq(Nat)),
         Len(ss) = Len(tt), NameBytes(ss) = NameBytes(tt)
  PROVE  ss = tt
<1> DEFINE P(x, y) == NameBytes(x) = NameBytes(y) => x = y
           S == {k \in Nat : \A x, y \in Seq(Seq(Nat)) : Len(x) = k /\ Len(y) = k => P(x, y)}
<1> HIDE DEF P
<1>1. 0 \in S
  <2> SUFFICES ASSUME NEW x \in Seq(Seq(Nat)), NEW y \in Seq(Seq(Nat)), Len(x) = 0, Len(y) = 0
               PROVE  P(x, y)
    OBVIOUS
  <2>1. x = <<>> /\ y = <<>>
    BY EmptySeq
  <2> QED
    BY <2>1 DEF P
<1>2. ASSUME NEW k \in Nat, k \in S
      PROVE  k + 1 \in S
  <2> SUFFICES ASSUME NEW x \in Seq(Seq(Nat)), NEW y \in Seq(Seq(Nat)), Len(x) = k + 1, Len(y) = k + 1,
                      NameBytes(x) = NameBytes(y)
               PROVE  x = y
    BY DEF P
  <2>1. x # <<>> /\ y # <<>>
    OBVIOUS
  <2>2. PICK h, r : h = x[1] /\ r = Tail(x)
    BY Zenon
  <2>3. PICK g, q : g = y[1] /\ q = Tail(y)
    BY Zenon
  <2>4. /\ h \in Seq(Nat) /\ r \in Seq(Seq(Nat)) /\ Len(r) = k
        /\ x = <<h>> \o r /\ NameBytes(x) = Cat(Prefixed(h), NameBytes(r))
    <3>1. Len(r) = Len(x) - 1
      BY <2>1, <2>2, NameBytesCons
    <3>2. Len(r) = k
      BY <3>1
    <3>3. h \in Seq(Nat) /\ r \in Seq(Seq(Nat))
      BY <2>1, <2>2, NameBytesCons
    <3>4. x = <<h>> \o r
      BY <2>1, <2>2, NameBytesCons
    <3>5. NameBytes(x) = Cat(Prefixed(h), NameBytes(r))
      BY <2>1, <2>2, NameBytesCons, Zenon
    <3> QED
      BY <3>2, <3>3, <3>4, <3>5
  <2>5. /\ g \in Seq(Nat) /\ q \in Seq(Seq(Nat)) /\ Len(q) = k
        /\ y = <<g>> \o q /\ NameBytes(y) = Cat(Prefixed(g), NameBytes(q))
    <3>1. Len(q) = Len(y) - 1
      BY <2>1, <2>3, NameBytesCons
    <3>2. Len(q) = k
      BY <3>1
    <3>3. g \in Seq(Nat) /\ q \in Seq(Seq(Nat))
      BY <2>1, <2>3, NameBytesCons
    <3>4. y = <<g>> \o q
      BY <2>1, <2>3, NameBytesCons
    <3>5. NameBytes(y) = Cat(Prefixed(g), NameBytes(q))
      BY <2>1, <2>3, NameBytesCons, Zenon
    <3> QED
      BY <3>2, <3>3, <3>4, <3>5
  <2>6. NameBytes(r) \in Seq(Nat) /\ NameBytes(q) \in Seq(Nat)
    BY <2>4, <2>5, NameBytesType
  <2>7. Cat(Prefixed(h), NameBytes(r)) = Cat(Prefixed(g), NameBytes(q))
    BY <2>4, <2>5, Zenon
  <2>8. h = g /\ NameBytes(r) = NameBytes(q)
    BY <2>4, <2>5, <2>6, <2>7, PrefixedCancel
  <2>9. P(r, q)
    BY <1>2, <2>4, <2>5
  <2>10. r = q
    BY <2>8, <2>9 DEF P
  <2> QED
    BY <2>4, <2>5, <2>8, <2>10
<1> HIDE DEF S
<1>3. Nat \subseteq S
  BY <1>1, <1>2, Induction, Zenon
<1>4. Len(ss) \in Nat
  OBVIOUS
<1>5. P(ss, tt)
  BY <1>3, <1>4 DEF S
<1> QED
  BY <1>5 DEF P

\* Integers that are equal modulo a number larger than their distance are equal.
LEMMA ModUnique ==
  ASSUME NEW n \in Nat \ {0}, NEW s \in Int, NEW t \in Int, s % n = t % n, s - t < n, t - s < n
  PROVE  s = t
<1>1. PICK k, l, u : k = s \div n /\ l = t \div n /\ u = s % n
  BY Zenon
<1>2. k \in Int /\ l \in Int /\ u \in Int /\ s = n * k + u /\ t = n * l + u
  BY <1>1
<1>3. PICK d \in Int : d = k - l
  BY <1>2
<1>4. n * d = s - t
  <2>1. n * d = n * k - n * l
    BY <1>2, <1>3
  <2> QED
    BY <1>2, <2>1
<1>5. ~(d >= 1)
  <2> SUFFICES ASSUME d >= 1 PROVE FALSE
    OBVIOUS
  <2>1. n * d >= n
    OBVIOUS
  <2> QED
    BY <1>4, <2>1
<1>6. ~(d <= -1)
  <2> SUFFICES ASSUME d <= -1 PROVE FALSE
    OBVIOUS
  <2>1. n * d <= -n
    OBVIOUS
  <2> QED
    BY <1>4, <2>1
<1>7. d = 0
  BY <1>5, <1>6
<1> QED
  BY <1>4, <1>7

\* The bytes of a time determine it.
LEMMA TimeBinds ==
  ASSUME NEW s \in -(MaxInt + 1) .. MaxInt, NEW t \in -(MaxInt + 1) .. MaxInt
  PROVE  /\ PutUint64(s) \in Seq(Nat) /\ Len(PutUint64(s)) = 2
         /\ PutUint64(s) = PutUint64(t) => s = t
<1>1. PICK n : n = 2 * (MaxInt + 1)
  OBVIOUS
<1>2. n \in Nat \ {0} /\ MaxInt \in Nat /\ Radix \in Nat \ {0} /\ s \in Int /\ t \in Int
  BY <1>1, ClockAssumption, AuthsAssumption
<1>3. s - t < n /\ t - s < n
  BY <1>1, <1>2
<1>4. PICK u, v : u = s % n /\ v = t % n
  OBVIOUS
<1>5. u \in Nat /\ v \in Nat
  BY <1>2, <1>4
<1>6. PICK p, q, x, y : p = u \div Radix /\ q = u % Radix /\ x = v \div Radix /\ y = v % Radix
  OBVIOUS
<1>7. p \in Nat /\ q \in Nat /\ u = Radix * p + q
  BY <1>2, <1>5, <1>6, DivMod
<1>8. v = Radix * x + y
  BY <1>2, <1>5, <1>6, DivMod
<1>9. PutUint64(s) = <<p, q>> /\ PutUint64(t) = <<x, y>>
  BY <1>1, <1>4, <1>6 DEF PutUint64
<1>10. <<p, q>> \in Seq(Nat) /\ Len(<<p, q>>) = 2
  BY <1>7
<1>11. ASSUME <<p, q>> = <<x, y>>
       PROVE  s = t
  <2>1. p = x /\ q = y
    BY <1>11
  <2>2. u = v
    BY <1>7, <1>8, <2>1
  <2> QED
    BY <1>2, <1>3, <1>4, <2>2, ModUnique, Zenon
<1> QED
  BY <1>9, <1>10, <1>11

\* The parts of four sequences in a row, from the right.
LEMMA FourInARow ==
  ASSUME NEW s \in Seq(Nat), NEW t \in Seq(Nat), NEW u \in Seq(Nat), NEW v \in Seq(Nat)
  PROVE  Cat(Cat(Cat(s, t), u), v) = Cat(s, Cat(t, Cat(u, v)))
<1>1. PICK p : p = Cat(s, t)
  OBVIOUS
<1>2. PICK q : q = Cat(u, v)
  OBVIOUS
<1>3. p \in Seq(Nat) /\ q \in Seq(Nat)
  BY <1>1, <1>2, CatLaws
<1>4. Cat(Cat(p, u), v) = Cat(p, q)
  BY <1>2, <1>3, CatLaws
<1>5. Cat(p, q) = Cat(s, Cat(t, q))
  BY <1>1, <1>3, CatLaws
<1> QED
  BY <1>1, <1>2, <1>4, <1>5

\* x consists of four parts.
FourOf(x, s, t, u, v) ==
  /\ s \in Seq(Nat) /\ t \in Seq(Nat) /\ u \in Seq(Nat) /\ v \in Seq(Nat)
  /\ x = Cat(Cat(Cat(s, t), u), v)

\* Four parts, of which one has a length of its own, are found again.
LEMMA FourParts ==
  ASSUME NEW x, NEW s1, NEW t1, NEW u1, NEW v1, NEW s2, NEW t2, NEW u2, NEW v2,
         FourOf(x, s1, t1, u1, v1), FourOf(x, s2, t2, u2, v2),
         Len(s1) = Len(s2), Len(t1) = Len(t2), Len(v1) = Len(v2)
  PROVE  s1 = s2 /\ t1 = t2 /\ u1 = u2 /\ v1 = v2
<1>0. /\ s1 \in Seq(Nat) /\ t1 \in Seq(Nat) /\ u1 \in Seq(Nat) /\ v1 \in Seq(Nat)
      /\ s2 \in Seq(Nat) /\ t2 \in Seq(Nat) /\ u2 \in Seq(Nat) /\ v2 \in Seq(Nat)
  BY DEF FourOf
<1>1. Cat(s1, Cat(t1, Cat(u1, v1))) = Cat(s2, Cat(t2, Cat(u2, v2)))
  <2>1. x = Cat(s1, Cat(t1, Cat(u1, v1)))
    <3>1. x = Cat(Cat(Cat(s1, t1), u1), v1)
      BY DEF FourOf
    <3>2. Cat(Cat(Cat(s1, t1), u1), v1) = Cat(s1, Cat(t1, Cat(u1, v1)))
      BY <1>0, FourInARow
    <3> QED
      BY <3>1, <3>2
  <2>2. x = Cat(s2, Cat(t2, Cat(u2, v2)))
    <3>1. x = Cat(Cat(Cat(s2, t2), u2), v2)
      BY DEF FourOf
    <3>2. Cat(Cat(Cat(s2, t2), u2), v2) = Cat(s2, Cat(t2, Cat(u2, v2)))
      BY <1>0, FourInARow
    <3> QED
      BY <3>1, <3>2
  <2> QED
    BY <2>1, <2>2
<1>2. PICK x1 : x1 = Cat(u1, v1)
  OBVIOUS
<1>3. PICK x2 : x2 = Cat(u2, v2)
  OBVIOUS
<1>4. x1 \in Seq(Nat) /\ x2 \in Seq(Nat)
  BY <1>0, <1>2, <1>3, CatLaws
<1>5. PICK y1 : y1 = Cat(t1, x1)
  OBVIOUS
<1>6. PICK y2 : y2 = Cat(t2, x2)
  OBVIOUS
<1>7. y1 \in Seq(Nat) /\ y2 \in Seq(Nat)
  BY <1>0, <1>4, <1>5, <1>6, CatLaws
<1>8. Cat(s1, y1) = Cat(s2, y2)
  BY <1>0, <1>1, <1>2, <1>3, <1>5, <1>6
<1>9. s1 = s2 /\ y1 = y2
  BY <1>0, <1>7, <1>8, CatCancel
<1>10. Cat(t1, x1) = Cat(t2, x2)
  BY <1>0, <1>5, <1>6, <1>9
<1>11. t1 = t2 /\ x1 = x2
  BY <1>0, <1>4, <1>10, CatCancel
<1>12. Cat(u1, v1) = Cat(u2, v2)
  BY <1>0, <1>2, <1>3, <1>11
<1>13. Len(u1) = Len(u2)
  <2>1. Joins(x1, u1, v1) /\ Joins(x2, u2, v2)
    BY <1>0, <1>2, <1>3, CatParts
  <2>2. Len(x1) = Len(u1) + Len(v1) /\ Len(x2) = Len(u2) + Len(v2)
    BY <2>1 DEF Joins
  <2>3. Len(u1) \in Nat /\ Len(u2) \in Nat /\ Len(v1) \in Nat /\ Len(v2) \in Nat
    BY <1>0
  <2> QED
    BY <1>0, <1>11, <2>2, <2>3
<1>14. u1 = u2 /\ v1 = v2
  BY <1>0, <1>12, <1>13, CatCancel
<1> QED
  BY <1>0, <1>9, <1>11, <1>14

\* The parts of an input.
LEMMA InputParts ==
  ASSUME NEW a \in Auths
  PROVE  /\ a.nonce \in Seq(Nat) /\ a.exporter \in Seq(Nat) /\ a.id \in Seq(Nat)
         /\ a.time \in -(MaxInt + 1) .. MaxInt /\ a.requested \in Seq(Seq(Nat))
BY AuthsAssumption DEF Input

\* What ed25519 signs, for nonces and exporters of fixed lengths.
LEMMA SigningInputBinds ==
  ASSUME NEW a \in Auths, NEW b \in Auths, SigningInput(a) = SigningInput(b)
  PROVE  a.nonce = b.nonce /\ a.exporter = b.exporter /\ a.id = b.id /\ a.time = b.time
<1>1. /\ a.nonce \in Seq(Nat) /\ a.exporter \in Seq(Nat) /\ a.id \in Seq(Nat)
      /\ b.nonce \in Seq(Nat) /\ b.exporter \in Seq(Nat) /\ b.id \in Seq(Nat)
  BY InputParts
<1>2. Len(a.nonce) = Len(b.nonce) /\ Len(a.exporter) = Len(b.exporter)
  BY AuthsAssumption
<1>3. a.time \in -(MaxInt + 1) .. MaxInt /\ b.time \in -(MaxInt + 1) .. MaxInt
  BY InputParts
<1>4. PICK u : u = PutUint64(a.time)
  OBVIOUS
<1>5. PICK v : v = PutUint64(b.time)
  OBVIOUS
<1>6. u \in Seq(Nat) /\ Len(u) = 2 /\ v \in Seq(Nat) /\ Len(v) = 2 /\ (u = v => a.time = b.time)
  BY <1>3, <1>4, <1>5, TimeBinds
<1>7. Len(u) = Len(v)
  BY <1>6
<1>8. PICK x : x = SigningInput(a)
  OBVIOUS
<1>9. FourOf(x, a.nonce, a.exporter, a.id, u)
  BY <1>1, <1>4, <1>6, <1>8, Zenon DEF FourOf, SigningInput, Cat
<1>10. FourOf(x, b.nonce, b.exporter, b.id, v)
  BY <1>1, <1>5, <1>6, <1>8 DEF FourOf, SigningInput, Cat
<1>11. a.nonce = b.nonce /\ a.exporter = b.exporter /\ a.id = b.id /\ u = v
  BY <1>2, <1>7, <1>9, <1>10, FourParts
<1> QED
  BY <1>6, <1>11

\* AppendLengthPrefixed appends the string behind its length.
LEMMA AppendIsCat ==
  ASSUME NEW dst \in Seq(Nat), NEW src \in Seq(Nat)
  PROVE  AppendLengthPrefixed(dst, src) = Cat(dst, Prefixed(src))
<1>1. PICK n : n = <<Len(src)>>
  BY Zenon
<1>2. n \in Seq(Nat)
  BY <1>1
<1>3. AppendLengthPrefixed(dst, src) = Cat(Cat(dst, n), src)
  BY <1>1 DEF AppendLengthPrefixed, Cat
<1>4. Prefixed(src) = Cat(n, src)
  BY <1>1 DEF Prefixed
<1> QED
  BY <1>2, <1>3, <1>4, CatLaws

\* The loop over the requested services appends the bytes of their names.
LEMMA AppendNamesIsCat ==
  ASSUME NEW dst \in Seq(Nat), NEW names \in Seq(Seq(Nat))
  PROVE  AppendNames(dst, names) = Cat(dst, NameBytes(names))
<1>1. \A i \in DOMAIN names : names[i] \in Seq(Nat)
  OBVIOUS
<1>2. <<>> \in Seq(Nat)
  OBVIOUS
<1>3. \A i \in DOMAIN names : AppendLengthPrefixed(<<>>, names[i]) = Prefixed(names[i])
  <2> TAKE i \in DOMAIN names
  <2>1. PICK s \in Seq(Nat) : s = names[i]
    BY <1>1
  <2>2. AppendLengthPrefixed(<<>>, s) = Cat(<<>>, Prefixed(s))
    BY <1>2, AppendIsCat, Zenon
  <2>3. Prefixed(s) \in Seq(Nat)
    BY PrefixedType
  <2> QED
    BY <2>1, <2>2, <2>3, CatLaws
<1>4. [i \in DOMAIN names |-> AppendLengthPrefixed(<<>>, names[i])] = PrefixedAll(names)
  BY <1>3 DEF PrefixedAll
<1> QED
  BY <1>4, Zenon DEF AppendNames, NameBytes, Cat

\* x consists of three strings, each behind its length, a time, and names
\* behind their number.
RequestOf(x, s, t, u, v, names) ==
  /\ s \in Seq(Nat) /\ t \in Seq(Nat) /\ u \in Seq(Nat) /\ v \in Seq(Nat)
  /\ Len(v) = 2 /\ names \in Seq(Seq(Nat))
  /\ x = Cat(Prefixed(s), Cat(Prefixed(t), Cat(Prefixed(u), Cat(v, Cat(<<Len(names)>>, NameBytes(names))))))

\* What PQSigningInput puts together, from the right.
LEMMA PQSigningInputParts ==
  ASSUME NEW a \in Auths
  PROVE  RequestOf(PQSigningInput(a), a.nonce, a.exporter, a.id, PutUint64(a.time), a.requested)
<1>1. PICK s : s = a.nonce
  OBVIOUS
<1>2. PICK t : t = a.exporter
  OBVIOUS
<1>3. PICK u : u = a.id
  OBVIOUS
<1>4. PICK v : v = PutUint64(a.time)
  OBVIOUS
<1>5. PICK names : names = a.requested
  OBVIOUS
<1>6. PICK c : c = <<Len(names)>>
  BY Zenon
<1>7. s \in Seq(Nat) /\ t \in Seq(Nat) /\ u \in Seq(Nat) /\ names \in Seq(Seq(Nat))
  BY <1>1, <1>2, <1>3, <1>5, InputParts
<1>8. v \in Seq(Nat) /\ Len(v) = 2
  BY <1>4, InputParts, TimeBinds
<1>9. c \in Seq(Nat)
  BY <1>6, <1>7
<1>10. PICK p : p = Prefixed(s)
  OBVIOUS
<1>11. PICK q : q = Prefixed(t)
  OBVIOUS
<1>12. PICK r : r = Prefixed(u)
  OBVIOUS
<1>13. p \in Seq(Nat) /\ q \in Seq(Nat) /\ r \in Seq(Nat)
  BY <1>7, <1>10, <1>11, <1>12, PrefixedType
<1>14. PICK w : w = NameBytes(names)
  OBVIOUS
<1>15. w \in Seq(Nat)
  BY <1>7, <1>14, NameBytesType
<1>16. PICK b1 : b1 = AppendLengthPrefixed(<<>>, s)
  OBVIOUS
<1>17. b1 = p
  <2>1. <<>> \in Seq(Nat)
    OBVIOUS
  <2>2. b1 = Cat(<<>>, p)
    BY <1>7, <1>10, <1>16, <2>1, AppendIsCat, Zenon
  <2> QED
    BY <1>13, <2>2, CatLaws
<1>18. PICK b2 : b2 = AppendLengthPrefixed(b1, t)
  OBVIOUS
<1>19. b2 = Cat(p, q) /\ b2 \in Seq(Nat)
  BY <1>7, <1>11, <1>13, <1>17, <1>18, AppendIsCat, CatLaws
<1>20. PICK b3 : b3 = AppendLengthPrefixed(b2, u)
  OBVIOUS
<1>21. b3 = Cat(b2, r) /\ b3 \in Seq(Nat)
  BY <1>7, <1>12, <1>13, <1>19, <1>20, AppendIsCat, CatLaws
<1>22. PICK b4 : b4 = Cat(Cat(b3, v), c)
  OBVIOUS
<1>23. Cat(b3, v) \in Seq(Nat)
  BY <1>8, <1>21, CatLaws
<1>24. b4 \in Seq(Nat)
  BY <1>9, <1>22, <1>23, CatLaws
<1>25. PQSigningInput(a) = AppendNames(b4, names)
  BY <1>1, <1>2, <1>3, <1>4, <1>5, <1>6, <1>16, <1>18, <1>20, <1>22, Zenon DEF PQSigningInput, Cat
<1>26. AppendNames(b4, names) = Cat(b4, w)
  BY <1>7, <1>14, <1>24, AppendNamesIsCat
<1>27. Cat(b4, w) = Cat(b3, Cat(v, Cat(c, w)))
  BY <1>8, <1>9, <1>15, <1>21, <1>22, FourInARow
<1>28. PICK z : z = Cat(v, Cat(c, w))
  OBVIOUS
<1>29. z \in Seq(Nat)
  <2>1. Cat(c, w) \in Seq(Nat)
    BY <1>9, <1>15, CatLaws
  <2> QED
    BY <1>8, <1>28, <2>1, CatLaws
<1>30. Cat(b3, z) = Cat(p, Cat(q, Cat(r, z)))
  BY <1>13, <1>19, <1>21, <1>29, FourInARow
<1>31. PQSigningInput(a) = Cat(p, Cat(q, Cat(r, z)))
  BY <1>25, <1>26, <1>27, <1>28, <1>30
<1>32. PQSigningInput(a) = Cat(Prefixed(s), Cat(Prefixed(t), Cat(Prefixed(u), Cat(v, Cat(<<Len(names)>>, NameBytes(names))))))
  BY <1>6, <1>10, <1>11, <1>12, <1>14, <1>28, <1>31, Zenon
<1>33. RequestOf(PQSigningInput(a), s, t, u, v, names)
  BY <1>7, <1>8, <1>32, Zenon DEF RequestOf
<1> QED
  BY <1>1, <1>2, <1>3, <1>4, <1>5, <1>33, Zenon

\* A request is determined by its bytes.
LEMMA RequestDetermined ==
  ASSUME NEW x, NEW s1, NEW t1, NEW u1, NEW v1, NEW n1, NEW s2, NEW t2, NEW u2, NEW v2, NEW n2,
         RequestOf(x, s1, t1, u1, v1, n1), RequestOf(x, s2, t2, u2, v2, n2)
  PROVE  s1 = s2 /\ t1 = t2 /\ u1 = u2 /\ v1 = v2 /\ n1 = n2
<1>1. /\ s1 \in Seq(Nat) /\ t1 \in Seq(Nat) /\ u1 \in Seq(Nat) /\ v1 \in Seq(Nat)
      /\ Len(v1) = 2 /\ n1 \in Seq(Seq(Nat))
      /\ s2 \in Seq(Nat) /\ t2 \in Seq(Nat) /\ u2 \in Seq(Nat) /\ v2 \in Seq(Nat)
      /\ Len(v2) = 2 /\ n2 \in Seq(Seq(Nat))
  BY DEF RequestOf
<1>2. PICK c1 : c1 = <<Len(n1)>>
  BY Zenon
<1>3. PICK c2 : c2 = <<Len(n2)>>
  BY Zenon
<1>4. /\ c1 \in Seq(Nat) /\ Len(c1) = 1 /\ c1[1] = Len(n1)
      /\ c2 \in Seq(Nat) /\ Len(c2) = 1 /\ c2[1] = Len(n2)
  BY <1>1, <1>2, <1>3
<1>5. NameBytes(n1) \in Seq(Nat) /\ NameBytes(n2) \in Seq(Nat)
  BY <1>1, NameBytesType
<1>6. PICK d1 : d1 = Cat(c1, NameBytes(n1))
  OBVIOUS
<1>7. PICK d2 : d2 = Cat(c2, NameBytes(n2))
  OBVIOUS
<1>8. d1 \in Seq(Nat) /\ d2 \in Seq(Nat)
  BY <1>4, <1>5, <1>6, <1>7, CatLaws
<1>9. PICK e1 : e1 = Cat(v1, d1)
  OBVIOUS
<1>10. PICK e2 : e2 = Cat(v2, d2)
  OBVIOUS
<1>11. e1 \in Seq(Nat) /\ e2 \in Seq(Nat)
  BY <1>1, <1>8, <1>9, <1>10, CatLaws
<1>12. PICK f1 : f1 = Cat(Prefixed(u1), e1)
  OBVIOUS
<1>13. PICK f2 : f2 = Cat(Prefixed(u2), e2)
  OBVIOUS
<1>14. f1 \in Seq(Nat) /\ f2 \in Seq(Nat)
  BY <1>1, <1>11, <1>12, <1>13, PrefixedType, CatLaws
<1>15. PICK g1 : g1 = Cat(Prefixed(t1), f1)
  OBVIOUS
<1>16. PICK g2 : g2 = Cat(Prefixed(t2), f2)
  OBVIOUS
<1>17. g1 \in Seq(Nat) /\ g2 \in Seq(Nat)
  BY <1>1, <1>14, <1>15, <1>16, PrefixedType, CatLaws
<1>18. x = Cat(Prefixed(s1), g1)
  BY <1>2, <1>6, <1>9, <1>12, <1>15, Zenon DEF RequestOf
<1>19. x = Cat(Prefixed(s2), g2)
  BY <1>3, <1>7, <1>10, <1>13, <1>16, Zenon DEF RequestOf
<1>20. s1 = s2 /\ g1 = g2
  <2>1. Cat(Prefixed(s1), g1) = Cat(Prefixed(s2), g2)
    BY <1>18, <1>19
  <2> QED
    BY <1>1, <1>17, <2>1, PrefixedCancel
<1>21. t1 = t2 /\ f1 = f2
  <2>1. Cat(Prefixed(t1), f1) = Cat(Prefixed(t2), f2)
    BY <1>15, <1>16, <1>20
  <2> QED
    BY <1>1, <1>14, <2>1, PrefixedCancel
<1>22. u1 = u2 /\ e1 = e2
  <2>1. Cat(Prefixed(u1), e1) = Cat(Prefixed(u2), e2)
    BY <1>12, <1>13, <1>21
  <2> QED
    BY <1>1, <1>11, <2>1, PrefixedCancel
<1>23. v1 = v2 /\ d1 = d2
  BY <1>1, <1>8, <1>9, <1>10, <1>22, CatCancel, Zenon
<1>24. c1 = c2 /\ NameBytes(n1) = NameBytes(n2)
  <2>1. Cat(c1, NameBytes(n1)) = Cat(c2, NameBytes(n2))
    BY <1>6, <1>7, <1>23
  <2> QED
    BY <1>4, <1>5, <2>1, CatCancel
<1>25. n1 = n2
  BY <1>1, <1>4, <1>24, NamesBind
<1> QED
  BY <1>20, <1>21, <1>22, <1>23, <1>25

\* Inputs with the same fields are the same.
LEMMA SameFields ==
  ASSUME NEW A, NEW B, NEW C, NEW D, NEW E,
         NEW a \in [nonce : A, exporter : B, id : C, time : D, requested : E],
         NEW b \in [nonce : A, exporter : B, id : C, time : D, requested : E],
         a.nonce = b.nonce, a.exporter = b.exporter, a.id = b.id, a.time = b.time,
         a.requested = b.requested
  PROVE  a = b
OBVIOUS

\* What the post-quantum key signs.
LEMMA PQSigningInputBinds ==
  ASSUME NEW a \in Auths, NEW b \in Auths, PQSigningInput(a) = PQSigningInput(b)
  PROVE  a = b
<1>1. PICK x : x = PQSigningInput(a)
  OBVIOUS
<1>2. RequestOf(x, a.nonce, a.exporter, a.id, PutUint64(a.time), a.requested)
  BY <1>1, PQSigningInputParts
<1>3. RequestOf(x, b.nonce, b.exporter, b.id, PutUint64(b.time), b.requested)
  BY <1>1, PQSigningInputParts
<1>4. /\ a.nonce = b.nonce /\ a.exporter = b.exporter /\ a.id = b.id
      /\ PutUint64(a.time) = PutUint64(b.time) /\ a.requested = b.requested
  BY <1>2, <1>3, RequestDetermined
<1>5. a.time = b.time
  BY <1>4, InputParts, TimeBinds
<1>6. a \in Input /\ b \in Input
  BY AuthsAssumption
<1> QED
  BY <1>4, <1>5, <1>6, SameFields, Zenon DEF Input

-----------------------------------------------------------------------------
(* The clock.                                                              *)

\* Values that fit are not changed by the arithmetic of the type.
LEMMA WrapKeeps ==
  ASSUME NEW n \in Int, Within(n, MaxInt)
  PROVE  Wrap(n) = n
<1>1. MaxInt \in Nat
  BY ClockAssumption
<1>2. -MaxInt <= n /\ n <= MaxInt
  BY DEF Within
<1>3. (n + MaxInt + 1) % (2 * (MaxInt + 1)) = n + MaxInt + 1
  BY <1>1, <1>2
<1> QED
  BY <1>1, <1>3 DEF Wrap

\* Time.Sub gives the difference of the clocks when it is representable.
LEMMA SubExact ==
  ASSUME NEW t \in Nows, NEW a \in Auths, Within(Skew(t, a.time), MaxInt)
  PROVE  Sub(t, a.time) = Skew(t, a.time) /\ Skew(t, a.time) \in Int
<1>1. /\ MaxInt \in Nat /\ Second \in Nat /\ Epoch \in Nat
      /\ t[1] \in Int /\ t[2] \in Int /\ a.time \in Int
  BY ClockAssumption, NowsAssumption
<1>2. Wrap(a.time + Epoch) = a.time + Epoch
  <2>1. Within(a.time + Epoch, MaxInt)
    BY NowsAssumption
  <2>2. a.time + Epoch \in Int
    BY <1>1
  <2> QED
    BY <2>1, <2>2, WrapKeeps
<1>3. t[1] + Epoch - Wrap(a.time + Epoch) = t[1] - a.time
  BY <1>1, <1>2
<1>4. (t[1] + Epoch - Wrap(a.time + Epoch)) * Second + t[2] = Skew(t, a.time)
  BY <1>3 DEF Skew
<1>5. Skew(t, a.time) \in Int
  BY <1>1 DEF Skew
<1>6. -MaxInt <= Skew(t, a.time) /\ Skew(t, a.time) <= MaxInt
  BY DEF Within
<1> QED
  BY <1>1, <1>4, <1>5, <1>6 DEF Sub

\* The test of CheckClockSkew is the window, both of its ends included.
LEMMA CheckExact ==
  ASSUME NEW t \in Nows, NEW a \in Auths, Within(Skew(t, a.time), MaxInt)
  PROVE  CheckClockSkew(t, a.time) <=> Within(Skew(t, a.time), MaxClockSkew)
<1> DEFINE d == Skew(t, a.time)
<1>1. Sub(t, a.time) = d /\ d \in Int
  BY SubExact
<1>2. MaxInt \in Nat /\ MaxClockSkew \in Nat
  BY ClockAssumption
<1>3. -d \in Int /\ Within(-d, MaxInt)
  BY <1>1, <1>2 DEF Within
<1>4. Wrap(-d) = -d
  BY <1>3, WrapKeeps
<1>5. Abs(d) = IF d < 0 THEN -d ELSE d
  BY <1>4 DEF Abs
<1>6. ~(Abs(d) > MaxClockSkew) <=> Within(d, MaxClockSkew)
  <2> HIDE DEF d
  <2> QED
    BY <1>1, <1>2, <1>5 DEF Within
<1> QED
  BY <1>1, <1>6 DEF CheckClockSkew

-----------------------------------------------------------------------------
\* What has been received is one of the inputs.
InputInv == auth # None => auth \in Auths /\ now \in Nows

\* It stays so.
LEMMA InputInvariant == InputSpec => []InputInv
<1>1. InputInit => InputInv
  BY DEF InputInit, InputInv
<1>2. InputInv /\ [InputNext]_inputVars => InputInv'
  BY DEF InputInv, InputNext, Receive, inputVars
<1> QED
  BY <1>1, <1>2, PTL DEF InputSpec

\* CheckClockSkew admits exactly the client times within MaxClockSkew of the
\* server's clock, as long as their difference fits in a time.Duration.
THEOREM SkewIsExact == InputSpec => []SkewExact
<1>1. InputInv => SkewExact
  BY CheckExact DEF InputInv, SkewExact
<1> QED
  BY <1>1, InputInvariant, PTL

\* Two requests that differ, in the nonce, the exported keying material, the
\* id, the time or the requested services, never have the same bytes under the
\* post-quantum signature; nor under the ed25519 signature, in the parts that
\* it covers.  The lengths are not bounded.
THEOREM BytesDetermineRequest == InputSpec => []InputsBind
<1>1. ASSUME InputInv
      PROVE  InputsBind
  <2> SUFFICES ASSUME auth # None, NEW a \in Auths
               PROVE  /\ SigningInput(a) = SigningInput(auth) =>
                           /\ a.nonce = auth.nonce /\ a.exporter = auth.exporter
                           /\ a.id = auth.id /\ a.time = auth.time
                      /\ PQSigningInput(a) = PQSigningInput(auth) => a = auth
    BY DEF InputsBind
  <2>1. PICK b : b = auth
    OBVIOUS
  <2>2. b \in Auths
    BY <1>1, <2>1 DEF InputInv
  <2>3. SigningInput(a) = SigningInput(b) =>
          a.nonce = b.nonce /\ a.exporter = b.exporter /\ a.id = b.id /\ a.time = b.time
    BY <2>2, SigningInputBinds
  <2>4. PQSigningInput(a) = PQSigningInput(b) => a = b
    BY <2>2, PQSigningInputBinds
  <2> QED
    BY <2>1, <2>3, <2>4
<1> QED
  BY <1>1, InputInvariant, PTL

=============================================================================

-------------------------- MODULE ConnectionProofs --------------------------
(***************************************************************************)
(* What FrameMessage makes of a message and what the two readers find in a *)
(* stream of such frames; the connection's safety properties, and that     *)
(* each direction is a FifoChannel: for every size of header, fragment,    *)
(* message and socket buffer.                                              *)
(***************************************************************************)
EXTENDS Connection, TLAPS

\* Who tries a leaf that names no prover: SMT, then Zenon, then SMT with more time.  Leaves whose
\* goal leads SMT astray name Zenon, with a second attempt that has more time.
USE SMTT(20), ZenonT(20), Z3T(60)

Byte == {"body", "header"} \X Nat \X Nat \X Nat

\* The size of a full frame.
Full == frame_header_size + max_message_size

-----------------------------------------------------------------------------
(***************************************************************************)
(* Bytes.                                                                  *)
(***************************************************************************)

\* An encoding is a sequence of bytes that decodes.
LEMMA EncodingFacts ==
    ASSUME NEW n \in Nat, NEW length \in Nat \ {0}
    PROVE  /\ Encoding(n, length) \in Seq(Byte)
           /\ Len(Encoding(n, length)) = length
           /\ Decodes(Encoding(n, length))
<1> DEFINE e == Encoding(n, length)
<1>1. \A i \in 1..length : <<"body", n, i, length>> \in Byte
  BY DEF Byte
<1>2. e \in Seq(Byte) /\ Len(e) = length
  BY <1>1 DEF Encoding
<1>3. e[1] = <<"body", n, 1, length>> /\ e # <<>>
  BY DEF Encoding
<1>4. e[1][2] = n /\ e[1][4] = length
  BY <1>3
<1> QED BY <1>2, <1>3, <1>4 DEF Decodes

\* A header is a sequence of bytes.
LEMMA HeaderFacts ==
    ASSUME NEW raw \in Nat
    PROVE  /\ HeaderBytes(raw) \in Seq(Byte)
           /\ Len(HeaderBytes(raw)) = frame_header_size
           /\ \A i \in 1..frame_header_size : HeaderBytes(raw)[i] = <<"header", raw, i, 0>>
<1>1. \A i \in 1..frame_header_size : <<"header", raw, i, 0>> \in Byte
  BY FramingAssumption DEF Byte
<1> QED BY <1>1, FramingAssumption DEF HeaderBytes

\* Taking the first bytes and leaving the rest.
LEMMA TakeFacts ==
    ASSUME NEW S, NEW s \in Seq(S), NEW k \in 0..Len(s)
    PROVE  /\ FirstBytes(s, k) \in Seq(S) /\ Len(FirstBytes(s, k)) = k
           /\ \A i \in 1..k : FirstBytes(s, k)[i] = s[i]
           /\ RestBytes(s, k) \in Seq(S) /\ Len(RestBytes(s, k)) = Len(s) - k
           /\ \A i \in 1..(Len(s) - k) : RestBytes(s, k)[i] = s[k + i]
<1>1. Smaller(k, Len(s)) = k /\ Len(s) \in Nat /\ \A i \in 1..Len(s) : s[i] \in S
  BY DEF Smaller
<1>2. FirstBytes(s, k) = SubSeq(s, 1, k)
  BY <1>1 DEF FirstBytes
<1>3. /\ SubSeq(s, 1, k) \in Seq(S) /\ Len(SubSeq(s, 1, k)) = k
      /\ \A i \in 1..k : SubSeq(s, 1, k)[i] = s[i]
  BY <1>1
<1>4. /\ SubSeq(s, k + 1, Len(s)) \in Seq(S) /\ Len(SubSeq(s, k + 1, Len(s))) = Len(s) - k
      /\ \A i \in 1..(Len(s) - k) : SubSeq(s, k + 1, Len(s))[i] = s[k + i]
  BY <1>1
<1> QED BY <1>2, <1>3, <1>4 DEF RestBytes

\* Two sequences with the same elements.
LEMMA SameSeq ==
    ASSUME NEW S, NEW s \in Seq(S), NEW t \in Seq(S), Len(s) = Len(t),
           \A i \in 1..Len(s) : s[i] = t[i]
    PROVE  s = t
OBVIOUS

\* One sequence after another.
LEMMA ConcatFacts ==
    ASSUME NEW S, NEW s \in Seq(S), NEW t \in Seq(S)
    PROVE  /\ s \o t \in Seq(S) /\ Len(s \o t) = Len(s) + Len(t)
           /\ Len(s) \in Nat /\ Len(t) \in Nat
           /\ \A i \in 1..Len(s) : (s \o t)[i] = s[i]
           /\ \A i \in 1..Len(t) : (s \o t)[Len(s) + i] = t[i]
           /\ \A i \in 1..Len(s) : s[i] \in S
<1>1. s \o t \in Seq(S) /\ Len(s \o t) = Len(s) + Len(t) /\ Len(s) \in Nat /\ Len(t) \in Nat
  OBVIOUS
<1>2. \A i \in 1..Len(s) : (s \o t)[i] = s[i] /\ s[i] \in S
  OBVIOUS
<1>3. \A i \in 1..Len(t) : (s \o t)[Len(s) + i] = t[i]
  OBVIOUS
<1> QED BY <1>1, <1>2, <1>3

\* Three sequences.
LEMMA ConcatAssoc ==
    ASSUME NEW a \in Seq(Byte), NEW b \in Seq(Byte), NEW c \in Seq(Byte)
    PROVE  (a \o b) \o c = a \o (b \o c)
OBVIOUS

\* Handing bytes on does not change the stream.
LEMMA TakeConcat ==
    ASSUME NEW a \in Seq(Byte), NEW s \in Seq(Byte), NEW b \in Seq(Byte), NEW k \in 0..Len(s)
    PROVE  /\ ((a \o FirstBytes(s, k)) \o RestBytes(s, k)) \o b = (a \o s) \o b
           /\ (b \o (a \o FirstBytes(s, k))) \o RestBytes(s, k) = (b \o a) \o s
<1>1. FirstBytes(s, k) \o RestBytes(s, k) = s
  <2>1. /\ FirstBytes(s, k) \in Seq(Byte) /\ Len(FirstBytes(s, k)) = k
        /\ \A i \in 1..k : FirstBytes(s, k)[i] = s[i]
        /\ RestBytes(s, k) \in Seq(Byte) /\ Len(RestBytes(s, k)) = Len(s) - k
        /\ \A i \in 1..(Len(s) - k) : RestBytes(s, k)[i] = s[k + i]
    BY TakeFacts
  <2> DEFINE f == FirstBytes(s, k)
             r == RestBytes(s, k)
  <2>2. /\ f \in Seq(Byte) /\ Len(f) = k /\ r \in Seq(Byte) /\ Len(r) = Len(s) - k
        /\ \A i \in 1..k : f[i] = s[i]
        /\ \A i \in 1..(Len(s) - k) : r[i] = s[k + i]
        /\ Len(s) \in Nat /\ k \in Nat /\ k <= Len(s)
    BY <2>1
  <2> HIDE DEF f, r
  <2>3. f \o r \in Seq(Byte) /\ Len(f \o r) = Len(s)
    <3>1. f \o r \in Seq(Byte) /\ Len(f \o r) = Len(f) + Len(r)
      BY <2>2, ConcatFacts, Zenon, ZenonT(60)
    <3> QED BY <3>1, <2>2
  <2>4. ASSUME NEW i \in 1..Len(s) PROVE (f \o r)[i] = s[i]
    <3>1. CASE i <= k
      BY <3>1, <2>2
    <3>2. CASE i > k
      <4>1. (f \o r)[i] = r[i - k] /\ i - k \in 1..(Len(s) - k)
        BY <3>2, <2>2
      <4>2. k + (i - k) = i
        OBVIOUS
      <4> QED BY <4>1, <4>2, <2>2
    <3>3. i \in Nat /\ (i <= k \/ i > k)
      BY <2>2
    <3> QED BY Zenon, ZenonT(60), <3>1, <3>2, <3>3
  <2>5. f \o r = s
    BY Zenon, ZenonT(60), <2>3, <2>4, SameSeq
  <2> QED BY <2>5 DEF f, r
<1>2. FirstBytes(s, k) \in Seq(Byte) /\ RestBytes(s, k) \in Seq(Byte)
  BY TakeFacts
<1>3. (a \o FirstBytes(s, k)) \o RestBytes(s, k) = a \o (FirstBytes(s, k) \o RestBytes(s, k))
  BY ZenonT(60), ZenonT(90), <1>2, ConcatAssoc
<1>4. (b \o (a \o FirstBytes(s, k))) \o RestBytes(s, k)
         = (b \o a) \o (FirstBytes(s, k) \o RestBytes(s, k))
  <2> DEFINE f == FirstBytes(s, k)
             r == RestBytes(s, k)
             d == b \o a
  <2> HIDE DEF f, r
  <2>1. f \in Seq(Byte) /\ r \in Seq(Byte) /\ d \in Seq(Byte)
    BY <1>2 DEF f, r
  <2>2. b \o (a \o f) = d \o f
    BY ZenonT(60), ZenonT(90), <2>1, ConcatAssoc
  <2> HIDE DEF d
  <2>3. (d \o f) \o r = d \o (f \o r)
    BY ZenonT(60), ZenonT(90), <2>1, ConcatAssoc
  <2> QED BY <2>2, <2>3 DEF f, r, d
<1> QED BY <1>1, <1>3, <1>4

\* Moving the first bytes of s behind a, with b in front.
LEMMA TakeThrough ==
    ASSUME NEW b \in Seq(Byte), NEW a \in Seq(Byte), NEW s \in Seq(Byte), NEW k \in 0..Len(s)
    PROVE  (b \o (a \o FirstBytes(s, k))) \o RestBytes(s, k) = (b \o a) \o s
BY TakeConcat, ZenonT(60), ZenonT(90)

\* Taking from the first of two sequences.
LEMMA TakeLeft ==
    ASSUME NEW a \in Seq(Byte), NEW t \in Seq(Byte), NEW k \in 0..Len(a)
    PROVE  /\ FirstBytes(a \o t, k) = FirstBytes(a, k)
           /\ RestBytes(a \o t, k) = RestBytes(a, k) \o t
<1> DEFINE u == a \o t
           f == FirstBytes(a, k)
           r == RestBytes(a, k)
           f2 == FirstBytes(u, k)
           r2 == RestBytes(u, k)
<1>1. /\ u \in Seq(Byte) /\ Len(u) = Len(a) + Len(t) /\ Len(a) \in Nat /\ Len(t) \in Nat
      /\ \A i \in 1..Len(a) : u[i] = a[i]
      /\ \A i \in 1..Len(t) : u[Len(a) + i] = t[i]
  BY ConcatFacts
<1>2. /\ f \in Seq(Byte) /\ Len(f) = k /\ \A i \in 1..k : f[i] = a[i]
      /\ r \in Seq(Byte) /\ Len(r) = Len(a) - k /\ \A i \in 1..(Len(a) - k) : r[i] = a[k + i]
  BY TakeFacts
<1> HIDE DEF u
<1>3. k \in 0..Len(u) /\ k \in Nat
  BY <1>1
<1>4. /\ f2 \in Seq(Byte) /\ Len(f2) = k /\ \A i \in 1..k : f2[i] = u[i]
      /\ r2 \in Seq(Byte) /\ Len(r2) = Len(u) - k /\ \A i \in 1..(Len(u) - k) : r2[i] = u[k + i]
  BY ZenonT(60), ZenonT(90), <1>1, <1>3, TakeFacts
<1> HIDE DEF f, r, f2, r2
<1>5. f2 = f
  <2>1. \A i \in 1..k : i \in 1..Len(a)
    BY <1>1
  <2> QED BY <2>1, <1>1, <1>2, <1>4, SameSeq
<1> DEFINE v == r \o t
<1>6. /\ v \in Seq(Byte) /\ Len(v) = Len(r) + Len(t)
      /\ \A i \in 1..Len(r) : v[i] = r[i]
      /\ \A i \in 1..Len(t) : v[Len(r) + i] = t[i]
  <2>1. r \in Seq(Byte)
    BY <1>2
  <2> QED BY <2>1, ConcatFacts
<1> HIDE DEF v
<1>7. r2 = v
  <2>1. Len(r2) = Len(v) /\ Len(v) = (Len(a) - k) + Len(t)
    BY <1>1, <1>2, <1>3, <1>4, <1>6
  <2>2. ASSUME NEW i \in 1..Len(r2) PROVE r2[i] = v[i]
    <3>0. i \in Nat /\ i >= 1 /\ i <= (Len(a) - k) + Len(t) /\ k + i \in 1..Len(u)
      BY <2>1, <1>1, <1>3
    <3>1. CASE i <= Len(a) - k
      <4>1. i \in 1..(Len(a) - k) /\ i \in 1..(Len(u) - k) /\ k + i \in 1..Len(a)
        BY <3>0, <3>1, <1>1, <1>3
      <4> QED BY <4>1, <1>1, <1>2, <1>4, <1>6
    <3>2. CASE i > Len(a) - k
      <4> DEFINE d == i - (Len(a) - k)
      <4>1. /\ d \in 1..Len(t) /\ k + i = Len(a) + d /\ (Len(a) - k) + d = i
            /\ i \in 1..(Len(u) - k)
        BY <3>0, <3>2, <1>1, <1>3
      <4> HIDE DEF d
      <4>2. r2[i] = u[k + i] /\ u[Len(a) + d] = t[d]
        BY <4>1, <1>1, <1>4
      <4>3. v[Len(r) + d] = t[d] /\ Len(r) + d = i
        BY <4>1, <1>2, <1>6
      <4> QED BY <4>1, <4>2, <4>3
    <3>3. i <= Len(a) - k \/ i > Len(a) - k
      BY <3>0, <1>1, <1>3
    <3> QED BY <3>1, <3>2, <3>3
  <2> QED BY Zenon, ZenonT(60), <2>1, <2>2, <1>4, <1>6, SameSeq
<1> QED BY <1>5, <1>7 DEF f, f2, r2, u, v, r

\* Taking the first of two sequences and from the second.
LEMMA TakeRight ==
    ASSUME NEW a \in Seq(Byte), NEW t \in Seq(Byte), NEW k \in 0..Len(t)
    PROVE  /\ FirstBytes(a \o t, Len(a) + k) = a \o FirstBytes(t, k)
           /\ RestBytes(a \o t, Len(a) + k) = RestBytes(t, k)
           /\ Len(a) + k \in 0..Len(a \o t)
<1> DEFINE u == a \o t
           n == Len(a) + k
           f == FirstBytes(t, k)
           r == RestBytes(t, k)
           f2 == FirstBytes(u, n)
           r2 == RestBytes(u, n)
           v == a \o f
<1>1. /\ u \in Seq(Byte) /\ Len(u) = Len(a) + Len(t) /\ Len(a) \in Nat /\ Len(t) \in Nat
      /\ \A i \in 1..Len(a) : u[i] = a[i]
      /\ \A i \in 1..Len(t) : u[Len(a) + i] = t[i]
  BY ConcatFacts
<1>2. /\ f \in Seq(Byte) /\ Len(f) = k /\ \A i \in 1..k : f[i] = t[i]
      /\ r \in Seq(Byte) /\ Len(r) = Len(t) - k /\ \A i \in 1..(Len(t) - k) : r[i] = t[k + i]
  BY TakeFacts
<1> HIDE DEF u, f, r
<1>3. /\ v \in Seq(Byte) /\ Len(v) = Len(a) + Len(f)
      /\ \A i \in 1..Len(a) : v[i] = a[i]
      /\ \A i \in 1..Len(f) : v[Len(a) + i] = f[i]
  <2>1. f \in Seq(Byte)
    BY <1>2
  <2> QED BY <2>1, ConcatFacts
<1> HIDE DEF v
<1>4. n \in 0..Len(u) /\ n \in Nat /\ k \in Nat
  BY <1>1
<1>5. n = Len(a) + k
  OBVIOUS
<1> HIDE DEF n
<1>6. /\ f2 \in Seq(Byte) /\ Len(f2) = n /\ \A i \in 1..n : f2[i] = u[i]
      /\ r2 \in Seq(Byte) /\ Len(r2) = Len(u) - n /\ \A i \in 1..(Len(u) - n) : r2[i] = u[n + i]
  BY ZenonT(60), ZenonT(90), <1>1, <1>4, TakeFacts
<1> HIDE DEF f2, r2
<1>7. f2 = v
  <2>1. Len(f2) = Len(v)
    BY <1>2, <1>3, <1>5, <1>6
  <2>2. ASSUME NEW i \in 1..n PROVE f2[i] = v[i]
    <3>1. CASE i <= Len(a)
      <4>1. i \in 1..Len(a)
        BY <3>1, <1>1, <1>4
      <4> QED BY <4>1, <1>1, <1>3, <1>6
    <3>2. CASE i > Len(a)
      <4> DEFINE d == i - Len(a)
      <4>1. d \in 1..k /\ d \in 1..Len(t) /\ Len(a) + d = i
        BY <3>2, <1>1, <1>4, <1>5
      <4> HIDE DEF d
      <4>2. f2[i] = t[d]
        BY <4>1, <1>1, <1>6
      <4>3. v[i] = t[d]
        BY <4>1, <1>2, <1>3
      <4> QED BY <4>2, <4>3
    <3>3. i <= Len(a) \/ i > Len(a)
      BY <1>1, <1>4
    <3> QED BY <3>1, <3>2, <3>3
  <2> QED BY <2>1, <2>2, <1>3, <1>6, SameSeq
<1>8. r2 = r
  <2>1. Len(r2) = Len(r) /\ Len(r2) = Len(t) - k
    BY <1>1, <1>2, <1>4, <1>5, <1>6
  <2>2. ASSUME NEW i \in 1..(Len(t) - k) PROVE r2[i] = r[i]
    <3>1. i \in 1..(Len(u) - n) /\ k + i \in 1..Len(t) /\ n + i = Len(a) + (k + i)
      BY <1>1, <1>4, <1>5
    <3>2. r2[i] = u[n + i] /\ r[i] = t[k + i]
      BY <3>1, <1>2, <1>6
    <3>3. u[Len(a) + (k + i)] = t[k + i]
      BY <3>1, <1>1, Zenon, ZenonT(60)
    <3> QED BY <3>1, <3>2, <3>3, Zenon, ZenonT(60)
  <2> QED BY Zenon, ZenonT(60), <2>1, <2>2, <1>2, <1>6, SameSeq
<1> QED BY <1>4, <1>7, <1>8 DEF f2, v, r2, r, n, u, f

\* Taking in two steps.
LEMMA TakeTwice ==
    ASSUME NEW a \in Seq(Byte), NEW k \in Nat, NEW l \in Nat, k + l <= Len(a)
    PROVE  RestBytes(RestBytes(a, k), l) = RestBytes(a, k + l)
<1> DEFINE r == RestBytes(a, k)
           t == RestBytes(r, l)
           u == RestBytes(a, k + l)
<1>1. Len(a) \in Nat /\ k \in 0..Len(a) /\ k + l \in 0..Len(a) /\ l \in 0..(Len(a) - k)
  OBVIOUS
<1>2. r \in Seq(Byte) /\ Len(r) = Len(a) - k /\ \A i \in 1..(Len(a) - k) : r[i] = a[k + i]
  BY <1>1, TakeFacts
<1>3. /\ u \in Seq(Byte) /\ Len(u) = Len(a) - (k + l)
      /\ \A i \in 1..(Len(a) - (k + l)) : u[i] = a[(k + l) + i]
  BY <1>1, TakeFacts
<1> HIDE DEF r, u
<1>4. l \in 0..Len(r)
  BY <1>1, <1>2
<1>5. t \in Seq(Byte) /\ Len(t) = Len(r) - l /\ \A i \in 1..(Len(r) - l) : t[i] = r[l + i]
  BY Zenon, ZenonT(60), <1>2, <1>4, TakeFacts
<1> HIDE DEF t
<1>6. Len(t) = Len(u) /\ Len(u) \in Nat
  BY <1>1, <1>2, <1>3, <1>5
<1>7. ASSUME NEW i \in 1..Len(t) PROVE t[i] = u[i]
  <2>1. /\ i \in 1..(Len(r) - l) /\ l + i \in 1..(Len(a) - k) /\ k + (l + i) = (k + l) + i
        /\ i \in 1..(Len(a) - (k + l))
    BY <1>1, <1>2, <1>3, <1>5, <1>6
  <2> QED BY Zenon, ZenonT(60), <2>1, <1>2, <1>3, <1>5
<1> QED BY <1>3, <1>5, <1>6, <1>7, SameSeq DEF t, u, r

-----------------------------------------------------------------------------
(***************************************************************************)
(* Frames.  Chunk is the length of a message's c-th fragment, MoreAfter    *)
(* whether another follows; there are Last fragments before the last one.  *)
(***************************************************************************)

Chunk(n, c) == Smaller(max_message_size, n - c * max_message_size)
MoreAfter(n, c) == c * max_message_size + Chunk(n, c) < n
Last(n) == (n - 1) \div max_message_size
FramedLength(n) == n + (Last(n) + 1) * frame_header_size
RawLength(n, c) == Chunk(n, c) + IF MoreAfter(n, c) THEN frame_more_flag ELSE 0

\* The quotient is the only number with its two bounds.
LEMMA Quotient ==
    ASSUME NEW n \in Nat, NEW x \in Nat \ {0}, NEW c \in Nat, c * x <= n, n < (c + 1) * x
    PROVE  n \div x = c
OBVIOUS

\* The quotient has them.
LEMMA QuotientBounds ==
    ASSUME NEW n \in Nat, NEW x \in Nat \ {0}
    PROVE  n \div x \in Nat /\ (n \div x) * x <= n /\ n < (n \div x + 1) * x
OBVIOUS

\* The fragments of FrameMessage's loop.
LEMMA Fragments ==
    ASSUME NEW n \in Nat \ {0}, NEW c \in Nat, c * max_message_size < n
    PROVE  /\ Chunk(n, c) \in 1..max_message_size
           /\ c * max_message_size + Chunk(n, c) <= n
           /\ MoreAfter(n, c) => /\ Chunk(n, c) = max_message_size
                                /\ (c + 1) * max_message_size < n
                                /\ c + 1 <= Last(n)
           /\ ~MoreAfter(n, c) => /\ Chunk(n, c) = n - c * max_message_size
                                 /\ c = Last(n)
           /\ c <= Last(n)
           /\ Last(n) \in Nat
<1> DEFINE x == max_message_size
           p == c * x
           l == Last(n)
<1>x. x \in Nat \ {0}
  BY FramingAssumption
<1> HIDE DEF x
<1>p. p \in Nat /\ (c + 1) * x = p + x /\ p < n
  BY <1>x DEF x
<1>l. l \in Nat /\ l * x <= n - 1 /\ n - 1 < (l + 1) * x
  BY <1>x, QuotientBounds DEF Last, x
<1>1. Chunk(n, c) = IF x < n - p THEN x ELSE n - p
  BY DEF Chunk, Smaller, x
<1>2. Chunk(n, c) \in 1..x /\ p + Chunk(n, c) <= n
  BY <1>1, <1>x, <1>p
<1>3. MoreAfter(n, c) <=> p + Chunk(n, c) < n
  BY DEF MoreAfter, x
<1>4. MoreAfter(n, c) => Chunk(n, c) = x /\ (c + 1) * x < n
  BY <1>1, <1>3, <1>p, <1>x
<1>5. ~MoreAfter(n, c) => Chunk(n, c) = n - p /\ n <= (c + 1) * x
  BY <1>1, <1>2, <1>3, <1>p, <1>x
<1>6. c <= l
  <2>1. c * x < (l + 1) * x
    BY <1>p, <1>l, <1>x
  <2> QED BY <2>1, <1>l, <1>x
<1>7. MoreAfter(n, c) => c + 1 <= l
  <2>1. MoreAfter(n, c) => (c + 1) * x < (l + 1) * x
    BY <1>4, <1>l, <1>x
  <2> QED BY <2>1, <1>l, <1>x
<1>8. ~MoreAfter(n, c) => c = l
  <2>1. ~MoreAfter(n, c) => c * x <= n - 1 /\ n - 1 < (c + 1) * x
    BY <1>5, <1>p, <1>x
  <2>2. n - 1 \in Nat
    OBVIOUS
  <2> QED BY <2>1, <2>2, <1>x, Quotient DEF Last, x
<1> QED BY <1>2, <1>4, <1>5, <1>6, <1>7, <1>8, <1>l, <1>p DEF x

\* Where they come to lie.
LEMMA FramePlace ==
    ASSUME NEW n \in Nat \ {0}, NEW c \in Nat, c * max_message_size < n
    PROVE  /\ c * Full + frame_header_size + Chunk(n, c) <= FramedLength(n)
           /\ MoreAfter(n, c) =>
                 c * Full + frame_header_size + Chunk(n, c) = (c + 1) * Full
           /\ ~MoreAfter(n, c) =>
                 c * Full + frame_header_size + Chunk(n, c) = FramedLength(n)
           /\ FramedLength(n) \in Nat \ {0}
           /\ Full \in Nat \ {0} /\ c * Full \in Nat
<1> DEFINE x == max_message_size
           h == frame_header_size
           l == Last(n)
           k == Chunk(n, c)
<1>x. x \in Nat \ {0} /\ h \in Nat \ {0}
  BY FramingAssumption
<1>1. /\ k \in 1..x /\ c * x + k <= n /\ c <= l /\ l \in Nat
      /\ MoreAfter(n, c) => k = x
      /\ ~MoreAfter(n, c) => k = n - c * x /\ c = l
  BY Fragments
<1>2. Full = h + x /\ FramedLength(n) = n + (l + 1) * h
  BY DEF Full, FramedLength
<1> HIDE DEF x, h, l, k
<1>3. c * (h + x) = c * h + c * x /\ c * h \in Nat /\ c * x \in Nat
  BY <1>x
<1>4. (c + 1) * h <= (l + 1) * h /\ (c + 1) * h = c * h + h /\ (l + 1) * h \in Nat
  BY <1>x, <1>1
<1>5. (c + 1) * (h + x) = c * h + c * x + h + x
  BY <1>x
<1>6. c * (h + x) + h + k <= n + (l + 1) * h
  BY <1>x, <1>1, <1>3, <1>4
<1>7. MoreAfter(n, c) => c * (h + x) + h + k = (c + 1) * (h + x)
  BY <1>x, <1>1, <1>3, <1>5
<1>8. ~MoreAfter(n, c) => c * (h + x) + h + k = n + (l + 1) * h
  BY <1>x, <1>1, <1>3, <1>4
<1>9. n + (l + 1) * h \in Nat \ {0} /\ h + x \in Nat \ {0} /\ c * (h + x) \in Nat
  BY <1>x, <1>3, <1>4
<1> QED BY <1>2, <1>6, <1>7, <1>8, <1>9 DEF x, h, k

\* One frame: a header with the fragment's length, then the fragment.
LEMMA FrameFacts ==
    ASSUME NEW b \in Seq(Byte), NEW c \in Nat, c * max_message_size < Len(b)
    PROVE  /\ Frame(b, c) \in Seq(Byte)
           /\ Len(Frame(b, c)) = frame_header_size + Chunk(Len(b), c)
           /\ \A k \in 1..frame_header_size :
                 Frame(b, c)[k] = <<"header", RawLength(Len(b), c), k, 0>>
           /\ \A k \in 1..Chunk(Len(b), c) :
                 Frame(b, c)[frame_header_size + k] = b[c * max_message_size + k]
<1> DEFINE n == Len(b)
           p == c * max_message_size
           k == Chunk(n, c)
           raw == RawLength(n, c)
           hd == HeaderBytes(raw)
           frag == SubSeq(b, p + 1, p + k)
<1>1. n \in Nat \ {0} /\ p \in Nat
  BY FramingAssumption
<1>2. k \in 1..max_message_size /\ p + k <= n
  BY <1>1, Fragments
<1>3. raw \in Nat
  BY <1>2, FramingAssumption DEF RawLength
<1>4. Frame(b, c) = hd \o frag
  BY DEF Frame, RawLength, Chunk, MoreAfter
<1> HIDE DEF raw, k, p, n
<1>5. /\ hd \in Seq(Byte) /\ Len(hd) = frame_header_size
      /\ \A i \in 1..frame_header_size : hd[i] = <<"header", raw, i, 0>>
  BY <1>3, HeaderFacts
<1>6. /\ frag \in Seq(Byte) /\ Len(frag) = k
      /\ \A i \in 1..k : frag[i] = b[p + i]
  BY <1>1, <1>2, FramingAssumption DEF n
<1> HIDE DEF hd, frag
<1>7. /\ hd \o frag \in Seq(Byte) /\ Len(hd \o frag) = frame_header_size + k
      /\ \A i \in 1..frame_header_size : (hd \o frag)[i] = hd[i]
      /\ \A i \in 1..k : (hd \o frag)[frame_header_size + i] = frag[i]
  <2>1. /\ hd \o frag \in Seq(Byte) /\ Len(hd \o frag) = Len(hd) + Len(frag)
        /\ \A i \in 1..Len(hd) : (hd \o frag)[i] = hd[i]
        /\ \A i \in 1..Len(frag) : (hd \o frag)[Len(hd) + i] = frag[i]
    <3>1. hd \in Seq(Byte) /\ frag \in Seq(Byte)
      BY <1>5, <1>6
    <3> QED BY <3>1, ConcatFacts
  <2> QED BY <2>1, <1>5, <1>6, Zenon, ZenonT(60)
<1> QED BY <1>4, <1>5, <1>6, <1>7, Zenon, ZenonT(60) DEF n, p, k, raw

\* The bytes of FrameMessage's result.
LEMMA FrameMessageFacts ==
    ASSUME NEW b \in Seq(Byte), Len(b) # 0
    PROVE  /\ FrameMessage(b) \in Seq(Byte)
           /\ Len(FrameMessage(b)) = FramedLength(Len(b))
           /\ FramedLength(Len(b)) \in Nat \ {0}
<1> DEFINE n == Len(b)
           l == Last(n)
           h == frame_header_size
           x == max_message_size
           total == n + (l + 1) * h
           C(k) == (k - 1) \div Full
           Elt(k) == Frame(b, C(k))[k - C(k) * Full]
<1>1. n \in Nat \ {0} /\ b # <<>>
  OBVIOUS
<1>2. FrameMessage(b) = [k \in 1..total |-> Elt(k)]
  BY <1>1 DEF FrameMessage, Last, Full
<1>3. x \in Nat \ {0} /\ h \in Nat \ {0} /\ Full = h + x /\ Full \in Nat \ {0}
  BY FramingAssumption DEF Full
<1>4. l \in Nat /\ l * x <= n - 1 /\ n - 1 < (l + 1) * x
  BY <1>1, <1>3, QuotientBounds DEF Last
<1>5. total \in Nat \ {0} /\ FramedLength(n) = total
  BY <1>1, <1>3, <1>4 DEF FramedLength
<1>6. ASSUME NEW k \in 1..total PROVE Elt(k) \in Byte
  <2> DEFINE c == C(k)
             r == k - c * Full
  <2>1. c \in Nat /\ c * Full <= k - 1 /\ k - 1 < (c + 1) * Full
    <3>1. k - 1 \in Nat
      BY <1>5
    <3> QED BY <3>1, <1>3, QuotientBounds, Zenon, ZenonT(60)
  <2> HIDE DEF c, x, h, n, l
  <2>2. c <= l
    <3> SUFFICES ASSUME c >= l + 1 PROVE FALSE
      BY <2>1, <1>4
    <3>1. (l + 1) * Full <= c * Full
      BY <2>1, <1>3, <1>4
    <3>2. (l + 1) * Full = (l + 1) * h + (l + 1) * x
      BY <1>3, <1>4
    <3>3. (l + 1) * x \in Nat /\ (l + 1) * h \in Nat /\ c * Full \in Nat
      BY <1>3, <1>4, <2>1
    <3>4. k <= n + (l + 1) * h /\ k \in Nat
      BY <1>5
    <3> QED BY <3>1, <3>2, <3>3, <3>4, <2>1, <1>4, <1>1
  <2>3. c * x < n
    <3>1. c * x <= l * x /\ l * x \in Nat /\ c * x \in Nat
      BY <2>1, <2>2, <1>3, <1>4
    <3> QED BY <3>1, <1>4, <1>1
  <2>4. /\ Frame(b, c) \in Seq(Byte)
        /\ Len(Frame(b, c)) = h + Chunk(n, c)
    BY <2>1, <2>3, FrameFacts DEF h, x, n
  <2>5. /\ MoreAfter(n, c) => c * Full + h + Chunk(n, c) = (c + 1) * Full
        /\ ~MoreAfter(n, c) => c * Full + h + Chunk(n, c) = total
        /\ Chunk(n, c) \in Nat /\ c * Full \in Nat
    <3>1. /\ MoreAfter(n, c) => c * Full + h + Chunk(n, c) = (c + 1) * Full
          /\ ~MoreAfter(n, c) => c * Full + h + Chunk(n, c) = FramedLength(n)
          /\ c * Full \in Nat
      BY <1>1, <2>1, <2>3, FramePlace, Zenon, ZenonT(60) DEF h, x
    <3>2. Chunk(n, c) \in 1..x
      BY <1>1, <2>1, <2>3, Fragments, Zenon, ZenonT(60) DEF x
    <3> QED BY <3>1, <3>2, <1>3, <1>5
  <2>6. r \in 1..(h + Chunk(n, c))
    <3>1. k <= c * Full + h + Chunk(n, c)
      <4>1. CASE MoreAfter(n, c)
        BY <4>1, <2>5, <2>1, <1>3
      <4>2. CASE ~MoreAfter(n, c)
        BY <4>2, <2>5
      <4> QED BY <4>1, <4>2
    <3> QED BY <3>1, <2>1, <2>5, <1>3, <1>5
  <2>7. Frame(b, c)[r] \in Byte
    BY <2>4, <2>6
  <2> QED BY <2>7 DEF c
<1> HIDE DEF Elt, total
<1>7. [k \in 1..total |-> Elt(k)] \in Seq(Byte) /\ Len([k \in 1..total |-> Elt(k)]) = total
  BY <1>5, <1>6
<1> QED BY <1>2, <1>5, <1>7 DEF total

\* The c-th frame of the result.
LEMMA FramedBytes ==
    ASSUME NEW b \in Seq(Byte), NEW c \in Nat, c * max_message_size < Len(b)
    PROVE  /\ \A k \in 1..frame_header_size :
                 FrameMessage(b)[c * Full + k] = <<"header", RawLength(Len(b), c), k, 0>>
           /\ \A k \in 1..Chunk(Len(b), c) :
                 FrameMessage(b)[c * Full + frame_header_size + k]
                    = b[c * max_message_size + k]
<1> DEFINE n == Len(b)
           h == frame_header_size
           x == max_message_size
           ch == Chunk(n, c)
           total == n + (Last(n) + 1) * h
           C(k) == (k - 1) \div Full
           Elt(k) == Frame(b, C(k))[k - C(k) * Full]
<1>1. n \in Nat \ {0} /\ b # <<>>
  BY FramingAssumption
<1>2. FrameMessage(b) = [k \in 1..total |-> Elt(k)]
  BY <1>1 DEF FrameMessage, Last, Full
<1>3. x \in Nat \ {0} /\ h \in Nat \ {0} /\ Full = h + x /\ Full \in Nat \ {0}
  BY FramingAssumption DEF Full
<1>4. /\ c * Full + h + ch <= FramedLength(n) /\ FramedLength(n) \in Nat \ {0}
      /\ c * Full \in Nat
  BY <1>1, FramePlace, Zenon, ZenonT(60)
<1>5. ch \in 1..x
  BY <1>1, Fragments, Zenon, ZenonT(60)
<1>6. FramedLength(n) = total
  BY DEF FramedLength
<1>7. ASSUME NEW k \in 1..(h + ch)
      PROVE  FrameMessage(b)[c * Full + k] = Frame(b, c)[k]
  <2> DEFINE i == c * Full + k
  <2> HIDE DEF total, ch, n, h, x
  <2>1. i \in 1..total /\ k \in Nat /\ i - 1 \in Nat
    BY <1>3, <1>4, <1>5, <1>6
  <2>2. C(i) = c
    <3>1. (c + 1) * Full = c * Full + Full
      BY <1>3
    <3>2. c * Full <= i - 1 /\ i - 1 < (c + 1) * Full
      BY <3>1, <1>3, <1>4, <1>5
    <3> QED BY Zenon, ZenonT(60), <3>2, <2>1, <1>3, Quotient
  <2>3. i - C(i) * Full = k
    BY <2>1, <2>2, <1>4
  <2>4. FrameMessage(b)[i] = Elt(i)
    <3> HIDE DEF Elt, i
    <3> QED BY <2>1, <1>2
  <2> QED BY <2>2, <2>3, <2>4
<1>8. /\ \A k \in 1..h : Frame(b, c)[k] = <<"header", RawLength(n, c), k, 0>>
      /\ \A k \in 1..ch : Frame(b, c)[h + k] = b[c * x + k]
  BY FrameFacts
<1>9. ASSUME NEW k \in 1..h
      PROVE  FrameMessage(b)[c * Full + k] = <<"header", RawLength(n, c), k, 0>>
  <2>1. k \in 1..(h + ch)
    BY <1>3, <1>5
  <2> QED BY <2>1, <1>7, <1>8
<1>10. ASSUME NEW k \in 1..ch
       PROVE  FrameMessage(b)[c * Full + h + k] = b[c * x + k]
  <2>1. h + k \in 1..(h + ch) /\ c * Full + (h + k) = c * Full + h + k
    BY <1>3, <1>4, <1>5
  <2> QED BY <2>1, <1>7, <1>8
<1> QED BY <1>9, <1>10

-----------------------------------------------------------------------------
(***************************************************************************)
(* A stream of framed messages.  start[j] bytes come before message j, and *)
(* used of them all have been read: what is left is s.                     *)
(***************************************************************************)

Messages == {sent \in Seq(Seq(Byte)) : \A j \in 1..Len(sent) : Len(sent[j]) # 0}

\* Every message is framed as FrameMessageFacts says.
LEMMA MessageFacts ==
    ASSUME NEW sent \in Messages, NEW j \in 1..Len(sent)
    PROVE  /\ sent[j] \in Seq(Byte) /\ Len(sent[j]) \in Nat \ {0}
           /\ FrameMessage(sent[j]) \in Seq(Byte)
           /\ Len(FrameMessage(sent[j])) = FramedLength(Len(sent[j]))
           /\ Len(FrameMessage(sent[j])) \in Nat \ {0}
<1>1. sent[j] \in Seq(Byte) /\ Len(sent[j]) # 0
  BY DEF Messages
<1>2. Len(sent[j]) \in Nat
  BY <1>1
<1> QED BY <1>1, <1>2, FrameMessageFacts

\* The first m messages, one after the other.
Layout(sent, m, start) ==
    \A j \in 1..m :
        /\ start[j + 1] = start[j] + Len(FrameMessage(sent[j]))
        /\ start[j + 1] <= start[m + 1]

\* s is the part of them after the first used bytes.
Holds(s, sent, m, start, used) ==
    /\ used + Len(s) <= start[m + 1]
    /\ \A j \in 1..m : \A k \in 1..Len(FrameMessage(sent[j])) :
          \A i \in 1..Len(s) : used + i = start[j] + k => s[i] = FrameMessage(sent[j])[k]

\* The reader has g messages, c fragments of the next, which are body, and extra
\* bytes of the frame after them.
Position(sent, m, g, body, extra, start, used, c) ==
    /\ used = start[g + 1] + c * Full + extra
    /\ Len(body) = c * max_message_size
    /\ g = m => c = 0 /\ extra = 0
    /\ g < m => /\ c * max_message_size < Len(sent[g + 1])
                /\ \A i \in 1..(c * max_message_size) : body[i] = sent[g + 1][i]

\* What is left to read, of m messages.  All of it is there when whole.
Reading(s, sent, m, g, body, extra, whole) ==
    \E start \in [1..(m + 1) -> Nat], used \in Nat, c \in Nat :
        /\ Layout(sent, m, start)
        /\ Holds(s, sent, m, start, used)
        /\ Position(sent, m, g, body, extra, start, used, c)
        /\ whole => used + Len(s) = start[m + 1]

\* Before the first message.
LEMMA NothingToRead ==
    Reading(<<>>, <<>>, 0, 0, <<>>, 0, TRUE)
<1> DEFINE start == [j \in 1..(0 + 1) |-> 0]
<1>1. start \in [1..(0 + 1) -> Nat] /\ start[0 + 1] = 0
  OBVIOUS
<1>2. 0 * Full = 0 /\ 0 * max_message_size = 0
  BY FramingAssumption DEF Full
<1> HIDE DEF start
<1>3. Layout(<<>>, 0, start)
  BY DEF Layout
<1>4. Holds(<<>>, <<>>, 0, start, 0)
  BY <1>1 DEF Holds
<1>5. Position(<<>>, 0, 0, <<>>, 0, start, 0, 0)
  BY <1>1, <1>2 DEF Position
<1>6. 0 + Len(<<>>) = start[0 + 1] /\ 0 \in Nat
  BY <1>1
<1> QED BY <1>1, <1>3, <1>4, <1>5, <1>6 DEF Reading

\* The messages that are not in the stream do not matter.
LEMMA ReadingSame ==
    ASSUME NEW s, NEW sent, NEW sent2, NEW m \in Nat, NEW g \in 0..m, NEW body, NEW extra,
           NEW whole, \A j \in 1..m : sent2[j] = sent[j],
           Reading(s, sent, m, g, body, extra, whole)
    PROVE  Reading(s, sent2, m, g, body, extra, whole)
<1> PICK start \in [1..(m + 1) -> Nat], used \in Nat, c \in Nat :
        /\ Layout(sent, m, start)
        /\ Holds(s, sent, m, start, used)
        /\ Position(sent, m, g, body, extra, start, used, c)
        /\ whole => used + Len(s) = start[m + 1]
  BY DEF Reading
<1>1. Layout(sent2, m, start)
  BY Zenon, ZenonT(60) DEF Layout
<1>2. Holds(s, sent2, m, start, used)
  <2>1. used + Len(s) <= start[m + 1]
    BY Zenon, ZenonT(60) DEF Holds
  <2>2. ASSUME NEW j \in 1..m, NEW k \in 1..Len(FrameMessage(sent2[j])), NEW i \in 1..Len(s),
               used + i = start[j] + k
        PROVE  s[i] = FrameMessage(sent2[j])[k]
    <3>1. sent2[j] = sent[j]
      BY Zenon, ZenonT(60)
    <3>2. k \in 1..Len(FrameMessage(sent[j]))
      BY Zenon, ZenonT(60), <3>1
    <3>3. s[i] = FrameMessage(sent[j])[k]
      BY Zenon, ZenonT(60), <2>2, <3>2 DEF Holds
    <3> QED BY Zenon, ZenonT(60), <3>1, <3>3
  <2> QED BY Zenon, ZenonT(60), <2>1, <2>2 DEF Holds
<1>3. Position(sent2, m, g, body, extra, start, used, c)
  <2>1. g < m => g + 1 \in 1..m
    OBVIOUS
  <2> QED BY <2>1 DEF Position
<1> QED BY Zenon, ZenonT(60), <1>1, <1>2, <1>3 DEF Reading

\* One more message at the end of a stream that is all there.
LEMMA ReadingAppend ==
    ASSUME NEW sent \in Messages, NEW m \in Nat, m + 1 <= Len(sent),
           NEW s \in Seq(Byte), NEW g \in 0..m, NEW body \in Seq(Byte), NEW extra \in Nat,
           Reading(s, sent, m, g, body, extra, TRUE)
    PROVE  Reading(s \o FrameMessage(sent[m + 1]), sent, m + 1, g, body, extra, TRUE)
<1> PICK start \in [1..(m + 1) -> Nat], used \in Nat, c \in Nat :
        /\ Layout(sent, m, start)
        /\ Holds(s, sent, m, start, used)
        /\ Position(sent, m, g, body, extra, start, used, c)
        /\ used + Len(s) = start[m + 1]
  BY Zenon, ZenonT(60) DEF Reading
<1> DEFINE f == FrameMessage(sent[m + 1])
           st2 == [j \in 1..(m + 1 + 1) |-> IF j <= m + 1 THEN start[j] ELSE start[m + 1] + Len(f)]
           t == s \o f
<1>1. sent[m + 1] \in Seq(Byte) /\ Len(sent[m + 1]) # 0
  BY DEF Messages
<1>2. f \in Seq(Byte) /\ Len(f) \in Nat
  BY <1>1, FrameMessageFacts
<1>3. /\ st2 \in [1..(m + 1 + 1) -> Nat]
      /\ \A j \in 1..(m + 1) : st2[j] = start[j] /\ start[j] \in Nat
      /\ st2[m + 1 + 1] = start[m + 1] + Len(f)
  <2> HIDE DEF f
  <2>1. \A j \in 1..(m + 1) : start[j] \in Nat
    OBVIOUS
  <2> QED BY <1>2, <2>1
<1>4. t \in Seq(Byte) /\ Len(t) = Len(s) + Len(f) /\ Len(s) \in Nat
      /\ (\A i \in 1..Len(s) : t[i] = s[i])
      /\ \A i \in 1..Len(f) : t[Len(s) + i] = f[i]
  BY <1>2, ConcatFacts
<1> HIDE DEF st2, t
<1>5. Layout(sent, m + 1, st2)
  <2> SUFFICES ASSUME NEW j \in 1..(m + 1)
               PROVE  /\ st2[j + 1] = st2[j] + Len(FrameMessage(sent[j]))
                      /\ st2[j + 1] <= st2[m + 1 + 1]
    BY Zenon, ZenonT(60) DEF Layout
  <2>1. CASE j = m + 1
    BY <2>1, <1>2, <1>3
  <2>2. CASE j \in 1..m
    <3>1. j + 1 \in 1..(m + 1) /\ j \in 1..(m + 1) /\ m + 1 \in 1..(m + 1)
      BY <2>2
    <3>2. start[j + 1] = start[j] + Len(FrameMessage(sent[j])) /\ start[j + 1] <= start[m + 1]
      BY Zenon, ZenonT(60), <2>2 DEF Layout
    <3>3. /\ st2[j + 1] = start[j + 1] /\ st2[j] = start[j]
          /\ start[j + 1] \in Nat /\ start[m + 1] \in Nat
      BY <3>1, <1>3
    <3>4. start[j + 1] <= start[m + 1] + Len(f)
      <4> DEFINE a == start[j + 1]
                 z == start[m + 1]
                 l == Len(f)
      <4>1. a \in Nat /\ z \in Nat /\ l \in Nat /\ a <= z
        BY <3>2, <3>3, <1>2
      <4> HIDE DEF a, z, l
      <4>2. a <= z + l
        BY <4>1
      <4> QED BY <4>2 DEF a, z, l
    <3> QED BY <3>2, <3>3, <3>4, <1>3
  <2> QED BY <2>1, <2>2
<1>6. used + Len(t) = st2[m + 1 + 1]
  <2> HIDE DEF f
  <2> QED BY <1>2, <1>3, <1>4
<1>7. Holds(t, sent, m + 1, st2, used)
  <2>1. used + Len(t) <= st2[m + 1 + 1]
    <3> HIDE DEF f
    <3> QED BY <1>2, <1>3, <1>4
  <2> SUFFICES ASSUME NEW j \in 1..(m + 1), NEW k \in 1..Len(FrameMessage(sent[j])),
                      NEW i \in 1..Len(t), used + i = st2[j] + k
               PROVE  t[i] = FrameMessage(sent[j])[k]
    BY <2>1 DEF Holds
  <2>2. CASE j = m + 1
    <3>1. k \in 1..Len(f) /\ FrameMessage(sent[j])[k] = f[k]
      BY <2>2
    <3> HIDE DEF f
    <3>2. i = Len(s) + k
      <4> DEFINE z == start[m + 1]
                 n == Len(s)
                 l == Len(f)
                 e == Len(t)
      <4>1. /\ z \in Nat /\ n \in Nat /\ l \in Nat /\ e \in Nat /\ k \in 1..l /\ i \in 1..e
            /\ used + i = z + k /\ used + n = z
        BY <3>1, <2>2, <1>2, <1>3, <1>4
      <4> HIDE DEF z, n, l, e
      <4>2. k \in Nat /\ i \in Nat /\ used + i = (used + n) + k
        <5>1. k \in Nat
          BY <4>1
        <5>2. i \in Nat
          BY <4>1
        <5>3. used + i = (used + n) + k
          BY <4>1, Zenon, ZenonT(60)
        <5> QED BY <5>1, <5>2, <5>3
      <4>3. i = n + k
        BY <4>1, <4>2
      <4> QED BY <4>3 DEF n
    <3> QED BY <3>1, <3>2, <1>4
  <2>3. CASE j \in 1..m
    <3> DEFINE fj == FrameMessage(sent[j])
    <3>1. j \in 1..Len(sent)
      BY <2>3 DEF Messages
    <3>2. Len(fj) \in Nat
      BY <3>1, MessageFacts
    <3>3. start[j + 1] = start[j] + Len(fj) /\ start[j + 1] <= start[m + 1]
      BY <2>3 DEF Layout
    <3> HIDE DEF fj, f
    <3>4. k \in 1..Len(fj)
      BY DEF fj
    <3>5. st2[j] = start[j] /\ start[j] \in Nat /\ start[m + 1] \in Nat
      <4>1. j \in 1..(m + 1) /\ m + 1 \in 1..(m + 1)
        BY <2>3
      <4> QED BY <4>1, <1>3
    <3>6. i \in 1..Len(s)
      <4> DEFINE a == start[j]
                 z == start[m + 1]
                 l == Len(fj)
                 n == Len(s)
                 e == Len(t)
      <4>1. /\ a \in Nat /\ z \in Nat /\ l \in Nat /\ n \in Nat /\ e \in Nat
            /\ k \in 1..l /\ a + l <= z /\ used + i = a + k /\ used + n = z /\ i \in 1..e
        BY <3>2, <3>3, <3>4, <3>5, <1>4
      <4> HIDE DEF a, z, l, n, e
      <4>2. i \in 1..n
        BY <4>1
      <4> QED BY <4>2 DEF n
    <3>7. s[i] = fj[k]
      BY Zenon, ZenonT(60), <2>3, <3>4, <3>5, <3>6 DEF Holds, fj
    <3>8. t[i] = s[i]
      BY Zenon, ZenonT(60), <3>6, <1>4
    <3> QED BY <3>7, <3>8 DEF fj
  <2> QED BY <2>2, <2>3
<1>8. Position(sent, m + 1, g, body, extra, st2, used, c)
  <2>1. g + 1 \in 1..(m + 1) /\ g # m + 1
    OBVIOUS
  <2>2. used = st2[g + 1] + c * Full + extra /\ Len(body) = c * max_message_size
    BY <2>1, <1>3 DEF Position
  <2>3. CASE g = m
    <3>1. c = 0 /\ 0 * max_message_size = 0
      BY <2>3, FramingAssumption DEF Position
    <3>2. c * max_message_size < Len(sent[g + 1]) /\ 1..(c * max_message_size) = {}
      BY <2>3, <3>1, <1>1
    <3> QED BY Zenon, ZenonT(60), <2>1, <2>2, <3>2 DEF Position
  <2>4. CASE g < m
    BY <2>1, <2>2, <2>4 DEF Position
  <2> QED BY <2>3, <2>4
<1> QED BY Zenon, ZenonT(60), <1>3, <1>5, <1>6, <1>7, <1>8 DEF Reading, t

\* Bytes are read off the front.
LEMMA HoldsRest ==
    ASSUME NEW sent, NEW m, NEW start, NEW used \in Nat, NEW s \in Seq(Byte),
           NEW k \in 0..Len(s), Holds(s, sent, m, start, used)
    PROVE  /\ Holds(RestBytes(s, k), sent, m, start, used + k)
           /\ used + k \in Nat
<1> DEFINE t == RestBytes(s, k)
<1>1. Len(t) = Len(s) - k /\ Len(s) \in Nat /\ k \in Nat /\ k <= Len(s)
  BY TakeFacts
<1>2. \A i \in 1..(Len(s) - k) : t[i] = s[k + i]
  BY TakeFacts
<1> HIDE DEF t
<1>3. (used + k) + Len(t) = used + Len(s) /\ used + k \in Nat
  BY <1>1
<1>4. ASSUME NEW j \in 1..m, NEW q \in 1..Len(FrameMessage(sent[j])), NEW i \in 1..Len(t),
             (used + k) + i = start[j] + q
      PROVE  t[i] = FrameMessage(sent[j])[q]
  <2>1. k + i \in 1..Len(s) /\ used + (k + i) = (used + k) + i /\ i \in 1..(Len(s) - k)
    BY <1>1
  <2>2. s[k + i] = FrameMessage(sent[j])[q]
    BY <2>1, <1>4 DEF Holds
  <2> QED BY <2>1, <2>2, <1>2
<1>5. (used + k) + Len(t) <= start[m + 1]
  BY <1>3 DEF Holds
<1>6. Holds(t, sent, m, start, used + k)
  BY <1>4, <1>5 DEF Holds
<1> QED BY <1>3, <1>6 DEF t

\* The reader has moved on by k bytes.
LEMMA ReadOn ==
    ASSUME NEW sent, NEW m \in Nat, NEW s \in Seq(Byte), NEW whole,
           NEW start \in [1..(m + 1) -> Nat], NEW used \in Nat,
           Layout(sent, m, start), Holds(s, sent, m, start, used),
           whole => used + Len(s) = start[m + 1],
           NEW k \in 0..Len(s), NEW g, NEW body, NEW extra, NEW c \in Nat,
           Position(sent, m, g, body, extra, start, used + k, c)
    PROVE  Reading(RestBytes(s, k), sent, m, g, body, extra, whole)
<1>1. Holds(RestBytes(s, k), sent, m, start, used + k) /\ used + k \in Nat
  BY HoldsRest
<1>2. (used + k) + Len(RestBytes(s, k)) = used + Len(s)
  <2>1. Len(RestBytes(s, k)) = Len(s) - k /\ Len(s) \in Nat
    BY TakeFacts
  <2> QED BY <2>1
<1> QED BY <1>1, <1>2, Zenon, ZenonT(60) DEF Reading

\* A stream that is all there is there.
LEMMA ReadingWeaker ==
    ASSUME NEW s, NEW sent, NEW m, NEW g, NEW body, NEW extra, NEW whole, NEW whole2,
           whole2 => whole, Reading(s, sent, m, g, body, extra, whole)
    PROVE  Reading(s, sent, m, g, body, extra, whole2)
BY Zenon, ZenonT(60) DEF Reading

\* A reader in the middle of a frame has not reached the end.
LEMMA ReadingBusy ==
    ASSUME NEW s, NEW sent, NEW m \in Nat, NEW g \in Nat, g <= m, NEW body, NEW whole,
           Reading(s, sent, m, g, body, frame_header_size, whole)
    PROVE  g < m
<1>1. g = m => frame_header_size = 0
  BY DEF Reading, Position
<1> QED BY <1>1, FramingAssumption

\* Bytes are lost off the end.
LEMMA ReadingPrefix ==
    ASSUME NEW sent, NEW m \in Nat, NEW g, NEW body, NEW extra, NEW whole,
           NEW s \in Seq(Byte), NEW t \in Seq(Byte),
           Reading(s \o t, sent, m, g, body, extra, whole)
    PROVE  Reading(s, sent, m, g, body, extra, FALSE)
<1> PICK start \in [1..(m + 1) -> Nat], used \in Nat, c \in Nat :
        /\ Layout(sent, m, start)
        /\ Holds(s \o t, sent, m, start, used)
        /\ Position(sent, m, g, body, extra, start, used, c)
  BY DEF Reading
<1>1. Len(s \o t) = Len(s) + Len(t) /\ Len(s) \in Nat /\ Len(t) \in Nat
  BY ConcatFacts
<1>2. \A i \in 1..Len(s) : (s \o t)[i] = s[i]
  BY ConcatFacts
<1> DEFINE u == s \o t
           z == start[m + 1]
<1>3. z \in Nat /\ used + Len(u) <= z
  BY DEF Holds
<1>4. Len(u) = Len(s) + Len(t) /\ \A i \in 1..Len(s) : u[i] = s[i]
  BY <1>1, <1>2
<1>5. Holds(u, sent, m, start, used)
  OBVIOUS
<1> HIDE DEF u, z
<1>6. used + Len(s) <= z
  BY <1>1, <1>3, <1>4
<1>7. \A i \in 1..Len(s) : i \in 1..Len(u)
  BY <1>1, <1>4
<1>8. Holds(s, sent, m, start, used)
  BY <1>4, <1>5, <1>6, <1>7 DEF Holds, z
<1> QED BY Zenon, ZenonT(60), <1>8 DEF Reading

\* The next fragment of a message of n bytes of which the reader has size.
NextLen(n, size) == Smaller(max_message_size, n - size)
NextMore(n, size) == size + NextLen(n, size) < n

\* The bytes of the message being read are at the front.
LEMMA StreamBytes ==
    ASSUME NEW sent \in Messages, NEW m \in 0..Len(sent), NEW g \in 0..m, g < m,
           NEW s \in Seq(Byte), NEW start \in [1..(m + 1) -> Nat], NEW q \in Nat,
           Holds(s, sent, m, start, start[g + 1] + q),
           NEW n \in 0..Len(s), q + n <= Len(FrameMessage(sent[g + 1]))
    PROVE  \A k \in 1..n : s[k] = FrameMessage(sent[g + 1])[q + k]
<1> DEFINE f == FrameMessage(sent[g + 1])
           a == start[g + 1]
<1>1. m \in Nat /\ g + 1 \in 1..m /\ g + 1 \in 1..Len(sent) /\ g + 1 \in 1..(m + 1)
  BY DEF Messages
<1>2. Len(f) \in Nat /\ a \in Nat /\ Len(s) \in Nat
  BY <1>1, MessageFacts
<1> SUFFICES ASSUME NEW k \in 1..n PROVE s[k] = f[q + k]
  OBVIOUS
<1>3. k \in 1..Len(s) /\ q + k \in 1..Len(f) /\ (a + q) + k = a + (q + k)
  <2> DEFINE l == Len(f)
             e == Len(s)
  <2>1. l \in Nat /\ e \in Nat /\ n \in 0..e /\ q + n <= l /\ a \in Nat
    BY <1>2
  <2> HIDE DEF l, e, a
  <2>2. k \in 1..e /\ q + k \in 1..l /\ (a + q) + k = a + (q + k)
    BY <2>1
  <2> QED BY <2>2 DEF l, e
<1> QED BY Zenon, ZenonT(60), <1>1, <1>3 DEF Holds

\* DecodeFrameHeader on the header of a frame.
LEMMA HeaderDecoded ==
    ASSUME NEW n \in Nat \ {0}, NEW c \in Nat, c * max_message_size < n, NEW header,
           header[1] = <<"header", RawLength(n, c), 1, 0>>
    PROVE  /\ HeaderOk(header)
           /\ HeaderLen(header) = Chunk(n, c)
           /\ HeaderMore(header) <=> MoreAfter(n, c)
<1> DEFINE raw == RawLength(n, c)
           k == Chunk(n, c)
<1>1. header[1][1] = "header" /\ header[1][2] = raw
  OBVIOUS
<1>2. k \in 1..max_message_size
  BY Fragments
<1>3. raw = k + IF MoreAfter(n, c) THEN frame_more_flag ELSE 0
  BY DEF RawLength
<1> HIDE DEF raw, k
<1>4. HeaderMore(header) <=> MoreAfter(n, c)
  <2>1. CASE MoreAfter(n, c)
    BY <2>1, <1>1, <1>2, <1>3, FramingAssumption DEF HeaderMore
  <2>2. CASE ~MoreAfter(n, c)
    BY <2>2, <1>1, <1>2, <1>3, FramingAssumption DEF HeaderMore
  <2> QED BY <2>1, <2>2
<1>5. HeaderLen(header) = k
  <2>1. CASE MoreAfter(n, c)
    BY <2>1, <1>1, <1>2, <1>3, <1>4, FramingAssumption DEF HeaderLen
  <2>2. CASE ~MoreAfter(n, c)
    BY <2>2, <1>1, <1>2, <1>3, <1>4, FramingAssumption DEF HeaderLen
  <2> QED BY <2>1, <2>2
<1>6. HeaderOk(header)
  BY <1>1, <1>2, <1>5, FramingAssumption DEF HeaderOk
<1> QED BY <1>4, <1>5, <1>6 DEF k

\* A reader that is between two frames and has the bytes of a header finds the
\* length of the next fragment of the message it is reading, and whether it is the
\* last.
LEMMA HeaderRead ==
    ASSUME NEW sent \in Messages, NEW m \in 0..Len(sent), NEW g \in 0..m,
           NEW s \in Seq(Byte), NEW body \in Seq(Byte), NEW whole,
           Reading(s, sent, m, g, body, 0, whole),
           frame_header_size <= Len(s)
    PROVE  /\ g < m
           /\ HeaderOk(FirstBytes(s, frame_header_size))
           /\ HeaderLen(FirstBytes(s, frame_header_size)) = NextLen(Len(sent[g + 1]), Len(body))
           /\ HeaderMore(FirstBytes(s, frame_header_size))
                 <=> NextMore(Len(sent[g + 1]), Len(body))
           /\ NextLen(Len(sent[g + 1]), Len(body)) \in Nat \ {0}
           /\ Len(body) + NextLen(Len(sent[g + 1]), Len(body)) <= Len(sent[g + 1])
           /\ Reading(RestBytes(s, frame_header_size), sent, m, g, body, frame_header_size, whole)
<1> PICK start \in [1..(m + 1) -> Nat], used \in Nat, c \in Nat :
        /\ Layout(sent, m, start)
        /\ Holds(s, sent, m, start, used)
        /\ Position(sent, m, g, body, 0, start, used, c)
        /\ whole => used + Len(s) = start[m + 1]
  BY DEF Reading
<1> DEFINE h == frame_header_size
           x == max_message_size
           q == c * Full
           n == Len(sent[g + 1])
<1>0. /\ h \in Nat \ {0} /\ x \in Nat \ {0} /\ Full \in Nat /\ Len(s) \in Nat /\ h <= Len(s)
      /\ m \in Nat /\ g \in Nat /\ g <= m /\ q \in Nat
  BY FramingAssumption DEF Full, Messages
<1>1. g < m
  <2> SUFFICES ASSUME g = m PROVE FALSE
    BY <1>0
  <2>1. used = start[m + 1] /\ start[m + 1] \in Nat
    <3>1. c = 0 /\ 0 * Full = 0 /\ start[m + 1] \in Nat
      BY <1>0 DEF Position
    <3> QED BY <3>1 DEF Position
  <2>2. used + Len(s) <= start[m + 1]
    BY DEF Holds
  <2> QED BY <2>1, <2>2, <1>0
<1>2. g + 1 \in 1..Len(sent) /\ g + 1 \in 1..(m + 1)
  BY <1>0, <1>1 DEF Messages
<1>3. /\ sent[g + 1] \in Seq(Byte) /\ n \in Nat \ {0}
      /\ Len(FrameMessage(sent[g + 1])) = FramedLength(n)
      /\ Len(FrameMessage(sent[g + 1])) \in Nat
  BY Zenon, ZenonT(60), <1>2, MessageFacts
<1>4. /\ used = start[g + 1] + q /\ Len(body) = c * x /\ c * x < n
      /\ start[g + 1] \in Nat
  <2>1. used = start[g + 1] + q + 0 /\ start[g + 1] \in Nat
    BY <1>2 DEF Position
  <2>2. start[g + 1] + q + 0 = start[g + 1] + q
    BY <2>1, <1>0
  <2> QED BY <2>1, <2>2, <1>1 DEF Position
<1>5. /\ Chunk(n, c) \in 1..x /\ c * x + Chunk(n, c) <= n
      /\ q + h + Chunk(n, c) <= FramedLength(n) /\ FramedLength(n) \in Nat
  BY <1>3, <1>4, Fragments, FramePlace, Zenon, ZenonT(60)
<1>6. NextLen(n, Len(body)) = Chunk(n, c) /\ (NextMore(n, Len(body)) <=> MoreAfter(n, c))
  BY <1>4 DEF NextLen, NextMore, Chunk, MoreAfter
<1>7. FirstBytes(s, h)[1] = <<"header", RawLength(n, c), 1, 0>>
  <2>1. 1 \in 1..h /\ h \in 0..Len(s)
    BY <1>0
  <2>2. FirstBytes(s, h)[1] = s[1]
    BY <2>1, TakeFacts
  <2>3. q + h <= Len(FrameMessage(sent[g + 1]))
    <3> DEFINE k == Chunk(n, c)
               l == FramedLength(n)
    <3>1. k \in Nat /\ l \in Nat /\ q + h + k <= l /\ q \in Nat /\ h \in Nat
      BY <1>0, <1>5
    <3> HIDE DEF k, l, q, h
    <3>2. q + h <= l
      BY <3>1
    <3> QED BY <3>2, <1>3 DEF l
  <2>4. Holds(s, sent, m, start, start[g + 1] + q)
    BY <1>4
  <2>5. s[1] = FrameMessage(sent[g + 1])[q + 1]
    <3> HIDE DEF h, q
    <3>1. q \in Nat /\ h \in 0..Len(s)
      BY <1>0, <2>1
    <3>2. \A k \in 1..h : s[k] = FrameMessage(sent[g + 1])[q + k]
      BY Zenon, ZenonT(60), <3>1, <1>1, <2>3, <2>4, StreamBytes
    <3> QED BY <3>2, <2>1
  <2>6. FrameMessage(sent[g + 1])[q + 1] = <<"header", RawLength(n, c), 1, 0>>
    BY <1>3, <1>4, <2>1, FramedBytes, ZenonT(60), ZenonT(90)
  <2> QED BY <2>2, <2>5, <2>6
<1>8. /\ HeaderOk(FirstBytes(s, h))
      /\ HeaderLen(FirstBytes(s, h)) = Chunk(n, c)
      /\ HeaderMore(FirstBytes(s, h)) <=> MoreAfter(n, c)
  BY Zenon, ZenonT(60), <1>3, <1>4, <1>7, HeaderDecoded
<1>9. Reading(RestBytes(s, h), sent, m, g, body, h, whole)
  <2>1. h \in 0..Len(s)
    BY <1>0
  <2>2. Position(sent, m, g, body, h, start, used + h, c)
    <3>1. used + h = start[g + 1] + q + h /\ g # m
      BY <1>1, <1>4
    <3> QED BY <3>1, <1>1 DEF Position
  <2> QED BY <2>1, <2>2, ReadOn
<1>10. Chunk(n, c) \in Nat \ {0} /\ Len(body) + Chunk(n, c) <= n
  <2>1. Chunk(n, c) \in Nat \ {0}
    <3> HIDE DEF n
    <3> QED BY <1>5, FramingAssumption
  <2> QED BY <2>1, <1>4, <1>5, Zenon, ZenonT(60)
<1> QED BY <1>1, <1>6, <1>8, <1>9, <1>10

\* A reader that is after a header and has the bytes of the fragment finds the next
\* bytes of the message; the last fragment completes it.
LEMMA FragmentRead ==
    ASSUME NEW sent \in Messages, NEW m \in 0..Len(sent), NEW g \in 0..m,
           NEW s \in Seq(Byte), NEW body \in Seq(Byte), NEW whole,
           Reading(s, sent, m, g, body, frame_header_size, whole),
           NEW len \in Nat, len = NextLen(Len(sent[g + 1]), Len(body)), len <= Len(s)
    PROVE  /\ g < m
           /\ len \in Nat \ {0}
           /\ NextMore(Len(sent[g + 1]), Len(body)) =>
                 Reading(RestBytes(s, len), sent, m, g, body \o FirstBytes(s, len), 0, whole)
           /\ ~NextMore(Len(sent[g + 1]), Len(body)) =>
                 /\ body \o FirstBytes(s, len) = sent[g + 1]
                 /\ Reading(RestBytes(s, len), sent, m, g + 1, <<>>, 0, whole)
<1> PICK start \in [1..(m + 1) -> Nat], used \in Nat, c \in Nat :
        /\ Layout(sent, m, start)
        /\ Holds(s, sent, m, start, used)
        /\ Position(sent, m, g, body, frame_header_size, start, used, c)
        /\ whole => used + Len(s) = start[m + 1]
  BY Zenon, ZenonT(60) DEF Reading
<1> DEFINE h == frame_header_size
           x == max_message_size
           q == c * Full + h
           msg == sent[g + 1]
           n == Len(msg)
           frag == FirstBytes(s, len)
           rest == RestBytes(s, len)
<1>0. /\ h \in Nat \ {0} /\ x \in Nat \ {0} /\ Full \in Nat /\ Len(s) \in Nat
      /\ m \in Nat /\ g \in Nat /\ g <= m /\ q \in Nat /\ c * Full \in Nat
  <2>1. h \in Nat \ {0} /\ x \in Nat \ {0} /\ Full \in Nat
    BY FramingAssumption DEF Full
  <2>2. Len(s) \in Nat /\ m \in Nat /\ g \in Nat /\ g <= m
    BY DEF Messages
  <2>3. c * Full \in Nat
    BY <2>1
  <2>4. q \in Nat
    <3> DEFINE p == c * Full
    <3>1. p \in Nat /\ h \in Nat
      BY <2>1, <2>3
    <3> HIDE DEF p, h
    <3>2. p + h \in Nat
      BY <3>1
    <3> QED BY <3>2 DEF p
  <2> QED BY <2>1, <2>2, <2>3, <2>4
<1>1. g < m
  BY <1>0 DEF Position
<1>2. g + 1 \in 1..Len(sent) /\ g + 1 \in 1..m /\ g + 1 \in 1..(m + 1) /\ g + 1 + 1 \in 1..(m + 1)
  BY <1>0, <1>1 DEF Messages
<1>3. /\ msg \in Seq(Byte) /\ n \in Nat \ {0}
      /\ Len(FrameMessage(msg)) = FramedLength(n) /\ Len(FrameMessage(msg)) \in Nat
  BY <1>2, MessageFacts
<1>4. /\ used = start[g + 1] + q /\ start[g + 1] \in Nat
      /\ Len(body) = c * x /\ c * x < n
      /\ \A i \in 1..(c * x) : body[i] = msg[i]
  <2>1. start[g + 1] \in Nat /\ used = start[g + 1] + c * Full + h
    BY <1>2 DEF Position
  <2>2. start[g + 1] + c * Full + h = start[g + 1] + q
    BY <2>1, <1>0
  <2> QED BY <2>1, <2>2, <1>1 DEF Position
<1>5. /\ len = Chunk(n, c) /\ (NextMore(n, Len(body)) <=> MoreAfter(n, c))
  BY <1>4 DEF NextLen, NextMore, Chunk, MoreAfter
<1>6. /\ len \in 1..x /\ c * x + len <= n
      /\ MoreAfter(n, c) => len = x /\ (c + 1) * x < n
      /\ ~MoreAfter(n, c) => len = n - c * x
  BY <1>3, <1>4, <1>5, Fragments, Zenon, ZenonT(60)
<1>7. /\ q + len <= FramedLength(n) /\ FramedLength(n) \in Nat
      /\ MoreAfter(n, c) => q + len = (c + 1) * Full
      /\ ~MoreAfter(n, c) => q + len = FramedLength(n)
  BY <1>3, <1>4, <1>5, FramePlace, ZenonT(60), ZenonT(90)
<1>8. len \in Nat \ {0} /\ len \in 0..Len(s) /\ c * x \in Nat
  <2>1. len \in Nat \ {0}
    <3> HIDE DEF x, n
    <3> QED BY <1>0, <1>6
  <2>2. len \in 0..Len(s)
    BY <2>1, <1>0
  <2>3. c * x \in Nat
    BY <1>0
  <2> QED BY <2>1, <2>2, <2>3
<1>9. /\ frag \in Seq(Byte) /\ Len(frag) = len /\ \A i \in 1..len : frag[i] = s[i]
  BY <1>8, TakeFacts
<1>10. \A i \in 1..len : frag[i] = msg[c * x + i]
  <2>1. Holds(s, sent, m, start, start[g + 1] + q)
    BY <1>4
  <2>2. q + len <= Len(FrameMessage(msg))
    BY <1>3, <1>7
  <2>3. \A i \in 1..len : s[i] = FrameMessage(msg)[q + i]
    <3> HIDE DEF q
    <3>1. q \in Nat /\ len \in 0..Len(s)
      BY <1>0, <1>8
    <3> QED BY ZenonT(60), ZenonT(90), <3>1, <1>1, <2>1, <2>2, StreamBytes
  <2>4. \A i \in 1..len : FrameMessage(msg)[q + i] = msg[c * x + i]
    <3>1. \A i \in 1..Chunk(n, c) : FrameMessage(msg)[q + i] = msg[c * x + i]
      BY Zenon, ZenonT(60), <1>3, <1>4, FramedBytes
    <3> QED BY <3>1, <1>5, Zenon, ZenonT(60)
  <2> QED BY <2>3, <2>4, <1>9
<1> DEFINE both == body \o frag
<1>11. /\ both \in Seq(Byte) /\ Len(both) = Len(body) + len
       /\ \A i \in 1..Len(body) : both[i] = body[i]
       /\ \A i \in 1..len : both[Len(body) + i] = frag[i]
  <2>1. /\ both \in Seq(Byte) /\ Len(both) = Len(body) + Len(frag)
        /\ \A i \in 1..Len(body) : both[i] = body[i]
        /\ \A i \in 1..Len(frag) : both[Len(body) + i] = frag[i]
    <3>1. frag \in Seq(Byte)
      BY <1>9
    <3> HIDE DEF frag
    <3> QED BY <3>1, ConcatFacts
  <2> QED BY <2>1, <1>9, Zenon, ZenonT(60)
<1>12. Len(both) = c * x + len /\ \A i \in 1..(c * x + len) : both[i] = msg[i]
  <2> HIDE DEF both, frag, msg
  <2>1. Len(both) = c * x + len
    BY <1>11, <1>4
  <2>2. ASSUME NEW i \in 1..(c * x + len) PROVE both[i] = msg[i]
    <3> DEFINE a == c * x
    <3>1. a \in Nat /\ len \in Nat /\ i \in 1..(a + len)
      BY <1>8
    <3>2. /\ \A k \in 1..a : both[k] = body[k] /\ body[k] = msg[k]
          /\ \A k \in 1..len : both[a + k] = frag[k] /\ frag[k] = msg[a + k]
      BY Zenon, ZenonT(60), <1>11, <1>10, <1>4
    <3> HIDE DEF a
    <3>3. CASE i <= a
      <4>1. i \in 1..a
        BY <3>1, <3>3
      <4> QED BY <4>1, <3>2
    <3>4. CASE i > a
      <4>1. i - a \in 1..len /\ a + (i - a) = i
        BY <3>1, <3>4
      <4> QED BY ZenonT(60), ZenonT(90), <4>1, <3>2
    <3>5. i <= a \/ i > a
      BY <3>1
    <3> QED BY <3>3, <3>4, <3>5
  <2> QED BY <2>1, <2>2
<1>13. CASE MoreAfter(n, c)
  <2>1. (c + 1) * x = c * x + len /\ (c + 1) * x < n /\ c + 1 \in Nat
    BY <1>13, <1>0, <1>6
  <2>2. used + len = start[g + 1] + (c + 1) * Full + 0
    <3> DEFINE a == start[g + 1]
               r == (c + 1) * Full
    <3>1. a \in Nat /\ r = q + len /\ used = a + q /\ q \in Nat /\ len \in Nat
      BY <1>13, <1>0, <1>4, <1>7, <1>8
    <3> HIDE DEF a, r, q
    <3>2. used + len = a + r + 0
      BY <3>1
    <3> QED BY <3>2 DEF a, r
  <2>3. Position(sent, m, g, both, 0, start, used + len, c + 1)
    <3> HIDE DEF both
    <3> QED BY Zenon, ZenonT(60), <2>1, <2>2, <1>0, <1>1, <1>12 DEF Position
  <2>4. Reading(rest, sent, m, g, both, 0, whole)
    <3> HIDE DEF both
    <3>1. len \in 0..Len(s) /\ c + 1 \in Nat /\ m \in Nat
      BY <1>0, <1>8
    <3>2. /\ Layout(sent, m, start) /\ Holds(s, sent, m, start, used)
          /\ whole => used + Len(s) = start[m + 1]
      OBVIOUS
    <3> QED BY Zenon, ZenonT(60), <3>1, <3>2, <2>3, ReadOn
  <2> QED BY <2>4, <1>1, <1>5, <1>8, <1>13
<1>14. CASE ~MoreAfter(n, c)
  <2>1. both = msg
    <3>1. c * x + len = n
      <4> DEFINE p == c * x
      <4>1. p \in Nat /\ n \in Nat /\ len = n - p
        BY Zenon, ZenonT(60), <1>14, <1>3, <1>6, <1>8
      <4> HIDE DEF p, n
      <4>2. p + len = n
        BY <4>1
      <4> QED BY <4>2 DEF p
    <3> HIDE DEF both, msg
    <3>2. Len(both) = Len(msg) /\ \A i \in 1..Len(both) : both[i] = msg[i]
      BY <3>1, <1>12 DEF n
    <3> QED BY Zenon, ZenonT(60), <3>2, <1>3, <1>11, SameSeq
  <2>2. used + len = start[g + 1 + 1]
    <3>1. start[g + 1 + 1] = start[g + 1] + Len(FrameMessage(msg))
      BY <1>2 DEF Layout
    <3> DEFINE a == start[g + 1]
               l == FramedLength(n)
    <3>2. /\ a \in Nat /\ l = q + len /\ used = a + q /\ q \in Nat /\ len \in Nat
          /\ start[g + 1 + 1] = a + l
      BY <3>1, <1>14, <1>0, <1>3, <1>4, <1>7, <1>8
    <3> HIDE DEF a, l, q
    <3>3. used + len = a + l
      BY <3>2
    <3> QED BY <3>2, <3>3
  <2>3. Position(sent, m, g + 1, <<>>, 0, start, used + len, 0)
    <3>1. 0 * Full = 0 /\ 0 * x = 0 /\ Len(<<>>) = 0
      BY <1>0
    <3>2. used + len = start[g + 1 + 1] + 0 * Full + 0
      <4>1. start[g + 1 + 1] \in Nat
        BY <1>2
      <4> QED BY <4>1, <3>1, <2>2
    <3>3. g + 1 < m => 0 < Len(sent[g + 1 + 1])
      <4> SUFFICES ASSUME g + 1 < m PROVE 0 < Len(sent[g + 1 + 1])
        OBVIOUS
      <4>1. g + 1 + 1 \in 1..Len(sent)
        BY <1>0 DEF Messages
      <4>2. Len(sent[g + 1 + 1]) \in Nat \ {0}
        BY Zenon, ZenonT(60), <4>1, MessageFacts
      <4> QED BY <4>2
    <3>4. 1..(0 * x) = {}
      BY <3>1
    <3> QED BY <3>1, <3>2, <3>3, <3>4, Zenon, ZenonT(60) DEF Position
  <2>4. Reading(rest, sent, m, g + 1, <<>>, 0, whole)
    <3>1. len \in 0..Len(s) /\ 0 \in Nat /\ m \in Nat
      BY <1>0, <1>8
    <3>2. /\ Layout(sent, m, start) /\ Holds(s, sent, m, start, used)
          /\ whole => used + Len(s) = start[m + 1]
      OBVIOUS
    <3> QED BY Zenon, ZenonT(60), <3>1, <3>2, <2>3, ReadOn
  <2> QED BY <2>1, <2>4, <1>1, <1>5, <1>8, <1>14
<1> QED BY Zenon, ZenonT(60), <1>13, <1>14

\* The same, by the length the header gave.
LEMMA FragmentReadNext ==
    ASSUME NEW sent \in Messages, NEW m \in 0..Len(sent), NEW g \in 0..m,
           NEW s \in Seq(Byte), NEW body \in Seq(Byte), NEW whole,
           Reading(s, sent, m, g, body, frame_header_size, whole),
           NextLen(Len(sent[g + 1]), Len(body)) \in Nat,
           NextLen(Len(sent[g + 1]), Len(body)) <= Len(s)
    PROVE  LET len == NextLen(Len(sent[g + 1]), Len(body))
           IN  /\ g < m
               /\ NextMore(Len(sent[g + 1]), Len(body)) =>
                     Reading(RestBytes(s, len), sent, m, g, body \o FirstBytes(s, len), 0, whole)
               /\ ~NextMore(Len(sent[g + 1]), Len(body)) =>
                     /\ body \o FirstBytes(s, len) = sent[g + 1]
                     /\ Reading(RestBytes(s, len), sent, m, g + 1, <<>>, 0, whole)
BY FragmentRead, Zenon, ZenonT(60)

-----------------------------------------------------------------------------
(***************************************************************************)
(* The two ends, and the inductive invariant.                              *)
(***************************************************************************)

ClientType ==
    [open : BOOLEAN, at : {"program", "carve", "flush"},
     tx : Seq(Byte), rx : Seq(Byte), rx_msg : Seq(Byte)]

ServerType ==
    [closing : BOOLEAN, out : Seq(Seq(Byte)),
     writer : {"ready", "waiting", "writing", "done"}, frame : Seq(Byte),
     reading : {"header", "body"}, need : Nat, more : BOOLEAN,
     read : Seq(Byte), body : Seq(Byte)]

\* Every message sent decodes.
Decodable(sent) == \A j \in 1..Len(sent) : Decodes(sent[j])

ConnType ==
    /\ client \in ClientType
    /\ server \in ServerType
    /\ up \in Seq(Byte) /\ down \in Seq(Byte)
    /\ sent_up \in Messages /\ Decodable(sent_up)
    /\ sent_down \in Messages /\ Decodable(sent_down)
    /\ got_up \in Seq(Seq(Byte)) /\ got_down \in Seq(Seq(Byte))
    /\ destroyed \in BOOLEAN

\* What the server has not read yet, and what the client has not carved.
UpStream == (server.read \o up) \o client.tx
DownStream == (client.rx \o down) \o server.frame

\* The messages WriteLoop has begun to write.
Written == Len(sent_down) - Len(server.out)

\* ReadLoop is where the stream says it is.
UpInv ==
    ~server.closing =>
        /\ Len(got_up) <= Len(sent_up)
        /\ Reading(UpStream, sent_up, Len(sent_up), Len(got_up), server.body,
                   IF server.reading = "body" THEN frame_header_size ELSE 0, TRUE)
        /\ server.reading = "header" => server.need = frame_header_size
        /\ server.reading = "body" =>
              /\ server.need = NextLen(Len(sent_up[Len(got_up) + 1]), Len(server.body))
              /\ server.more <=> NextMore(Len(sent_up[Len(got_up) + 1]), Len(server.body))

\* CarveServer is where the stream says it is, and the queue holds the rest.
DownInv ==
    client.open =>
        /\ Len(server.out) <= Len(sent_down)
        /\ Len(got_down) <= Written
        /\ Reading(DownStream, sent_down, Written, Len(got_down), client.rx_msg, 0,
                   ~server.closing)
        /\ server.writer # "writing" => server.frame = <<>>
        /\ \A j \in 1..Len(server.out) : server.out[j] = FrameMessage(sent_down[Written + j])

-----------------------------------------------------------------------------
(***************************************************************************)
(* What the operators do to the two records.                               *)
(***************************************************************************)

\* The fields ReadLoop works on are the same in two server records.
SameReader(s, t) ==
    /\ t.reading = s.reading /\ t.need = s.need /\ t.more = s.more
    /\ t.read = s.read /\ t.body = s.body

\* Enqueue
LEMMA EnqueueFacts ==
    ASSUME server \in ServerType, NEW f \in Seq(Byte)
    PROVE  /\ Enqueue(f) \in ServerType
           /\ SameReader(server, Enqueue(f))
           /\ Enqueue(f).closing = server.closing
           /\ Enqueue(f).out = Append(server.out, f)
           /\ Enqueue(f).frame = server.frame
           /\ Enqueue(f).writer = Woken(server.writer)
           /\ Woken(server.writer) # "waiting"
           /\ Woken(server.writer) = "writing" <=> server.writer = "writing"
<1> DEFINE o == Append(server.out, f)
           w == Woken(server.writer)
<1>1. o \in Seq(Seq(Byte)) /\ w \in {"ready", "waiting", "writing", "done"}
  BY DEF ServerType, Woken
<1>2. w # "waiting" /\ (w = "writing" <=> server.writer = "writing")
  BY DEF Woken, ServerType
<1>3. Enqueue(f) = [server EXCEPT !.out = o, !.writer = w]
  BY DEF Enqueue
<1> HIDE DEF o, w
<1> QED BY Zenon, ZenonT(60), <1>1, <1>2, <1>3 DEF ServerType, SameReader, o, w

\* SessionEnd
LEMMA SessionEndFacts ==
    ASSUME NEW srv \in ServerType
    PROVE  /\ SessionEnd(srv) \in ServerType
           /\ SameReader(srv, SessionEnd(srv))
           /\ SessionEnd(srv).closing
           /\ SessionEnd(srv).out = srv.out
           /\ SessionEnd(srv).frame = srv.frame
           /\ SessionEnd(srv).writer # "waiting"
           /\ SessionEnd(srv).writer = "writing" <=> srv.writer = "writing"
<1> DEFINE w == Woken(srv.writer)
<1>1. w \in {"ready", "waiting", "writing", "done"}
  BY DEF ServerType, Woken
<1>2. w # "waiting" /\ (w = "writing" <=> srv.writer = "writing")
  BY DEF Woken, ServerType
<1>3. SessionEnd(srv) = [srv EXCEPT !.closing = TRUE, !.writer = w]
  BY DEF SessionEnd
<1> HIDE DEF w
<1> QED BY Zenon, ZenonT(60), <1>1, <1>2, <1>3 DEF ServerType, SameReader

\* The fields WriteLoop works on are the same in two server records.
SameWriter(s, t) ==
    t.closing = s.closing /\ t.out = s.out /\ t.writer = s.writer /\ t.frame = s.frame

\* ReadHeader, of a header that is accepted.
LEMMA ReadHeaderFacts ==
    ASSUME NEW srv \in ServerType, NEW header, HeaderOk(header), HeaderLen(header) \in Nat,
           Fits(Len(srv.body), HeaderLen(header))
    PROVE  /\ ReadHeader(srv, header) \in ServerType
           /\ SameWriter(srv, ReadHeader(srv, header))
           /\ ReadHeader(srv, header).reading = "body"
           /\ ReadHeader(srv, header).need = HeaderLen(header)
           /\ ReadHeader(srv, header).more <=> HeaderMore(header)
           /\ ReadHeader(srv, header).read = <<>>
           /\ ReadHeader(srv, header).body = srv.body
<1> DEFINE n == HeaderLen(header)
           m == HeaderMore(header)
           e == <<>>
           new == ReadHeader(srv, header)
<1>1. n \in Nat /\ m \in BOOLEAN /\ e \in Seq(Byte)
  BY DEF HeaderMore
<1>2. new = [srv EXCEPT !.reading = "body", !.need = n, !.more = m, !.read = e]
  BY DEF ReadHeader
<1> HIDE DEF n, m, e, new
<1>3. new \in ServerType
  BY Zenon, ZenonT(60), <1>1, <1>2 DEF ServerType
<1>4. SameWriter(srv, new) /\ new.reading = "body" /\ new.need = n /\ new.read = e
      /\ new.body = srv.body
  BY <1>1, <1>2 DEF ServerType, SameWriter
<1>5. new.more = m
  BY <1>1, <1>2 DEF ServerType
<1> QED BY <1>3, <1>4, <1>5, Zenon, ZenonT(60) DEF n, m, e, new

\* A reader that goes back to a header, with what it has of the message.
AtHeader(srv, b) ==
    [srv EXCEPT !.reading = "header", !.need = frame_header_size, !.read = <<>>, !.body = b]

\* AtHeader
LEMMA NextFrameFacts ==
    ASSUME NEW srv \in ServerType, NEW b \in Seq(Byte)
    PROVE  /\ AtHeader(srv, b) \in ServerType
           /\ SameWriter(srv, AtHeader(srv, b))
           /\ AtHeader(srv, b).reading = "header" /\ AtHeader(srv, b).need = frame_header_size
           /\ AtHeader(srv, b).read = <<>> /\ AtHeader(srv, b).body = b
<1> DEFINE next == AtHeader(srv, b)
           h == frame_header_size
           e == <<>>
<1>1. h \in Nat /\ e \in Seq(Byte)
  BY FramingAssumption
<1>2. next = [srv EXCEPT !.reading = "header", !.need = h, !.read = e, !.body = b]
  BY DEF AtHeader
<1> HIDE DEF h, e, next
<1>3. next \in ServerType
  BY Zenon, ZenonT(60), <1>1, <1>2 DEF ServerType
<1>4. /\ SameWriter(srv, next)
      /\ next.reading = "header" /\ next.need = h /\ next.read = e /\ next.body = b
  BY <1>1, <1>2 DEF ServerType, SameWriter
<1> QED BY <1>3, <1>4, Zenon, ZenonT(60) DEF h, e, next

\* NextMessage
LEMMA NextMessageFacts ==
    ASSUME NEW srv \in ServerType, NEW b \in Seq(Byte)
    PROVE  NextMessage([srv EXCEPT !.body = b]) = AtHeader(srv, <<>>)
BY Zenon, ZenonT(60) DEF NextMessage, AtHeader, ServerType

\* Closed
LEMMA ClosedFacts ==
    ASSUME NEW cl \in ClientType
    PROVE  /\ Closed(cl) \in ClientType
           /\ ~Closed(cl).open /\ Closed(cl).at = "program"
           /\ Closed(cl).tx = cl.tx /\ Closed(cl).rx = cl.rx /\ Closed(cl).rx_msg = cl.rx_msg
BY Zenon, ZenonT(60) DEF Closed, ClientType

-----------------------------------------------------------------------------
(***************************************************************************)
(* Each action keeps the streams.                                          *)
(***************************************************************************)

Inv == ConnType /\ UpInv /\ DownInv

\* What does not touch the bytes on their way up, nor ReadLoop.
LEMMA UpSame ==
    ASSUME UpInv, ~server'.closing => ~server.closing /\ SameReader(server, server'),
           up' = up, client'.tx = client.tx, sent_up' = sent_up, got_up' = got_up
    PROVE  UpInv'
<1> SUFFICES ASSUME ~server'.closing PROVE UpInv'
  BY Zenon, ZenonT(60) DEF UpInv
<1>1. ~server.closing /\ SameReader(server, server')
  OBVIOUS
<1>2. UpStream' = UpStream
  BY <1>1 DEF UpStream, SameReader
<1> QED BY <1>1, <1>2, Zenon, ZenonT(60) DEF UpInv, SameReader

\* What does not touch the bytes on their way down, nor the queue.
LEMMA DownSame ==
    ASSUME DownInv,
           client'.open => /\ client.open /\ client'.rx_msg = client.rx_msg
                           /\ DownStream' = DownStream,
           server'.out = server.out, server.closing => server'.closing,
           server'.writer # "writing" => server.writer # "writing" /\ server'.frame = server.frame,
           sent_down' = sent_down, got_down' = got_down
    PROVE  DownInv'
<1> SUFFICES ASSUME client'.open PROVE DownInv'
  BY DEF DownInv
<1>1. client.open /\ client'.rx_msg = client.rx_msg /\ DownStream' = DownStream
  OBVIOUS
<1>2. Written' = Written
  BY DEF Written
<1>3. Reading(DownStream, sent_down, Written, Len(got_down), client.rx_msg, 0, ~server.closing)
  BY <1>1 DEF DownInv
<1>4. ~server'.closing => ~server.closing
  OBVIOUS
<1>5. Reading(DownStream, sent_down, Written, Len(got_down), client.rx_msg, 0, ~server'.closing)
  BY <1>3, <1>4, ReadingWeaker, Zenon, ZenonT(60)
<1>6. Reading(DownStream, sent_down, Written, Len(got_down), client.rx_msg, 0, ~server.closing)'
  BY <1>1, <1>2, <1>5
<1>7. server'.writer # "writing" => server'.frame = <<>>
  BY <1>1 DEF DownInv
<1>8. /\ Len(server.out) <= Len(sent_down) /\ Len(got_down) <= Written
      /\ \A j \in 1..Len(server.out) : server.out[j] = FrameMessage(sent_down[Written + j])
  BY <1>1 DEF DownInv
<1> QED BY <1>2, <1>6, <1>7, <1>8, Zenon, ZenonT(60) DEF DownInv

\* One more message is sent.
LEMMA SentFacts ==
    ASSUME NEW sent \in Messages, Decodable(sent), NEW length \in Nat \ {0},
           NEW body, body = Encoding(Len(sent) + 1, length)
    PROVE  /\ body \in Seq(Byte) /\ FrameMessage(body) \in Seq(Byte)
           /\ Append(sent, body) \in Messages /\ Decodable(Append(sent, body))
           /\ Len(sent) \in Nat /\ Len(Append(sent, body)) = Len(sent) + 1
           /\ \A j \in 1..Len(sent) : Append(sent, body)[j] = sent[j]
           /\ Append(sent, body)[Len(sent) + 1] = body
<1>1. sent \in Seq(Seq(Byte)) /\ Len(sent) \in Nat /\ Len(sent) + 1 \in Nat
  BY DEF Messages
<1>2. body \in Seq(Byte) /\ Len(body) = length /\ Decodes(body)
  BY <1>1, EncodingFacts
<1>3. FrameMessage(body) \in Seq(Byte)
  BY <1>2, FrameMessageFacts
<1> DEFINE s2 == Append(sent, body)
<1>4. /\ s2 \in Seq(Seq(Byte)) /\ Len(s2) = Len(sent) + 1
      /\ \A j \in 1..Len(sent) : s2[j] = sent[j]
      /\ s2[Len(sent) + 1] = body
  BY <1>1, <1>2
<1> HIDE DEF s2
<1>5. \A j \in 1..Len(s2) : j \in 1..Len(sent) \/ j = Len(sent) + 1
  BY <1>1, <1>4
<1>6. s2 \in Messages
  BY Zenon, ZenonT(60), <1>2, <1>4, <1>5 DEF Messages
<1>7. Decodable(s2)
  BY <1>2, <1>4, <1>5, Zenon, ZenonT(60) DEF Decodable
<1> QED BY <1>1, <1>2, <1>3, <1>4, <1>6, <1>7 DEF s2

\* SendServer
LEMMA SendServerInv ==
    ASSUME Inv, NEW length \in UpLengths, SendServer(length)
    PROVE  Inv'
<1> DEFINE body == Encoding(Len(sent_up) + 1, length)
           f == FrameMessage(body)
           m == Len(sent_up)
           tx2 == client.tx \o f
<1>1. /\ sent_up' = Append(sent_up, body) /\ client' = [client EXCEPT !.tx = tx2]
      /\ UNCHANGED <<server, up, down, got_up, sent_down, got_down, destroyed>>
  BY DEF SendServer
<1>2. length \in Nat \ {0}
  BY FramingAssumption
<1>3. sent_up \in Messages /\ Decodable(sent_up) /\ client \in ClientType /\ server \in ServerType
      /\ up \in Seq(Byte)
  BY DEF Inv, ConnType
<1>4. /\ body \in Seq(Byte) /\ f \in Seq(Byte)
      /\ sent_up' \in Messages /\ Decodable(sent_up')
      /\ m \in Nat /\ Len(sent_up') = m + 1
      /\ (\A j \in 1..m : sent_up'[j] = sent_up[j]) /\ sent_up'[m + 1] = body
  BY <1>1, <1>2, <1>3, SentFacts
<1> HIDE DEF body
<1>5. tx2 \in Seq(Byte)
  BY <1>3, <1>4 DEF ClientType
<1> HIDE DEF tx2
<1>6. /\ client' \in ClientType /\ client'.tx = tx2 /\ client'.open = client.open
      /\ client'.rx = client.rx /\ client'.rx_msg = client.rx_msg
  BY Zenon, ZenonT(60), <1>1, <1>3, <1>5 DEF ClientType
<1>7. ConnType'
  BY <1>1, <1>4, <1>6 DEF Inv, ConnType
<1>8. DownInv'
  <2>1. DownStream' = DownStream
    BY Zenon, ZenonT(60), <1>1, <1>6 DEF DownStream
  <2> QED BY <1>1, <1>6, <2>1, DownSame DEF Inv
<1>9. UpInv'
  <2> SUFFICES ASSUME ~server.closing PROVE UpInv'
    BY Zenon, ZenonT(60), <1>1 DEF UpInv
  <2> DEFINE g == Len(got_up)
             e == IF server.reading = "body" THEN frame_header_size ELSE 0
  <2>1. g <= m /\ Reading(UpStream, sent_up, m, g, server.body, e, TRUE)
    BY Zenon, ZenonT(60) DEF Inv, UpInv
  <2>2. g \in 0..m /\ g \in Nat /\ e \in Nat /\ server.body \in Seq(Byte)
    BY <1>3, <1>4, <2>1, FramingAssumption DEF Inv, ConnType, ServerType
  <2>3. UpStream \in Seq(Byte) /\ UpStream' = UpStream \o f
    <3> DEFINE r == server.read
               x == client.tx
               ru == r \o up
    <3>1. r \in Seq(Byte) /\ x \in Seq(Byte) /\ ru \in Seq(Byte) /\ f \in Seq(Byte)
      BY <1>3, <1>4 DEF ServerType, ClientType
    <3> HIDE DEF f
    <3>2. UpStream = ru \o x /\ UpStream' = ru \o (x \o f)
      BY Zenon, ZenonT(60), <1>1, <1>6 DEF UpStream, tx2
    <3> HIDE DEF r, x, ru
    <3>3. ru \o x \in Seq(Byte) /\ ru \o (x \o f) = (ru \o x) \o f
      BY <3>1
    <3> QED BY <3>2, <3>3
  <2> HIDE DEF e
  <2>4. Reading(UpStream, sent_up', m, g, server.body, e, TRUE)
    BY Zenon, ZenonT(60), <1>4, <2>1, <2>2, ReadingSame
  <2>5. Reading(UpStream \o FrameMessage(sent_up'[m + 1]), sent_up', m + 1, g, server.body, e, TRUE)
    <3>1. m + 1 <= Len(sent_up')
      BY <1>4
    <3> QED BY Zenon, ZenonT(60), <3>1, <1>4, <2>2, <2>3, <2>4, ReadingAppend
  <2>6. Reading(UpStream', sent_up', Len(sent_up'), g, server.body, e, TRUE)
    BY Zenon, ZenonT(60), <2>3, <2>5, <1>4
  <2>7. server.reading = "body" => sent_up'[g + 1] = sent_up[g + 1]
    <3> SUFFICES ASSUME server.reading = "body" PROVE sent_up'[g + 1] = sent_up[g + 1]
      OBVIOUS
    <3>1. e = frame_header_size
      BY DEF e
    <3>2. g < m
      BY Zenon, ZenonT(60), <3>1, <2>1, <2>2, <1>4, ReadingBusy
    <3>3. g + 1 \in 1..m
      BY <3>2, <2>2, <1>4
    <3> QED BY <3>3, <1>4
  <2>8. g <= Len(sent_up')
    BY <2>1, <2>2, <1>4
  <2>9. /\ server.reading = "header" => server.need = frame_header_size
        /\ server.reading = "body" =>
              /\ server.need = NextLen(Len(sent_up[g + 1]), Len(server.body))
              /\ server.more <=> NextMore(Len(sent_up[g + 1]), Len(server.body))
    BY Zenon, ZenonT(60) DEF Inv, UpInv
  <2> QED BY <1>1, <2>6, <2>7, <2>8, <2>9, Zenon, ZenonT(60) DEF UpInv, e
<1> QED BY <1>7, <1>8, <1>9 DEF Inv

\* SendTo
LEMMA SendToInv ==
    ASSUME Inv, NEW length \in DownLengths, SendTo(length)
    PROVE  Inv'
<1> DEFINE body == Encoding(Len(sent_down) + 1, length)
           f == FrameMessage(body)
           m == Len(sent_down)
           n == Len(server.out)
<1>1. /\ ~server.closing /\ sent_down' = Append(sent_down, body) /\ server' = Enqueue(f)
      /\ UNCHANGED <<client, up, down, sent_up, got_up, got_down, destroyed>>
  BY DEF SendTo
<1>2. length \in Nat \ {0}
  BY FramingAssumption
<1>3. sent_down \in Messages /\ Decodable(sent_down) /\ server \in ServerType
  BY DEF Inv, ConnType
<1>4. /\ body \in Seq(Byte) /\ f \in Seq(Byte)
      /\ sent_down' \in Messages /\ Decodable(sent_down')
      /\ m \in Nat /\ Len(sent_down') = m + 1
      /\ (\A j \in 1..m : sent_down'[j] = sent_down[j]) /\ sent_down'[m + 1] = body
  BY <1>1, <1>2, <1>3, SentFacts
<1> HIDE DEF body, f
<1>5. /\ server' \in ServerType /\ SameReader(server, server')
      /\ server'.closing = server.closing /\ server'.out = Append(server.out, f)
      /\ server'.frame = server.frame
      /\ server'.writer = "writing" <=> server.writer = "writing"
  BY <1>1, <1>3, <1>4, EnqueueFacts
<1>6. ConnType'
  BY <1>1, <1>4, <1>5 DEF Inv, ConnType
<1>7. UpInv'
  BY <1>1, <1>5, UpSame DEF Inv
<1>8. DownInv'
  <2> SUFFICES ASSUME client.open PROVE DownInv'
    BY Zenon, ZenonT(60), <1>1 DEF DownInv
  <2> DEFINE w == Written
             g == Len(got_down)
  <2>1. /\ n <= m /\ g <= w
        /\ Reading(DownStream, sent_down, w, g, client.rx_msg, 0, ~server.closing)
        /\ server.writer # "writing" => server.frame = <<>>
        /\ \A j \in 1..n : server.out[j] = FrameMessage(sent_down[w + j])
    BY DEF Inv, DownInv
  <2>2. /\ server.out \in Seq(Seq(Byte)) /\ n \in Nat /\ w = m - n /\ w \in Nat /\ g \in Nat
        /\ g \in 0..w
    BY <1>3, <1>4, <2>1 DEF Inv, ConnType, ServerType, Written
  <2>3. /\ Len(server'.out) = n + 1 /\ server'.out[n + 1] = f
        /\ \A j \in 1..n : server'.out[j] = server.out[j]
    BY <1>4, <1>5, <2>2
  <2>4. Written' = w
    BY <2>2, <2>3, <1>4 DEF Written
  <2>5. DownStream' = DownStream
    BY <1>1, <1>5 DEF DownStream
  <2> HIDE DEF w
  <2>6. \A j \in 1..w : sent_down'[j] = sent_down[j]
    <3>1. \A j \in 1..w : j \in 1..m
      BY <2>2, <1>4
    <3> QED BY <3>1, <1>4
  <2>7. Reading(DownStream, sent_down', w, g, client.rx_msg, 0, ~server.closing)
    BY <2>1, <2>2, <2>6, ReadingSame
  <2>8. ASSUME NEW j \in 1..(n + 1) PROVE server'.out[j] = FrameMessage(sent_down'[w + j])
    <3>0. m \in Nat /\ n \in Nat /\ w = m - n /\ w \in Nat /\ n <= m
      BY <2>1, <2>2, <1>4
    <3>1. CASE j = n + 1
      <4>1. w + j = m + 1
        <5> HIDE DEF m, n
        <5> QED BY <3>0, <3>1
      <4> QED BY <4>1, <3>1, <2>3, <1>4 DEF f
    <3>2. CASE j \in 1..n
      <4>1. w + j \in 1..m
        <5> HIDE DEF m, n
        <5> QED BY <3>0, <3>2
      <4> QED BY <4>1, <3>2, <2>1, <2>3, <1>4
    <3>3. j = n + 1 \/ j \in 1..n
      <4> HIDE DEF m, n
      <4> QED BY <3>0
    <3> QED BY <3>1, <3>2, <3>3
  <2>9. Len(server'.out) <= Len(sent_down') /\ Len(got_down') <= Written'
    BY <2>1, <2>2, <2>3, <2>4, <1>1, <1>4
  <2>10. Reading(DownStream, sent_down, Written, Len(got_down), client.rx_msg, 0, ~server.closing)'
    BY <2>4, <2>5, <2>7, <1>1, <1>5
  <2>11. (server.writer # "writing" => server.frame = <<>>)'
    BY <2>1, <1>5
  <2>12. (\A j \in 1..Len(server.out) : server.out[j] = FrameMessage(sent_down[Written + j]))'
    BY <2>3, <2>4, <2>8
  <2> QED BY <2>9, <2>10, <2>11, <2>12, Zenon, ZenonT(60) DEF DownInv
<1> QED BY <1>6, <1>7, <1>8 DEF Inv

\* DrainServer
LEMMA DrainServerInv ==
    ASSUME Inv, DrainServer
    PROVE  Inv'
<1> DEFINE rx2 == client.rx \o down
           mid == [client EXCEPT !.rx = rx2]
<1>1. client \in ClientType /\ down \in Seq(Byte) /\ server \in ServerType
  BY DEF Inv, ConnType
<1>2. /\ down' = <<>>
      /\ UNCHANGED <<server, up, sent_up, got_up, sent_down, got_down, destroyed>>
      /\ client' = Closed(mid) \/ client' = [client EXCEPT !.rx = rx2, !.at = "carve"]
      /\ client.open
  BY DEF DrainServer
<1>3. rx2 \in Seq(Byte)
  BY <1>1 DEF ClientType
<1>4. <<>> \in Seq(Byte)
  OBVIOUS
<1> HIDE DEF rx2
<1>5. /\ client' \in ClientType /\ client'.tx = client.tx
      /\ client'.rx_msg = client.rx_msg
      /\ client'.open => client'.rx = rx2
  <2>1. mid \in ClientType /\ mid.tx = client.tx /\ mid.rx_msg = client.rx_msg
    BY Zenon, ZenonT(60), <1>1, <1>3 DEF ClientType
  <2>2. CASE client' = Closed(mid)
    BY Zenon, ZenonT(60), <2>1, <2>2, ClosedFacts
  <2>3. CASE client' = [client EXCEPT !.rx = rx2, !.at = "carve"]
    BY Zenon, ZenonT(60), <1>1, <1>3, <2>3 DEF ClientType
  <2> QED BY <1>2, <2>2, <2>3
<1>6. ConnType'
  BY <1>2, <1>4, <1>5 DEF Inv, ConnType
<1>7. UpInv'
  BY <1>2, <1>5, UpSame DEF Inv, SameReader
<1>8. client'.open => DownStream' = DownStream
  <2>1. client'.open => DownStream' = (rx2 \o <<>>) \o server.frame
    BY Zenon, ZenonT(60), <1>2, <1>5 DEF DownStream
  <2>2. rx2 \o <<>> = rx2
    BY <1>3
  <2> QED BY Zenon, ZenonT(60), <2>1, <2>2 DEF DownStream, rx2
<1>9. DownInv'
  BY <1>2, <1>5, <1>8, DownSame DEF Inv
<1> QED BY <1>6, <1>7, <1>9 DEF Inv

\* Destroy
LEMMA DestroyInv ==
    ASSUME Inv, Destroy
    PROVE  Inv'
<1>1. /\ client' = Closed(client) /\ destroyed' = TRUE
      /\ UNCHANGED <<server, up, down, sent_up, got_up, sent_down, got_down>>
  BY DEF Destroy
<1>2. client' \in ClientType /\ client'.tx = client.tx /\ ~client'.open
  BY <1>1, ClosedFacts DEF Inv, ConnType
<1>3. ConnType'
  BY <1>1, <1>2 DEF Inv, ConnType
<1>4. UpInv'
  BY <1>1, <1>2, UpSame DEF Inv, SameReader
<1>5. DownInv'
  BY <1>2 DEF DownInv
<1> QED BY <1>3, <1>4, <1>5 DEF Inv

\* ReadEof
LEMMA ReadEofInv ==
    ASSUME Inv, ReadEof
    PROVE  Inv'
<1>1. /\ server' = SessionEnd(server)
      /\ UNCHANGED <<client, up, down, sent_up, got_up, sent_down, got_down, destroyed>>
  BY DEF ReadEof
<1>2. /\ server' \in ServerType /\ server'.closing /\ server'.out = server.out
      /\ server'.frame = server.frame /\ (server'.writer = "writing" <=> server.writer = "writing")
  BY <1>1, SessionEndFacts DEF Inv, ConnType
<1>3. ConnType'
  BY <1>1, <1>2 DEF Inv, ConnType
<1>4. UpInv'
  BY <1>2 DEF UpInv
<1>5. DownStream' = DownStream
  BY <1>1, <1>2 DEF DownStream
<1>6. DownInv'
  BY <1>1, <1>2, <1>5, DownSame DEF Inv
<1> QED BY <1>3, <1>4, <1>6 DEF Inv

\* FlushServer
LEMMA FlushServerInv ==
    ASSUME Inv, FlushServer
    PROVE  Inv'
<1>1. UNCHANGED <<server, down, sent_up, got_up, sent_down, got_down, destroyed>> /\ client.open
  BY Zenon, ZenonT(60) DEF FlushServer
<1>2. client \in ClientType /\ up \in Seq(Byte) /\ server \in ServerType
  BY DEF Inv, ConnType
<1>3. ASSUME client' \in ClientType, up' \in Seq(Byte),
             client'.rx = client.rx, client'.rx_msg = client.rx_msg, UpStream' = UpStream
      PROVE  Inv'
  <2>1. ConnType'
    BY <1>1, <1>3 DEF Inv, ConnType
  <2>2. UpInv'
    BY <1>1, <1>3, Zenon, ZenonT(60) DEF Inv, UpInv
  <2>3. DownStream' = DownStream
    BY <1>1, <1>3 DEF DownStream
  <2>4. DownInv'
    BY <1>1, <1>3, <2>3, DownSame DEF Inv
  <2> QED BY <2>1, <2>2, <2>4 DEF Inv
<1>4. ASSUME NEW k \in Writable(client.tx, up), up' = up \o FirstBytes(client.tx, k),
             client' = [client EXCEPT !.tx = RestBytes(@, k), !.at = "program"]
      PROVE  Inv'
  <2> DEFINE f == FirstBytes(client.tx, k)
             r == RestBytes(client.tx, k)
  <2>1. client.tx \in Seq(Byte) /\ k \in 0..Len(client.tx)
    BY <1>2 DEF ClientType, Writable
  <2>2. f \in Seq(Byte) /\ r \in Seq(Byte)
    BY <2>1, TakeFacts
  <2>3. client' = [client EXCEPT !.tx = r, !.at = "program"]
    BY <1>4
  <2> HIDE DEF f, r
  <2>4. /\ client' \in ClientType /\ client'.tx = r
        /\ client'.rx = client.rx /\ client'.rx_msg = client.rx_msg
    BY Zenon, ZenonT(60), <1>2, <2>2, <2>3 DEF ClientType
  <2>5. up' \in Seq(Byte)
    BY <1>2, <1>4, <2>2 DEF f
  <2>6. UpStream' = UpStream
    <3>1. UpStream' = (server.read \o (up \o FirstBytes(client.tx, k))) \o RestBytes(client.tx, k)
      BY Zenon, ZenonT(60), <1>1, <1>4, <2>4 DEF UpStream, r
    <3>2. server.read \in Seq(Byte)
      BY <1>2 DEF ServerType
    <3>3. (server.read \o (up \o FirstBytes(client.tx, k))) \o RestBytes(client.tx, k)
             = (server.read \o up) \o client.tx
      <4> DEFINE x == client.tx
                 d == server.read
      <4>1. x \in Seq(Byte) /\ d \in Seq(Byte) /\ up \in Seq(Byte) /\ k \in 0..Len(x)
        BY <3>2, <1>2, <2>1
      <4> HIDE DEF x, d
      <4>2. (d \o (up \o FirstBytes(x, k))) \o RestBytes(x, k) = (d \o up) \o x
        BY <4>1, TakeThrough, ZenonT(60), ZenonT(90)
      <4> QED BY <4>2 DEF x, d
    <3> QED BY <3>1, <3>3 DEF UpStream
  <2> QED BY <2>4, <2>5, <2>6, <1>3
<1>5. ASSUME client' = Closed(client), up' = up
      PROVE  Inv'
  <2>1. /\ client' \in ClientType /\ client'.tx = client.tx
        /\ client'.rx = client.rx /\ client'.rx_msg = client.rx_msg
    BY <1>2, <1>5, ClosedFacts
  <2>2. UpStream' = UpStream
    BY <1>1, <1>5, <2>1 DEF UpStream
  <2> QED BY <2>1, <2>2, <1>2, <1>3, <1>5
<1> QED BY Zenon, ZenonT(60), <1>4, <1>5 DEF FlushServer

\* WriteLoop
LEMMA WriteLoopInv ==
    ASSUME Inv, WriteLoop
    PROVE  Inv'
<1>1. /\ UNCHANGED <<client, up, down, sent_up, got_up, sent_down, got_down, destroyed>>
      /\ server.writer = "ready"
  BY DEF WriteLoop
<1>2. server \in ServerType /\ client \in ClientType /\ down \in Seq(Byte)
  BY DEF Inv, ConnType
<1>3. ASSUME NEW w \in {"done", "waiting"}, server' = [server EXCEPT !.writer = w]
      PROVE  Inv'
  <2>1. /\ server' \in ServerType /\ SameReader(server, server')
        /\ server'.closing = server.closing /\ server'.out = server.out
        /\ server'.frame = server.frame /\ server'.writer # "writing"
    BY Zenon, ZenonT(60), <1>2, <1>3 DEF ServerType, SameReader
  <2>2. ConnType'
    BY <1>1, <2>1 DEF Inv, ConnType
  <2>3. UpInv'
    BY <1>1, <2>1, UpSame DEF Inv
  <2>4. DownStream' = DownStream
    BY <1>1, <2>1 DEF DownStream
  <2>5. DownInv'
    BY <1>1, <2>1, <2>4, DownSame DEF Inv
  <2> QED BY <2>2, <2>3, <2>5 DEF Inv
<1>4. ASSUME ~server.closing, server.out # <<>>,
             server' = [server EXCEPT !.writer = "writing", !.frame = Head(server.out),
                                      !.out = Tail(@)]
      PROVE  Inv'
  <2> DEFINE f == Head(server.out)
             o == Tail(server.out)
             n == Len(server.out)
             m == Len(sent_down)
             w == Written
             g == Len(got_down)
  <2>1. /\ server.out \in Seq(Seq(Byte)) /\ n \in Nat \ {0} /\ f \in Seq(Byte) /\ f = server.out[1]
        /\ o \in Seq(Seq(Byte)) /\ Len(o) = n - 1
    BY <1>2, <1>4 DEF ServerType
  <2>2. \A j \in 1..(n - 1) : o[j] = server.out[j + 1]
    BY <2>1
  <2>3. server' = [server EXCEPT !.writer = "writing", !.frame = f, !.out = o]
    BY <1>4
  <2> HIDE DEF f, o
  <2>4. /\ server' \in ServerType /\ SameReader(server, server')
        /\ server'.closing = server.closing /\ server'.out = o
        /\ server'.frame = f /\ server'.writer = "writing"
    BY Zenon, ZenonT(60), <1>2, <2>1, <2>3 DEF ServerType, SameReader
  <2>5. ConnType'
    BY <1>1, <2>4 DEF Inv, ConnType
  <2>6. UpInv'
    BY <1>1, <2>4, UpSame DEF Inv
  <2>7. DownInv'
    <3> SUFFICES ASSUME client.open PROVE DownInv'
      BY <1>1 DEF DownInv
    <3>1. /\ n <= m /\ g <= w
          /\ Reading(DownStream, sent_down, w, g, client.rx_msg, 0, ~server.closing)
          /\ server.frame = <<>>
          /\ \A j \in 1..n : server.out[j] = FrameMessage(sent_down[w + j])
      BY <1>1 DEF Inv, DownInv
    <3>2. /\ m \in Nat /\ n \in Nat \ {0} /\ n <= m /\ w = m - n /\ w \in Nat
          /\ g \in Nat /\ g <= w /\ g \in 0..w /\ w + 1 <= m
      <4>1. m \in Nat /\ g \in Nat
        BY DEF Inv, ConnType, Messages
      <4>2. n <= m /\ g <= w /\ n \in Nat \ {0} /\ w = m - n
        BY <3>1, <2>1 DEF Written
      <4> HIDE DEF m, n, g, w
      <4> QED BY <4>1, <4>2
    <3>3. Written' = w + 1 /\ Len(o) = n - 1
      <4>1. Written' = m - (n - 1)
        BY Zenon, ZenonT(60), <1>1, <2>1, <2>4 DEF Written
      <4>2. m - (n - 1) = (m - n) + 1
        <5> HIDE DEF m, n
        <5> QED BY <3>2
      <4> QED BY <4>1, <4>2, <2>1, <3>2
    <3>4. f = FrameMessage(sent_down[w + 1])
      <4>1. 1 \in 1..n
        BY <3>2
      <4>2. server.out[1] = FrameMessage(sent_down[w + 1])
        BY <4>1, <3>1, Zenon, ZenonT(60)
      <4> QED BY <4>2, <2>1
    <3>5. DownStream \in Seq(Byte) /\ DownStream' = DownStream \o f
      <4> DEFINE rd == client.rx \o down
      <4>1. rd \in Seq(Byte) /\ DownStream = rd \o <<>> /\ DownStream' = rd \o f
        BY <1>1, <1>2, <2>4, <3>1 DEF DownStream, ClientType
      <4> HIDE DEF rd
      <4>2. rd \o <<>> = rd
        BY <4>1
      <4> QED BY <4>1, <4>2
    <3>6. Reading(DownStream, sent_down, w, g, client.rx_msg, 0, TRUE)
      BY Zenon, ZenonT(60), <3>1, <1>4, ReadingWeaker
    <3>7. sent_down \in Messages /\ client.rx_msg \in Seq(Byte) /\ 0 \in Nat
      BY <1>2 DEF Inv, ConnType, ClientType
    <3> HIDE DEF w, g, m, n
    <3>8. Reading(DownStream \o FrameMessage(sent_down[w + 1]), sent_down, w + 1, g,
                  client.rx_msg, 0, TRUE)
      BY Zenon, ZenonT(60), <3>2, <3>5, <3>6, <3>7, ReadingAppend DEF m
    <3>9. Reading(DownStream', sent_down, w + 1, g, client.rx_msg, 0, TRUE)
      BY <3>4, <3>5, <3>8, Zenon, ZenonT(60)
    <3>10. Reading(DownStream', sent_down, w + 1, g, client.rx_msg, 0, ~server'.closing)
      BY Zenon, ZenonT(60), <3>9, ReadingWeaker
    <3>11. ASSUME NEW j \in 1..(n - 1) PROVE o[j] = FrameMessage(sent_down[(w + 1) + j])
      <4>1. j + 1 \in 1..n /\ w + (j + 1) = (w + 1) + j
        BY <3>2
      <4> QED BY <4>1, <2>2, <3>1
    <3>12. n - 1 <= m /\ g <= w + 1
      BY <3>2
    <3>13. Len(server'.out) <= Len(sent_down') /\ Len(got_down') <= Written'
      BY <3>12, <3>3, <2>4, <1>1 DEF m, g
    <3>14. Reading(DownStream, sent_down, Written, Len(got_down), client.rx_msg, 0, ~server.closing)'
      BY <3>3, <3>10, <1>1 DEF g
    <3>15. (\A j \in 1..Len(server.out) : server.out[j] = FrameMessage(sent_down[Written + j]))'
      BY <3>3, <3>11, <2>4, <1>1
    <3> QED BY <3>13, <3>14, <3>15, <2>4, Zenon, ZenonT(60) DEF DownInv
  <2> QED BY <2>5, <2>6, <2>7 DEF Inv
<1> QED BY <1>3, <1>4 DEF WriteLoop

\* AsyncWrite
LEMMA AsyncWriteInv ==
    ASSUME Inv, AsyncWrite
    PROVE  Inv'
<1>1. /\ UNCHANGED <<client, up, sent_up, got_up, sent_down, got_down, destroyed>>
      /\ server.writer = "writing"
  BY Zenon, ZenonT(60) DEF AsyncWrite
<1>2. server \in ServerType /\ client \in ClientType /\ down \in Seq(Byte)
  BY DEF Inv, ConnType
<1>3. ASSUME NEW k \in Writable(server.frame, down),
             down' = down \o FirstBytes(server.frame, k),
             server' = [server EXCEPT !.frame = RestBytes(@, k),
                           !.writer = IF k = Len(server.frame) THEN "ready" ELSE "writing"]
      PROVE  Inv'
  <2> DEFINE f == FirstBytes(server.frame, k)
             r == RestBytes(server.frame, k)
             w == IF k = Len(server.frame) THEN "ready" ELSE "writing"
  <2>1. server.frame \in Seq(Byte) /\ k \in 0..Len(server.frame)
    BY <1>2 DEF ServerType, Writable
  <2>2. /\ f \in Seq(Byte) /\ r \in Seq(Byte) /\ Len(r) = Len(server.frame) - k
        /\ w \in {"ready", "writing"}
    BY <2>1, TakeFacts, ZenonT(60), ZenonT(90)
  <2>3. w # "writing" => r = <<>>
    <3>1. Len(server.frame) \in Nat
      BY <2>1
    <3>2. w # "writing" => Len(r) = 0
      BY <2>2, <3>1
    <3> HIDE DEF r
    <3> QED BY <2>2, <3>2
  <2>4. server' = [server EXCEPT !.frame = r, !.writer = w]
    BY <1>3
  <2> HIDE DEF f, r, w
  <2>5. /\ server' \in ServerType /\ SameReader(server, server')
        /\ server'.closing = server.closing /\ server'.out = server.out
        /\ server'.frame = r /\ server'.writer = w
    BY Zenon, ZenonT(60), <1>2, <2>2, <2>4 DEF ServerType, SameReader
  <2>6. down' \in Seq(Byte)
    BY <1>2, <1>3, <2>2 DEF f
  <2>7. ConnType'
    BY <1>1, <2>5, <2>6 DEF Inv, ConnType
  <2>8. UpInv'
    BY <1>1, <2>5, UpSame DEF Inv
  <2>9. DownStream' = DownStream
    <3>1. DownStream' = (client.rx \o (down \o FirstBytes(server.frame, k))) \o RestBytes(server.frame, k)
      BY Zenon, ZenonT(60), <1>1, <1>3, <2>5 DEF DownStream, r
    <3>2. client.rx \in Seq(Byte)
      BY <1>2 DEF ClientType
    <3>3. (client.rx \o (down \o FirstBytes(server.frame, k))) \o RestBytes(server.frame, k)
             = (client.rx \o down) \o server.frame
      <4> DEFINE x == server.frame
                 d == client.rx
      <4>1. x \in Seq(Byte) /\ d \in Seq(Byte) /\ down \in Seq(Byte) /\ k \in 0..Len(x)
        BY <3>2, <1>2, <2>1
      <4> HIDE DEF x, d
      <4>2. (d \o (down \o FirstBytes(x, k))) \o RestBytes(x, k) = (d \o down) \o x
        BY <4>1, TakeThrough, ZenonT(60), ZenonT(90)
      <4> QED BY <4>2 DEF x, d
    <3> QED BY <3>1, <3>3 DEF DownStream
  <2>10. DownInv'
    <3> SUFFICES ASSUME client.open PROVE DownInv'
      BY <1>1 DEF DownInv
    <3>1. Written' = Written
      BY <1>1, <2>5 DEF Written
    <3> QED BY <3>1, <1>1, <2>3, <2>5, <2>9, Zenon, ZenonT(60) DEF Inv, DownInv
  <2> QED BY <2>7, <2>8, <2>10 DEF Inv
<1>4. ASSUME server.closing \/ ~client.open, down' = down,
             server' = [server EXCEPT !.writer = "done", !.frame = <<>>]
      PROVE  Inv'
  <2>1. <<>> \in Seq(Byte)
    OBVIOUS
  <2> DEFINE e == <<>>
  <2>2. server' = [server EXCEPT !.writer = "done", !.frame = e] /\ e \in Seq(Byte)
    BY <1>4
  <2> HIDE DEF e
  <2>3. /\ server' \in ServerType /\ SameReader(server, server')
        /\ server'.closing = server.closing /\ server'.out = server.out
        /\ server'.frame = e /\ server'.writer = "done"
    BY Zenon, ZenonT(60), <1>2, <2>2 DEF ServerType, SameReader
  <2>4. ConnType'
    BY <1>1, <1>4, <2>3 DEF Inv, ConnType
  <2>5. UpInv'
    BY <1>1, <2>3, UpSame DEF Inv
  <2>6. DownInv'
    <3> SUFFICES ASSUME client.open PROVE DownInv'
      BY <1>1 DEF DownInv
    <3>1. server.closing /\ server'.closing
      BY <1>4, <2>3
    <3> DEFINE rd == client.rx \o down
    <3>2. Reading(rd \o server.frame, sent_down, Written, Len(got_down), client.rx_msg, 0,
                  ~server.closing)
      BY DEF Inv, DownInv, DownStream
    <3>3. rd \in Seq(Byte) /\ server.frame \in Seq(Byte) /\ Written \in Nat
      <4>1. rd \in Seq(Byte) /\ server.frame \in Seq(Byte)
        BY <1>2 DEF ClientType, ServerType
      <4>2. Len(sent_down) \in Nat /\ Len(server.out) \in Nat
        BY <1>2 DEF Inv, ConnType, Messages, ServerType
      <4>3. Len(server.out) <= Len(sent_down)
        BY DEF Inv, DownInv
      <4> QED BY <4>1, <4>2, <4>3 DEF Written
    <3>4. DownStream' = rd
      <4>1. DownStream' = rd \o <<>>
        BY <1>1, <1>4, <2>3 DEF DownStream, e
      <4> HIDE DEF rd
      <4> QED BY <4>1, <3>3
    <3> HIDE DEF rd
    <3>5. Reading(rd, sent_down, Written, Len(got_down), client.rx_msg, 0, FALSE)
      BY Zenon, ZenonT(60), <3>2, <3>3, ReadingPrefix
    <3>6. Reading(rd, sent_down, Written, Len(got_down), client.rx_msg, 0, ~server'.closing)
      BY <3>1, <3>5, ReadingWeaker, Zenon, ZenonT(60)
    <3>7. Written' = Written
      BY <1>1, <2>3 DEF Written
    <3> QED BY <3>4, <3>6, <3>7, <1>1, <2>3, Zenon, ZenonT(60) DEF Inv, DownInv, e
  <2> QED BY <2>4, <2>5, <2>6 DEF Inv
<1> QED BY Zenon, ZenonT(60), <1>3, <1>4 DEF AsyncWrite

-----------------------------------------------------------------------------
(***************************************************************************)
(* ReadLoop.                                                               *)
(***************************************************************************)

\* What a turn of a reader comes to: it waits for more, it takes the next message,
\* or it gives up, over a message no receiver takes.
Outcome(sent, got, gotNext, open, openNext) ==
    \/ gotNext = got /\ openNext = open
    \/ /\ openNext = open
       /\ Len(got) < Len(sent)
       /\ gotNext = Append(got, sent[Len(got) + 1])
    \/ /\ gotNext = got /\ ~openNext
       /\ Len(got) < Len(sent)
       /\ TooLong(sent[Len(got) + 1])

\* What TypeOK says of ReadLoop.
ReaderBounds(srv) ==
    /\ Len(srv.read) <= srv.need
    /\ Len(srv.body) + (IF srv.reading = "body" THEN srv.need ELSE 0) <= max_reassembled_size

\* The bytes async_read hands to ReadLoop are the first of the stream.
LEMMA ReadLoopBytes ==
    ASSUME ConnType, ReaderBounds(server),
           NEW k, k = Smaller(server.need - Len(server.read), Len(up)),
           NEW bytes, bytes = server.read \o FirstBytes(up, k)
    PROVE  /\ k \in 0..Len(up)
           /\ bytes \in Seq(Byte) /\ RestBytes(up, k) \in Seq(Byte)
           /\ Len(bytes) \in Nat /\ Len(bytes) <= server.need
           /\ UpStream \in Seq(Byte) /\ Len(bytes) <= Len(UpStream)
           /\ bytes = FirstBytes(UpStream, Len(bytes))
           /\ RestBytes(up, k) \o client.tx = RestBytes(UpStream, Len(bytes))
           /\ (bytes \o RestBytes(up, k)) \o client.tx = UpStream
<1> DEFINE r == server.read
           x == client.tx
           need == server.need
           n == Len(r)
           l == Len(up)
<1>1. r \in Seq(Byte) /\ x \in Seq(Byte) /\ up \in Seq(Byte) /\ need \in Nat
  BY DEF ConnType, ServerType, ClientType
<1>2. n \in Nat /\ l \in Nat /\ n <= need
  BY <1>1 DEF ReaderBounds
<1>3. k = IF need - n < l THEN need - n ELSE l
  BY DEF Smaller
<1>4. k \in 0..l /\ k \in Nat /\ n + k <= need
  <2> HIDE DEF n, l, need
  <2> QED BY <1>1, <1>2, <1>3
<1> HIDE DEF r, x, need
<1> DEFINE ru == r \o up
<1>5. /\ FirstBytes(ru, n + k) = r \o FirstBytes(up, k)
      /\ RestBytes(ru, n + k) = RestBytes(up, k)
      /\ n + k \in 0..Len(ru)
  <2>1. k \in 0..Len(up)
    BY <1>4
  <2> QED BY Zenon, ZenonT(60), <2>1, <1>1, TakeRight
<1>6. ru \in Seq(Byte) /\ Len(ru) \in Nat /\ Len(ru \o x) = Len(ru) + Len(x) /\ Len(x) \in Nat
      /\ ru \o x \in Seq(Byte)
  BY <1>1
<1>7. bytes = r \o FirstBytes(up, k)
  BY DEF r
<1>8. FirstBytes(up, k) \in Seq(Byte) /\ Len(FirstBytes(up, k)) = k /\ RestBytes(up, k) \in Seq(Byte)
  BY <1>1, <1>4, TakeFacts
<1>9. bytes \in Seq(Byte) /\ Len(bytes) = n + k
  <2> DEFINE f == FirstBytes(up, k)
  <2>1. f \in Seq(Byte) /\ Len(f) = k
    BY <1>8
  <2> HIDE DEF f
  <2>2. r \o f \in Seq(Byte) /\ Len(r \o f) = Len(r) + Len(f)
    BY <1>1, <2>1, ConcatFacts, Zenon, ZenonT(60)
  <2> QED BY Zenon, ZenonT(60), <2>1, <2>2, <1>7 DEF f
<1> HIDE DEF ru, n
<1>10. /\ FirstBytes(ru \o x, n + k) = FirstBytes(ru, n + k)
       /\ RestBytes(ru \o x, n + k) = RestBytes(ru, n + k) \o x
  BY Zenon, ZenonT(60), <1>1, <1>5, <1>6, TakeLeft
<1>11. UpStream = ru \o x
  BY DEF UpStream, ru, r, x
<1>12. n + k <= Len(ru \o x) /\ n + k \in Nat
  BY <1>2, <1>4, <1>5, <1>6
<1>13. (bytes \o RestBytes(up, k)) \o x = UpStream
  <2>1. ((r \o FirstBytes(up, k)) \o RestBytes(up, k)) \o x = (r \o up) \o x
    BY <1>1, <1>4, TakeConcat, ZenonT(60), ZenonT(90)
  <2> QED BY Zenon, ZenonT(60), <2>1, <1>7, <1>11 DEF ru
<1>14. bytes = FirstBytes(UpStream, Len(bytes)) /\ RestBytes(up, k) \o x = RestBytes(UpStream, Len(bytes))
  BY <1>5, <1>7, <1>9, <1>10, <1>11, Zenon, ZenonT(60)
<1>15. Len(bytes) \in Nat /\ Len(bytes) <= need /\ Len(bytes) <= Len(UpStream)
  BY Zenon, ZenonT(60), <1>4, <1>9, <1>11, <1>12
<1> QED BY Zenon, ZenonT(60), <1>4, <1>6, <1>8, <1>9, <1>11, <1>13, <1>14, <1>15 DEF need, x

\* A turn of ReadLoop: it keeps the streams and its bounds, and what it does to the
\* messages is an outcome.
LEMMA ReadLoopInv ==
    ASSUME Inv, ReaderBounds(server), ReadLoop
    PROVE  /\ Inv' /\ ReaderBounds(server')
           /\ Outcome(sent_up, got_up, got_up', ~server.closing, ~server'.closing)
           /\ server'.writer # "waiting" \/ SameWriter(server, server')
           /\ Len(up') <= Len(up)
<1> DEFINE k == Smaller(server.need - Len(server.read), Len(up))
           bytes == server.read \o FirstBytes(up, k)
           rest == RestBytes(up, k)
           g == Len(got_up)
           m == Len(sent_up)
           msg == sent_up[g + 1]
<1>1. /\ ~server.closing /\ up' = rest
      /\ UNCHANGED <<client, down, sent_up, sent_down, got_down, destroyed>>
  BY DEF ReadLoop
<1>2. /\ server \in ServerType /\ client \in ClientType /\ sent_up \in Messages
      /\ Decodable(sent_up) /\ got_up \in Seq(Seq(Byte)) /\ server.body \in Seq(Byte)
      /\ up \in Seq(Byte)
  BY DEF Inv, ConnType, ServerType
<1>3. /\ bytes \in Seq(Byte) /\ rest \in Seq(Byte)
      /\ Len(bytes) \in Nat /\ Len(bytes) <= server.need
      /\ UpStream \in Seq(Byte) /\ Len(bytes) <= Len(UpStream)
      /\ bytes = FirstBytes(UpStream, Len(bytes))
      /\ rest \o client.tx = RestBytes(UpStream, Len(bytes))
      /\ (bytes \o rest) \o client.tx = UpStream
  BY Zenon, ZenonT(60), ReadLoopBytes DEF Inv
<1>4. /\ g <= m /\ g \in Nat /\ m \in Nat /\ g \in 0..m /\ m \in 0..Len(sent_up)
      /\ Reading(UpStream, sent_up, m, g, server.body,
                 IF server.reading = "body" THEN frame_header_size ELSE 0, TRUE)
  <2>1. g \in Nat /\ m \in Nat
    BY <1>2 DEF Messages
  <2>2. g <= m
    BY Zenon, ZenonT(60), <1>1 DEF Inv, UpInv
  <2>3. Reading(UpStream, sent_up, m, g, server.body,
                IF server.reading = "body" THEN frame_header_size ELSE 0, TRUE)
    BY Zenon, ZenonT(60), <1>1 DEF Inv, UpInv
  <2> HIDE DEF g, m
  <2>4. g \in 0..m /\ m \in 0..m
    BY <2>1, <2>2
  <2> QED BY Zenon, ZenonT(60), <2>1, <2>2, <2>3, <2>4 DEF m
<1>5. Len(up') <= Len(up)
  <2>1. k \in 0..Len(up)
    BY Zenon, ZenonT(60), ReadLoopBytes DEF Inv
  <2> HIDE DEF k
  <2>2. Len(rest) = Len(up) - k
    BY <2>1, <1>2, TakeFacts
  <2>3. Len(up) \in Nat
    BY <1>2
  <2> QED BY <2>1, <2>2, <2>3, <1>1
<1> HIDE DEF k, bytes, rest, g, m, msg
\* The parts that are the same in every case.
<1>6. ASSUME server' \in ServerType, got_up' \in Seq(Seq(Byte)), server'.out = server.out,
             server'.frame = server.frame,
             server'.writer = "writing" <=> server.writer = "writing"
      PROVE  ConnType' /\ DownInv'
  <2>1. ConnType'
    BY <1>1, <1>3, <1>6 DEF Inv, ConnType
  <2>2. DownStream' = DownStream
    BY <1>1, <1>6 DEF DownStream
  <2>3. DownInv'
    BY <1>1, <1>6, <2>2, DownSame DEF Inv
  <2> QED BY <2>1, <2>3
<1>7. ASSUME Len(bytes) < server.need, server' = [server EXCEPT !.read = bytes], got_up' = got_up
      PROVE  Inv' /\ ReaderBounds(server') /\ SameWriter(server, server')
  <2>1. /\ server' \in ServerType /\ SameWriter(server, server') /\ server'.read = bytes
        /\ server'.body = server.body /\ server'.reading = server.reading
        /\ server'.need = server.need /\ server'.more = server.more
    BY Zenon, ZenonT(60), <1>2, <1>3, <1>7 DEF ServerType, SameWriter
  <2>2. ConnType' /\ DownInv'
    BY <1>2, <1>6, <1>7, <2>1 DEF SameWriter
  <2>3. UpStream' = UpStream
    BY Zenon, ZenonT(60), <1>1, <1>3, <2>1 DEF UpStream
  <2>4. UpInv'
    BY <1>1, <1>7, <2>1, <2>3, Zenon, ZenonT(60) DEF Inv, UpInv, SameWriter
  <2>5. ReaderBounds(server')
    BY <1>3, <2>1 DEF ReaderBounds
  <2> QED BY <2>1, <2>2, <2>4, <2>5 DEF Inv
<1>8. ASSUME Len(bytes) = server.need, server.reading = "header",
             server' = ReadHeader(server, bytes), got_up' = got_up
      PROVE  /\ Inv' /\ ReaderBounds(server')
             /\ \/ SameWriter(server, server')
                \/ server'.closing /\ g < m /\ TooLong(msg) /\ server'.writer # "waiting"
  <2> DEFINE b == server.body
             h == frame_header_size
             len == HeaderLen(bytes)
  <2>1. server.need = h /\ Reading(UpStream, sent_up, m, g, b, 0, TRUE)
    <3>1. server.need = h
      BY Zenon, ZenonT(60), <1>1, <1>8 DEF Inv, UpInv
    <3> QED BY Zenon, ZenonT(60), <3>1, <1>4, <1>8
  <2>2. bytes = FirstBytes(UpStream, h) /\ rest \o client.tx = RestBytes(UpStream, h)
        /\ h <= Len(UpStream)
    BY <1>3, <1>8, <2>1
  <2>3. /\ g < m
        /\ HeaderOk(bytes)
        /\ len = NextLen(Len(msg), Len(b))
        /\ HeaderMore(bytes) <=> NextMore(Len(msg), Len(b))
        /\ NextLen(Len(msg), Len(b)) \in Nat \ {0}
        /\ Len(b) + NextLen(Len(msg), Len(b)) <= Len(msg)
        /\ Reading(RestBytes(UpStream, h), sent_up, m, g, b, h, TRUE)
    <3>1. /\ sent_up \in Messages /\ m \in 0..Len(sent_up) /\ g \in 0..m
          /\ UpStream \in Seq(Byte) /\ b \in Seq(Byte) /\ h <= Len(UpStream)
          /\ Reading(UpStream, sent_up, m, g, b, 0, TRUE)
      BY Zenon, ZenonT(60), <1>2, <1>3, <1>4, <2>1, <2>2
    <3> HIDE DEF b
    <3>2. /\ g < m
          /\ HeaderOk(FirstBytes(UpStream, h))
          /\ HeaderLen(FirstBytes(UpStream, h)) = NextLen(Len(sent_up[g + 1]), Len(b))
          /\ HeaderMore(FirstBytes(UpStream, h)) <=> NextMore(Len(sent_up[g + 1]), Len(b))
          /\ NextLen(Len(sent_up[g + 1]), Len(b)) \in Nat \ {0}
          /\ Len(b) + NextLen(Len(sent_up[g + 1]), Len(b)) <= Len(sent_up[g + 1])
          /\ Reading(RestBytes(UpStream, h), sent_up, m, g, b, h, TRUE)
      BY Zenon, ZenonT(60), <3>1, HeaderRead
    <3> QED BY <2>2, <3>2, Zenon, ZenonT(60) DEF msg
  <2>4. Len(b) \in Nat /\ len \in Nat /\ len # 0 /\ Len(b) + len <= Len(msg)
    BY <1>2, <2>3
  <2> HIDE DEF len
  <2>5. CASE Fits(Len(b), len)
    <3>1. /\ server' \in ServerType /\ SameWriter(server, server')
          /\ server'.reading = "body" /\ server'.need = len
          /\ (server'.more <=> HeaderMore(bytes))
          /\ server'.read = <<>> /\ server'.body = b
      BY Zenon, ZenonT(60), <1>2, <1>8, <2>3, <2>4, <2>5, ReadHeaderFacts DEF len
    <3>2. ConnType' /\ DownInv'
      BY <1>2, <1>6, <1>8, <3>1 DEF SameWriter
    <3>3. UpStream' = RestBytes(UpStream, h)
      <4>1. UpStream' = (<<>> \o rest) \o client.tx
        BY <1>1, <3>1 DEF UpStream
      <4>2. <<>> \o rest = rest
        BY <1>3
      <4> QED BY <4>1, <4>2, <2>2
    <3>4. UpInv'
      <4>1. Reading(UpStream', sent_up', Len(sent_up'), Len(got_up'), server'.body, h, TRUE)
        BY Zenon, ZenonT(60), <1>1, <1>8, <2>3, <3>1, <3>3 DEF m, g
      <4>2. Reading(UpStream', sent_up', Len(sent_up'), Len(got_up'), server'.body,
                    IF server'.reading = "body" THEN h ELSE 0, TRUE)
        BY Zenon, ZenonT(60), <3>1, <4>1
      <4>3. Len(got_up') <= Len(sent_up')
        BY <1>1, <1>4, <1>8 DEF m, g
      <4>4. /\ server'.need = NextLen(Len(sent_up'[Len(got_up') + 1]), Len(server'.body))
            /\ server'.more <=> NextMore(Len(sent_up'[Len(got_up') + 1]), Len(server'.body))
        BY <1>1, <1>8, <2>3, <3>1 DEF msg, g, len
      <4> QED BY <3>1, <4>2, <4>3, <4>4, Zenon, ZenonT(60) DEF UpInv
    <3>5. ReaderBounds(server')
      <4>1. Len(server'.read) = 0
        BY <3>1
      <4>2. Len(server'.body) + server'.need <= max_reassembled_size
        BY <2>5, <3>1 DEF Fits
      <4> QED BY <2>4, <3>1, <4>1, <4>2 DEF ReaderBounds
    <3> QED BY <3>1, <3>2, <3>4, <3>5 DEF Inv
  <2>6. CASE ~Fits(Len(b), len)
    <3>1. server' = SessionEnd(server)
      BY <1>8, <2>6 DEF ReadHeader, len
    <3>2. /\ server' \in ServerType /\ SameReader(server, server') /\ server'.closing
          /\ server'.out = server.out /\ server'.frame = server.frame
          /\ server'.writer # "waiting"
          /\ (server'.writer = "writing" <=> server.writer = "writing")
      BY <1>2, <3>1, SessionEndFacts
    <3>3. ConnType' /\ DownInv'
      BY <1>2, <1>6, <1>8, <3>2
    <3>4. UpInv'
      BY <3>2 DEF UpInv
    <3>5. ReaderBounds(server')
      BY <3>2 DEF ReaderBounds, SameReader
    <3>6. TooLong(msg)
      <4>1. msg \in Seq(Byte)
        BY <1>2, <1>4, <2>3, MessageFacts DEF msg, m
      <4>2. Len(msg) \in Nat
        BY <4>1
      <4> QED BY <2>4, <2>6, <4>2, FramingAssumption DEF TooLong, Fits
    <3> QED BY <2>3, <3>2, <3>3, <3>4, <3>5, <3>6 DEF Inv
  <2> QED BY <2>5, <2>6
<1>9. ASSUME Len(bytes) = server.need, server.reading = "body", ReadFragment(server, bytes)
      PROVE  /\ Inv' /\ ReaderBounds(server') /\ SameWriter(server, server')
             /\ \/ got_up' = got_up
                \/ g < m /\ got_up' = Append(got_up, msg)
  <2> DEFINE b == server.body
             h == frame_header_size
             len == server.need
             whole == b \o bytes
  <2>1. /\ len = NextLen(Len(msg), Len(b)) /\ (server.more <=> NextMore(Len(msg), Len(b)))
        /\ Reading(UpStream, sent_up, m, g, b, h, TRUE)
    <3>1. len = NextLen(Len(msg), Len(b)) /\ (server.more <=> NextMore(Len(msg), Len(b)))
      BY Zenon, ZenonT(60), <1>1, <1>9 DEF Inv, UpInv, msg, g
    <3> QED BY Zenon, ZenonT(60), <3>1, <1>4, <1>9
  <2>2. /\ bytes = FirstBytes(UpStream, len) /\ rest \o client.tx = RestBytes(UpStream, len)
        /\ len <= Len(UpStream) /\ len \in Nat
    BY <1>3, <1>9
  <2>3. /\ g < m
        /\ NextMore(Len(msg), Len(b)) =>
              Reading(RestBytes(UpStream, len), sent_up, m, g, whole, 0, TRUE)
        /\ ~NextMore(Len(msg), Len(b)) =>
              whole = msg /\ Reading(RestBytes(UpStream, len), sent_up, m, g + 1, <<>>, 0, TRUE)
    <3>1. /\ sent_up \in Messages /\ m \in 0..Len(sent_up) /\ g \in 0..m
          /\ UpStream \in Seq(Byte) /\ b \in Seq(Byte) /\ len <= Len(UpStream) /\ len \in Nat
          /\ len = NextLen(Len(sent_up[g + 1]), Len(b))
          /\ Reading(UpStream, sent_up, m, g, b, h, TRUE)
      BY Zenon, ZenonT(60), <1>2, <1>3, <1>4, <2>1, <2>2 DEF msg
    <3> HIDE DEF b, len
    <3>2. /\ NextLen(Len(sent_up[g + 1]), Len(b)) <= Len(UpStream)
          /\ NextLen(Len(sent_up[g + 1]), Len(b)) \in Nat
      BY <3>1
    <3>3. /\ g < m
          /\ NextMore(Len(sent_up[g + 1]), Len(b)) =>
                Reading(RestBytes(UpStream, len), sent_up, m, g, b \o FirstBytes(UpStream, len), 0, TRUE)
          /\ ~NextMore(Len(sent_up[g + 1]), Len(b)) =>
                /\ b \o FirstBytes(UpStream, len) = sent_up[g + 1]
                /\ Reading(RestBytes(UpStream, len), sent_up, m, g + 1, <<>>, 0, TRUE)
      BY <3>1, <3>2, FragmentReadNext, Zenon, ZenonT(60)
    <3> QED BY <2>2, <3>3, Zenon, ZenonT(60) DEF msg
  <2>4. whole \in Seq(Byte) /\ Len(whole) <= max_reassembled_size
    <3>1. Len(b) + len <= max_reassembled_size
      BY <1>9 DEF ReaderBounds
    <3>2. b \in Seq(Byte) /\ bytes \in Seq(Byte) /\ Len(bytes) = len
      BY <1>2, <1>3, <1>9
    <3> HIDE DEF b, len
    <3>3. b \o bytes \in Seq(Byte) /\ Len(b \o bytes) = Len(b) + Len(bytes)
      BY <3>2, ConcatFacts, Zenon, ZenonT(60)
    <3> QED BY <3>1, <3>2, <3>3
  <2> HIDE DEF whole
  \* Back at a header, having n messages and body.
  <2>5. ASSUME NEW body \in Seq(Byte), Len(body) <= max_reassembled_size,
               server' = AtHeader(server, body),
               got_up' \in Seq(Seq(Byte)), Len(got_up') <= m,
               Reading(RestBytes(UpStream, len), sent_up, m, Len(got_up'), body, 0, TRUE)
        PROVE  Inv' /\ ReaderBounds(server') /\ SameWriter(server, server')
    <3>1. /\ server' \in ServerType /\ SameWriter(server, server')
          /\ server'.reading = "header" /\ server'.need = h
          /\ server'.read = <<>> /\ server'.body = body
      BY <1>2, <2>5, NextFrameFacts
    <3>2. ConnType' /\ DownInv'
      BY <1>6, <2>5, <3>1 DEF SameWriter
    <3>3. UpStream' = RestBytes(UpStream, len)
      <4>1. UpStream' = (<<>> \o rest) \o client.tx
        BY <1>1, <3>1 DEF UpStream
      <4>2. <<>> \o rest = rest
        BY <1>3
      <4> QED BY <4>1, <4>2, <2>2
    <3>4. UpInv'
      <4>1. Reading(UpStream', sent_up', Len(sent_up'), Len(got_up'), server'.body, 0, TRUE)
        BY Zenon, ZenonT(60), <1>1, <2>5, <3>1, <3>3 DEF m
      <4>2. Reading(UpStream', sent_up', Len(sent_up'), Len(got_up'), server'.body,
                    IF server'.reading = "body" THEN h ELSE 0, TRUE)
        BY Zenon, ZenonT(60), <3>1, <4>1
      <4>3. Len(got_up') <= Len(sent_up')
        BY <1>1, <2>5 DEF m
      <4> QED BY <3>1, <4>2, <4>3, Zenon, ZenonT(60) DEF UpInv
    <3>5. ReaderBounds(server')
      <4>1. Len(server'.read) = 0 /\ h \in Nat /\ Len(body) \in Nat
        BY <3>1, <2>5, FramingAssumption
      <4> QED BY <2>5, <3>1, <4>1 DEF ReaderBounds
    <3> QED BY <3>1, <3>2, <3>4, <3>5 DEF Inv
  <2>6. CASE server.more
    <3>1. server' = AtHeader(server, whole) /\ got_up' = got_up
      BY <1>9, <2>6 DEF ReadFragment, AtHeader, whole
    <3>2. Reading(RestBytes(UpStream, len), sent_up, m, Len(got_up'), whole, 0, TRUE)
      BY Zenon, ZenonT(60), <2>1, <2>3, <2>6, <3>1 DEF g
    <3>3. got_up' \in Seq(Seq(Byte)) /\ Len(got_up') <= m
      BY <1>2, <1>4, <3>1 DEF g
    <3>4. server' = AtHeader(server, whole)
      BY <3>1
    <3>5. Inv' /\ ReaderBounds(server') /\ SameWriter(server, server')
      BY Zenon, ZenonT(60), <2>4, <2>5, <3>2, <3>3, <3>4
    <3>6. got_up' = got_up
      BY <3>1
    <3> QED BY <3>5, <3>6, Zenon, ZenonT(60)
  <2>7. CASE ~server.more
    <3>1. whole = msg /\ Reading(RestBytes(UpStream, len), sent_up, m, g + 1, <<>>, 0, TRUE)
      BY Zenon, ZenonT(60), <2>1, <2>3, <2>7
    <3>2. g + 1 \in 1..m
      BY <1>4, <2>3
    <3>3. Decodes(whole)
      BY <1>2, <3>1, <3>2 DEF Decodable, msg, m
    <3>4. /\ server' = NextMessage([server EXCEPT !.body = whole])
          /\ got_up' = Append(got_up, whole)
      BY <1>9, <2>7, <3>3 DEF ReadFragment, whole
    <3>5. server' = AtHeader(server, <<>>)
      BY <1>2, <2>4, <3>4, NextMessageFacts
    <3>6. got_up' \in Seq(Seq(Byte)) /\ Len(got_up') = g + 1
      BY <1>2, <2>4, <3>4 DEF g
    <3>7. Len(got_up') <= m
      BY <1>4, <2>3, <3>6
    <3>8. <<>> \in Seq(Byte) /\ Len(<<>>) <= max_reassembled_size
      BY FramingAssumption
    <3>9. Reading(RestBytes(UpStream, len), sent_up, m, Len(got_up'), <<>>, 0, TRUE)
      BY Zenon, ZenonT(60), <3>1, <3>6
    <3>10. Inv' /\ ReaderBounds(server') /\ SameWriter(server, server')
      BY Zenon, ZenonT(60), <2>5, <3>5, <3>6, <3>7, <3>8, <3>9
    <3> QED BY <2>3, <3>1, <3>4, <3>10
  <2> QED BY <2>6, <2>7
<1>10. SameWriter(server, server') => (~server'.closing) = (~server.closing)
  BY DEF SameWriter
<1>11. CASE Len(bytes) < server.need /\ server' = [server EXCEPT !.read = bytes] /\ got_up' = got_up
  BY <1>5, <1>7, <1>10, <1>11 DEF Outcome
<1>12. CASE Len(bytes) = server.need /\ server.reading = "header"
            /\ server' = ReadHeader(server, bytes) /\ got_up' = got_up
  BY <1>1, <1>5, <1>8, <1>10, <1>12 DEF Outcome, g, m, msg
<1>13. CASE Len(bytes) = server.need /\ server.reading = "body" /\ ReadFragment(server, bytes)
  BY <1>5, <1>9, <1>10, <1>13 DEF Outcome, g, m, msg
<1> QED BY Zenon, ZenonT(60), <1>11, <1>12, <1>13 DEF ReadLoop, bytes, k

-----------------------------------------------------------------------------
(***************************************************************************)
(* CarveServer.                                                            *)
(***************************************************************************)

\* The numbers DownInv is about.
LEMMA DownNumbers ==
    ASSUME ConnType, DownInv, client.open
    PROVE  /\ Len(got_down) \in Nat /\ Len(sent_down) \in Nat
           /\ Written \in 0..Len(sent_down) /\ Len(got_down) \in 0..Written
<1> DEFINE g == Len(got_down)
           m == Len(sent_down)
           n == Len(server.out)
           w == Written
<1>1. g \in Nat /\ m \in Nat /\ n \in Nat
  BY DEF ConnType, Messages, ServerType
<1>2. n <= m /\ g <= w /\ w = m - n
  BY DEF DownInv, Written
<1> HIDE DEF g, m, n, w
<1>3. w \in 0..m /\ g \in 0..w
  BY <1>1, <1>2
<1> QED BY <1>1, <1>3 DEF g, m, w

\* The header at the front of rx is the next of the stream.
LEMMA CarveHeader ==
    ASSUME ConnType, DownInv, client.open, frame_header_size <= Len(client.rx),
           NEW header, header = FirstBytes(client.rx, frame_header_size),
           NEW n, n = Len(sent_down[Len(got_down) + 1]),
           NEW rest, rest = RestBytes(client.rx, frame_header_size)
    PROVE  /\ Len(got_down) < Written
           /\ HeaderOk(header)
           /\ HeaderLen(header) = NextLen(n, Len(client.rx_msg))
           /\ HeaderMore(header) <=> NextMore(n, Len(client.rx_msg))
           /\ HeaderLen(header) \in Nat \ {0}
           /\ Len(client.rx_msg) + HeaderLen(header) <= n
           /\ rest \in Seq(Byte) /\ Len(rest) = Len(client.rx) - frame_header_size
           /\ Reading(rest \o (down \o server.frame), sent_down, Written, Len(got_down),
                      client.rx_msg, frame_header_size, ~server.closing)
<1> DEFINE rx == client.rx
           h == frame_header_size
           b == client.rx_msg
           f == server.frame
           t == down \o f
           s == DownStream
           g == Len(got_down)
<1>1. rx \in Seq(Byte) /\ b \in Seq(Byte) /\ f \in Seq(Byte) /\ down \in Seq(Byte)
      /\ sent_down \in Messages
  BY DEF ConnType, ClientType, ServerType
<1>2. s = (rx \o down) \o f
  BY DEF DownStream
<1>3. Reading(s, sent_down, Written, g, b, 0, ~server.closing)
  BY DEF DownInv
<1>4. Written \in 0..Len(sent_down) /\ g \in 0..Written
  BY DownNumbers
<1>5. h \in 0..Len(rx) /\ h \in Nat /\ Len(rx) \in Nat
  BY <1>1, FramingAssumption
<1>6. header = FirstBytes(rx, h) /\ rest = RestBytes(rx, h)
  OBVIOUS
<1> HIDE DEF rx, b, f, s, g, h
<1>7. t \in Seq(Byte) /\ (rx \o down) \o f = rx \o t
  <2>1. t \in Seq(Byte)
    BY <1>1, ConcatFacts, Zenon, ZenonT(60)
  <2> QED BY <2>1, <1>1, ConcatAssoc, ZenonT(60), ZenonT(90)
<1> HIDE DEF t
<1>8. s = rx \o t /\ s \in Seq(Byte) /\ Len(s) = Len(rx) + Len(t) /\ Len(t) \in Nat
  BY <1>1, <1>2, <1>7
<1>9. FirstBytes(s, h) = header /\ RestBytes(s, h) = rest \o t
  <2>1. FirstBytes(rx \o t, h) = FirstBytes(rx, h) /\ RestBytes(rx \o t, h) = RestBytes(rx, h) \o t
    <3>1. rx \in Seq(Byte) /\ t \in Seq(Byte) /\ h \in 0..Len(rx)
      BY <1>1, <1>5, <1>7
    <3> QED BY <3>1, TakeLeft, Zenon, ZenonT(60)
  <2> QED BY <2>1, <1>6, <1>8, Zenon, ZenonT(60)
<1>10. h <= Len(s)
  BY <1>5, <1>8
<1>11. /\ g < Written
       /\ HeaderOk(FirstBytes(s, h))
       /\ HeaderLen(FirstBytes(s, h)) = NextLen(Len(sent_down[g + 1]), Len(b))
       /\ HeaderMore(FirstBytes(s, h)) <=> NextMore(Len(sent_down[g + 1]), Len(b))
       /\ NextLen(Len(sent_down[g + 1]), Len(b)) \in Nat \ {0}
       /\ Len(b) + NextLen(Len(sent_down[g + 1]), Len(b)) <= Len(sent_down[g + 1])
       /\ Reading(RestBytes(s, h), sent_down, Written, g, b, h, ~server.closing)
  <2>1. frame_header_size <= Len(s)
    BY <1>10 DEF h
  <2>2. s \in Seq(Byte)
    BY <1>8
  <2> QED BY <1>1, <1>3, <1>4, <2>1, <2>2, HeaderRead DEF h
<1>12. rest \in Seq(Byte) /\ Len(rest) = Len(rx) - h
  BY <1>1, <1>5, <1>6, TakeFacts
<1>13. n = Len(sent_down[g + 1])
  BY DEF g
<1>14. NextLen(n, Len(b)) \in Nat \ {0} /\ Len(b) + NextLen(n, Len(b)) <= n
  BY <1>11, <1>13, Zenon, ZenonT(60)
<1> QED BY <1>9, <1>11, <1>12, <1>13, <1>14, Zenon, ZenonT(60) DEF rx, b, f, g, h, t

\* With the bytes of the fragment behind it, the fragment is the next of the
\* message.
LEMMA CarveFragment ==
    ASSUME ConnType, DownInv, client.open,
           NEW len, len = NextLen(Len(sent_down[Len(got_down) + 1]), Len(client.rx_msg)),
           len \in Nat, frame_header_size + len <= Len(client.rx),
           NEW body, body = client.rx_msg \o FirstBytes(RestBytes(client.rx, frame_header_size), len),
           NEW rx2, rx2 = RestBytes(client.rx, frame_header_size + len)
    PROVE  LET n == Len(sent_down[Len(got_down) + 1])
           IN  /\ rx2 \in Seq(Byte)
               /\ body \in Seq(Byte) /\ Len(body) = Len(client.rx_msg) + len
               /\ NextMore(n, Len(client.rx_msg)) =>
                     Reading((rx2 \o down) \o server.frame, sent_down, Written,
                             Len(got_down), body, 0, ~server.closing)
               /\ ~NextMore(n, Len(client.rx_msg)) =>
                     /\ body = sent_down[Len(got_down) + 1]
                     /\ Reading((rx2 \o down) \o server.frame, sent_down, Written,
                                Len(got_down) + 1, <<>>, 0, ~server.closing)
<1> DEFINE rx == client.rx
           h == frame_header_size
           b == client.rx_msg
           f == server.frame
           t == down \o f
           g == Len(got_down)
           n == Len(sent_down[g + 1])
           rest == RestBytes(rx, h)
           s == rest \o t
           frag == FirstBytes(rest, len)
<1>1. rx \in Seq(Byte) /\ b \in Seq(Byte) /\ f \in Seq(Byte) /\ down \in Seq(Byte)
      /\ sent_down \in Messages
  BY DEF ConnType, ClientType, ServerType
<1>2. h \in Nat /\ Len(rx) \in Nat /\ len \in Nat /\ h + len <= Len(rx)
  BY <1>1, FramingAssumption
<1>3. h <= Len(rx)
  BY <1>2
<1>4. rest \in Seq(Byte) /\ Len(rest) = Len(rx) - h
      /\ Reading(s, sent_down, Written, g, b, h, ~server.closing)
  BY <1>3, CarveHeader
<1>5. Written \in 0..Len(sent_down) /\ g \in 0..Written
  BY DownNumbers
<1>6. body = b \o frag /\ rx2 = RestBytes(rx, h + len) /\ len = NextLen(n, Len(b))
  OBVIOUS
<1> HIDE DEF rx, b, f, g, h, n
<1>7. t \in Seq(Byte)
  BY <1>1
<1> HIDE DEF t
<1>8. RestBytes(rest, len) = rx2
  BY <1>1, <1>2, <1>6, TakeTwice
<1> HIDE DEF rest
<1>9. len \in 0..Len(rest) /\ len <= Len(s) /\ s \in Seq(Byte)
  <2>1. len \in 0..Len(rest) /\ Len(rest) \in Nat
    <3> DEFINE l == Len(rx)
               r == Len(rest)
    <3>1. l \in Nat /\ h \in Nat /\ len \in Nat /\ h + len <= l /\ r = l - h
      BY <1>2, <1>4
    <3> HIDE DEF l, r
    <3>2. len \in 0..r /\ r \in Nat
      BY <3>1
    <3> QED BY <3>2 DEF r
  <2>2. s \in Seq(Byte) /\ Len(s) = Len(rest) + Len(t) /\ Len(t) \in Nat
    BY Zenon, ZenonT(60), <1>4, <1>7, ConcatFacts
  <2> HIDE DEF s
  <2> QED BY <2>1, <2>2
<1>10. FirstBytes(s, len) = frag /\ RestBytes(s, len) = rx2 \o t
  BY Zenon, ZenonT(60), <1>4, <1>7, <1>8, <1>9, TakeLeft
<1>11. frag \in Seq(Byte) /\ Len(frag) = len /\ rx2 \in Seq(Byte)
  BY <1>4, <1>8, <1>9, TakeFacts
<1> HIDE DEF s, frag
<1>12. body \in Seq(Byte) /\ Len(body) = Len(b) + len
  <2>1. b \o frag \in Seq(Byte) /\ Len(b \o frag) = Len(b) + Len(frag)
    BY ZenonT(60), ZenonT(90), <1>1, <1>11, ConcatFacts
  <2> QED BY <2>1, <1>6, <1>11
<1>13. (rx2 \o down) \o f = rx2 \o t
  <2>1. rx2 \in Seq(Byte) /\ down \in Seq(Byte) /\ f \in Seq(Byte)
    BY <1>1, <1>11
  <2>2. (rx2 \o down) \o f = rx2 \o (down \o f)
    BY ZenonT(60), ZenonT(90), <2>1, ConcatAssoc
  <2> QED BY <2>2 DEF t
<1>14. /\ NextMore(n, Len(b)) =>
            Reading(RestBytes(s, len), sent_down, Written, g, b \o FirstBytes(s, len), 0, ~server.closing)
       /\ ~NextMore(n, Len(b)) =>
            /\ b \o FirstBytes(s, len) = sent_down[g + 1]
            /\ Reading(RestBytes(s, len), sent_down, Written, g + 1, <<>>, 0, ~server.closing)
  <2>1. NextLen(Len(sent_down[g + 1]), Len(b)) \in Nat /\ NextLen(Len(sent_down[g + 1]), Len(b)) <= Len(s)
        /\ len = NextLen(Len(sent_down[g + 1]), Len(b))
    BY <1>2, <1>6, <1>9 DEF n
  <2>2. Reading(s, sent_down, Written, g, b, frame_header_size, ~server.closing)
    BY <1>4 DEF h
  <2>3. s \in Seq(Byte) /\ b \in Seq(Byte) /\ sent_down \in Messages
    BY <1>1, <1>9
  <2> DEFINE L == NextLen(Len(sent_down[g + 1]), Len(b))
  <2>4. /\ NextMore(Len(sent_down[g + 1]), Len(b)) =>
              Reading(RestBytes(s, L), sent_down, Written, g, b \o FirstBytes(s, L), 0,
                      ~server.closing)
        /\ ~NextMore(Len(sent_down[g + 1]), Len(b)) =>
              /\ b \o FirstBytes(s, L) = sent_down[g + 1]
              /\ Reading(RestBytes(s, L), sent_down, Written, g + 1, <<>>, 0, ~server.closing)
    BY <1>5, <2>1, <2>2, <2>3, FragmentReadNext, ZenonT(60), ZenonT(90)
  <2>5. len = L
    BY <2>1
  <2> HIDE DEF L
  <2> QED BY <2>4, <2>5 DEF n
<1> QED BY <1>6, <1>10, <1>11, <1>12, <1>13, <1>14, Zenon, ZenonT(60) DEF b, f, g, n

\* A round of CarveServer's loop.
LEMMA CarveServerInv ==
    ASSUME Inv, CarveServer, Len(client.rx_msg) <= max_reassembled_size
    PROVE  /\ Inv' /\ Len(client'.rx_msg) <= max_reassembled_size
           /\ Outcome(sent_down, got_down, got_down', client.open, client'.open)
<1> DEFINE rx == client.rx
           b == client.rx_msg
           h == frame_header_size
           header == FirstBytes(rx, h)
           len == HeaderLen(header)
           body == b \o FirstBytes(RestBytes(rx, h), len)
           rx2 == RestBytes(rx, h + len)
           next == [client EXCEPT !.rx = RestBytes(@, h + len), !.rx_msg = body]
           waiting == IF Len(rx) < h THEN TRUE ELSE HeaderOk(header) /\ Len(rx) < h + len
           g == Len(got_down)
           w == Written
           msg == sent_down[g + 1]
<1>1. /\ client.open /\ client.at = "carve"
      /\ UNCHANGED <<server, up, down, sent_up, got_up, sent_down, destroyed>>
  BY DEF CarveServer
<1>2. /\ client \in ClientType /\ sent_down \in Messages /\ Decodable(sent_down)
      /\ got_down \in Seq(Seq(Byte)) /\ b \in Seq(Byte) /\ rx \in Seq(Byte)
  BY DEF Inv, ConnType, ClientType
<1>3. \/ waiting /\ client' = [client EXCEPT !.at = "flush"] /\ got_down' = got_down
      \/ /\ ~waiting /\ (~HeaderOk(header) \/ ~Fits(Len(b), len))
         /\ client' = Closed(client) /\ got_down' = got_down
      \/ /\ ~waiting /\ HeaderOk(header) /\ Fits(Len(b), len)
         /\ HeaderMore(header) /\ client' = next /\ got_down' = got_down
      \/ /\ ~waiting /\ HeaderOk(header) /\ Fits(Len(b), len) /\ ~HeaderMore(header)
         /\ client' = IF Decodes(body) THEN Carved(next) ELSE Closed(Carved(next))
         /\ got_down' = IF Decodes(body) THEN Append(got_down, body) ELSE got_down
  BY Zenon, ZenonT(60) DEF CarveServer
<1>4. w \in 0..Len(sent_down) /\ g \in 0..w /\ Len(sent_down) \in Nat /\ g \in Nat
  BY <1>1, DownNumbers DEF Inv
\* The header, when there is one.
<1>5. ASSUME ~waiting
      PROVE  /\ g < w /\ HeaderOk(header) /\ len = NextLen(Len(msg), Len(b))
             /\ (HeaderMore(header) <=> NextMore(Len(msg), Len(b)))
             /\ len \in Nat \ {0} /\ Len(b) + len <= Len(msg)
             /\ h + len <= Len(rx)
  <2>1. Len(rx) \in Nat /\ h \in Nat
    BY <1>2, FramingAssumption
  <2>2. h <= Len(rx)
    BY <1>5, <2>1
  <2>3. /\ g < w /\ HeaderOk(header) /\ len = NextLen(Len(msg), Len(b))
        /\ (HeaderMore(header) <=> NextMore(Len(msg), Len(b)))
        /\ len \in Nat \ {0} /\ Len(b) + len <= Len(msg)
    BY <1>1, <2>2, CarveHeader DEF Inv
  <2> HIDE DEF len
  <2>4. ~(Len(rx) < h + len)
    BY <1>5, <2>1, <2>2, <2>3
  <2> QED BY <2>1, <2>3, <2>4
<1>6. ASSUME ~waiting
      PROVE  /\ rx2 \in Seq(Byte)
             /\ body \in Seq(Byte) /\ Len(body) = Len(b) + len
             /\ NextMore(Len(msg), Len(b)) =>
                  Reading((rx2 \o down) \o server.frame, sent_down, w, g, body, 0, ~server.closing)
             /\ ~NextMore(Len(msg), Len(b)) =>
                  /\ body = msg
                  /\ Reading((rx2 \o down) \o server.frame, sent_down, w, g + 1, <<>>, 0,
                             ~server.closing)
  <2>1. len = NextLen(Len(msg), Len(b)) /\ len \in Nat /\ h + len <= Len(rx)
    BY <1>5, <1>6
  <2> HIDE DEF len
  <2> QED BY Zenon, ZenonT(60), <1>1, <2>1, CarveFragment DEF Inv
<1>7. next = [client EXCEPT !.rx = rx2, !.rx_msg = body]
  OBVIOUS
<1> HIDE DEF header, len, body, rx2, next, waiting, g, w, msg, rx, b
\* What every case leaves alone.
<1>8. ASSUME client' \in ClientType, client'.tx = client.tx, got_down' \in Seq(Seq(Byte)), DownInv'
      PROVE  Inv'
  <2>1. ConnType'
    BY <1>1, <1>8 DEF Inv, ConnType
  <2>2. UpInv'
    BY <1>1, <1>8, UpSame DEF Inv, SameReader
  <2> QED BY <1>8, <2>1, <2>2 DEF Inv
\* The loop goes on with what it has carved.
<1>9. ASSUME NEW rm \in Seq(Byte), NEW r \in Seq(Byte), client' \in ClientType, client'.tx = client.tx,
             client'.rx = r, client'.rx_msg = rm,
             got_down' \in Seq(Seq(Byte)), Len(got_down') <= w,
             Reading((r \o down) \o server.frame, sent_down, w, Len(got_down'), rm, 0,
                     ~server.closing)
      PROVE  Inv'
  <2>1. DownStream' = (r \o down) \o server.frame /\ Written' = w
    BY <1>1, <1>9 DEF DownStream, Written, w
  <2>2. Reading(DownStream', sent_down', Written', Len(got_down'), client'.rx_msg, 0, ~server'.closing)
    BY <1>1, <1>9, <2>1
  <2>3. DownInv'
    BY <1>1, <1>9, <2>1, <2>2, Zenon, ZenonT(60) DEF Inv, DownInv, w
  <2> QED BY <1>8, <1>9, <2>3
<1>10. CASE waiting /\ client' = [client EXCEPT !.at = "flush"] /\ got_down' = got_down
  <2>1. /\ client' \in ClientType /\ client'.tx = client.tx /\ client'.rx = client.rx
        /\ client'.rx_msg = client.rx_msg /\ client'.open = client.open
    BY Zenon, ZenonT(60), <1>2, <1>10 DEF ClientType
  <2>2. DownStream' = DownStream
    BY <1>1, <2>1 DEF DownStream
  <2>3. DownInv'
    BY <1>1, <1>10, <2>1, <2>2, DownSame DEF Inv
  <2>4. Inv'
    BY <1>2, <1>8, <1>10, <2>1, <2>3
  <2> QED BY <1>10, <2>1, <2>4 DEF Outcome
<1>11. CASE /\ ~waiting /\ (~HeaderOk(header) \/ ~Fits(Len(b), len))
            /\ client' = Closed(client) /\ got_down' = got_down
  <2>1. /\ client' \in ClientType /\ client'.tx = client.tx
        /\ client'.rx_msg = client.rx_msg /\ ~client'.open
    BY <1>2, <1>11, ClosedFacts
  <2>2. DownInv'
    BY <2>1 DEF DownInv
  <2>3. Inv'
    BY <1>2, <1>8, <1>11, <2>1, <2>2
  <2>4. g < Len(sent_down) /\ TooLong(msg)
    <3>1. g < w /\ ~Fits(Len(b), len) /\ len \in Nat /\ Len(b) + len <= Len(msg)
      BY <1>5, <1>11
    <3>2. g + 1 \in 1..Len(sent_down) /\ g < Len(sent_down)
      BY <1>4, <3>1
    <3>3. Len(msg) \in Nat
      BY <1>2, <3>2, MessageFacts DEF msg
    <3>4. Len(b) \in Nat
      BY <1>2
    <3> QED BY <3>1, <3>2, <3>3, <3>4, FramingAssumption DEF TooLong, Fits
  <2> QED BY <1>11, <2>1, <2>3, <2>4 DEF Outcome, g, msg
<1>12. CASE /\ ~waiting /\ HeaderOk(header) /\ Fits(Len(b), len)
            /\ HeaderMore(header) /\ client' = next /\ got_down' = got_down
  <2>1. /\ rx2 \in Seq(Byte) /\ body \in Seq(Byte) /\ Len(body) = Len(b) + len
        /\ Reading((rx2 \o down) \o server.frame, sent_down, w, g, body, 0, ~server.closing)
    BY <1>5, <1>6, <1>12
  <2>2. /\ client' \in ClientType /\ client'.tx = client.tx /\ client'.rx = rx2
        /\ client'.rx_msg = body /\ client'.open = client.open
    BY Zenon, ZenonT(60), <1>2, <1>7, <1>12, <2>1 DEF ClientType
  <2>3. got_down' \in Seq(Seq(Byte)) /\ Len(got_down') <= w /\ Len(got_down') = g
    BY <1>2, <1>4, <1>12 DEF g
  <2>4. Inv'
    BY <1>9, <2>1, <2>2, <2>3
  <2>5. Len(client'.rx_msg) <= max_reassembled_size
    BY <1>12, <2>1, <2>2 DEF Fits
  <2> QED BY <1>12, <2>2, <2>4, <2>5 DEF Outcome
<1>13. CASE /\ ~waiting /\ HeaderOk(header) /\ Fits(Len(b), len) /\ ~HeaderMore(header)
            /\ client' = IF Decodes(body) THEN Carved(next) ELSE Closed(Carved(next))
            /\ got_down' = IF Decodes(body) THEN Append(got_down, body) ELSE got_down
  <2>1. /\ rx2 \in Seq(Byte) /\ body \in Seq(Byte) /\ body = msg /\ g < w
        /\ Reading((rx2 \o down) \o server.frame, sent_down, w, g + 1, <<>>, 0, ~server.closing)
    BY <1>5, <1>6, <1>13
  <2>2. g + 1 \in 1..Len(sent_down) /\ g < Len(sent_down) /\ g + 1 <= w
    BY <1>4, <2>1
  <2>3. Decodes(body)
    BY <1>2, <2>1, <2>2 DEF Decodable, msg
  <2>4. client' = Carved(next) /\ got_down' = Append(got_down, body)
    BY <1>13, <2>3
  <2> DEFINE e == <<>>
  <2>5. e \in Seq(Byte) /\ Len(e) = 0
    OBVIOUS
  <2>6. /\ client' \in ClientType /\ client'.tx = client.tx /\ client'.rx = rx2
        /\ client'.rx_msg = e /\ client'.open = client.open
    <3>1. next \in ClientType /\ next.tx = client.tx /\ next.rx = rx2 /\ next.open = client.open
      BY Zenon, ZenonT(60), <1>2, <1>7, <2>1 DEF ClientType
    <3>2. client' = [next EXCEPT !.rx_msg = e]
      BY <2>4 DEF Carved
    <3> HIDE DEF e
    <3> QED BY Zenon, ZenonT(60), <2>5, <3>1, <3>2 DEF ClientType
  <2>7. got_down' \in Seq(Seq(Byte)) /\ Len(got_down') = g + 1
    BY <1>2, <2>1, <2>4 DEF g
  <2>8. Reading((rx2 \o down) \o server.frame, sent_down, w, Len(got_down'), e, 0, ~server.closing)
        /\ Len(got_down') <= w
    BY <2>1, <2>2, <2>7
  <2> HIDE DEF e
  <2>9. Inv'
    BY Zenon, ZenonT(60), <1>9, <2>1, <2>5, <2>6, <2>7, <2>8
  <2>10. Len(client'.rx_msg) <= max_reassembled_size
    BY <2>5, <2>6, FramingAssumption
  <2> QED BY <2>1, <2>2, <2>4, <2>6, <2>9, <2>10 DEF Outcome, g, msg
<1> QED BY <1>3, <1>10, <1>11, <1>12, <1>13
-----------------------------------------------------------------------------
(***************************************************************************)
(* What each action does to the buffers, to the two channels and to the    *)
(* reasons for closing.                                                    *)
(***************************************************************************)

Bounds ==
    /\ Len(client.rx_msg) <= max_reassembled_size
    /\ ReaderBounds(server)
    /\ Len(up) <= SocketBuffer /\ Len(down) <= SocketBuffer

\* Someone is to blame for the end of the connection.
Blamed == destroyed \/ \E body \in Range(sent_up) \cup Range(sent_down) : TooLong(body)

UpStep == [UpChannel!FifoNext]_<<sent_up, got_up, ~server.closing>>
DownStep == [DownChannel!FifoNext]_<<sent_down, got_down, client.open>>

StepFacts ==
    /\ Bounds' /\ NoLostWake'
    /\ UpStep /\ DownStep
    /\ Blamed => Blamed'
    /\ server'.closing \/ ~client'.open => server.closing \/ ~client.open \/ Blamed'

\* A message appended to those sent is a Send, and nobody's message is forgotten.
LEMMA AppendFacts ==
    ASSUME NEW sent \in Messages, NEW body \in Seq(Byte)
    PROVE  /\ Len(Append(sent, body)) = Len(sent) + 1
           /\ SubSeq(Append(sent, body), 1, Len(sent)) = sent
           /\ Range(sent) \subseteq Range(Append(sent, body))
<1> DEFINE t == Append(sent, body)
<1>1. sent \in Seq(Seq(Byte)) /\ Len(sent) \in Nat
  BY DEF Messages
<1>2. /\ t \in Seq(Seq(Byte)) /\ Len(t) = Len(sent) + 1
      /\ \A j \in 1..Len(sent) : t[j] = sent[j]
  BY <1>1
<1> HIDE DEF t
<1>3. SubSeq(t, 1, Len(sent)) \in Seq(Seq(Byte)) /\ Len(SubSeq(t, 1, Len(sent))) = Len(sent)
      /\ \A j \in 1..Len(sent) : SubSeq(t, 1, Len(sent))[j] = t[j]
  BY <1>1, <1>2
<1>4. SubSeq(t, 1, Len(sent)) = sent
  <2> DEFINE u == SubSeq(t, 1, Len(sent))
  <2>1. u \in Seq(Seq(Byte)) /\ Len(u) = Len(sent) /\ \A j \in 1..Len(sent) : u[j] = sent[j]
    BY <1>2, <1>3
  <2> HIDE DEF u
  <2>2. u = sent
    BY <1>1, <2>1, SameSeq
  <2> QED BY <2>2 DEF u
<1>5. Range(sent) \subseteq Range(t)
  <2>1. DOMAIN sent = 1..Len(sent) /\ DOMAIN t = 1..Len(t)
    BY <1>1, <1>2
  <2> QED BY <1>1, <1>2, <2>1 DEF Range
<1> QED BY <1>2, <1>4, <1>5 DEF t

\* An outcome of a reader that listens is a step of its channel, and a message too
\* long to take is one that was sent.
LEMMA OutcomeFacts ==
    ASSUME NEW sent \in Messages, NEW got \in Seq(Seq(Byte)), NEW got2, NEW open, NEW open2,
           Outcome(sent, got, got2, open, open2)
    PROVE  \/ got2 = got /\ open2 = open
           \/ /\ open2 = open /\ Len(got) < Len(sent)
              /\ got2 = Append(got, sent[Len(got) + 1])
           \/ /\ got2 = got /\ ~open2
              /\ \E body \in Range(sent) : TooLong(body)
<1>1. sent \in Seq(Seq(Byte)) /\ Len(sent) \in Nat /\ Len(got) \in Nat /\ DOMAIN sent = 1..Len(sent)
  BY DEF Messages
<1>2. Len(got) < Len(sent) => sent[Len(got) + 1] \in Range(sent)
  <2>1. Len(got) < Len(sent) => Len(got) + 1 \in DOMAIN sent
    BY <1>1
  <2> QED BY <2>1 DEF Range
<1> QED BY <1>2 DEF Outcome

\* What was handed to a socket is within its buffer.
LEMMA SocketBound ==
    ASSUME NEW s \in Seq(Byte), NEW socket \in Seq(Byte), NEW k \in Writable(s, socket)
    PROVE  Len(socket \o FirstBytes(s, k)) <= SocketBuffer
<1>1. k \in 0..Len(s) /\ Len(socket) + k <= SocketBuffer
  BY DEF Writable
<1>2. FirstBytes(s, k) \in Seq(Byte) /\ Len(FirstBytes(s, k)) = k
  BY <1>1, TakeFacts
<1> HIDE DEF FirstBytes
<1>3. Len(socket \o FirstBytes(s, k)) = Len(socket) + k
  BY Zenon, ZenonT(60), <1>2, ConcatFacts
<1> QED BY <1>1, <1>3

\* An action that leaves the messages alone, and who is to blame.
LEMMA QuietStep ==
    ASSUME UNCHANGED <<sent_up, got_up, sent_down, got_down, destroyed>>,
           server'.closing = server.closing,
           client'.open = client.open \/ (client.open /\ ~client'.open /\ server.closing),
           Bounds', NoLostWake'
    PROVE  StepFacts
<1>1. UpStep
  BY DEF UpStep
<1>2. DownStep
  BY DEF DownStep, DownChannel!FifoNext, DownChannel!Close
<1>3. Blamed => Blamed'
  BY DEF Blamed
<1> QED BY <1>1, <1>2, <1>3 DEF StepFacts

\* SendServer
LEMMA SendServerStep ==
    ASSUME Inv, Bounds, NoLostWake, NEW length \in UpLengths, SendServer(length)
    PROVE  StepFacts
<1> DEFINE body == Encoding(Len(sent_up) + 1, length)
<1>1. /\ sent_up' = Append(sent_up, body)
      /\ UNCHANGED <<server, up, down, got_up, sent_down, got_down, destroyed>>
      /\ client' = [client EXCEPT !.tx = client.tx \o FrameMessage(body)]
  BY DEF SendServer
<1>2. sent_up \in Messages /\ client \in ClientType /\ body \in Seq(Byte)
  <2>1. sent_up \in Messages /\ Decodable(sent_up) /\ client \in ClientType /\ length \in Nat \ {0}
    BY FramingAssumption DEF Inv, ConnType
  <2> QED BY <2>1, SentFacts
<1> HIDE DEF body
<1>3. client'.open = client.open /\ client'.rx_msg = client.rx_msg
  BY <1>1, <1>2 DEF ClientType
<1>4. /\ Len(sent_up') = Len(sent_up) + 1 /\ SubSeq(sent_up', 1, Len(sent_up)) = sent_up
      /\ Range(sent_up) \subseteq Range(sent_up')
  BY <1>1, <1>2, AppendFacts
<1>5. UpStep
  BY Zenon, ZenonT(60), <1>1, <1>4 DEF UpStep, UpChannel!FifoNext, UpChannel!Send
<1>6. DownStep
  BY <1>1, <1>3 DEF DownStep
<1>7. Blamed => Blamed'
  BY <1>1, <1>4 DEF Blamed
<1>8. Bounds' /\ NoLostWake'
  BY <1>1, <1>3 DEF Bounds, NoLostWake
<1> QED BY <1>1, <1>3, <1>5, <1>6, <1>7, <1>8 DEF StepFacts

\* SendTo
LEMMA SendToStep ==
    ASSUME Inv, Bounds, NoLostWake, NEW length \in DownLengths, SendTo(length)
    PROVE  StepFacts
<1> DEFINE body == Encoding(Len(sent_down) + 1, length)
           f == FrameMessage(body)
<1>1. /\ sent_down' = Append(sent_down, body)
      /\ UNCHANGED <<client, up, down, sent_up, got_up, got_down, destroyed>>
      /\ server' = Enqueue(f)
  BY DEF SendTo
<1>2. sent_down \in Messages /\ server \in ServerType /\ body \in Seq(Byte) /\ f \in Seq(Byte)
  <2>1. sent_down \in Messages /\ Decodable(sent_down) /\ server \in ServerType /\ length \in Nat \ {0}
    BY FramingAssumption DEF Inv, ConnType
  <2> QED BY <2>1, SentFacts
<1> HIDE DEF body, f
<1>3. server'.closing = server.closing /\ SameReader(server, server') /\ server'.writer # "waiting"
  BY <1>1, <1>2, EnqueueFacts
<1>4. /\ Len(sent_down') = Len(sent_down) + 1 /\ SubSeq(sent_down', 1, Len(sent_down)) = sent_down
      /\ Range(sent_down) \subseteq Range(sent_down')
  BY <1>1, <1>2, AppendFacts
<1>5. DownStep
  BY Zenon, ZenonT(60), <1>1, <1>4 DEF DownStep, DownChannel!FifoNext, DownChannel!Send
<1>6. UpStep
  BY <1>1, <1>3 DEF UpStep
<1>7. Blamed => Blamed'
  BY <1>1, <1>4 DEF Blamed
<1>8. Bounds' /\ NoLostWake'
  BY <1>1, <1>3 DEF Bounds, ReaderBounds, SameReader, NoLostWake
<1> QED BY <1>1, <1>3, <1>5, <1>6, <1>7, <1>8 DEF StepFacts

\* DrainServer
LEMMA DrainServerStep ==
    ASSUME Inv, Bounds, NoLostWake, DrainServer
    PROVE  StepFacts
<1> DEFINE r == client.rx \o down
<1>1. /\ UNCHANGED <<server, up, sent_up, got_up, sent_down, got_down, destroyed>>
      /\ down' = <<>> /\ client.open
      /\ client' = IF server.closing THEN Closed([client EXCEPT !.rx = r])
                   ELSE [client EXCEPT !.rx = r, !.at = "carve"]
  BY DEF DrainServer
<1>2. client \in ClientType /\ r \in Seq(Byte)
  BY DEF Inv, ConnType, ClientType
<1> HIDE DEF r
<1>3. /\ client'.rx_msg = client.rx_msg
      /\ client'.open = client.open \/ (client.open /\ ~client'.open /\ server.closing)
  BY Zenon, ZenonT(60), <1>1, <1>2 DEF ClientType, Closed
<1>4. Len(down') = 0 /\ SocketBuffer \in Nat
  BY <1>1, FramingAssumption
<1>5. Len(down') <= SocketBuffer
  BY <1>4
<1>6. Bounds' /\ NoLostWake'
  BY <1>1, <1>3, <1>5 DEF Bounds, NoLostWake
<1> QED BY Zenon, ZenonT(60), <1>1, <1>3, <1>6, QuietStep

\* FlushServer
LEMMA FlushServerStep ==
    ASSUME Inv, Bounds, NoLostWake, FlushServer
    PROVE  StepFacts
<1>1. /\ UNCHANGED <<server, down, sent_up, got_up, sent_down, got_down, destroyed>>
      /\ client.open
  BY Zenon, ZenonT(60) DEF FlushServer
<1>2. client \in ClientType /\ client.tx \in Seq(Byte) /\ up \in Seq(Byte)
  BY DEF Inv, ConnType, ClientType
<1>3. /\ client'.rx_msg = client.rx_msg /\ Len(up') <= SocketBuffer
      /\ client'.open = client.open \/ (client.open /\ ~client'.open /\ server.closing)
  <2>1. ASSUME NEW k \in Writable(client.tx, up), up' = up \o FirstBytes(client.tx, k),
               client' = [client EXCEPT !.tx = RestBytes(client.tx, k), !.at = "program"]
        PROVE  /\ client'.rx_msg = client.rx_msg /\ Len(up') <= SocketBuffer
               /\ client'.open = client.open
    <3>1. Len(up') <= SocketBuffer
      BY <1>2, <2>1, SocketBound
    <3> QED BY <1>2, <2>1, <3>1 DEF ClientType
  <2>2. ASSUME server.closing, client' = Closed(client), up' = up
        PROVE  /\ client'.rx_msg = client.rx_msg /\ Len(up') <= SocketBuffer
               /\ ~client'.open /\ server.closing
    BY <1>2, <2>2, ClosedFacts DEF Bounds
  <2> QED BY Zenon, ZenonT(60), <1>1, <2>1, <2>2 DEF FlushServer
<1>4. Bounds' /\ NoLostWake'
  BY <1>1, <1>3 DEF Bounds, NoLostWake
<1> QED BY Zenon, ZenonT(60), <1>1, <1>3, <1>4, QuietStep

\* Destroy
LEMMA DestroyStep ==
    ASSUME Inv, Bounds, NoLostWake, Destroy
    PROVE  StepFacts
<1>1. /\ UNCHANGED <<server, up, down, sent_up, got_up, sent_down, got_down>>
      /\ client.open /\ client' = Closed(client) /\ destroyed'
  BY DEF Destroy
<1>2. client'.rx_msg = client.rx_msg /\ ~client'.open
  BY <1>1, ClosedFacts DEF Inv, ConnType
<1>3. UpStep
  BY <1>1 DEF UpStep
<1>4. DownStep
  <2>1. client'.open = FALSE
    BY <1>1 DEF Closed, Inv, ConnType, ClientType
  <2> QED BY Zenon, ZenonT(60), <1>1, <2>1 DEF DownStep, DownChannel!FifoNext, DownChannel!Close
<1>5. Bounds' /\ NoLostWake'
  BY <1>1, <1>2 DEF Bounds, NoLostWake
<1>6. Blamed'
  BY <1>1 DEF Blamed
<1> QED BY <1>3, <1>4, <1>5, <1>6 DEF StepFacts

\* WriteLoop
LEMMA WriteLoopStep ==
    ASSUME Inv, Bounds, NoLostWake, WriteLoop
    PROVE  StepFacts
<1> DEFINE f == Head(server.out)
           o == Tail(server.out)
<1>1. /\ UNCHANGED <<client, up, down, sent_up, got_up, sent_down, got_down, destroyed>>
      /\ server' = IF server.closing THEN [server EXCEPT !.writer = "done"]
                   ELSE IF server.out = <<>> THEN [server EXCEPT !.writer = "waiting"]
                   ELSE [server EXCEPT !.writer = "writing", !.frame = f, !.out = o]
  BY DEF WriteLoop
<1>2. server \in ServerType
  BY DEF Inv, ConnType
<1> HIDE DEF f, o
<1>3. /\ server'.closing = server.closing /\ SameReader(server, server')
      /\ server'.writer = "waiting" => ~server.closing /\ server.out = <<>> /\ server'.out = server.out
  <2>1. CASE server.closing
    BY Zenon, ZenonT(60), <1>1, <1>2, <2>1 DEF ServerType, SameReader
  <2>2. CASE ~server.closing /\ server.out = <<>>
    BY <1>1, <1>2, <2>2 DEF ServerType, SameReader
  <2>3. CASE ~server.closing /\ server.out # <<>>
    BY <1>1, <1>2, <2>3 DEF ServerType, SameReader
  <2> QED BY <2>1, <2>2, <2>3
<1>4. Bounds'
  BY <1>1, <1>3 DEF Bounds, ReaderBounds, SameReader
<1>5. NoLostWake'
  BY <1>3 DEF NoLostWake
<1> QED BY <1>1, <1>3, <1>4, <1>5, QuietStep

\* AsyncWrite
LEMMA AsyncWriteStep ==
    ASSUME Inv, Bounds, NoLostWake, AsyncWrite
    PROVE  StepFacts
<1>1. UNCHANGED <<client, up, sent_up, got_up, sent_down, got_down, destroyed>>
  BY Zenon, ZenonT(60) DEF AsyncWrite
<1>2. server \in ServerType /\ server.frame \in Seq(Byte) /\ down \in Seq(Byte)
  BY DEF Inv, ConnType, ServerType
<1>3. /\ server'.closing = server.closing /\ SameReader(server, server')
      /\ server'.writer # "waiting" /\ Len(down') <= SocketBuffer
  <2>1. ASSUME NEW k \in Writable(server.frame, down), down' = down \o FirstBytes(server.frame, k),
               NEW w \in {"ready", "writing"}, NEW r,
               server' = [server EXCEPT !.frame = r, !.writer = w]
        PROVE  /\ server'.closing = server.closing /\ SameReader(server, server')
               /\ server'.writer # "waiting" /\ Len(down') <= SocketBuffer
    <3>1. Len(down') <= SocketBuffer
      BY <1>2, <2>1, SocketBound
    <3> QED BY <1>2, <2>1, <3>1 DEF ServerType, SameReader
  <2>2. ASSUME NEW e, server' = [server EXCEPT !.writer = "done", !.frame = e], down' = down
        PROVE  /\ server'.closing = server.closing /\ SameReader(server, server')
               /\ server'.writer # "waiting" /\ Len(down') <= SocketBuffer
    BY <1>2, <2>2 DEF ServerType, SameReader, Bounds
  <2>3. CASE \E k \in Writable(server.frame, down) \ {0} :
                /\ down' = down \o FirstBytes(server.frame, k)
                /\ server' = [server EXCEPT !.frame = RestBytes(@, k),
                                 !.writer = IF k = Len(server.frame) THEN "ready" ELSE "writing"]
    <3>1. PICK k \in Writable(server.frame, down) :
                /\ down' = down \o FirstBytes(server.frame, k)
                /\ server' = [server EXCEPT !.frame = RestBytes(@, k),
                                 !.writer = IF k = Len(server.frame) THEN "ready" ELSE "writing"]
      BY Zenon, ZenonT(60), <2>3
    <3> DEFINE w == IF k = Len(server.frame) THEN "ready" ELSE "writing"
               r == RestBytes(server.frame, k)
    <3>2. w \in {"ready", "writing"} /\ server' = [server EXCEPT !.frame = r, !.writer = w]
      BY <3>1
    <3> HIDE DEF w, r
    <3> QED BY Zenon, ZenonT(60), <2>1, <3>1, <3>2
  <2>4. CASE server' = [server EXCEPT !.writer = "done", !.frame = <<>>] /\ down' = down
    BY Zenon, ZenonT(60), <2>2, <2>4
  <2> QED BY Zenon, ZenonT(60), <2>3, <2>4 DEF AsyncWrite
<1>4. Bounds' /\ NoLostWake'
  BY <1>1, <1>3 DEF Bounds, ReaderBounds, SameReader, NoLostWake
<1> QED BY <1>1, <1>3, <1>4, QuietStep

\* ReadEof: the client's end is to blame, and nothing else.
LEMMA ReadEofStep ==
    ASSUME Inv, Bounds, NoLostWake, ReadEof
    PROVE  StepFacts
<1>1. /\ UNCHANGED <<client, up, down, sent_up, got_up, sent_down, got_down, destroyed>>
      /\ ~server.closing /\ ~client.open /\ server' = SessionEnd(server)
  BY DEF ReadEof
<1>2. SameReader(server, server') /\ server'.closing /\ server'.writer # "waiting"
  BY <1>1, SessionEndFacts DEF Inv, ConnType
<1>3. UpStep
  <2>1. (~server.closing) = TRUE /\ (~server'.closing) = FALSE
    BY <1>1, <1>2
  <2> QED BY <1>1, <2>1 DEF UpStep, UpChannel!FifoNext, UpChannel!Close
<1>4. DownStep
  BY <1>1 DEF DownStep
<1>5. Bounds' /\ NoLostWake'
  BY <1>1, <1>2 DEF Bounds, ReaderBounds, SameReader, NoLostWake
<1>6. Blamed => Blamed'
  BY <1>1 DEF Blamed
<1> QED BY <1>1, <1>3, <1>4, <1>5, <1>6 DEF StepFacts

\* CarveServer
LEMMA CarveServerStep ==
    ASSUME Inv, Bounds, NoLostWake, CarveServer
    PROVE  StepFacts
<1>1. /\ UNCHANGED <<server, up, down, sent_up, got_up, sent_down, destroyed>>
      /\ client.open
  BY DEF CarveServer
<1>2. /\ Inv' /\ Len(client'.rx_msg) <= max_reassembled_size
      /\ Outcome(sent_down, got_down, got_down', client.open, client'.open)
  BY CarveServerInv DEF Bounds
<1>3. sent_down \in Messages /\ got_down \in Seq(Seq(Byte)) /\ client'.open \in BOOLEAN
      /\ client.open \in BOOLEAN
  BY <1>2 DEF Inv, ConnType, ClientType
<1>4. \/ got_down' = got_down /\ client'.open = client.open
      \/ /\ client'.open = client.open /\ Len(got_down) < Len(sent_down)
         /\ got_down' = Append(got_down, sent_down[Len(got_down) + 1])
      \/ /\ got_down' = got_down /\ ~client'.open
         /\ \E body \in Range(sent_down) : TooLong(body)
  BY <1>2, <1>3, OutcomeFacts
<1>5. UpStep
  BY <1>1 DEF UpStep
<1>6. DownStep
  BY Zenon, ZenonT(60), <1>1, <1>3, <1>4
     DEF DownStep, DownChannel!FifoNext, DownChannel!Receive, DownChannel!Close
<1>7. Blamed => Blamed'
  BY <1>1 DEF Blamed
<1>8. ~client'.open => Blamed'
  BY Zenon, ZenonT(60), <1>1, <1>4 DEF Blamed
<1>9. Bounds' /\ NoLostWake'
  BY <1>1, <1>2 DEF Bounds, NoLostWake
<1> QED BY <1>1, <1>5, <1>6, <1>7, <1>8, <1>9 DEF StepFacts

\* ReadLoop
LEMMA ReadLoopStep ==
    ASSUME Inv, Bounds, NoLostWake, ReadLoop
    PROVE  StepFacts
<1>1. /\ UNCHANGED <<client, down, sent_up, sent_down, got_down, destroyed>>
      /\ ~server.closing
  BY DEF ReadLoop
<1>2. /\ Inv' /\ ReaderBounds(server')
      /\ Outcome(sent_up, got_up, got_up', ~server.closing, ~server'.closing)
      /\ server'.writer # "waiting" \/ SameWriter(server, server')
      /\ Len(up') <= Len(up)
  BY ReadLoopInv DEF Bounds
<1>3. sent_up \in Messages /\ got_up \in Seq(Seq(Byte))
      /\ Len(up) \in Nat /\ Len(up') \in Nat
  BY <1>2 DEF Inv, ConnType
<1> DEFINE open == ~server.closing
           open2 == ~server'.closing
<1>4. open \in BOOLEAN /\ open2 \in BOOLEAN /\ Outcome(sent_up, got_up, got_up', open, open2) /\ open
  BY <1>1, <1>2
<1> HIDE DEF open, open2
<1>5. \/ got_up' = got_up /\ open2 = open
      \/ /\ open2 = open /\ Len(got_up) < Len(sent_up)
         /\ got_up' = Append(got_up, sent_up[Len(got_up) + 1])
      \/ /\ got_up' = got_up /\ ~open2
         /\ \E body \in Range(sent_up) : TooLong(body)
  BY Zenon, ZenonT(60), <1>3, <1>4, OutcomeFacts
<1>6. UpStep
  <2>1. \/ UNCHANGED <<sent_up, got_up>> /\ open2 = open
        \/ /\ open /\ open2 = open /\ Len(got_up) < Len(sent_up)
           /\ got_up' = Append(got_up, sent_up[Len(got_up) + 1]) /\ UNCHANGED sent_up
        \/ open /\ open2 = FALSE /\ UNCHANGED <<sent_up, got_up>>
    BY Zenon, ZenonT(60), <1>1, <1>4, <1>5
  <2> QED BY <2>1 DEF UpStep, UpChannel!FifoNext, UpChannel!Receive, UpChannel!Close, open, open2
<1>7. DownStep
  BY <1>1 DEF DownStep
<1>8. Blamed => Blamed'
  BY <1>1 DEF Blamed
<1>9. server'.closing => Blamed'
  BY Zenon, ZenonT(60), <1>1, <1>4, <1>5 DEF Blamed, open2
<1>10. Len(up') <= SocketBuffer
  BY <1>2, <1>3, FramingAssumption DEF Bounds
<1>11. Bounds'
  BY <1>1, <1>2, <1>10 DEF Bounds
<1>12. NoLostWake'
  BY <1>2 DEF NoLostWake, SameWriter
<1> QED BY <1>1, <1>6, <1>7, <1>8, <1>9, <1>11, <1>12 DEF StepFacts
-----------------------------------------------------------------------------
(***************************************************************************)
(* The theorems.                                                           *)
(***************************************************************************)

\* The inductive invariant.
ConnInv == Inv /\ Bounds /\ NoLostWake /\ ClosedForCause

\* A new connection.
LEMMA InitInv == Init => ConnInv
<1> SUFFICES ASSUME Init PROVE ConnInv
  OBVIOUS
<1>1. /\ client.open /\ client.rx = <<>> /\ client.tx = <<>> /\ client.rx_msg = <<>>
      /\ ~server.closing /\ server.out = <<>> /\ server.writer = "ready" /\ server.frame = <<>>
      /\ server.reading = "header" /\ server.need = frame_header_size
      /\ server.read = <<>> /\ server.body = <<>>
      /\ up = <<>> /\ down = <<>> /\ sent_up = <<>> /\ got_up = <<>>
      /\ sent_down = <<>> /\ got_down = <<>>
  BY DEF Init
<1>2. ConnType
  <2> DEFINE e == <<>>
  <2>1. e \in Seq(Byte) /\ e \in Seq(Seq(Byte)) /\ Len(e) = 0 /\ e \in Messages
    BY DEF Messages
  <2>2. Decodable(e)
    BY DEF Decodable
  <2>3. /\ client = [open |-> TRUE, at |-> "program", tx |-> e, rx |-> e, rx_msg |-> e]
        /\ server = [closing |-> FALSE, out |-> e, writer |-> "ready", frame |-> e,
                     reading |-> "header", need |-> frame_header_size, more |-> FALSE,
                     read |-> e, body |-> e]
        /\ up = e /\ down = e /\ sent_up = e /\ got_up = e /\ sent_down = e /\ got_down = e
        /\ destroyed \in BOOLEAN
    BY Zenon, ZenonT(60) DEF Init
  <2>4. frame_header_size \in Nat
    BY FramingAssumption
  <2> HIDE DEF e
  <2>5. client \in ClientType
    BY ZenonT(60), ZenonT(90), <2>1, <2>3 DEF ClientType
  <2>6. server \in ServerType
    BY Zenon, ZenonT(60), <2>1, <2>3, <2>4 DEF ServerType
  <2> QED BY <2>1, <2>2, <2>3, <2>5, <2>6 DEF ConnType
<1>3. <<>> \o <<>> = <<>> /\ Len(<<>>) = 0 /\ 0 - 0 = 0
  OBVIOUS
<1>4. UpStream = <<>> /\ DownStream = <<>> /\ Written = 0 /\ Len(got_up) = 0 /\ Len(got_down) = 0
      /\ Len(sent_up) = 0 /\ Len(sent_down) = 0 /\ Len(server.out) = 0
  <2>1. UpStream = (<<>> \o <<>>) \o <<>> /\ DownStream = (<<>> \o <<>>) \o <<>>
    BY <1>1 DEF UpStream, DownStream
  <2>2. Len(sent_down) = 0 /\ Len(server.out) = 0
    BY <1>1, <1>3
  <2> QED BY <1>1, <1>3, <2>1, <2>2 DEF Written
<1>5. UpInv
  <2>1. Reading(UpStream, sent_up, Len(sent_up), Len(got_up), server.body,
                IF server.reading = "body" THEN frame_header_size ELSE 0, TRUE)
    <3>1. (IF server.reading = "body" THEN frame_header_size ELSE 0) = 0
      BY <1>1
    <3> QED BY Zenon, ZenonT(60), <1>1, <1>4, <3>1, NothingToRead
  <2>2. Len(got_up) <= Len(sent_up)
    BY <1>4
  <2>3. server.reading # "body"
    BY <1>1
  <2> QED BY <1>1, <2>1, <2>2, <2>3, Zenon, ZenonT(60) DEF UpInv
<1>6. DownInv
  <2>1. Reading(DownStream, sent_down, Written, Len(got_down), client.rx_msg, 0, ~server.closing)
    <3>1. (~server.closing) = TRUE
      BY <1>1
    <3> QED BY Zenon, ZenonT(60), <1>1, <1>4, <3>1, NothingToRead
  <2> QED BY <1>1, <1>4, <2>1 DEF DownInv
<1>7. Bounds
  <2>1. /\ Len(client.rx_msg) = 0 /\ Len(server.read) = 0 /\ Len(server.body) = 0
        /\ Len(up) = 0 /\ Len(down) = 0
    BY <1>1, <1>3
  <2> QED BY <1>1, <2>1, FramingAssumption DEF Bounds, ReaderBounds
<1>8. NoLostWake /\ ClosedForCause
  BY <1>1 DEF NoLostWake, ClosedForCause
<1> QED BY <1>2, <1>5, <1>6, <1>7, <1>8 DEF ConnInv, Inv

\* Every step keeps the invariant, and is a step of each of the two channels.
LEMMA StepInv ==
    ASSUME ConnInv, [Next]_vars
    PROVE  ConnInv' /\ UpStep /\ DownStep
<1>1. Inv /\ Bounds /\ NoLostWake
  BY DEF ConnInv
<1>2. ASSUME Inv', StepFacts
      PROVE  ConnInv' /\ UpStep /\ DownStep
  <2>1. ClosedForCause'
    BY <1>2 DEF ConnInv, ClosedForCause, StepFacts, Blamed
  <2> QED BY <1>2, <2>1 DEF ConnInv, StepFacts
<1>3. ASSUME NEW length \in UpLengths, SendServer(length)
      PROVE  Inv' /\ StepFacts
  BY <1>1, <1>3, SendServerInv, SendServerStep
<1>4. ASSUME NEW length \in DownLengths, SendTo(length)
      PROVE  Inv' /\ StepFacts
  BY <1>1, <1>4, SendToInv, SendToStep
<1>5. CASE DrainServer
  BY <1>1, <1>2, <1>5, DrainServerInv, DrainServerStep
<1>6. CASE CarveServer
  BY <1>1, <1>2, <1>6, CarveServerInv, CarveServerStep DEF Bounds
<1>7. CASE FlushServer
  BY <1>1, <1>2, <1>7, FlushServerInv, FlushServerStep
<1>8. CASE Destroy
  BY <1>1, <1>2, <1>8, DestroyInv, DestroyStep
<1>9. CASE WriteLoop
  BY <1>1, <1>2, <1>9, WriteLoopInv, WriteLoopStep
<1>10. CASE AsyncWrite
  BY <1>1, <1>2, <1>10, AsyncWriteInv, AsyncWriteStep
<1>11. CASE ReadLoop
  BY <1>1, <1>2, <1>11, ReadLoopInv, ReadLoopStep DEF Bounds
<1>12. CASE ReadEof
  BY <1>1, <1>2, <1>12, ReadEofInv, ReadEofStep
<1>13. CASE UNCHANGED vars
  <2>1. UpStep /\ DownStep
    BY <1>13 DEF vars, UpStep, DownStep
  <2>2. Bounds' /\ NoLostWake' /\ ClosedForCause'
    BY <1>13 DEF vars, ConnInv, Bounds, NoLostWake, ClosedForCause
  <2>3. ConnType'
    BY <1>1, <1>13 DEF vars, Inv, ConnType
  <2>4. UpInv' /\ DownInv'
    BY Zenon, ZenonT(60), <1>1, <1>13 DEF vars, Inv, UpInv, DownInv, UpStream, DownStream, Written
  <2> QED BY <2>1, <2>2, <2>3, <2>4 DEF ConnInv, Inv
<1> QED BY <1>2, <1>3, <1>4, <1>5, <1>6, <1>7, <1>8, <1>9, <1>10, <1>11, <1>12, <1>13
        DEF Next, Poll

\* The invariant holds throughout.
LEMMA Invariance == Spec => []ConnInv
<1>1. Init => ConnInv
  BY InitInv
<1>2. ConnInv /\ [Next]_vars => ConnInv'
  BY StepInv
<1> QED BY <1>1, <1>2, PTL DEF Spec

\* The buffers keep their types and their bounds: neither ReadLoop nor CarveServer
\* ever holds more of an unfinished message than max_reassembled_size.
THEOREM TypeCorrect == Spec => []TypeOK
<1>1. ConnInv => TypeOK
  <2> SUFFICES ASSUME ConnInv PROVE TypeOK
    OBVIOUS
  <2>1. client \in ClientType /\ server \in ServerType /\ Bounds
    BY DEF ConnInv, Inv, ConnType
  <2>2. client.open \in BOOLEAN /\ client.at \in {"program", "carve", "flush"}
    BY <2>1 DEF ClientType
  <2>3. /\ server.writer \in {"ready", "waiting", "writing", "done"}
        /\ server.reading \in {"header", "body"}
    BY <2>1 DEF ServerType
  <2> QED BY <2>1, <2>2, <2>3 DEF TypeOK, Bounds, ReaderBounds
<1> QED BY <1>1, Invariance, PTL

\* Neither ReadLoop nor CarveServer gives a connection up over a message within
\* max_reassembled_size, whatever the sizes and however the bytes are cut.
THEOREM NoClosingWithoutCause == Spec => []ClosedForCause
<1>1. ConnInv => ClosedForCause
  BY DEF ConnInv
<1> QED BY <1>1, Invariance, PTL

\* WriteLoop never waits for wake with something to write, or after Session's end.
THEOREM NoWakeLost == Spec => []NoLostWake
<1>1. ConnInv => NoLostWake
  BY DEF ConnInv
<1> QED BY <1>1, Invariance, PTL

\* FrameMessage, the socket and ReadLoop together are a FifoChannel: the client's
\* messages reach HandleMessage whole, once and in order.
THEOREM UpIsFifo == Spec => UpFifo
<1>1. Init => UpChannel!FifoInit
  BY DEF Init, UpChannel!FifoInit
<1>2. ConnInv /\ [Next]_vars => [UpChannel!FifoNext]_<<sent_up, got_up, ~server.closing>>
  BY StepInv DEF UpStep
<1> QED BY <1>1, <1>2, Invariance, PTL DEF Spec, UpFifo, UpChannel!FifoSpec, UpChannel!fifovars

\* So are Enqueue, WriteLoop, the socket and CarveServer.
THEOREM DownIsFifo == Spec => DownFifo
<1>1. Init => DownChannel!FifoInit
  BY DEF Init, DownChannel!FifoInit
<1>2. ConnInv /\ [Next]_vars => [DownChannel!FifoNext]_<<sent_down, got_down, client.open>>
  BY StepInv DEF DownStep
<1> QED BY <1>1, <1>2, Invariance, PTL DEF Spec, DownFifo, DownChannel!FifoSpec, DownChannel!fifovars

=============================================================================

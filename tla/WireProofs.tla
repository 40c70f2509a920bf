----------------------------- MODULE WireProofs -----------------------------
(***************************************************************************)
(* The bytes of one connection, for any frames cut anywhere: nothing is    *)
(* lost or moved between the client and the handlers, the handlers get the *)
(* client's frames in order, each with its arguments, an open connection   *)
(* is left with a whole frame in its buffer at the named places only, and  *)
(* the credentials looked up are those of the login.                       *)
(*                                                                         *)
(* The invariant says that the frames found are the first ones sent, and   *)
(* that what is in flight is the others, laid end to end.  A turn of the   *)
(* loop keeps it because the first frame is found whole when its bytes are *)
(* there (FrameRead), and not before (PartWaits), unless a text in it does *)
(* not decode (~Readable).  For the response of a login the proof finds    *)
(* where a byte of 128 or more may stand: a text has none on its own, and  *)
(* the lengths of AMQPLAIN stand behind bytes that are 0 (ShortLength).    *)
(***************************************************************************)
EXTENDS Wire, FramesProofs, FiniteSetTheorems

-----------------------------------------------------------------------------
(* Frames laid end to end *)

\* Bytes are appended to a buffer one after the other (protocol.py:92).
LEMMA AppendBytes ==
    ASSUME NEW s \in Seq(Byte), NEW t \in Seq(Byte), NEW u \in Seq(Byte)
    PROVE  (s \o t) \o u = s \o (t \o u)
  BY ConcatAssociative

\* Bytes, or frames, that agree place by place are the same.
LEMMA SameParts ==
    ASSUME NEW S, NEW s \in Seq(S), NEW t \in Seq(S), Len(s) = Len(t),
           \A i \in 1 .. Len(s) : s[i] = t[i]
    PROVE  s = t
  OBVIOUS

\* What is written one after the other stands one behind the other (serialization.py:339).
LEMMA JoinParts ==
    ASSUME NEW S, NEW s \in Seq(S), NEW t \in Seq(S)
    PROVE  /\ s \o t \in Seq(S) /\ Len(s \o t) = Len(s) + Len(t)
           /\ \A i \in 1 .. Len(s) : (s \o t)[i] = s[i]
           /\ \A i \in 1 .. Len(t) : (s \o t)[Len(s) + i] = t[i]
  OBVIOUS

\* Behind the bytes of one frame there is one stream only.
LEMMA CancelBytes ==
    ASSUME NEW s \in Seq(Byte), NEW t \in Seq(Byte), NEW u \in Seq(Byte),
           s \o t = s \o u
    PROVE  t = u
<1>1. \A S : \A x, y, z \in Seq(S) : x \o y = x \o z => y = z
  BY ConcatSimplifications, Zenon
<1> QED BY <1>1, Zenon

\* The network cuts the stream and drops nothing of it (protocol.py:92).
LEMMA CutBytes ==
    ASSUME NEW s \in Seq(Byte), NEW n \in 0 .. Len(s)
    PROVE  SubSeq(s, 1, n) \o SubSeq(s, n + 1, Len(s)) = s
<1>1. 1 \in 1 .. Len(s) + 1 /\ n \in 1 - 1 .. Len(s) /\ Len(s) \in n .. Len(s)
  BY LenProperties
<1>2. SubSeq(s, 1, n) \o SubSeq(s, n + 1, Len(s)) = SubSeq(s, 1, Len(s))
  BY <1>1, ConcatAdjacentSubSeq
<1> QED BY <1>2, SubSeqFull

\* A list of parts grows at its end only.
LEMMA AppendParts ==
    ASSUME NEW E, NEW s \in Seq(E), NEW x \in E
    PROVE  LET t == Append(s, x)
           IN /\ t \in Seq(E) /\ Len(t) = Len(s) + 1 /\ t[Len(s) + 1] = x /\ Len(s) \in Nat
              /\ \A k \in 1 .. Len(s) : t[k] = s[k]
  BY AppendProperties, LenProperties

\* What is added to a stream stands at its end (sender.py:27-441, protocol.py:86-103).
LEMMA FlattenGrows ==
    ASSUME NEW S, NEW ss \in Seq(Seq(S)), NEW x \in Seq(S)
    PROVE  FlattenSeq(Append(ss, x)) = FlattenSeq(ss) \o x
<1> DEFINE m == Len(ss)
           t == Append(ss, x)
<1>1. /\ t \in Seq(Seq(S)) /\ Len(t) = m + 1 /\ t[m + 1] = x /\ m \in Nat
      /\ \A k \in 1 .. m : t[k] = ss[k]
  BY AppendParts
<1>2. PICK f : /\ f[0] = <<>> /\ f[m] = FlattenSeq(ss)
               /\ \A k \in 1 .. m : f[k] = f[k - 1] \o ss[k]
  <2>1. \E f : /\ f \in [0 .. Len(ss) -> Seq(S)]
               /\ f[0] = <<>> /\ f[Len(ss)] = FlattenSeq(ss)
               /\ \A k \in 1 .. Len(ss) : f[k] = f[k - 1] \o ss[k]
    BY FlattenParts, Zenon
  <2> QED BY <2>1, Zenon
<1> HIDE DEF t, m
<1>3. PICK g : /\ g[0] = <<>> /\ g[m + 1] = FlattenSeq(t)
               /\ \A k \in 1 .. m + 1 : g[k] = g[k - 1] \o t[k]
  <2>1. \E g : /\ g \in [0 .. Len(t) -> Seq(S)]
               /\ g[0] = <<>> /\ g[Len(t)] = FlattenSeq(t)
               /\ \A k \in 1 .. Len(t) : g[k] = g[k - 1] \o t[k]
    BY <1>1, FlattenParts
  <2> QED BY <2>1, <1>1
<1> DEFINE T == {k \in Nat : k <= m => g[k] = f[k]}
<1>4. 0 \in T
  BY <1>2, <1>3
<1>5. ASSUME NEW k \in Nat, k \in T PROVE k + 1 \in T
  <2> SUFFICES ASSUME k + 1 <= m PROVE g[k + 1] = f[k + 1]
    OBVIOUS
  <2>1. k + 1 \in 1 .. m /\ k + 1 \in 1 .. m + 1 /\ (k + 1) - 1 = k /\ g[k] = f[k]
    BY <1>1, <1>5
  <2> QED BY <2>1, <1>1, <1>2, <1>3
<1>6. Nat \subseteq T
  <2> HIDE DEF T
  <2> QED BY <1>4, <1>5, SetInduction
<1>7. g[m] = f[m]
  BY <1>1, <1>6
<1>8. g[m + 1] = g[m] \o t[m + 1]
  BY <1>1, <1>3, m + 1 \in 1 .. m + 1, (m + 1) - 1 = m
<1> QED BY <1>1, <1>2, <1>3, <1>7, <1>8 DEF t

\* What a client writes behind the frames in flight stands at their end
\* (protocol.py:86-103, data_received: self._buffer).
LEMMA FlattenAppend ==
    ASSUME NEW ss \in Seq(Seq(Byte)), NEW x \in Seq(Byte)
    PROVE  FlattenSeq(Append(ss, x)) = FlattenSeq(ss) \o x
  BY FlattenGrows

\* The frames in flight are the first one and the others
\* (protocol.py:103-110, data_received: self._buffer[frame.size:]).
LEMMA FlattenFirst ==
    ASSUME NEW ss \in Seq(Seq(Byte)), Len(ss) # 0
    PROVE  FlattenSeq(ss) = ss[1] \o FlattenSeq(Tail(ss))
<1> DEFINE t == Tail(ss)
           m == Len(t)
           e == ss[1]
<1>1. /\ t \in Seq(Seq(Byte)) /\ m \in Nat /\ Len(ss) = m + 1
      /\ \A k \in 1 .. m : t[k] = ss[k + 1] /\ t[k] \in Seq(Byte)
      /\ e \in Seq(Byte)
  BY ss # <<>>, HeadTailProperties, LenProperties
<1> HIDE DEF t, e
<1>2. PICK f : /\ f \in [0 .. m -> Seq(Byte)]
               /\ f[0] = <<>> /\ f[m] = FlattenSeq(t)
               /\ \A k \in 1 .. m : f[k] = f[k - 1] \o t[k]
  BY <1>1, FlattenDef
<1> HIDE DEF m
<1>3. PICK g : /\ g[0] = <<>> /\ g[m + 1] = FlattenSeq(ss)
               /\ \A k \in 1 .. m + 1 : g[k] = g[k - 1] \o ss[k]
  <2>1. \E g : /\ g \in [0 .. Len(ss) -> Seq(Byte)]
               /\ g[0] = <<>> /\ g[Len(ss)] = FlattenSeq(ss)
               /\ \A k \in 1 .. Len(ss) : g[k] = g[k - 1] \o ss[k]
    BY FlattenDef
  <2> QED BY <2>1, <1>1
<1>4. e \in Seq(Byte) /\ \A k \in 0 .. m : f[k] \in Seq(Byte)
  BY <1>1, <1>2
<1> DEFINE H(k) == e \o f[k]
<1>5. H(0) = e
  BY <1>2, <1>4, ConcatEmptySeq
<1>6. \A k \in 1 .. m : H(k) = H(k - 1) \o t[k]
  <2> TAKE k \in 1 .. m
  <2> DEFINE u == f[k - 1]
             v == t[k]
  <2>1. k - 1 \in 0 .. m
    BY <1>1
  <2>2. f[k] = u \o v
    BY <1>2
  <2>3. u \in Seq(Byte) /\ v \in Seq(Byte) /\ e \in Seq(Byte)
    BY <1>1, <1>4, <2>1
  <2> HIDE DEF u, v
  <2>4. (e \o u) \o v = e \o (u \o v)
    BY <2>3, AppendBytes
  <2> QED BY <2>2, <2>4 DEF u, v
<1>7. H(m) = e \o FlattenSeq(t)
  BY <1>2
<1> HIDE DEF H
<1> DEFINE T == {k \in Nat : k <= m => g[k + 1] = H(k)}
<1>8. 0 \in T
  <2>1. 1 \in 1 .. m + 1
    BY <1>1
  <2>2. g[1] = g[1 - 1] \o ss[1]
    BY <1>3, <2>1, Zenon
  <2>4. 1 - 1 = 0
    OBVIOUS
  <2>5. g[1] = <<>> \o e
    BY <1>3, <2>2, <2>4, Zenon DEF e
  <2>3. <<>> \o e = e
    BY <1>4, ConcatEmptySeq
  <2> QED BY <2>3, <2>5, <1>5
<1>9. ASSUME NEW k \in Nat, k \in T PROVE k + 1 \in T
  <2> SUFFICES ASSUME k + 1 <= m PROVE g[(k + 1) + 1] = H(k + 1)
    OBVIOUS
  <2>1. /\ k + 1 \in 1 .. m /\ (k + 1) + 1 \in 1 .. m + 1
        /\ (k + 1) - 1 = k /\ ((k + 1) + 1) - 1 = k + 1 /\ g[k + 1] = H(k)
    BY <1>1, <1>9
  <2>2. g[(k + 1) + 1] = g[k + 1] \o ss[(k + 1) + 1] /\ ss[(k + 1) + 1] = t[k + 1]
    BY <1>1, <1>3, <2>1
  <2> QED BY <2>1, <2>2, <1>6
<1>10. Nat \subseteq T
  <2> HIDE DEF T
  <2> QED BY <1>8, <1>9, SetInduction
<1>11. g[m + 1] = H(m)
  BY <1>1, <1>10
<1> QED BY <1>3, <1>7, <1>11 DEF t, e

\* Of the bytes e of a frame, with others behind them, those of b have come and those
\* of t have not: a part of the frame, or all of it.
PartOrWhole(b, t, e, rest) ==
    \/ Len(b) < Len(e) /\ b = SubSeq(e, 1, Len(b)) /\ t # <<>>
    \/ LET c == SubSeq(b, Len(e) + 1, Len(b))
       IN c \in Seq(Byte) /\ b = e \o c /\ c \o t = rest

\* The buffer begins with the first frame in flight (protocol.py:103-110, frame.py:36-39).
LEMMA FirstFrame ==
    ASSUME NEW b \in Seq(Byte), NEW t \in Seq(Byte), NEW e \in Seq(Byte),
           NEW rest \in Seq(Byte), b \o t = e \o rest
    PROVE  PartOrWhole(b, t, e, rest)
<1> DEFINE k == Len(b)
           l == Len(e)
           p == b \o t
           q == e \o rest
<1>1. k \in Nat /\ l \in Nat /\ Len(t) \in Nat /\ Len(rest) \in Nat
  BY LenProperties
<1>2. /\ Len(p) = k + Len(t) /\ \A i \in 1 .. k : p[i] = b[i]
      /\ Len(q) = l + Len(rest) /\ \A i \in 1 .. l : q[i] = e[i]
  BY ConcatProperties
<1>3. \A i \in 1 .. k : b[i] \in Byte
  OBVIOUS
<1>4. \A i \in 1 .. l : e[i] \in Byte
  OBVIOUS
<1>5. p = q
  OBVIOUS
<1> HIDE DEF p, q
<1>6. CASE k < l
  <2> DEFINE d == SubSeq(e, 1, k)
  <2>1. d \in Seq(Byte) /\ Len(d) = k /\ \A i \in 1 .. k : d[i] = e[i]
    BY <1>1, <1>4, <1>6
  <2> HIDE DEF d
  <2>2. \A i \in 1 .. k : b[i] = d[i]
    BY <1>1, <1>2, <1>5, <1>6, <2>1
  <2>3. b = d
    BY <2>1, <2>2, SameParts
  <2>4. Len(t) # 0
    BY <1>1, <1>2, <1>5, <1>6
  <2>5. t # <<>>
    BY <2>4
  <2> QED BY <1>6, <2>3, <2>5 DEF d, PartOrWhole
<1>7. CASE k >= l
  <2> DEFINE c == SubSeq(b, l + 1, k)
             a == SubSeq(b, 1, l)
  <2>1. /\ c \in Seq(Byte) /\ a \in Seq(Byte) /\ Len(a) = l
        /\ \A i \in 1 .. l : a[i] = b[i]
    BY <1>1, <1>3, <1>7
  <2>2. a \o c = b
    <3>1. l \in 0 .. k
      BY <1>1, <1>7
    <3> QED BY <3>1, CutBytes
  <2> HIDE DEF c, a
  <2>3. \A i \in 1 .. l : a[i] = e[i]
    BY <1>1, <1>2, <1>5, <1>7, <2>1
  <2>4. a = e
    BY <2>1, <2>3, SameParts
  <2>5. e \o (c \o t) = e \o rest
    <3>1. (e \o c) \o t = e \o (c \o t)
      BY <2>1, AppendBytes, ZenonT(60)
    <3>2. b = e \o c
      BY <2>2, <2>4
    <3> QED BY <3>1, <3>2
  <2>6. c \o t \in Seq(Byte)
    BY <2>1, ConcatProperties
  <2>7. c \o t = rest
    BY <2>5, <2>6, CancelBytes
  <2> QED BY <2>1, <2>2, <2>4, <2>7 DEF c, PartOrWhole
<1>8. k < l \/ k >= l
  BY <1>1
<1> HIDE DEF k, l
<1> QED BY <1>6, <1>7, <1>8 DEF k, l, PartOrWhole

-----------------------------------------------------------------------------
(* The frames in flight *)

Sendable == {Frames[n] : n \in DOMAIN Frames}

\* What is in flight of the frames of s, when k are found.
Coming(s, k) == [n \in 1 .. Len(s) - k |-> Encode(s[k + n])]

\* A client sends what AMQP can encode.
LEMMA SendableEncoded ==
    ASSUME NEW f \in Sendable
    PROVE  Encodable(f) /\ Encode(f) \in Seq(Byte)
<1>1. Encodable(f)
  BY WireAssumption DEF Sendable
<1> QED BY <1>1, EncodeType

\* The frames in flight are bytes (protocol.py:103).
LEMMA ComingType ==
    ASSUME NEW s \in Seq(Sendable), NEW k \in 0 .. Len(s)
    PROVE  /\ Coming(s, k) \in Seq(Seq(Byte)) /\ Len(Coming(s, k)) = Len(s) - k
           /\ \A n \in 1 .. Len(s) - k : Coming(s, k)[n] = Encode(s[k + n])
<1>1. Len(s) \in Nat /\ Len(s) - k \in Nat
  BY LenProperties
<1>2. ASSUME NEW n \in 1 .. Len(s) - k PROVE Encode(s[k + n]) \in Seq(Byte)
  <2>1. k + n \in 1 .. Len(s)
    BY <1>1
  <2>2. s[k + n] \in Sendable
    BY <2>1
  <2> QED BY <2>2, SendableEncoded
<1> DEFINE E(n) == Encode(s[k + n])
           m == Len(s) - k
<1>3. Coming(s, k) = [n \in 1 .. m |-> E(n)]
  BY DEF Coming
<1>4. m \in Nat /\ \A n \in 1 .. m : E(n) \in Seq(Byte)
  BY <1>1, <1>2
<1> HIDE DEF E, m
<1>5. [n \in 1 .. m |-> E(n)] \in Seq(Seq(Byte)) /\ Len([n \in 1 .. m |-> E(n)]) = m
  BY <1>4
<1>6. \A n \in 1 .. m : [j \in 1 .. m |-> E(j)][n] = E(n)
  OBVIOUS
<1> QED BY <1>3, <1>5, <1>6 DEF E, m

\* Another frame is written behind those in flight (AMQP: one stream of frames).
LEMMA ComingSend ==
    ASSUME NEW s \in Seq(Sendable), NEW k \in 0 .. Len(s), NEW f \in Sendable
    PROVE  FlattenSeq(Coming(Append(s, f), k)) = FlattenSeq(Coming(s, k)) \o Encode(f)
<1> DEFINE t == Append(s, f)
           u == Coming(s, k)
           v == Coming(t, k)
           w == Append(u, Encode(f))
           m == Len(s) - k
<1>1. /\ t \in Seq(Sendable) /\ Len(t) = Len(s) + 1 /\ Len(s) \in Nat /\ k \in 0 .. Len(t)
      /\ t[Len(s) + 1] = f /\ \A i \in 1 .. Len(s) : t[i] = s[i]
  BY AppendProperties, LenProperties
<1> HIDE DEF t
<1>2. /\ u \in Seq(Seq(Byte)) /\ Len(u) = m /\ m \in Nat
      /\ \A n \in 1 .. m : u[n] = Encode(s[k + n])
  BY ComingType, LenProperties
<1>3. /\ v \in Seq(Seq(Byte)) /\ Len(v) = Len(t) - k
      /\ \A n \in 1 .. Len(t) - k : v[n] = Encode(t[k + n])
  BY <1>1, ComingType
<1>4. Len(t) - k = m + 1 /\ k + (m + 1) = Len(s) + 1 /\ m \in Nat
  BY <1>1
<1>5. Encode(f) \in Seq(Byte)
  BY SendableEncoded
<1> HIDE DEF u, v
<1>6. /\ w \in Seq(Seq(Byte)) /\ Len(w) = m + 1 /\ w[m + 1] = Encode(f)
      /\ \A n \in 1 .. m : w[n] = u[n]
  BY <1>2, <1>5, AppendProperties
<1> HIDE DEF w
<1>7. \A n \in 1 .. m + 1 : v[n] = w[n]
  <2> TAKE n \in 1 .. m + 1
  <2>1. v[n] = Encode(t[k + n])
    BY <1>3, <1>4
  <2>2. CASE n \in 1 .. m
    <3>1. k + n \in 1 .. Len(s)
      BY <1>4, <2>2
    <3> QED BY <1>1, <1>2, <1>6, <2>1, <2>2, <3>1
  <2>3. CASE n = m + 1
    BY <1>1, <1>4, <1>6, <2>1, <2>3
  <2> HIDE DEF m
  <2>4. n \in 1 .. m \/ n = m + 1
    BY <1>4
  <2> QED BY <2>2, <2>3, <2>4
<1>8. v = w
  <2> HIDE DEF m
  <2>1. Len(v) = m + 1
    BY <1>3, <1>4
  <2> QED BY <1>3, <1>6, <1>7, <2>1, SameParts
<1> QED BY <1>2, <1>5, <1>8, FlattenAppend DEF t, u, v, w

\* When it is found, the others are left (protocol.py:110).
LEMMA ComingFirst ==
    ASSUME NEW s \in Seq(Sendable), NEW k \in Nat, k < Len(s)
    PROVE  FlattenSeq(Coming(s, k)) = Encode(s[k + 1]) \o FlattenSeq(Coming(s, k + 1))
<1> DEFINE u == Coming(s, k)
           v == Coming(s, k + 1)
           m == Len(s) - k
           l == Len(s)
<1>1. l \in Nat /\ k \in 0 .. l /\ k + 1 \in 0 .. l /\ m \in Nat /\ 1 \in 1 .. m
  BY LenProperties
<1>2. /\ u \in Seq(Seq(Byte)) /\ Len(u) = m
      /\ \A n \in 1 .. m : u[n] = Encode(s[k + n])
  BY <1>1, ComingType
<1>3. /\ v \in Seq(Seq(Byte)) /\ Len(v) = l - (k + 1)
      /\ \A n \in 1 .. l - (k + 1) : v[n] = Encode(s[(k + 1) + n])
  BY <1>1, ComingType
<1>4. l - (k + 1) = m - 1 /\ \A n \in Nat : (k + 1) + n = k + (n + 1)
  BY <1>1
<1> HIDE DEF u, v, l
<1>5. \A n \in 1 .. m - 1 : v[n] = u[n + 1]
  <2> TAKE n \in 1 .. m - 1
  <2>1. n + 1 \in 1 .. m /\ n \in Nat
    BY <1>1
  <2>2. v[n] = Encode(s[(k + 1) + n]) /\ u[n + 1] = Encode(s[k + (n + 1)])
    BY <1>2, <1>3, <1>4, <2>1
  <2> QED BY <1>4, <2>1, <2>2
<1>6. u[1] = Encode(s[k + 1])
  BY <1>1, <1>2
<1> HIDE DEF m
<1>7. u # <<>> /\ Len(u) # 0
  BY <1>1, <1>2
<1>8. Tail(u) \in Seq(Seq(Byte)) /\ Len(Tail(u)) = m - 1
  BY <1>2, <1>7, HeadTailProperties
<1>9. \A n \in 1 .. m - 1 : Tail(u)[n] = u[n + 1]
  BY <1>2, <1>7, <1>8, HeadTailProperties
<1>10. Tail(u) = v
  <2> DEFINE t == Tail(u)
  <2>1. t \in Seq(Seq(Byte)) /\ Len(t) = m - 1 /\ Len(v) = m - 1
    BY <1>3, <1>4, <1>8
  <2>2. \A n \in 1 .. m - 1 : t[n] = v[n]
    BY <1>5, <1>9
  <2> HIDE DEF t
  <2>3. t = v
    BY <1>3, <2>1, <2>2, SameParts
  <2> QED BY <2>3 DEF t
<1>11. FlattenSeq(u) = u[1] \o FlattenSeq(Tail(u))
  BY <1>2, <1>7, FlattenFirst
<1> QED BY <1>6, <1>10, <1>11 DEF u, v

-----------------------------------------------------------------------------
(* What the server writes *)

\* A frame is written byte by byte (sender.py:431-443).
LEMMA FrameBytes ==
    ASSUME NEW type \in Byte, NEW channel \in Byte, NEW payload \in Seq(Byte)
    PROVE  Frame(type, channel, payload) \in Seq(Byte)
<1> DEFINE h == <<type, 0, channel>>
           l == pack(Len(payload), 4)
           e == <<FRAME_END>>
<1>1. h \in Seq(Byte)
  BY DEF Byte
<1>2. l \in Seq(Byte)
  <2>1. Len(payload) \in Int /\ 4 \in Nat
    BY LenProperties
  <2> QED BY <2>1, PackType
<1>3. e \in Seq(Byte)
  BY DEF FRAME_END, Byte
<1> HIDE DEF h, l, e
<1>4. h \o l \in Seq(Byte)
  BY <1>1, <1>2, ConcatProperties, Zenon
<1>5. (h \o l) \o payload \in Seq(Byte)
  BY <1>4, ConcatProperties, Zenon
<1>6. ((h \o l) \o payload) \o e \in Seq(Byte)
  BY <1>3, <1>5, ConcatProperties, Zenon
<1> QED BY <1>6 DEF Frame, h, l, e

\* The frame of a method, behind its class and number (sender.py:40-441).
LEMMA ReplyBytes ==
    ASSUME NEW channel \in Byte, NEW class \in Byte, NEW method \in Byte,
           NEW arguments \in Seq(Byte)
    PROVE  Reply(channel, class, method, arguments) \in Seq(Byte)
<1> DEFINE h == <<0, class, 0, method>>
           p == h \o arguments
<1>1. h \in Seq(Byte)
  BY DEF Byte
<1> HIDE DEF h
<1>2. p \in Seq(Byte)
  BY <1>1, ConcatProperties, Zenon
<1>3. Reply(channel, class, method, arguments) = Frame(1, channel, p)
  BY DEF Reply, h
<1> HIDE DEF p
<1>4. 1 \in Byte
  BY DEF Byte
<1> QED BY <1>2, <1>3, <1>4, FrameBytes

\* Four bytes hold the sizes and counts of the replies (sender.py:162-166, 322-326).
LEMMA FitsLong ==
    ASSUME NEW n \in Nat, n <= 131072
    PROVE  Fits(n, 4)
<1> DEFINE s == Shifted(n, 4)
<1>0. n \in Int /\ 4 \in Nat
  BY SMT
<1>1. s[0] = n /\ \A k \in 1 .. 4 : s[k] = s[k - 1] \div 256
  BY ShiftedDef, <1>0, SMT
<1> HIDE DEF s
<1>2. s[1] = n \div 256 /\ s[2] = s[1] \div 256 /\ s[3] = s[2] \div 256 /\ s[4] = s[3] \div 256
  BY <1>1, 1 \in 1 .. 4, 2 \in 1 .. 4, 3 \in 1 .. 4, 4 \in 1 .. 4, SMT
<1>3. s[1] \in Nat /\ s[1] <= 512
  BY <1>2, <1>1, SMT
<1>4. s[2] \in Nat /\ s[2] <= 2
  BY <1>2, <1>3, SMT
<1>5. s[3] = 0
  BY <1>2, <1>4, SMT
<1>6. s[4] = 0
  BY <1>2, <1>5, SMT
<1> QED BY <1>6, SMT DEF s, Fits

\* The width of a character by its first byte (serialization.py:81-84).
LEMMA Widths ==
    ASSUME NEW b \in Byte
    PROVE  /\ b < 128 => Width(b) = 1
           /\ b \in 128 .. 193 => Width(b) = 0
           /\ b >= 128 => Width(b) # 1
           /\ Width(b) \in 0 .. 4
<1>1. b \in Int /\ b >= 0 /\ b <= 255
  BY DEF Byte
<1>2. CASE b < 128
  <2>1. Width(b) = 1
    BY <1>2 DEF Width
  <2> QED BY <1>1, <1>2, <2>1
<1>3. CASE b >= 128
  <2>1. ~(b < 128)
    BY <1>1, <1>3
  <2>2. CASE b \in 194 .. 223
    <3>1. Width(b) = 2
      BY <2>1, <2>2 DEF Width
    <3> QED BY <1>1, <1>3, <2>2, <3>1
  <2>3. CASE b \in 224 .. 239
    <3>1. Width(b) = 3
      BY <1>1, <2>1, <2>3 DEF Width
    <3> QED BY <1>1, <1>3, <2>3, <3>1
  <2>4. CASE b \in 240 .. 244
    <3>1. Width(b) = 4
      BY <1>1, <2>1, <2>4 DEF Width
    <3> QED BY <1>1, <1>3, <2>4, <3>1
  <2>5. CASE b \notin 194 .. 223 /\ b \notin 224 .. 239 /\ b \notin 240 .. 244
    <3>1. Width(b) = 0
      BY <2>1, <2>5 DEF Width
    <3> QED BY <1>1, <1>3, <3>1
  <2> QED BY <2>2, <2>3, <2>4, <2>5
<1> QED BY <1>1, <1>2, <1>3

\* A byte below 128 is a character, whatever stands beside it (serialization.py:81-84).
LEMMA AsciiAt ==
    ASSUME NEW s \in Seq(Byte), NEW i \in 1 .. Len(s), s[i] < 128
    PROVE  \E back \in 0 .. 3 :
              back < i /\ back < Width(s[i - back]) /\ CharAt(s, i - back)
<1>1. s[i] \in Byte /\ i \in Nat /\ Len(s) \in Nat /\ i <= Len(s) /\ i >= 1
  OBVIOUS
<1>2. Width(s[i]) = 1
  BY <1>1, Widths
<1>3. i + 1 - 1 = i /\ i \in i .. Len(s) /\ i + 1 .. i = {}
  BY <1>1
<1>4. CharAt(s, i)
  BY <1>2, <1>3 DEF CharAt
<1>5. 0 \in 0 .. 3 /\ 0 < i /\ 0 < Width(s[i]) /\ i - 0 = i
  BY <1>1, <1>2
<1> QED BY <1>4, <1>5

LEMMA AsciiText ==
    ASSUME NEW s \in Seq(Byte), \A i \in 1 .. Len(s) : s[i] < 128
    PROVE  s \in Str
<1>1. DOMAIN s = 1 .. Len(s)
  OBVIOUS
<1>2. Utf8(s)
  BY <1>1, AsciiAt DEF Utf8
<1> QED BY <1>2 DEF Str

\* The strs that the sender writes itself (sender.py:40-60, 231).
LEMMA ShortKeys ==
    /\ <<>> \in Keys
    /\ \A x \in 0 .. 127 : <<x>> \in Keys
<1>1. <<>> \in Seq(Byte) /\ Len(<<>>) = 0 /\ 0 \in Byte
  BY DEF Byte
<1>2. ASSUME NEW x \in 0 .. 127 PROVE <<x>> \in Keys
  <2>1. <<x>> \in Seq(Byte) /\ Len(<<x>>) = 1 /\ 1 \in Byte
    BY DEF Byte
  <2>2. \A i \in 1 .. Len(<<x>>) : <<x>>[i] < 128
    BY <2>1
  <2>3. <<x>> \in Str
    BY <2>1, <2>2, AsciiText
  <2> QED BY <2>1, <2>3 DEF Keys
<1>3. <<>> \in Str
  <2>1. \A i \in 1 .. Len(<<>>) : <<>>[i] < 128
    BY <1>1
  <2> QED BY <1>1, <2>1, AsciiText
<1> QED BY <1>1, <1>2, <1>3 DEF Keys

\* peer_properties is a table of a table and strs (sender.py:41-60).
LEMMA PeerProperties == peer_properties \in Dicts(Items[MaxDepth])
<1> DEFINE items == Items[MaxDepth]
           true == Value("bool", TRUE)
           inner == << << <<110>>, true>>, << <<112>>, true>> >>
           capabilities == Value("dict", inner)
           product == Value("str", <<108>>)
           version == Value("str", <<51>>)
<1>1. /\ MaxDepth - 1 \in 0 .. MaxDepth /\ MaxDepth \in 1 .. MaxDepth
      /\ items = Scalars \cup Typed("dict", Dicts(Items[MaxDepth - 1]))
                 \cup Typed("list", Lists(Items[MaxDepth - 1]))
  BY ItemsDef, DepthAssumption
<1>2. Scalars \subseteq Items[MaxDepth - 1]
  <2>1. MaxDepth - 1 = 0 \/ MaxDepth - 1 \in 1 .. MaxDepth
    BY DepthAssumption
  <2>2. Items[0] = Scalars
    BY ItemsDef
  <2>3. MaxDepth - 1 \in 1 .. MaxDepth => Scalars \subseteq Items[MaxDepth - 1]
    BY ItemsDef
  <2> QED BY <2>1, <2>2, <2>3
<1>3. /\ <<110>> \in Keys /\ <<112>> \in Keys /\ <<99>> \in Keys /\ <<105>> \in Keys
      /\ <<118>> \in Keys
  BY ShortKeys
<1>4. true \in Scalars
  BY DEF Value, Typed, Scalars
<1>5. product \in Scalars /\ version \in Scalars
  <2>1. <<108>> \in Str /\ <<51>> \in Str
    BY ShortKeys DEF Keys
  <2> QED BY <2>1 DEF Value, Typed, Scalars
<1> HIDE DEF items, true, product, version
<1>6. inner \in Dicts(Items[MaxDepth - 1])
  <2> DEFINE deeper == Items[MaxDepth - 1]
  <2>1. true \in deeper
    BY <1>2, <1>4
  <2> HIDE DEF deeper
  <2>2. <<110>> # <<112>>
    OBVIOUS
  <2>3. inner \in Seq(Keys \X deeper)
    BY <1>3, <2>1
  <2>4. \A m, n \in DOMAIN inner : inner[m][1] = inner[n][1] => m = n
    BY <2>2
  <2> QED BY <2>3, <2>4 DEF Dicts, deeper
<1> HIDE DEF inner
<1>7. capabilities \in items /\ product \in items /\ version \in items
  BY <1>1, <1>5, <1>6 DEF Typed, Value
<1>8. peer_properties = << << <<99>>, capabilities>>, << <<105>>, product>>, << <<118>>, version>> >>
  BY DEF peer_properties, inner, true, product, version
<1> HIDE DEF capabilities
<1>9. peer_properties \in Seq(Keys \X items)
  BY <1>3, <1>7, <1>8
<1>10. <<99>> # <<105>> /\ <<99>> # <<118>> /\ <<105>> # <<118>>
  OBVIOUS
<1>11. \A m, n \in DOMAIN peer_properties :
          peer_properties[m][1] = peer_properties[n][1] => m = n
  BY <1>8, <1>10
<1> QED BY <1>9, <1>11 DEF Dicts, items

\* dumps of formats that are too short for nine bits in a row (serialization.py:323-392).
LEMMA DumpsBytes ==
    ASSUME NEW format \in Seq(Letters), Len(format) <= 8, NEW S, NEW values \in Seq(S),
           Len(values) = Len(format),
           \A n \in 1 .. Len(format) : Taken(format[n], values[n])
    PROVE  dumps(format, values) \in Seq(Byte)
<1>1. EightBits(format)
  <2>1. Len(format) \in Nat
    BY LenProperties
  <2>2. 1 .. Len(format) - 8 = {}
    BY <2>1
  <2> QED BY <2>2 DEF EightBits
<1> QED BY <1>1, DumpsType DEF Arguments

\* A reply that names a queue, a consumer or nothing (sender.py:209, 145, 433).
LEMMA DumpsShort ==
    ASSUME NEW x \in Keys
    PROVE  dumps(<<"s">>, <<x>>) \in Seq(Byte)
<1> DEFINE f == <<"s">>
           v == <<x>>
           S == {x}
<1>1. f \in Seq(Letters) /\ Len(f) = 1 /\ v \in Seq(S) /\ Len(v) = 1 /\ f[1] = "s" /\ v[1] = x
  BY DEF Letters
<1>2. Taken("s", x)
  BY DEF Taken
<1> HIDE DEF f, v, S
<1>3. \A n \in 1 .. Len(f) : Taken(f[n], v[n])
  BY <1>1, <1>2
<1>4. Len(f) <= 8 /\ Len(v) = Len(f)
  BY <1>1
<1>5. dumps(f, v) \in Seq(Byte)
  BY <1>1, <1>3, <1>4, DumpsBytes
<1> QED BY <1>5 DEF f, v

\* channel.open-ok (sender.py:222-255).
LEMMA DumpsLong ==
    ASSUME NEW x \in Seq(Byte)
    PROVE  dumps(<<"S">>, <<x>>) \in Seq(Byte)
<1> DEFINE f == <<"S">>
           v == <<x>>
           S == {x}
<1>1. f \in Seq(Letters) /\ Len(f) = 1 /\ v \in Seq(S) /\ Len(v) = 1 /\ f[1] = "S" /\ v[1] = x
  BY DEF Letters
<1>2. Taken("S", x)
  BY DEF Taken
<1> HIDE DEF f, v, S
<1>3. \A n \in 1 .. Len(f) : Taken(f[n], v[n])
  BY <1>1, <1>2
<1>4. Len(f) <= 8 /\ Len(v) = Len(f)
  BY <1>1
<1>5. dumps(f, v) \in Seq(Byte)
  BY <1>1, <1>3, <1>4, DumpsBytes
<1> QED BY <1>5 DEF f, v

\* The numbers that the sender writes fit (serialization.py:353-367).
LEMMA SmallTaken ==
    /\ \A n \in Byte : Taken("o", n)
    /\ \A n \in Nat : n <= 65535 => Taken("B", n)
    /\ \A n \in Nat : n <= 131072 => Taken("l", n)
<1>1. ASSUME NEW n \in Byte PROVE Taken("o", n)
  <2>1. n \in Nat
    BY DEF Byte
  <2> QED BY <2>1, FitsByte DEF Taken
<1>2. ASSUME NEW n \in Nat, n <= 65535 PROVE Taken("B", n)
  <2>1. Fits(n, 2)
    BY <1>2, FitsShort, SMT
  <2> QED BY <2>1, SMT DEF Taken
<1>3. ASSUME NEW n \in Nat, n <= 131072 PROVE Taken("l", n)
  <2>1. Fits(n, 4)
    BY <1>3, FitsLong, SMT
  <2> QED BY <2>1, SMT DEF Taken
<1> QED BY <1>1, <1>2, <1>3, SMT

\* connection.start (sender.py:40-95).
LEMMA StartBytes == send_connection_start \in Seq(Byte)
<1> DEFINE f == <<"o", "o", "F", "S", "S">>
           a == <<80, 65>>
           b == <<101>>
           v == <<0, 9, peer_properties, a, b>>
           S == {0, 9, peer_properties, a, b}
<1>1. a \in Seq(Byte) /\ b \in Seq(Byte) /\ 0 \in Byte /\ 9 \in Byte
  BY DEF Byte
<1> HIDE DEF a, b
<1>2. f \in Seq(Letters) /\ Len(f) = 5
  BY DEF Letters
<1>3. v \in Seq(S) /\ Len(v) = 5
  OBVIOUS
<1>4. /\ Taken("o", 0) /\ Taken("o", 9) /\ Taken("F", peer_properties)
      /\ Taken("S", a) /\ Taken("S", b)
  BY <1>1, SmallTaken, PeerProperties DEF Taken
<1>5. \A n \in 1 .. 5 : Taken(f[n], v[n])
  BY <1>4
<1> HIDE DEF f, v, S
<1>6. Len(f) <= 8 /\ Len(v) = Len(f) /\ \A n \in 1 .. Len(f) : Taken(f[n], v[n])
  BY <1>2, <1>3, <1>5
<1>7. dumps(f, v) \in Seq(Byte)
  BY <1>2, <1>3, <1>6, DumpsBytes
<1>8. send_connection_start = Reply(0, 10, 10, dumps(f, v))
  BY DEF send_connection_start, f, v, a, b
<1>9. 0 \in Byte /\ 10 \in Byte
  BY DEF Byte
<1> QED BY <1>7, <1>8, <1>9, ReplyBytes

\* connection.tune (sender.py:158-188).
LEMMA TuneBytes == send_connection_tune \in Seq(Byte)
<1> DEFINE f == <<"B", "l", "B">>
           v == <<0, 131072, 10>>
           S == {0, 131072, 10}
<1>1. f \in Seq(Letters) /\ Len(f) = 3 /\ f[1] = "B" /\ f[2] = "l" /\ f[3] = "B"
  BY SMT DEF Letters
<1>2. v \in Seq(S) /\ Len(v) = 3 /\ v[1] = 0 /\ v[2] = 131072 /\ v[3] = 10
  BY SMT
<1>3. /\ Taken("B", 0) /\ Taken("B", 10) /\ Taken("l", 131072)
  BY SmallTaken, SMT
<1> HIDE DEF f, v, S
<1>4. \A n \in 1 .. 3 : Taken(f[n], v[n])
  BY <1>1, <1>2, <1>3, SMT
<1>5. /\ f \in Seq(Letters) /\ v \in Seq(S) /\ Len(f) <= 8 /\ Len(v) = Len(f)
      /\ \A n \in 1 .. Len(f) : Taken(f[n], v[n])
  BY <1>1, <1>2, <1>4, SMT
<1>6. dumps(f, v) \in Seq(Byte)
  BY <1>5, DumpsBytes
<1>7. send_connection_tune = Reply(0, 10, 30, dumps(f, v))
  BY DEF send_connection_tune, f, v
<1>8. 0 \in Byte /\ 10 \in Byte /\ 30 \in Byte
  BY DEF Byte
<1> QED BY <1>6, <1>7, <1>8, ReplyBytes

\* queue.declare-ok, which counts no messages and no consumers (sender.py:312-351).
LEMMA DeclareBytes ==
    ASSUME NEW channel \in Byte, NEW name \in Keys
    PROVE  send_queue_declare_ok(channel, name, 0, 0) \in Seq(Byte)
<1> DEFINE f == <<"s", "l", "l">>
           v == <<name, 0, 0>>
           S == {name, 0}
<1>1. f \in Seq(Letters) /\ Len(f) = 3 /\ f[1] = "s" /\ f[2] = "l" /\ f[3] = "l"
  BY DEF Letters
<1>2. v \in Seq(S) /\ Len(v) = 3 /\ v[1] = name /\ v[2] = 0 /\ v[3] = 0
  OBVIOUS
<1>3. Taken("s", name) /\ Taken("l", 0)
  <2>1. Taken("s", name)
    BY DEF Taken
  <2> QED BY <2>1, SmallTaken, SMT
<1> HIDE DEF f, v, S
<1>4. \A n \in 1 .. 3 : Taken(f[n], v[n])
  BY <1>1, <1>2, <1>3
<1>5. Len(f) <= 8 /\ Len(v) = Len(f) /\ \A n \in 1 .. Len(f) : Taken(f[n], v[n])
  BY <1>1, <1>2, <1>4
<1>6. dumps(f, v) \in Seq(Byte)
  BY <1>1, <1>2, <1>5, DumpsBytes
<1>7. send_queue_declare_ok(channel, name, 0, 0) = Reply(channel, 50, 11, dumps(f, v))
  BY DEF send_queue_declare_ok, f, v
<1>8. 50 \in Byte /\ 11 \in Byte
  BY DEF Byte
<1> QED BY <1>6, <1>7, <1>8, ReplyBytes

\* What each branch of data_received writes (protocol.py:112-348).
LEMMA ReplyType ==
    ASSUME NEW f, f.name \in Replied, f.chan \in Byte,
           f.name = "QUEUE_DECLARE" => f.args["queue-name"] \in Keys,
           f.name \in {"BASIC_CONSUME", "BASIC_CANCEL"} => f.args["consumer-tag"] \in Keys
    PROVE  reply(f) \in Seq(Byte)
<1>1. /\ <<>> \in Seq(Byte) /\ <<52, 50>> \in Seq(Byte)
      /\ 0 \in Byte /\ 8 \in Byte /\ 10 \in Byte /\ 11 \in Byte /\ 20 \in Byte /\ 21 \in Byte
      /\ 31 \in Byte /\ 40 \in Byte /\ 41 \in Byte /\ 50 \in Byte /\ 51 \in Byte /\ 60 \in Byte
  BY DEF Byte
<1>2. f.name = "HEARTBEAT" => reply(f) = send_heartbeat
  BY DEF reply
<1>3. f.name = "START_OK" => reply(f) = send_connection_tune
  BY DEF reply
<1>4. f.name = "OPEN" => reply(f) = send_connection_ok
  BY DEF reply
<1>5. f.name = "CLOSE" => reply(f) = send_connection_close_ok
  BY DEF reply
<1>6. f.name = "CHANNEL_OPEN" => reply(f) = send_channel_open_ok(f.chan)
  BY DEF reply
<1>7. f.name = "CHANNEL_CLOSE" => reply(f) = send_channel_close_ok(f.chan)
  BY DEF reply
<1>8. f.name = "EXCHANGE_DECLARE" => reply(f) = send_exchange_declare_ok(f.chan)
  BY DEF reply
<1>9. f.name = "QUEUE_DECLARE" =>
          reply(f) = send_queue_declare_ok(f.chan, f.args["queue-name"], 0, 0)
  BY DEF reply
<1>10. f.name = "QUEUE_BIND" => reply(f) = send_queue_bind_ok(f.chan)
  BY DEF reply
<1>11. f.name = "BASIC_QOS" => reply(f) = send_basic_qos_ok(f.chan)
  BY DEF reply
<1>12. f.name = "BASIC_CONSUME" =>
          reply(f) = send_basic_consume_ok(f.chan, f.args["consumer-tag"])
  BY DEF reply
<1>13. f.name = "BASIC_CANCEL" =>
          reply(f) = send_basic_cancel_ok(f.chan, f.args["consumer-tag"])
  BY DEF reply
<1>14. send_heartbeat \in Seq(Byte)
  BY <1>1, FrameBytes DEF send_heartbeat
<1>15. send_connection_ok \in Seq(Byte)
  BY <1>1, DumpsShort, ShortKeys, ReplyBytes DEF send_connection_ok
<1>16. send_connection_close_ok \in Seq(Byte)
  BY <1>1, ReplyBytes DEF send_connection_close_ok
<1>17. \A c \in Byte : send_channel_open_ok(c) \in Seq(Byte)
  BY <1>1, DumpsLong, ReplyBytes DEF send_channel_open_ok
<1>18. \A c \in Byte : send_channel_close_ok(c) \in Seq(Byte)
  BY <1>1, ReplyBytes DEF send_channel_close_ok
<1>19. \A c \in Byte : send_exchange_declare_ok(c) \in Seq(Byte)
  BY <1>1, ReplyBytes DEF send_exchange_declare_ok
<1>20. \A c \in Byte : send_queue_bind_ok(c) \in Seq(Byte)
  BY <1>1, ReplyBytes DEF send_queue_bind_ok
<1>21. \A c \in Byte : send_basic_qos_ok(c) \in Seq(Byte)
  BY <1>1, ReplyBytes DEF send_basic_qos_ok
<1>22. \A c \in Byte, k \in Keys : send_basic_consume_ok(c, k) \in Seq(Byte)
  <2> TAKE c \in Byte, k \in Keys
  <2> DEFINE d == dumps(<<"s">>, <<k>>)
  <2>1. d \in Seq(Byte)
    BY DumpsShort
  <2> HIDE DEF d
  <2>2. Reply(c, 60, 21, d) \in Seq(Byte)
    BY <1>1, <2>1, ReplyBytes
  <2> QED BY <2>2 DEF send_basic_consume_ok, d
<1>23. \A c \in Byte, k \in Keys : send_basic_cancel_ok(c, k) \in Seq(Byte)
  <2> TAKE c \in Byte, k \in Keys
  <2> DEFINE d == dumps(<<"s">>, <<k>>)
  <2>1. d \in Seq(Byte)
    BY DumpsShort
  <2> HIDE DEF d
  <2>2. Reply(c, 60, 31, d) \in Seq(Byte)
    BY <1>1, <2>1, ReplyBytes
  <2> QED BY <2>2 DEF send_basic_cancel_ok, d
<1>24. \A c \in Byte, k \in Keys : send_queue_declare_ok(c, k, 0, 0) \in Seq(Byte)
  BY DeclareBytes
<1> DEFINE chan == f.chan
           args == f.args
           name == f.name
           bytes == reply(f)
<1> HIDE DEF bytes
<1>25. name \in {"HEARTBEAT", "START_OK", "OPEN", "CLOSE", "CHANNEL_OPEN", "CHANNEL_CLOSE"}
         => bytes \in Seq(Byte)
  BY <1>2, <1>3, <1>4, <1>5, <1>6, <1>7, <1>14, <1>15, <1>16, <1>17, <1>18, TuneBytes
     DEF bytes
<1>26. name \in {"EXCHANGE_DECLARE", "QUEUE_DECLARE", "QUEUE_BIND", "BASIC_QOS",
                 "BASIC_CONSUME", "BASIC_CANCEL"} => bytes \in Seq(Byte)
  BY <1>8, <1>9, <1>10, <1>11, <1>12, <1>13, <1>19, <1>20, <1>21, <1>22, <1>23, <1>24
     DEF bytes
<1> QED BY <1>25, <1>26 DEF Replied, bytes

\* What JSON and HTTP give as the value of a header, by its type (http_protocol.py:153-205).
LEMMA GivenTypes ==
    ASSUME NEW x \in Given
    PROVE  /\ x[1] = "str" => x[2] \in Str
           /\ x[1] = "int" => x[2] \in Int /\ FitsSigned(x[2], 8)
           /\ x[1] = "dict" => x[2] \in Dicts(Items[MaxDepth])
<1> DEFINE dicts == Dicts(Items[MaxDepth])
           lists == Lists(Items[MaxDepth])
           ints == {n \in Int : FitsSigned(n, 8)}
<1>1. \/ x \in Typed("str", Str) \/ x \in Typed("bool", BOOLEAN)
      \/ x \in Typed("int", ints) \/ x = Value("None", <<>>)
      \/ x \in Typed("float", [1 .. 8 -> Byte]) \/ x \in Typed("Decimal", [1 .. 5 -> Byte])
      \/ x \in Typed("datetime", [1 .. 8 -> Byte])
      \/ x \in Typed("dict", dicts) \/ x \in Typed("list", lists)
  BY Zenon DEF Given, Scalars
<1>2. \A py, vs : x \in Typed(py, vs) => x[1] = py /\ x[2] \in vs
  BY DEF Typed
<1>3. x = Value("None", <<>>) => x[1] = "None"
  BY DEF Value
<1> DEFINE py == x[1]
           v == x[2]
<1>4. \/ (py = "str" /\ v \in Str) \/ (py = "int" /\ v \in ints)
      \/ (py = "dict" /\ v \in dicts)
      \/ py \in {"bool", "None", "float", "Decimal", "datetime", "list"}
  <2> HIDE DEF dicts, lists, ints
  <2>1. x \in Typed("str", Str) => py = "str" /\ v \in Str
    BY <1>2
  <2>2. x \in Typed("int", ints) => py = "int" /\ v \in ints
    BY <1>2
  <2>3. x \in Typed("dict", dicts) => py = "dict" /\ v \in dicts
    BY <1>2
  <2>4. /\ x \in Typed("bool", BOOLEAN) => py = "bool"
        /\ x \in Typed("float", [1 .. 8 -> Byte]) => py = "float"
        /\ x \in Typed("Decimal", [1 .. 5 -> Byte]) => py = "Decimal"
        /\ x \in Typed("datetime", [1 .. 8 -> Byte]) => py = "datetime"
        /\ x \in Typed("list", lists) => py = "list"
    BY <1>2, Zenon
  <2> HIDE DEF py, v
  <2> QED BY <1>1, <1>3, <2>1, <2>2, <2>3, <2>4 DEF py
<1> HIDE DEF py, v
<1>5. (py = "str" => v \in Str) /\ (py = "int" => v \in ints)
  <2> HIDE DEF dicts, lists, ints
  <2> QED BY <1>4
<1>6. py = "dict" => v \in dicts
  <2> HIDE DEF dicts, lists, ints
  <2> QED BY <1>4
<1> QED BY <1>4, <1>5, <1>6 DEF py, v

\* A positive integer that is packed with a sign fits without one (struct).
LEMMA FitsUnsigned ==
    ASSUME NEW n \in Nat, NEW width \in Nat \ {0}, FitsSigned(n, width)
    PROVE  Fits(n, width)
<1> DEFINE s == Shifted(n, width)
<1>0. n \in Int /\ width \in Nat
  OBVIOUS
<1>1. s[0] = n /\ \A k \in 1 .. width : s[k] = s[k - 1] \div 256
  BY <1>0, ShiftedDef
<1>2. s[width - 1] \div 128 \in {-1, 0}
  BY DEF FitsSigned
<1> SUFFICES s[width] = 0
  BY DEF Fits
<1> HIDE DEF s
<1> DEFINE T == {k \in Nat : k <= width => s[k] \in Nat}
<1>3. 0 \in T
  BY <1>1
<1>4. ASSUME NEW k \in Nat, k \in T PROVE k + 1 \in T
  <2> SUFFICES ASSUME k + 1 <= width PROVE s[k + 1] \in Nat
    OBVIOUS
  <2>1. k + 1 \in 1 .. width /\ (k + 1) - 1 = k /\ s[k] \in Nat
    BY <1>4
  <2>2. s[k + 1] = s[k] \div 256
    BY <1>1, <2>1
  <2> QED BY <2>1, <2>2
<1>5. Nat \subseteq T
  <2> HIDE DEF T
  <2> QED BY <1>3, <1>4, SetInduction
<1>6. s[width - 1] \in Nat
  BY <1>5
<1>7. s[width] = s[width - 1] \div 256
  BY <1>1
<1>8. \A x \in Nat : x \div 128 \in {-1, 0} => x \div 256 = 0
  OBVIOUS
<1> QED BY <1>2, <1>6, <1>7, <1>8

\* What fits some bytes fits more (struct).
LEMMA FitsWider ==
    ASSUME NEW n \in Nat, NEW width \in Nat, NEW more \in Nat, width <= more, Fits(n, width)
    PROVE  Fits(n, more)
<1> DEFINE r == Shifted(n, width)
           s == Shifted(n, more)
<1>0. n \in Int
  OBVIOUS
<1>1. r[0] = n /\ \A k \in 1 .. width : r[k] = r[k - 1] \div 256
  BY <1>0, ShiftedDef
<1>2. s[0] = n /\ \A k \in 1 .. more : s[k] = s[k - 1] \div 256
  <2>1. s[0] = n
    BY <1>0, ShiftedDef
  <2>2. \A k \in 1 .. more : s[k] = s[k - 1] \div 256
    BY <1>0, ShiftedDef
  <2> QED BY <2>1, <2>2
<1>3. r[width] = 0
  BY DEF Fits
<1> SUFFICES s[more] = 0
  BY DEF Fits
<1> HIDE DEF r, s
<1> DEFINE T == {k \in Nat : k <= more => IF k <= width THEN s[k] = r[k] ELSE s[k] = 0}
<1>4. 0 \in T
  BY <1>1, <1>2
<1>5. ASSUME NEW k \in Nat, k \in T PROVE k + 1 \in T
  <2> SUFFICES ASSUME k + 1 <= more
               PROVE  IF k + 1 <= width THEN s[k + 1] = r[k + 1] ELSE s[k + 1] = 0
    OBVIOUS
  <2>1. k + 1 \in 1 .. more /\ (k + 1) - 1 = k /\ k <= more
    OBVIOUS
  <2>2. s[k + 1] = s[k] \div 256
    BY <1>2, <2>1
  <2>3. CASE k + 1 <= width
    <3>1. k + 1 \in 1 .. width /\ k <= width
      BY <2>3
    <3>2. r[k + 1] = r[k] \div 256 /\ s[k] = r[k]
      BY <1>1, <1>5, <2>1, <3>1
    <3> QED BY <2>2, <2>3, <3>2
  <2>4. CASE ~(k + 1 <= width)
    <3>1. k = width \/ ~(k <= width)
      BY <2>4
    <3>2. s[k] = 0
      BY <1>3, <1>5, <2>1, <3>1
    <3>3. 0 \div 256 = 0
      OBVIOUS
    <3> QED BY <2>2, <2>4, <3>2, <3>3
  <2> QED BY <2>3, <2>4
<1>6. Nat \subseteq T
  <2> HIDE DEF T
  <2> QED BY <1>4, <1>5, SetInduction
<1>7. IF more <= width THEN s[more] = r[more] ELSE s[more] = 0
  BY <1>6
<1>8. more = width \/ ~(more <= width)
  OBVIOUS
<1> QED BY <1>3, <1>7, <1>8

\* A value that dumps takes (serialization.py:353-384, sender.py:518-526).
LEMMA PacksTaken ==
    ASSUME NEW x \in Given, NEW format \in {"s", "F", "o", "L"}, Packs(format, x)
    PROVE  Taken(format, x[2])
<1> DEFINE py == x[1]
           v == x[2]
<1>1. /\ py = "str" => v \in Str
      /\ py = "int" => v \in Int /\ FitsSigned(v, 8)
      /\ py = "dict" => v \in Dicts(Items[MaxDepth])
  BY GivenTypes
<1>2. /\ format = "s" => v = <<>> \/ (py = "str" /\ Len(v) \in Byte)
      /\ format = "F" => v = <<>> \/ py = "dict"
      /\ format = "o" => v \in Byte
      /\ format = "L" => py = "int" /\ v >= 0
  BY DEF Packs, Empty
<1> HIDE DEF py, v
<1>3. CASE format = "s"
  <2>1. v \in Keys
    BY <1>1, <1>2, <1>3, ShortKeys DEF Keys
  <2> QED BY <1>3, <2>1 DEF Taken, v
<1>4. CASE format = "F"
  <2>1. <<>> \in Dicts(Items[MaxDepth])
    BY DEF Dicts
  <2>2. v \in Dicts(Items[MaxDepth])
    BY <1>1, <1>2, <1>4, <2>1
  <2> QED BY <1>4, <2>2 DEF Taken, v
<1>5. CASE format = "o"
  <2>1. v \in Byte
    BY <1>2, <1>5
  <2>2. Taken("o", v)
    BY <2>1, SmallTaken
  <2> QED BY <1>5, <2>2 DEF v
<1>6. CASE format = "L"
  <2>1. v \in Nat /\ FitsSigned(v, 8)
    BY <1>1, <1>2, <1>6
  <2>2. Fits(v, 8)
    BY <2>1, FitsUnsigned
  <2> QED BY <1>6, <2>1, <2>2 DEF Taken, v
<1> QED BY <1>3, <1>4, <1>5, <1>6

\* The two tables of properties are the same (sender.py:7-22, method.py:49-64).
LEMMA SameTables == sender_PROPERTIES = PROPERTIES
  BY DEF sender_PROPERTIES, PROPERTIES

\* The header of a delivery, when dumps takes its values (sender.py:508-526).
LEMMA ContentHeaderBytes ==
    ASSUME NEW properties, \A k \in DOMAIN properties : properties[k] \in Given,
           ~HeaderRaises(properties), NEW size \in Nat, Fits(size, 4)
    PROVE  ContentHeader(properties, size) \in Seq(Byte)
<1> DEFINE names == DOMAIN properties
           kept == Kept(properties)
           l == Len(kept)
           flags == Flags(sender_PROPERTIES, names)
           E == {PROPERTIES[m] : m \in 1 .. 14}
           g == [i \in DOMAIN kept |-> kept[i][2]]
           h == [i \in DOMAIN kept |-> properties[kept[i][1]][2]]
           S == {properties[k][2] : k \in names}
<1>1. Len(PROPERTIES) = 14 /\ Len(PROPERTIES) \in Nat
  BY PropertyTable
<1>2. /\ kept \in Seq(E)
      /\ \A i \in 1 .. l : \E m \in 1 .. 14 : kept[i] = PROPERTIES[m] /\ PROPERTIES[m][1] \in names
  <2>1. kept = Selected(PROPERTIES, names)
    BY SameTables DEF Kept
  <2>2. Found(kept, PROPERTIES, names, 14)
    <3>1. Found(Selected(PROPERTIES, names), PROPERTIES, names, 14)
      BY <1>1, SelectedFound
    <3> HIDE DEF kept, names
    <3> QED BY <2>1, <3>1
  <2> HIDE DEF kept
  <2> QED BY <1>1, <2>2 DEF Found
<1>3. flags \in Nat /\ flags <= 65535
  <2>1. flags = Flags(PROPERTIES, names)
    BY SameTables
  <2> HIDE DEF flags
  <2>2. flags \in Nat /\ flags < 65536
    BY <2>1, MaskInSum, SMT
  <2> QED BY <2>2, SMT
<1>4. \A p \in ToSet(kept) : Packs(p[2], properties[p[1]])
  BY DEF HeaderRaises
<1>5. ContentHeader(properties, size) =
        dumps(<<"B", "B", "L", "B">> \o g, <<60, 0, size, flags>> \o h)
  BY DEF ContentHeader
<1> HIDE DEF kept, flags, E
<1>6. DOMAIN kept = 1 .. l /\ l \in Nat
  BY <1>2, LenProperties
<1>7. g = [i \in 1 .. l |-> kept[i][2]] /\ h = [i \in 1 .. l |-> properties[kept[i][1]][2]]
  BY <1>6
<1> HIDE DEF g, h, S, l
<1>8. ASSUME NEW i \in 1 .. l
      PROVE  g[i] \in {"s", "F", "o", "L"} /\ h[i] \in S /\ Taken(g[i], h[i])
  <2>1. PICK m \in 1 .. 14 : kept[i] = PROPERTIES[m] /\ PROPERTIES[m][1] \in names
    BY <1>2 DEF l
  <2> DEFINE k == PROPERTIES[m][1]
             f == PROPERTIES[m][2]
             x == properties[k]
  <2>2. f \in {"s", "F", "o", "L"}
    BY PropertyTable
  <2>3. x \in Given /\ k \in names
    BY <2>1
  <2>4. Packs(f, x)
    <3>1. kept[i] \in ToSet(kept)
      BY <1>6 DEF ToSet
    <3> QED BY <1>4, <2>1, <3>1
  <2>5. g[i] = f /\ h[i] = x[2]
    BY <1>7, <2>1
  <2>6. x[2] \in S
    BY <2>3 DEF S
  <2> HIDE DEF f, x, k
  <2> QED BY <2>2, <2>3, <2>4, <2>5, <2>6, PacksTaken
<1>9. g \in Seq({"s", "F", "o", "L"}) /\ Len(g) = l /\ h \in Seq(S) /\ Len(h) = l
  <2> DEFINE F == {"s", "F", "o", "L"}
  <2>1. \A i \in 1 .. l : g[i] \in F
    BY <1>8
  <2>2. \A i \in 1 .. l : h[i] \in S
    BY <1>8
  <2>3. g = [i \in 1 .. l |-> g[i]]
    BY <1>7
  <2>4. h = [i \in 1 .. l |-> h[i]]
    BY <1>7
  <2>5. l \in Nat
    BY <1>6
  <2> HIDE DEF F
  <2>6. g \in Seq(F) /\ Len(g) = l
    BY <2>1, <2>3, <2>5
  <2>7. h \in Seq(S) /\ Len(h) = l
    BY <2>2, <2>4, <2>5
  <2> QED BY <2>6, <2>7 DEF F
<1> DEFINE f4 == <<"B", "B", "L", "B">>
           v4 == <<60, 0, size, flags>>
           format == f4 \o g
           values == v4 \o h
           V == {60, 0, size, flags} \cup S
<1>10. /\ f4 \in Seq(Letters) /\ Len(f4) = 4
       /\ f4[1] = "B" /\ f4[2] = "B" /\ f4[3] = "L" /\ f4[4] = "B"
  BY DEF Letters
<1>11. /\ v4 \in Seq(V) /\ Len(v4) = 4
       /\ v4[1] = 60 /\ v4[2] = 0 /\ v4[3] = size /\ v4[4] = flags
  OBVIOUS
<1>12. Taken("B", 60) /\ Taken("B", 0) /\ Taken("B", flags) /\ Taken("L", size)
  <2>1. Fits(size, 8)
    BY FitsWider
  <2>2. Taken("L", size)
    BY <2>1 DEF Taken
  <2>3. Taken("B", 60) /\ Taken("B", 0) /\ Taken("B", flags)
    BY <1>3, SmallTaken, SMT
  <2> QED BY <2>2, <2>3
<1>13. g \in Seq(Letters) /\ h \in Seq(V)
  <2>1. \A i \in 1 .. l : g[i] \in Letters
    BY <1>8 DEF Letters
  <2>2. \A i \in 1 .. l : h[i] \in V
    BY <1>8
  <2>3. g = [i \in 1 .. l |-> g[i]]
    BY <1>7
  <2>4. h = [i \in 1 .. l |-> h[i]]
    BY <1>7
  <2>5. l \in Nat
    BY <1>6
  <2> HIDE DEF V
  <2>6. g \in Seq(Letters)
    BY <2>1, <2>3, <2>5
  <2>7. h \in Seq(V)
    BY <2>2, <2>4, <2>5
  <2> QED BY <2>6, <2>7
<1> HIDE DEF f4, v4, V
<1>14. /\ format \in Seq(Letters) /\ Len(format) = 4 + l
       /\ \A i \in 1 .. 4 : format[i] = f4[i]
       /\ \A i \in 1 .. l : format[4 + i] = g[i]
  <2>1. f4 \in Seq(Letters)
    BY <1>10
  <2>2. g \in Seq(Letters)
    BY <1>13
  <2>3. /\ format \in Seq(Letters) /\ Len(format) = Len(f4) + Len(g)
        /\ \A i \in 1 .. Len(f4) : format[i] = f4[i]
        /\ \A i \in 1 .. Len(g) : format[Len(f4) + i] = g[i]
    BY <2>1, <2>2, JoinParts
  <2>4. Len(f4) = 4 /\ Len(g) = l
    BY <1>9, <1>10
  <2> HIDE DEF format
  <2> QED BY <2>3, <2>4
<1>15. /\ values \in Seq(V) /\ Len(values) = 4 + l
       /\ \A i \in 1 .. 4 : values[i] = v4[i]
       /\ \A i \in 1 .. l : values[4 + i] = h[i]
  <2>1. v4 \in Seq(V)
    BY <1>11
  <2>2. h \in Seq(V)
    BY <1>13
  <2>3. /\ values \in Seq(V) /\ Len(values) = Len(v4) + Len(h)
        /\ \A i \in 1 .. Len(v4) : values[i] = v4[i]
        /\ \A i \in 1 .. Len(h) : values[Len(v4) + i] = h[i]
    BY <2>1, <2>2, JoinParts
  <2>4. Len(v4) = 4 /\ Len(h) = l
    BY <1>9, <1>11
  <2> HIDE DEF values
  <2> QED BY <2>3, <2>4
<1> HIDE DEF format, values
<1>16. \A n \in 1 .. 4 + l : format[n] # "b" /\ Taken(format[n], values[n])
  <2> SUFFICES ASSUME NEW n \in 1 .. 4 + l PROVE format[n] # "b" /\ Taken(format[n], values[n])
    OBVIOUS
  <2>1. CASE n \in 1 .. 4
    <3>1. format[n] = f4[n] /\ values[n] = v4[n]
      BY <1>14, <1>15, <2>1
    <3>2. n = 1 \/ n = 2 \/ n = 3 \/ n = 4
      BY <2>1
    <3> QED BY <1>10, <1>11, <1>12, <3>1, <3>2
  <2>2. CASE n \notin 1 .. 4
    <3> DEFINE i == n - 4
    <3>1. i \in 1 .. l /\ n = 4 + i
      BY <1>6, <2>2
    <3> HIDE DEF i
    <3>2. format[n] = g[i] /\ values[n] = h[i]
      BY <1>14, <1>15, <3>1
    <3> QED BY <1>8, <3>1, <3>2
  <2> QED BY <2>1, <2>2
<1>17. EightBits(format)
  <2> SUFFICES ASSUME NEW n \in 1 .. (4 + l) - 8 PROVE \E i \in n .. n + 8 : format[i] # "b"
    BY <1>14 DEF EightBits
  <2>1. n \in 1 .. 4 + l /\ n \in n .. n + 8
    BY <1>6
  <2> QED BY <1>16, <2>1
<1>18. Arguments(format, values)
  BY <1>14, <1>15, <1>16, <1>17 DEF Arguments
<1>19. dumps(format, values) \in Seq(Byte)
  BY <1>14, <1>15, <1>18, DumpsType
<1> QED BY <1>5, <1>19 DEF format, values, f4, v4

\* The basic.deliver of a delivery (sender.py:446-489).
LEMMA DeliverBytes ==
    ASSUME NEW channel \in Byte, NEW tag \in Keys, NEW dtag \in Nat, Fits(dtag, 8),
           NEW exchange \in Keys
    PROVE  send_basic_deliver(channel, tag, dtag, FALSE, exchange, <<>>) \in Seq(Byte)
<1> DEFINE f == <<"s", "L", "b", "s", "s">>
           v == <<tag, dtag, FALSE, exchange, <<>> >>
           S == {tag, dtag, FALSE, exchange, <<>>}
<1>1. /\ f \in Seq(Letters) /\ Len(f) = 5
      /\ f[1] = "s" /\ f[2] = "L" /\ f[3] = "b" /\ f[4] = "s" /\ f[5] = "s"
  BY DEF Letters
<1>2. /\ v \in Seq(S) /\ Len(v) = 5
      /\ v[1] = tag /\ v[2] = dtag /\ v[3] = FALSE /\ v[4] = exchange /\ v[5] = <<>>
  OBVIOUS
<1>3. Taken("s", tag) /\ Taken("s", exchange)
  BY DEF Taken
<1>4. Taken("s", <<>>)
  BY ShortKeys DEF Taken
<1>5. Taken("L", dtag)
  BY DEF Taken
<1>6. Taken("b", FALSE)
  BY DEF Taken
<1> HIDE DEF f, v, S
<1>7. \A n \in 1 .. 5 : Taken(f[n], v[n])
  <2> TAKE n \in 1 .. 5
  <2>1. n = 1 \/ n = 2 \/ n = 3 \/ n = 4 \/ n = 5
    OBVIOUS
  <2> QED BY <1>1, <1>2, <1>3, <1>4, <1>5, <1>6, <2>1
<1>8. Len(f) <= 8 /\ Len(v) = Len(f) /\ \A n \in 1 .. Len(f) : Taken(f[n], v[n])
  BY <1>1, <1>2, <1>7
<1>9. dumps(f, v) \in Seq(Byte)
  BY <1>1, <1>2, <1>8, DumpsBytes
<1>10. send_basic_deliver(channel, tag, dtag, FALSE, exchange, <<>>)
         = Reply(channel, 60, 60, dumps(f, v))
  BY DEF send_basic_deliver, f, v
<1>11. 60 \in Byte
  BY DEF Byte
<1> QED BY <1>9, <1>10, <1>11, ReplyBytes, ZenonT(60)

\* A delivery, or the part of it that is written before a header raises
\* (protocol.py:379-409).
LEMMA PostBytes ==
    ASSUME NEW n \in DOMAIN Posts
    PROVE  LET p == Posts[n]
           IN push_message(p.headers, p.body, p.chan, p.tag, p.dtag, p.exchange) \in Seq(Byte)
<1> DEFINE p == Posts[n]
           headers == p.headers
           body == p.body
           chan == p.chan
           deliver == send_basic_deliver(chan, p.tag, p.dtag, FALSE, p.exchange, <<>>)
           header == send_content_header(chan, headers, Len(body))
           end == IF HeaderRaises(headers) THEN <<>> ELSE send_content_body(chan, body)
<1>1. /\ chan \in Byte /\ p.tag \in Keys /\ p.exchange \in Keys /\ p.dtag \in Nat
      /\ Fits(p.dtag, 8) /\ body \in Seq(Byte) /\ Fits(Len(body), 4)
      /\ \A k \in DOMAIN headers : headers[k] \in Given
  BY WireAssumption
<1>2. deliver \in Seq(Byte)
  <2> DEFINE tag == p.tag
             dtag == p.dtag
             exchange == p.exchange
  <2>1. chan \in Byte /\ tag \in Keys /\ dtag \in Nat /\ Fits(dtag, 8) /\ exchange \in Keys
    BY <1>1
  <2> HIDE DEF chan, tag, dtag, exchange
  <2>2. send_basic_deliver(chan, tag, dtag, FALSE, exchange, <<>>) \in Seq(Byte)
    BY <2>1, DeliverBytes
  <2> QED BY <2>2 DEF tag, dtag, exchange
<1>3. push_message(headers, body, chan, p.tag, p.dtag, p.exchange) = deliver \o header \o end
  BY DEF push_message
<1> HIDE DEF headers, body, chan, deliver
<1>4. 2 \in Byte /\ 3 \in Byte /\ 0 \in Byte /\ Len(body) \in Nat /\ <<>> \in Seq(Byte)
  BY <1>1 DEF Byte
<1>5. header \in Seq(Byte)
  <2>1. CASE HeaderRaises(headers)
    <3>1. header = <<2, 0, chan>>
      BY <2>1 DEF send_content_header
    <3> QED BY <1>1, <1>4, <3>1
  <2>2. CASE ~HeaderRaises(headers)
    <3> DEFINE content == ContentHeader(headers, Len(body))
    <3>1. content \in Seq(Byte)
      BY <1>1, <1>4, <2>2, ContentHeaderBytes
    <3>2. header = Frame(2, chan, content)
      BY <2>2 DEF send_content_header
    <3> HIDE DEF content
    <3> QED BY <1>1, <1>4, <3>1, <3>2, FrameBytes
  <2> QED BY <2>1, <2>2
<1>6. end \in Seq(Byte)
  <2>1. Frame(3, chan, body) \in Seq(Byte)
    BY <1>1, <1>4, FrameBytes
  <2> QED BY <1>4, <2>1 DEF send_content_body
<1> HIDE DEF header, end
<1>7. deliver \o header \in Seq(Byte)
  BY <1>2, <1>5, ConcatProperties, Zenon
<1>8. (deliver \o header) \o end \in Seq(Byte)
  BY <1>6, <1>7, ConcatProperties, Zenon
<1> QED BY <1>3, <1>8 DEF headers, body, chan

-----------------------------------------------------------------------------
(* The invariant of the wire *)

\* A frame that is found: what is looked at is as it was sent, and its text decodes.
AsSent(x, f) == Seen(x) = Seen(f) /\ Readable(f.name, f.args)

\* The frames found are the first ones sent, each with its arguments, and what is in
\* flight is bytes: those of the others, in order (WireTypeOK).
WireInv ==
    /\ sent \in Seq(Sendable) /\ got \in Seq(ToSet(got))
    /\ stream \in Seq(Byte) /\ buffer \in Seq(Byte)
    /\ \A n \in DOMAIN got : AsSent(got[n], sent[n])
    /\ WireTypeOK

\* What the loop keeps beside its buffer (protocol.py:86-160).
States == {"WAITING_START_OK", "WAITING_TUNE_OK", "WAITING_OPEN", "OPENED"}
LoopType ==
    /\ parser_state \in States /\ closing \in BOOLEAN /\ running \in BOOLEAN
    /\ ended \in {"no frame", "return", "raise"}

\* The conjunct of WireTypeOK about the bytes in flight, in terms of Coming.
LEMMA InFlight ==
    ASSUME WireInv
    PROVE  /\ Len(got) \in Nat /\ Len(sent) \in Nat /\ Len(got) <= Len(sent)
           /\ DOMAIN got = 1 .. Len(got) /\ DOMAIN sent = 1 .. Len(sent)
           /\ buffer \o stream = FlattenSeq(Coming(sent, Len(got)))
<1>1. sent \in Seq(Sendable) /\ got \in Seq(ToSet(got))
  BY DEF WireInv
<1>2. /\ Len(got) \in Nat /\ Len(sent) \in Nat
      /\ DOMAIN got = 1 .. Len(got) /\ DOMAIN sent = 1 .. Len(sent)
  BY <1>1, LenProperties
<1>3. Len(got) <= Len(sent) /\ buffer \o stream = FlattenSeq(Coming(sent, Len(got)))
  BY Zenon DEF WireInv, WireTypeOK, Coming
<1> QED BY <1>2, <1>3

\* No bytes are in flight when all frames are found.
LEMMA NothingComing ==
    ASSUME NEW s \in Seq(Sendable)
    PROVE  FlattenSeq(Coming(s, Len(s))) = <<>>
<1> DEFINE u == Coming(s, Len(s))
<1>1. Len(s) \in Nat /\ Len(s) \in 0 .. Len(s) /\ Len(s) - Len(s) = 0
  BY LenProperties
<1>2. u \in Seq(Seq(Byte)) /\ Len(u) = 0
  BY <1>1, ComingType
<1> HIDE DEF u
<1>3. PICK f : f[0] = <<>> /\ f[Len(u)] = FlattenSeq(u)
  BY <1>2, FlattenDef
<1> QED BY <1>2, <1>3 DEF u

\* A turn of the loop finds the next frame sent, as it was sent, and leaves the bytes
\* behind it; or the bytes are not there yet; or the text in it does not decode
\* (protocol.py:103-110, frame.py:22-85).
LEMMA TurnFinds ==
    ASSUME WireInv
    PROVE  LET f == read_frame(buffer)
               k == Len(got) + 1
           IN \/ f = NoFrame /\ (stream # <<>> \/ buffer = <<>>)
              \/ /\ k <= Len(sent) /\ f = UnicodeDecodeError
                 /\ ~Readable(sent[k].name, sent[k].args)
              \/ /\ k <= Len(sent)
                 /\ f.name \notin {"None", "InvalidFrameError", "UnicodeDecodeError"}
                 /\ f.name = sent[k].name /\ f.chan = sent[k].chan
                 /\ AsSent([name |-> f.name, chan |-> f.chan, args |-> f.args], sent[k])
                 /\ Rest(f) \in Seq(Byte) /\ Rest(f) \o stream = FlattenSeq(Coming(sent, k))
<1> DEFINE f == read_frame(buffer)
           l == Len(got)
           k == l + 1
<1>1. /\ l \in Nat /\ Len(sent) \in Nat /\ l <= Len(sent)
      /\ buffer \o stream = FlattenSeq(Coming(sent, l))
  BY InFlight
<1>2. sent \in Seq(Sendable) /\ stream \in Seq(Byte) /\ buffer \in Seq(Byte)
  BY DEF WireInv
<1>4. CASE l = Len(sent)
  <2>1. buffer \o stream = <<>>
    BY <1>1, <1>2, <1>4, NothingComing
  <2>2. Len(buffer) = 0
    <3>1. Len(buffer \o stream) = Len(buffer) + Len(stream)
      BY <1>2, ConcatProperties, Zenon
    <3>2. Len(buffer) \in Nat /\ Len(stream) \in Nat /\ Len(<<>>) = 0
      BY <1>2
    <3> QED BY <2>1, <3>1, <3>2
  <2>3. buffer = <<>>
    BY <1>2, <2>2
  <2>4. f = NoFrame
    BY <2>2 DEF read_frame, FRAME_HEADER_SIZE
  <2> QED BY <2>3, <2>4
<1>5. CASE l < Len(sent)
  <2> DEFINE g == sent[k]
             e == Encode(g)
             rest == FlattenSeq(Coming(sent, k))
             c == SubSeq(buffer, Len(e) + 1, Len(buffer))
  <2>1. g \in Sendable /\ k <= Len(sent) /\ k \in 0 .. Len(sent)
    BY <1>1, <1>2, <1>5
  <2> HIDE DEF g
  <2>2. Encodable(g) /\ e \in Seq(Byte)
    BY <2>1, SendableEncoded
  <2>3. rest \in Seq(Byte)
    <3>1. Coming(sent, k) \in Seq(Seq(Byte))
      BY <1>2, <2>1, ComingType
    <3> QED BY <3>1, FlattenType
  <2>4. buffer \o stream = e \o rest
    BY <1>1, <1>2, <1>5, ComingFirst DEF g
  <2> HIDE DEF e, rest, c
  <2>5. \/ Len(buffer) < Len(e) /\ buffer = SubSeq(e, 1, Len(buffer)) /\ stream # <<>>
        \/ c \in Seq(Byte) /\ buffer = e \o c /\ c \o stream = rest
    <3>1. buffer \in Seq(Byte)
      BY <1>2
    <3>2. stream \in Seq(Byte)
      BY <1>2
    <3>3. e \in Seq(Byte)
      BY <2>2
    <3>4. PartOrWhole(buffer, stream, e, rest)
      BY <2>3, <2>4, <3>1, <3>2, <3>3, FirstFrame
    <3> QED BY <3>4 DEF c, PartOrWhole
  <2>6. CASE Len(buffer) < Len(e) /\ buffer = SubSeq(e, 1, Len(buffer)) /\ stream # <<>>
    <3> DEFINE n == Len(buffer)
    <3>1. n \in Nat /\ n < Len(Encode(g))
      BY <1>2, <2>6 DEF e
    <3> HIDE DEF n
    <3>2. read_frame(SubSeq(Encode(g), 1, n)) = NoFrame
      BY <2>2, <3>1, PartWaits
    <3>3. f = NoFrame
      BY <2>6, <3>2 DEF n, e
    <3> QED BY <2>6, <3>3
  <2>7. CASE c \in Seq(Byte) /\ buffer = e \o c /\ c \o stream = rest
    <3>0. IF Readable(g.name, g.args)
          THEN /\ f.name = g.name
               /\ f.name \notin {"None", "InvalidFrameError", "UnicodeDecodeError"}
               /\ f.chan = g.chan /\ f.size = Len(e)
               /\ Seen([name |-> f.name, chan |-> f.chan, args |-> f.args]) = Seen(g)
          ELSE f = UnicodeDecodeError
      BY <2>2, <2>7, FrameRead DEF e
    <3>1. CASE Readable(g.name, g.args)
      <4>1. /\ f.name = g.name
            /\ f.name \notin {"None", "InvalidFrameError", "UnicodeDecodeError"}
            /\ f.chan = g.chan /\ f.size = Len(e)
            /\ Seen([name |-> f.name, chan |-> f.chan, args |-> f.args]) = Seen(g)
        BY <3>0, <3>1
      <4>2. Rest(f) = c
        BY <4>1 DEF Rest, c
      <4> HIDE DEF f
      <4> QED BY <2>1, <2>7, <3>1, <4>1, <4>2 DEF f, g, rest, AsSent
    <3>2. CASE ~Readable(g.name, g.args)
      <4> HIDE DEF f
      <4> QED BY <2>1, <3>0, <3>2 DEF f, g
    <3> QED BY <3>1, <3>2
  <2> QED BY <2>5, <2>6, <2>7
<1> QED BY <1>1, <1>4, <1>5

-----------------------------------------------------------------------------
(* The steps *)

\* A sequence grows by one, whatever its elements are.
LEMMA AppendAny ==
    ASSUME NEW s, s \in Seq(ToSet(s)), NEW x
    PROVE  LET t == Append(s, x)
           IN /\ t \in Seq(ToSet(t)) /\ Len(t) = Len(s) + 1 /\ Len(s) \in Nat
              /\ DOMAIN t = 1 .. Len(s) + 1 /\ DOMAIN s = 1 .. Len(s)
              /\ t[Len(s) + 1] = x /\ \A n \in 1 .. Len(s) : t[n] = s[n]
<1> DEFINE t == Append(s, x)
           S == ToSet(s) \cup {x}
<1>1. s \in Seq(S) /\ x \in S
  <2> DEFINE E == ToSet(s)
  <2>1. s \in Seq(E) /\ E \subseteq S
    OBVIOUS
  <2> HIDE DEF E, S
  <2>2. s \in Seq(S)
    BY <2>1
  <2> QED BY <2>2 DEF S
<1> HIDE DEF S
<1>2. /\ t \in Seq(S) /\ Len(t) = Len(s) + 1 /\ Len(s) \in Nat
      /\ t[Len(s) + 1] = x /\ \A n \in 1 .. Len(s) : t[n] = s[n]
  BY <1>1, AppendProperties, LenProperties
<1> HIDE DEF t
<1>3. DOMAIN t = 1 .. Len(s) + 1 /\ DOMAIN s = 1 .. Len(s)
  BY <1>1, <1>2, LenProperties
<1>4. \A n \in 1 .. Len(t) : t[n] \in ToSet(t)
  BY <1>2, <1>3 DEF ToSet
<1>5. t \in Seq(ToSet(t))
  <2> DEFINE E == ToSet(t)
  <2>1. \A n \in 1 .. Len(t) : t[n] \in E
    BY <1>4
  <2> HIDE DEF E
  <2>2. t \in Seq(E)
    BY <1>2, <2>1
  <2> QED BY <2>2 DEF E
<1> QED BY <1>2, <1>3, <1>5 DEF t

\* The queue and the consumer that replies name are strs (method.py:227, 272, 297).
LEMMA NamesOfReplies ==
    ASSUME NEW f, Encodable(f)
    PROVE  /\ f.name = "QUEUE_DECLARE" => f.args["queue-name"] \in Keys
           /\ f.name \in {"BASIC_CONSUME", "BASIC_CANCEL"} => f.args["consumer-tag"] \in Keys
<1> DEFINE name == f.name
           args == f.args
           l == ClientMethod[name]
<1>1. name \in {"QUEUE_DECLARE", "BASIC_CONSUME", "BASIC_CANCEL"} =>
          \A i \in DOMAIN l.args : Taken(l.format[i], args[l.args[i]])
  <2>1. EncodableArgs(name, args)
    BY DEF Encodable
  <2> HIDE DEF name, args
  <2> QED BY <2>1, EncodableCases
<1>2. \A x : Taken("s", x) => x \in Keys
  BY DEF Taken
<1>3. CASE name = "QUEUE_DECLARE"
  <2>1. 2 \in DOMAIN l.args /\ l.args[2] = "queue-name" /\ l.format[2] = "s"
    BY <1>3 DEF ClientMethod, Layout
  <2> HIDE DEF l
  <2>2. Taken("s", args["queue-name"])
    BY <1>1, <1>3, <2>1
  <2> QED BY <1>2, <1>3, <2>2
<1>4. CASE name = "BASIC_CONSUME"
  <2>1. 3 \in DOMAIN l.args /\ l.args[3] = "consumer-tag" /\ l.format[3] = "s"
    BY <1>4 DEF ClientMethod, Layout
  <2> HIDE DEF l
  <2>2. Taken("s", args["consumer-tag"])
    BY <1>1, <1>4, <2>1
  <2> QED BY <1>2, <1>4, <2>2
<1>5. CASE name = "BASIC_CANCEL"
  <2>1. 1 \in DOMAIN l.args /\ l.args[1] = "consumer-tag" /\ l.format[1] = "s"
    BY <1>5 DEF ClientMethod, Layout
  <2> HIDE DEF l
  <2>2. Taken("s", args["consumer-tag"])
    BY <1>1, <1>5, <2>1
  <2> QED BY <1>2, <1>5, <2>2
<1> QED BY <1>3, <1>4, <1>5

\* A frame that is looked at as a whole is seen as it was sent.
LEMMA SeenWhole ==
    ASSUME NEW f, NEW g, Seen(f) = Seen(g), f.name = g.name, f.name \notin DOMAIN Unread
    PROVE  f = g
  BY DEF Seen

\* At first nothing is sent, and connection.start is written (protocol.py:94-101).
LEMMA WireStart ==
    ASSUME WireInit
    PROVE  WireInv
<1>1. /\ sent = <<>> /\ stream = <<>> /\ buffer = <<>> /\ got = <<>>
      /\ outbound = send_connection_start
  BY DEF WireInit
<1>2. /\ sent \in Seq(Sendable) /\ got \in Seq(ToSet(got))
      /\ stream \in Seq(Byte) /\ buffer \in Seq(Byte)
  BY <1>1
<1>3. Len(got) = 0 /\ Len(sent) = 0 /\ DOMAIN got = {} /\ buffer \o stream = <<>>
  BY <1>1
<1>4. buffer \o stream = FlattenSeq(Coming(sent, Len(got)))
  BY <1>1, <1>2, <1>3, NothingComing
<1>5. WireTypeOK
  <2>1. outbound \in Seq(Byte)
    BY <1>1, StartBytes
  <2>2. LoopType
    BY DEF WireInit, LoopType, States
  <2>3. Len(got) <= Len(sent)
    BY <1>3
  <2> QED BY <1>4, <2>1, <2>2, <2>3, Zenon DEF WireTypeOK, LoopType, States, Coming
<1> QED BY <1>2, <1>3, <1>5 DEF WireInv

\* WireTypeOK by its parts, in a state that an action leads to.
LEMMA TypeLater ==
    /\ (Len(got) <= Len(sent))'
    /\ (buffer \o stream = FlattenSeq(Coming(sent, Len(got))))'
    /\ (outbound \in Seq(Byte))' /\ LoopType'
    => WireTypeOK'
  BY Zenon DEF WireTypeOK, LoopType, States, Coming

\* What an action leaves of the loop's own variables.
LEMMA LoopLater ==
    ASSUME WireTypeOK, UNCHANGED <<parser_state, closing, running, ended>>
    PROVE  LoopType'
  BY DEF WireTypeOK, LoopType, States

\* The client's frame goes behind those in flight.
LEMMA SendStep ==
    ASSUME WireInv, ClientSend
    PROVE  WireInv'
<1>1. PICK n \in DOMAIN Frames : /\ sent' = Append(sent, Frames[n])
                                 /\ stream' = stream \o Encode(Frames[n])
  BY DEF ClientSend
<1> DEFINE f == Frames[n]
           e == Encode(f)
           l == Len(got)
<1>2. /\ buffer' = buffer /\ got' = got /\ outbound' = outbound
      /\ UNCHANGED <<parser_state, closing, running, ended>>
  BY DEF ClientSend, loopVars, outVars
<1>3. sent' = Append(sent, f) /\ stream' = stream \o e
  BY <1>1
<1>4. f \in Sendable
  BY DEF Sendable
<1> HIDE DEF f
<1>5. e \in Seq(Byte) /\ Len(e) = 8 + Len(ClientPayload(f)) /\ Len(e) # 0
  <2>1. Encodable(f)
    BY <1>4, SendableEncoded
  <2>2. e \in Seq(Byte) /\ Len(e) = 8 + Len(ClientPayload(f))
    BY <2>1, EncodeType
  <2>3. Len(ClientPayload(f)) \in Nat
    BY <2>1, EncodableType, LenProperties
  <2> HIDE DEF e
  <2> QED BY <2>2, <2>3
<1>6. /\ sent \in Seq(Sendable) /\ got \in Seq(ToSet(got))
      /\ stream \in Seq(Byte) /\ buffer \in Seq(Byte)
      /\ \A k \in DOMAIN got : AsSent(got[k], sent[k])
      /\ outbound \in Seq(Byte) /\ WireTypeOK
  BY Zenon DEF WireInv, WireTypeOK
<1>7. /\ l \in Nat /\ Len(sent) \in Nat /\ l <= Len(sent) /\ l \in 0 .. Len(sent)
      /\ DOMAIN got = 1 .. l /\ buffer \o stream = FlattenSeq(Coming(sent, l))
  BY InFlight
<1>8. /\ sent' \in Seq(Sendable) /\ Len(sent') = Len(sent) + 1
      /\ \A k \in 1 .. Len(sent) : sent'[k] = sent[k]
  BY <1>3, <1>4, <1>6, AppendProperties
<1>9. stream' \in Seq(Byte) /\ stream' # <<>>
  <2> HIDE DEF e
  <2>1. stream \o e \in Seq(Byte) /\ Len(stream \o e) = Len(stream) + Len(e)
    BY <1>5, <1>6, ConcatProperties, Zenon
  <2>2. Len(stream) \in Nat /\ Len(e) \in Nat
    BY <1>5, <1>6
  <2> DEFINE d == stream \o e
  <2>3. d \in Seq(Byte) /\ Len(d) # 0
    BY <1>5, <2>1, <2>2
  <2> HIDE DEF d
  <2>4. d # <<>>
    BY <2>3
  <2> QED BY <1>3, <2>3, <2>4 DEF d
<1>10. (buffer \o stream = FlattenSeq(Coming(sent, Len(got))))'
  <2>1. FlattenSeq(Coming(Append(sent, f), l)) = FlattenSeq(Coming(sent, l)) \o e
    BY <1>4, <1>6, <1>7, ComingSend
  <2> HIDE DEF e
  <2>2. (buffer \o stream) \o e = buffer \o (stream \o e)
    BY <1>5, <1>6, AppendBytes
  <2> QED BY <1>2, <1>3, <1>7, <2>1, <2>2
<1>11. (\A k \in DOMAIN got : AsSent(got[k], sent[k]))'
  <2>1. \A k \in 1 .. l : k \in 1 .. Len(sent)
    BY <1>7
  <2>2. \A k \in DOMAIN got : AsSent(got[k], sent'[k])
    <3>1. \A k \in DOMAIN got : sent'[k] = sent[k]
      BY <1>7, <1>8, <2>1
    <3> QED BY <1>6, <3>1
  <2> QED BY <1>2, <2>2
<1>12. WireTypeOK'
  <2>1. (Len(got) <= Len(sent))'
    BY <1>2, <1>7, <1>8
  <2>2. (outbound \in Seq(Byte))'
    BY <1>2, <1>6
  <2>3. LoopType'
    BY <1>2, <1>6, LoopLater
  <2> QED BY <1>10, <2>1, <2>2, <2>3, TypeLater
<1> QED BY <1>2, <1>6, <1>8, <1>9, <1>11, <1>12 DEF WireInv

\* Bytes that are received go from the front of the stream to the end of the buffer
\* (protocol.py:92).
LEMMA ReceiveStep ==
    ASSUME WireInv, data_received
    PROVE  WireInv'
<1>1. PICK n \in 1 .. Len(stream) : /\ buffer' = buffer \o SubSeq(stream, 1, n)
                                    /\ stream' = SubSeq(stream, n + 1, Len(stream))
  BY DEF data_received
<1> DEFINE a == SubSeq(stream, 1, n)
           b == SubSeq(stream, n + 1, Len(stream))
<1>2. /\ running' = TRUE /\ sent' = sent /\ got' = got /\ outbound' = outbound
      /\ parser_state' = parser_state /\ closing' = closing /\ ended' = ended
  BY DEF data_received, outVars
<1>3. buffer' = buffer \o a /\ stream' = b
  BY <1>1
<1>4. /\ sent \in Seq(Sendable) /\ got \in Seq(ToSet(got))
      /\ stream \in Seq(Byte) /\ buffer \in Seq(Byte)
      /\ \A k \in DOMAIN got : AsSent(got[k], sent[k])
      /\ outbound \in Seq(Byte) /\ LoopType
  BY Zenon DEF WireInv, WireTypeOK, LoopType, States
<1>5. Len(got) <= Len(sent) /\ buffer \o stream = FlattenSeq(Coming(sent, Len(got)))
  BY InFlight
<1>6. a \in Seq(Byte) /\ b \in Seq(Byte) /\ a \o b = stream
  <2>1. Len(stream) \in Nat /\ n \in 0 .. Len(stream)
    BY <1>4, LenProperties
  <2>2. \A i \in 1 .. Len(stream) : stream[i] \in Byte
    BY <1>4
  <2>3. a \in Seq(Byte) /\ b \in Seq(Byte)
    BY <1>4, <2>1, <2>2
  <2>4. a \o b = stream
    BY <1>4, <2>1, CutBytes
  <2> QED BY <2>3, <2>4
<1> HIDE DEF a, b
<1>7. (buffer \o stream = FlattenSeq(Coming(sent, Len(got))))'
  <2>1. (buffer \o a) \o b = buffer \o (a \o b)
    BY <1>4, <1>6, AppendBytes, ZenonT(60)
  <2> QED BY <1>2, <1>3, <1>5, <1>6, <2>1
<1>8. buffer' \in Seq(Byte) /\ stream' \in Seq(Byte)
  BY <1>3, <1>4, <1>6, ConcatProperties, Zenon
<1>9. WireTypeOK'
  <2>1. (Len(got) <= Len(sent))'
    BY <1>2, <1>5
  <2>2. (outbound \in Seq(Byte))'
    BY <1>2, <1>4
  <2>3. LoopType'
    BY <1>2, <1>4 DEF LoopType
  <2> QED BY <1>7, <2>1, <2>2, <2>3, TypeLater
<1> QED BY <1>2, <1>4, <1>8, <1>9 DEF WireInv

\* What a branch may write, and how it may leave the loop (protocol.py:110-160).
Writes(f) ==
    \/ outbound' = outbound /\ said' = said
    \/ /\ f.name \in Replied /\ f.chan \in Byte
       /\ outbound' = outbound \o reply(f)
       /\ said' = Append(said, [on |-> "reply", to |-> Last(got')])

Leaves(f) ==
    \/ Continue
    \/ closing' = TRUE
    \/ ended' = "return" /\ parser_state' = "WAITING_TUNE_OK" /\ f.name = "START_OK"
    \/ /\ ended' = "raise"
       /\ \/ parser_state' = "WAITING_START_OK" /\ f.chan = 0
          \/ f.name = "CHANNEL_OPEN" /\ f.chan \notin Byte

\* Each branch, by itself (protocol.py:112-160).
LEMMA BranchShape ==
    ASSUME NEW f, f.name = "HEARTBEAT" => f.chan = 0, LoopType,
           \/ HeartBeat(f) \/ ChannelFrame(f) \/ ConnectionClose(f)
           \/ StartOk(f) \/ TuneOk(f) \/ Open(f) \/ ConnectionIgnored(f)
    PROVE  Writes(f) /\ Leaves(f) /\ LoopType'
<1>0. parser_state \in States /\ closing \in BOOLEAN /\ 0 \in Byte
  <2>1. parser_state \in States /\ closing \in BOOLEAN
    BY DEF LoopType
  <2>2. 0 \in Byte
    BY DEF Byte
  <2> QED BY <2>1, <2>2
<1>1. ASSUME Write(f), f.name \in Replied, f.chan \in Byte PROVE Writes(f)
  BY <1>1 DEF Write, Writes, outVars
<1>2. ASSUME UNCHANGED outVars PROVE Writes(f)
  BY <1>2 DEF Writes, outVars
<1>3. ASSUME Continue, parser_state' \in States, closing' \in {closing, TRUE}
      PROVE  Leaves(f) /\ LoopType'
  <2>1. running' \in BOOLEAN /\ ended' = "no frame"
    BY <1>3 DEF Continue, GoesOn
  <2>2. closing' \in BOOLEAN
    BY <1>0, <1>3
  <2>3. Leaves(f)
    BY <1>3 DEF Leaves
  <2>4. LoopType'
    BY <1>3, <2>1, <2>2 DEF LoopType
  <2> QED BY <2>3, <2>4
<1>4. ASSUME Return, parser_state' \in States, closing' = TRUE
      PROVE  Leaves(f) /\ LoopType'
  BY <1>4 DEF Return, Leaves, LoopType
<1>5. CASE HeartBeat(f)
  <2>1. /\ f.name = "HEARTBEAT" /\ Write(f) /\ Continue
        /\ parser_state' = parser_state /\ closing' = closing
    BY <1>5 DEF HeartBeat
  <2>2. f.name \in Replied /\ f.chan \in Byte
    BY <1>0, <2>1 DEF Replied
  <2> QED BY <1>0, <1>1, <1>3, <2>1, <2>2
<1>6. CASE ChannelFrame(f)
  <2>1. parser_state' = parser_state
    BY <1>6 DEF ChannelFrame
  <2>2. \/ Continue /\ UNCHANGED <<closing, outVars>>
        \/ Continue /\ closing' = TRUE /\ UNCHANGED outVars
        \/ /\ f.chan \in Byte /\ f.name \in Replied /\ Continue /\ Write(f)
           /\ closing' \in {closing, TRUE}
        \/ f.chan \notin Byte /\ f.name = "CHANNEL_OPEN" /\ Raise /\ UNCHANGED outVars
    <3>1. (CASE f.name = "CHANNEL_CLOSE"    -> closing' = TRUE
             [] f.name = "EXCHANGE_DECLARE" -> closing' \in {closing, TRUE}
             [] OTHER                       -> UNCHANGED closing)
            => closing' \in {closing, TRUE}
      <4>1. CASE f.name = "CHANNEL_CLOSE"
        BY <4>1
      <4>2. CASE f.name = "EXCHANGE_DECLARE"
        BY <4>2
      <4>3. CASE f.name \notin {"CHANNEL_CLOSE", "EXCHANGE_DECLARE"}
        BY <4>3
      <4> QED BY <4>1, <4>2, <4>3
    <3> QED BY <1>6, <3>1, Zenon DEF ChannelFrame
  <2>3. CASE Continue /\ UNCHANGED <<closing, outVars>>
    BY <1>0, <1>2, <1>3, <2>1, <2>3
  <2>4. CASE Continue /\ closing' = TRUE /\ UNCHANGED outVars
    BY <1>0, <1>2, <1>3, <2>1, <2>4
  <2>5. CASE /\ f.chan \in Byte /\ f.name \in Replied /\ Continue /\ Write(f)
             /\ closing' \in {closing, TRUE}
    BY <1>0, <1>1, <1>3, <2>1, <2>5
  <2>6. CASE f.chan \notin Byte /\ f.name = "CHANNEL_OPEN" /\ Raise /\ UNCHANGED outVars
    <3>1. running' = FALSE /\ ended' = "raise" /\ closing' \in {closing, TRUE}
      BY <2>6 DEF Raise
    <3>2. Writes(f)
      BY <1>2, <2>6
    <3>3. LoopType'
      BY <1>0, <2>1, <3>1 DEF LoopType
    <3>4. Leaves(f)
      BY <2>6, <3>1 DEF Leaves
    <3> QED BY <3>2, <3>3, <3>4
  <2> QED BY <2>2, <2>3, <2>4, <2>5, <2>6
<1>7. CASE ConnectionClose(f)
  <2>1. /\ f.name = "CLOSE" /\ f.chan = 0 /\ Write(f) /\ closing' = TRUE /\ Return
        /\ parser_state' = parser_state
    BY <1>7 DEF ConnectionClose
  <2>2. f.name \in Replied /\ f.chan \in Byte
    BY <1>0, <2>1 DEF Replied
  <2> QED BY <1>0, <1>1, <1>4, <2>1, <2>2
<1>8. CASE StartOk(f)
  <2> DEFINE login == IF f.name = "START_OK" THEN check_start_ok(f.args) ELSE ValueError
  <2>1. /\ f.chan = 0 /\ parser_state = "WAITING_START_OK"
        /\ \/ Raise /\ UNCHANGED <<parser_state, outVars>>
           \/ Return /\ closing' = TRUE /\ UNCHANGED <<parser_state, outVars>>
           \/ /\ login # ValueError /\ Write(f) /\ parser_state' = "WAITING_TUNE_OK"
              /\ Return /\ closing' = closing
    BY <1>8, Zenon DEF StartOk, OnConnection
  <2>2. CASE Raise /\ UNCHANGED <<parser_state, outVars>>
    <3>1. running' = FALSE /\ ended' = "raise" /\ closing' \in {closing, TRUE}
      BY <2>2 DEF Raise
    <3>2. Writes(f)
      BY <1>2, <2>2
    <3>3. LoopType'
      BY <1>0, <2>2, <3>1 DEF LoopType
    <3>4. Leaves(f)
      BY <2>1, <2>2, <3>1 DEF Leaves
    <3> QED BY <3>2, <3>3, <3>4
  <2>3. CASE Return /\ closing' = TRUE /\ UNCHANGED <<parser_state, outVars>>
    BY <1>0, <1>2, <1>4, <2>3
  <2>4. CASE /\ login # ValueError /\ Write(f) /\ parser_state' = "WAITING_TUNE_OK"
             /\ Return /\ closing' = closing
    <3>1. f.name = "START_OK"
      BY <2>4
    <3> HIDE DEF login
    <3>2. f.name \in Replied /\ f.chan \in Byte
      BY <1>0, <2>1, <3>1 DEF Replied
    <3>3. running' = FALSE /\ ended' = "return"
      BY <2>4 DEF Return
    <3>4. LoopType'
      BY <1>0, <2>4, <3>3 DEF LoopType, States
    <3>5. Leaves(f)
      BY <2>4, <3>1, <3>3 DEF Leaves
    <3> QED BY <1>1, <2>4, <3>2, <3>4, <3>5
  <2> QED BY <2>1, <2>2, <2>3, <2>4
<1>9. CASE TuneOk(f)
  <2>1. \/ Return /\ closing' = TRUE /\ UNCHANGED <<parser_state, outVars>>
        \/ parser_state' = "WAITING_OPEN" /\ Continue /\ UNCHANGED <<closing, outVars>>
    BY <1>9 DEF TuneOk, Unexpected
  <2>2. "WAITING_OPEN" \in States
    BY DEF States
  <2> QED BY <1>0, <1>2, <1>3, <1>4, <2>1, <2>2
<1>10. CASE Open(f)
  <2>1. \/ Return /\ closing' = TRUE /\ UNCHANGED <<parser_state, outVars>>
        \/ /\ f.name = "OPEN" /\ f.chan = 0 /\ Write(f) /\ parser_state' = "OPENED"
           /\ Continue /\ closing' = closing
    BY <1>10 DEF Open, OnConnection, Unexpected
  <2>2. "OPENED" \in States /\ "OPEN" \in Replied
    BY DEF States, Replied
  <2> QED BY <1>0, <1>1, <1>2, <1>3, <1>4, <2>1, <2>2
<1>11. CASE ConnectionIgnored(f)
  <2>1. Continue /\ UNCHANGED <<parser_state, closing, outVars>>
    BY <1>11 DEF ConnectionIgnored
  <2> QED BY <1>0, <1>2, <1>3, <2>1
<1> QED BY <1>5, <1>6, <1>7, <1>8, <1>9, <1>10, <1>11

\* A turn takes a frame off the buffer and does what its branch does, or leaves all as
\* it is and the loop (protocol.py:103-160).
TurnTakes(f) ==
    /\ f.name \notin {"None", "InvalidFrameError", "UnicodeDecodeError"}
    /\ buffer' = Rest(f)
    /\ got' = Append(got, [name |-> f.name, chan |-> f.chan, args |-> f.args])
    /\ Writes(f) /\ Leaves(f) /\ LoopType'

TurnLeaves(f) ==
    /\ \/ f = NoFrame
       \/ f = UnicodeDecodeError /\ ended' = "raise"
    /\ UNCHANGED <<buffer, got, outbound, said>> /\ LoopType'

LEMMA TurnShape ==
    ASSUME WireInv, Turn
    PROVE  LET f == read_frame(buffer)
           IN /\ UNCHANGED <<sent, stream>>
              /\ TurnTakes(f) \/ TurnLeaves(f)
<1> DEFINE f == read_frame(buffer)
           k == Len(got) + 1
<1>1. /\ sent' = sent /\ stream' = stream
      /\ \/ /\ f.name = "None" /\ running' = FALSE /\ ended' = "no frame"
            /\ UNCHANGED <<buffer, parser_state, closing, got, outVars>>
         \/ /\ f.name \in {"InvalidFrameError", "UnicodeDecodeError"}
            /\ Raise /\ UNCHANGED <<buffer, parser_state, got, outVars>>
         \/ /\ f.name \notin {"None", "InvalidFrameError", "UnicodeDecodeError"}
            /\ buffer' = Rest(f)
            /\ got' = Append(got, [name |-> f.name, chan |-> f.chan, args |-> f.args])
            /\ \/ HeartBeat(f) \/ ChannelFrame(f) \/ ConnectionClose(f)
               \/ StartOk(f) \/ TuneOk(f) \/ Open(f) \/ ConnectionIgnored(f)
  <2> DEFINE None(g) == /\ running' = FALSE /\ ended' = "no frame"
                        /\ UNCHANGED <<buffer, parser_state, closing, got, outVars>>
             Error(g) == Raise /\ UNCHANGED <<buffer, parser_state, got, outVars>>
             Takes(g) == /\ buffer' = Rest(g)
                         /\ got' = Append(got, [name |-> g.name, chan |-> g.chan,
                                                args |-> g.args])
                         /\ \/ HeartBeat(g) \/ ChannelFrame(g) \/ ConnectionClose(g)
                            \/ StartOk(g) \/ TuneOk(g) \/ Open(g) \/ ConnectionIgnored(g)
             Cases(g) == CASE g.name = "None" -> None(g)
                           [] g.name \in {"InvalidFrameError", "UnicodeDecodeError"} -> Error(g)
                           [] OTHER -> Takes(g)
  <2>1. sent' = sent /\ stream' = stream
    BY DEF Turn
  <2>2. \E g \in {f} : Cases(g)
    BY Zenon DEF Turn
  <2> HIDE DEF f
  <2>3. Cases(f)
    <3> HIDE DEF Cases
    <3> QED BY <2>2
  <2> HIDE DEF None, Error, Takes
  <2>4. \/ f.name = "None" /\ None(f)
        \/ f.name \in {"InvalidFrameError", "UnicodeDecodeError"} /\ Error(f)
        \/ /\ f.name \notin {"None", "InvalidFrameError", "UnicodeDecodeError"}
           /\ Takes(f)
    BY <2>3
  <2> QED BY <2>1, <2>4, Zenon DEF None, Error, Takes
<1>2. \/ f = NoFrame
      \/ f = UnicodeDecodeError
      \/ /\ k <= Len(sent) /\ f.name \notin {"None", "InvalidFrameError", "UnicodeDecodeError"}
         /\ f.name = sent[k].name /\ f.chan = sent[k].chan
  BY TurnFinds
<1>3. LoopType
  BY Zenon DEF WireInv, WireTypeOK, LoopType, States
<1>4. (f.name \notin {"None", "UnicodeDecodeError"} => f.name # "InvalidFrameError")
      /\ (f.name = "HEARTBEAT" => f.chan = 0)
  <2> HIDE DEF f
  <2>1. NoFrame.name = "None" /\ UnicodeDecodeError.name = "UnicodeDecodeError"
    BY DEF NoFrame, UnicodeDecodeError
  <2>2. CASE k <= Len(sent) /\ f.name \notin {"None", "InvalidFrameError", "UnicodeDecodeError"}
             /\ f.name = sent[k].name /\ f.chan = sent[k].chan
    <3>1. sent \in Seq(Sendable) /\ k \in 1 .. Len(sent)
      BY <2>2, InFlight DEF WireInv
    <3>2. sent[k] \in Sendable
      BY <3>1
    <3>3. sent[k].name = "HEARTBEAT" => sent[k].chan = 0
      BY <3>2, SendableEncoded, EncodableType
    <3> QED BY <2>2, <3>3
  <2> QED BY <1>2, <2>1, <2>2
<1>5. NoFrame.name = "None" /\ UnicodeDecodeError.name = "UnicodeDecodeError"
  BY DEF NoFrame, UnicodeDecodeError
<1> HIDE DEF f
<1>6. CASE /\ f.name = "None" /\ running' = FALSE /\ ended' = "no frame"
           /\ UNCHANGED <<buffer, parser_state, closing, got, outVars>>
  <2>1. f = NoFrame
    BY <1>2, <1>5, <1>6
  <2>2. LoopType'
    BY <1>3, <1>6 DEF LoopType
  <2> QED BY <1>1, <1>6, <2>1, <2>2 DEF TurnLeaves, outVars, f
<1>7. CASE /\ f.name \in {"InvalidFrameError", "UnicodeDecodeError"}
           /\ Raise /\ UNCHANGED <<buffer, parser_state, got, outVars>>
  <2>1. f = UnicodeDecodeError
    BY <1>2, <1>5, <1>7
  <2>2. running' = FALSE /\ ended' = "raise" /\ closing' \in {closing, TRUE}
    BY <1>7 DEF Raise
  <2>3. LoopType'
    BY <1>3, <1>7, <2>2 DEF LoopType
  <2> QED BY <1>1, <1>7, <2>1, <2>2, <2>3 DEF TurnLeaves, outVars, f
<1>8. CASE /\ f.name \notin {"None", "InvalidFrameError", "UnicodeDecodeError"}
           /\ buffer' = Rest(f)
           /\ got' = Append(got, [name |-> f.name, chan |-> f.chan, args |-> f.args])
           /\ \/ HeartBeat(f) \/ ChannelFrame(f) \/ ConnectionClose(f)
              \/ StartOk(f) \/ TuneOk(f) \/ Open(f) \/ ConnectionIgnored(f)
  <2>1. Writes(f) /\ Leaves(f) /\ LoopType'
    BY <1>3, <1>4, <1>8, BranchShape
  <2> QED BY <1>1, <1>8, <2>1, Zenon DEF TurnTakes, f
<1> QED BY <1>1, <1>6, <1>7, <1>8

\* A turn takes the first frame off the bytes in flight, or waits, or raises
\* (protocol.py:103-110).
LEMMA TurnStep ==
    ASSUME WireInv, Turn
    PROVE  WireInv'
<1> DEFINE f == read_frame(buffer)
           l == Len(got)
           k == l + 1
           x == [name |-> f.name, chan |-> f.chan, args |-> f.args]
<1>1. sent' = sent /\ stream' = stream
  BY TurnShape
<1>2. TurnTakes(f) \/ TurnLeaves(f)
  BY TurnShape
<1>3. /\ sent \in Seq(Sendable) /\ got \in Seq(ToSet(got))
      /\ stream \in Seq(Byte) /\ buffer \in Seq(Byte)
      /\ \A i \in DOMAIN got : AsSent(got[i], sent[i])
      /\ outbound \in Seq(Byte)
  BY Zenon DEF WireInv, WireTypeOK
<1>4. /\ l \in Nat /\ Len(sent) \in Nat /\ l <= Len(sent)
      /\ DOMAIN got = 1 .. l /\ buffer \o stream = FlattenSeq(Coming(sent, l))
  BY InFlight
<1>5. f.name \notin {"None", "InvalidFrameError", "UnicodeDecodeError"} =>
         /\ k <= Len(sent)
         /\ f.name = sent[k].name /\ f.chan = sent[k].chan
         /\ AsSent(x, sent[k])
         /\ Rest(f) \in Seq(Byte) /\ Rest(f) \o stream = FlattenSeq(Coming(sent, k))
  <2>1. NoFrame.name = "None" /\ UnicodeDecodeError.name = "UnicodeDecodeError"
    BY DEF NoFrame, UnicodeDecodeError
  <2> QED BY <2>1, TurnFinds
<1>6. CASE TurnLeaves(f)
  <2> HIDE DEF f
  <2>0. /\ buffer' = buffer /\ got' = got /\ outbound' = outbound /\ LoopType'
    BY <1>6 DEF TurnLeaves
  <2>1. (Len(got) <= Len(sent))'
    BY <1>1, <1>4, <2>0
  <2>2. (buffer \o stream = FlattenSeq(Coming(sent, Len(got))))'
    BY <1>1, <1>4, <2>0
  <2>3. (outbound \in Seq(Byte))'
    BY <1>3, <2>0
  <2>4. WireTypeOK'
    BY <2>0, <2>1, <2>2, <2>3, TypeLater
  <2> QED BY <1>1, <1>3, <2>0, <2>4 DEF WireInv
<1>7. CASE TurnTakes(f)
  <2>0. /\ f.name \notin {"None", "InvalidFrameError", "UnicodeDecodeError"}
        /\ buffer' = Rest(f) /\ got' = Append(got, x) /\ LoopType'
        /\ \/ outbound' = outbound
           \/ /\ f.name \in Replied /\ f.chan \in Byte /\ outbound' = outbound \o reply(f)
    BY <1>7, Zenon DEF TurnTakes, Writes
  <2> DEFINE g == sent[k]
             y == x
  <2> HIDE DEF f
  <2>1. /\ k <= Len(sent) /\ f.name = g.name /\ f.chan = g.chan /\ AsSent(x, g)
        /\ Rest(f) \in Seq(Byte) /\ Rest(f) \o stream = FlattenSeq(Coming(sent, k))
    BY <1>5, <2>0
  <2>2. got' = Append(got, y)
    BY <2>0
  <2>3. x.name = f.name /\ x.chan = f.chan /\ x.args = f.args
    OBVIOUS
  <2> HIDE DEF y
  <2>4. /\ got' \in Seq(ToSet(got')) /\ Len(got') = k
        /\ DOMAIN got' = 1 .. k
        /\ got'[k] = y /\ \A n \in 1 .. l : got'[n] = got[n]
    BY <1>3, <2>2, AppendAny
  <2>5. \A n \in DOMAIN got' : AsSent(got'[n], sent[n])
    <3>1. \A n \in 1 .. k : n \in 1 .. l \/ n = k
      BY <1>4
    <3>2. AsSent(y, g)
      BY <2>1 DEF y
    <3>3. \A n \in 1 .. l : AsSent(got'[n], sent[n])
      BY <1>3, <1>4, <2>4
    <3> QED BY <2>4, <3>1, <3>2, <3>3 DEF g
  <2>6. outbound' \in Seq(Byte)
    <3>1. CASE outbound' = outbound
      BY <1>3, <3>1
    <3>2. CASE f.name \in Replied /\ f.chan \in Byte /\ outbound' = outbound \o reply(f)
      <4>1. g \in Sendable
        <5>1. k \in 1 .. Len(sent)
          BY <1>4, <2>1
        <5> QED BY <1>3, <5>1
      <4>2. Encodable(g)
        BY <4>1, SendableEncoded
      <4> HIDE DEF g, x
      <4>3. f.name \in {"QUEUE_DECLARE", "BASIC_CONSUME", "BASIC_CANCEL"} => f.args = g.args
        <5>1. f.name \in {"QUEUE_DECLARE", "BASIC_CONSUME", "BASIC_CANCEL"} =>
                  f.name \notin DOMAIN Unread
          BY DEF Unread
        <5>2. f.name \notin DOMAIN Unread => x = g
          BY <2>1, <2>3, SeenWhole DEF AsSent
        <5> QED BY <2>3, <5>1, <5>2
      <4>4. /\ f.name = "QUEUE_DECLARE" => f.args["queue-name"] \in Keys
            /\ f.name \in {"BASIC_CONSUME", "BASIC_CANCEL"} => f.args["consumer-tag"] \in Keys
        BY <2>1, <4>2, <4>3, NamesOfReplies
      <4>5. reply(f) \in Seq(Byte)
        BY <3>2, <4>4, ReplyType
      <4> DEFINE r == reply(f)
      <4>6. r \in Seq(Byte) /\ outbound' = outbound \o r
        BY <3>2, <4>5
      <4> HIDE DEF r
      <4> QED BY <1>3, <4>6, ConcatProperties
    <3> QED BY <2>0, <3>1, <3>2
  <2>7. (Len(got) <= Len(sent))'
    BY <1>1, <2>1, <2>4
  <2>8. (buffer \o stream = FlattenSeq(Coming(sent, Len(got))))'
    BY <1>1, <2>0, <2>1, <2>4
  <2>9. WireTypeOK'
    BY <2>0, <2>6, <2>7, <2>8, TypeLater
  <2>10. buffer' \in Seq(Byte) /\ stream' \in Seq(Byte) /\ sent' \in Seq(Sendable)
    BY <1>1, <1>3, <2>0, <2>1
  <2>11. (\A n \in DOMAIN got : AsSent(got[n], sent[n]))'
    BY <1>1, <2>5
  <2> QED BY <2>4, <2>9, <2>10, <2>11 DEF WireInv
<1> QED BY <1>2, <1>6, <1>7

\* A delivery is written behind the others, and touches no frame that comes in.
LEMMA PostStep ==
    ASSUME WireInv, Post
    PROVE  WireInv'
<1>1. PICK n \in DOMAIN Posts :
          LET p == Posts[n]
          IN outbound' = outbound \o push_message(p.headers, p.body, p.chan, p.tag, p.dtag,
                                                  p.exchange)
  BY DEF Post
<1> DEFINE p == Posts[n]
           r == push_message(p.headers, p.body, p.chan, p.tag, p.dtag, p.exchange)
<1>2. r \in Seq(Byte)
  BY PostBytes
<1>3. outbound' = outbound \o r
  BY <1>1
<1> HIDE DEF r
<1>4. /\ sent' = sent /\ stream' = stream /\ buffer' = buffer /\ running' = running
      /\ got' = got /\ parser_state' = parser_state /\ closing' = closing /\ ended' = ended
  BY DEF Post, loopVars
<1>5. outbound' \in Seq(Byte)
  <2>1. outbound \in Seq(Byte)
    BY Zenon DEF WireInv, WireTypeOK
  <2> QED BY <1>2, <1>3, <2>1, ConcatProperties
<1> QED BY <1>4, <1>5, Zenon DEF WireInv, WireTypeOK

\* Every step of the connection keeps the invariant.
LEMMA WireStep ==
    ASSUME WireInv, [WireNext]_wireVars
    PROVE  WireInv'
<1>1. CASE ClientSend
  BY <1>1, SendStep
<1>2. CASE data_received
  BY <1>2, ReceiveStep
<1>3. CASE Turn
  BY <1>3, TurnStep
<1>4. CASE Post
  BY <1>4, PostStep
<1>5. CASE UNCHANGED wireVars
  <2>1. /\ sent' = sent /\ stream' = stream /\ buffer' = buffer /\ running' = running
        /\ got' = got /\ parser_state' = parser_state /\ closing' = closing
        /\ ended' = ended /\ outbound' = outbound
    BY <1>5 DEF wireVars, loopVars, outVars
  <2> QED BY <2>1, Zenon DEF WireInv, WireTypeOK
<1> QED BY <1>1, <1>2, <1>3, <1>4, <1>5 DEF WireNext

\* Frames found are the first ones sent and bytes in flight are the others, for any
\* frames, cut anywhere.
THEOREM WireInvariant == WireSpec => []WireInv
<1>1. WireInit => WireInv
  BY WireStart
<1>2. WireInv /\ [WireNext]_wireVars => WireInv'
  BY WireStep
<1> QED BY <1>1, <1>2, PTL DEF WireSpec

\* Neither the loop of data_received nor the network loses or moves a byte
\* (protocol.py:90-110), and the server writes bytes.
THEOREM WireType == WireSpec => []WireTypeOK
<1>1. WireInv => WireTypeOK
  BY DEF WireInv
<1> QED BY <1>1, WireInvariant, PTL

-----------------------------------------------------------------------------
(* Frames in order *)

\* What is seen of a list of frames grows with it.
LEMMA SeenAppend ==
    ASSUME NEW S, NEW s \in Seq(S), NEW x \in S
    PROVE  SeenAll(Append(s, x)) = Append(SeenAll(s), Seen(x))
<1> DEFINE m == Len(s)
           R == {Seen(y) : y \in S}
           t == Append(s, x)
           u == SeenAll(t)
           v == SeenAll(s)
           w == Append(v, Seen(x))
<1>1. /\ m \in Nat /\ DOMAIN s = 1 .. m /\ t \in Seq(S) /\ Len(t) = m + 1
      /\ t[m + 1] = x /\ (\A n \in 1 .. m : t[n] = s[n]) /\ DOMAIN t = 1 .. m + 1
  BY AppendProperties, LenProperties
<1> HIDE DEF t
<1>2. v = [n \in 1 .. m |-> Seen(s[n])] /\ u = [n \in 1 .. m + 1 |-> Seen(t[n])]
  BY <1>1 DEF SeenAll
<1> HIDE DEF u, v, m
<1>3. \A n \in 1 .. m : s[n] \in S /\ Seen(s[n]) \in R
  BY <1>1 DEF m
<1>4. \A n \in 1 .. m + 1 : Seen(t[n]) \in R
  BY <1>1
<1>5. Seen(x) \in R
  OBVIOUS
<1> HIDE DEF R
<1>6. v \in Seq(R) /\ Len(v) = m
  BY <1>1, <1>2, <1>3
<1>7. u \in Seq(R) /\ Len(u) = m + 1
  BY <1>1, <1>2, <1>4
<1>8. /\ w \in Seq(R) /\ Len(w) = m + 1 /\ w[m + 1] = Seen(x)
      /\ \A n \in 1 .. m : w[n] = v[n]
  BY <1>5, <1>6, AppendProperties
<1> HIDE DEF w
<1>9. \A n \in 1 .. m + 1 : u[n] = w[n]
  <2> TAKE n \in 1 .. m + 1
  <2>1. n \in 1 .. m \/ n = m + 1
    BY <1>1
  <2> QED BY <1>1, <1>2, <1>8, <2>1
<1>10. u = w
  BY <1>7, <1>8, <1>9, SameParts
<1> QED BY <1>10 DEF t, u, v, w

\* The frames behind the first k - 1 of a list: the first of them, and the others.
LEMMA SeenBehind ==
    ASSUME NEW S, NEW s \in Seq(S), NEW k \in 1 .. Len(s)
    PROVE  LET q == SeenAll(SubSeq(s, k, Len(s)))
           IN /\ q # <<>> /\ Head(q) = Seen(s[k])
              /\ Tail(q) = SeenAll(SubSeq(s, k + 1, Len(s)))
<1> DEFINE l == Len(s)
           m == l - k
           R == {Seen(y) : y \in S}
           a == SubSeq(s, k, l)
           b == SubSeq(s, k + 1, l)
           u == SeenAll(a)
           v == SeenAll(b)
<1>1. l \in Nat /\ m \in Nat /\ \A n \in 1 .. l : s[n] \in S
  BY LenProperties
<1>2. /\ a \in Seq(S) /\ Len(a) = m + 1 /\ DOMAIN a = 1 .. m + 1
      /\ \A n \in 1 .. m + 1 : a[n] = s[k + n - 1]
  BY <1>1
<1>3. /\ b \in Seq(S) /\ Len(b) = m /\ DOMAIN b = 1 .. m
      /\ \A n \in 1 .. m : b[n] = s[k + n]
  BY <1>1
<1> HIDE DEF a, b
<1>4. u = [n \in 1 .. m + 1 |-> Seen(a[n])] /\ v = [n \in 1 .. m |-> Seen(b[n])]
  BY <1>2, <1>3 DEF SeenAll
<1>5. \A n \in 1 .. m + 1 : Seen(a[n]) \in R
  BY <1>2
<1>6. \A n \in 1 .. m : Seen(b[n]) \in R /\ b[n] = a[n + 1]
  <2> TAKE n \in 1 .. m
  <2>1. n + 1 \in 1 .. m + 1 /\ k + (n + 1) - 1 = k + n
    BY <1>1
  <2>2. b[n] = a[n + 1]
    BY <1>2, <1>3, <2>1
  <2> QED BY <1>3, <2>2
<1> HIDE DEF u, v, m, R
<1>7. u \in Seq(R) /\ Len(u) = m + 1 /\ u # <<>>
  <2>1. u \in Seq(R) /\ Len(u) = m + 1
    BY <1>1, <1>4, <1>5
  <2> QED BY <1>1, <2>1
<1>8. v \in Seq(R) /\ Len(v) = m
  BY <1>1, <1>4, <1>6
<1>9. Head(u) = Seen(s[k])
  <2>1. 1 \in 1 .. m + 1 /\ k + 1 - 1 = k
    BY <1>1
  <2>2. u[1] = Seen(a[1]) /\ a[1] = s[k]
    BY <1>2, <1>4, <2>1
  <2> QED BY <1>7, <2>2
<1>10. Tail(u) = v
  <2> DEFINE t == Tail(u)
  <2>1. /\ t \in Seq(R) /\ Len(t) = m /\ \A n \in 1 .. m : t[n] = u[n + 1]
    BY <1>1, <1>7, HeadTailProperties
  <2> HIDE DEF t
  <2>2. \A n \in 1 .. m : t[n] = v[n]
    <3> TAKE n \in 1 .. m
    <3>1. n + 1 \in 1 .. m + 1
      BY <1>1
    <3> QED BY <1>4, <1>6, <2>1, <3>1
  <2>3. t = v
    BY <1>8, <2>1, <2>2, SameParts
  <2> QED BY <2>3 DEF t
<1> QED BY <1>7, <1>9, <1>10 DEF u, v, a, b

\* A list to which a frame is added, from its k-th on.
LEMMA BehindAppend ==
    ASSUME NEW S, NEW s \in Seq(S), NEW x \in S, NEW k \in 1 .. Len(s) + 1
    PROVE  SubSeq(Append(s, x), k, Len(s) + 1) = Append(SubSeq(s, k, Len(s)), x)
<1> DEFINE l == Len(s)
           m == l + 1 - k
           t == Append(s, x)
           a == SubSeq(s, k, l)
           u == SubSeq(t, k, l + 1)
           v == Append(a, x)
<1>1. l \in Nat /\ m \in Nat /\ \A n \in 1 .. l : s[n] \in S
  BY LenProperties
<1>2. /\ t \in Seq(S) /\ Len(t) = l + 1 /\ t[l + 1] = x /\ \A n \in 1 .. l : t[n] = s[n]
  BY AppendProperties
<1> HIDE DEF t
<1>3. /\ a \in Seq(S) /\ Len(a) = m /\ \A n \in 1 .. m : a[n] = s[k + n - 1]
  BY <1>1
<1>4. /\ u \in Seq(S) /\ Len(u) = m + 1 /\ \A n \in 1 .. m + 1 : u[n] = t[k + n - 1]
  <2>1. \A n \in 1 .. l + 1 : t[n] \in S
    BY <1>2
  <2> QED BY <1>1, <1>2, <2>1
<1> HIDE DEF a, u
<1>5. /\ v \in Seq(S) /\ Len(v) = m + 1 /\ v[m + 1] = x /\ \A n \in 1 .. m : v[n] = a[n]
  BY <1>3, AppendProperties
<1> HIDE DEF v
<1>6. \A n \in 1 .. m + 1 : u[n] = v[n]
  <2> TAKE n \in 1 .. m + 1
  <2>1. CASE n \in 1 .. m
    <3>1. k + n - 1 \in 1 .. l
      BY <1>1, <2>1
    <3> QED BY <1>2, <1>3, <1>4, <1>5, <2>1, <3>1
  <2>2. CASE n = m + 1
    <3>1. k + n - 1 = l + 1
      BY <1>1, <2>2
    <3> QED BY <1>2, <1>4, <1>5, <2>2, <3>1
  <2>3. n \in 1 .. m \/ n = m + 1
    BY <1>1
  <2> QED BY <2>1, <2>2, <2>3
<1>7. u = v
  <2> HIDE DEF m
  <2> QED BY <1>4, <1>5, <1>6, SameParts
<1> QED BY <1>7 DEF t, a, u, v

\* A step of the connection puts a frame into the queue, delivers its first, or neither.
LEMMA FifoStep ==
    ASSUME WireInv, [WireNext]_wireVars
    PROVE  [Fifo!Put \/ Fifo!Deliver]_<<SeenAll(SubSeq(sent, Len(got) + 1, Len(sent))),
                                        SeenAll(got)>>
<1> DEFINE queue == SeenAll(SubSeq(sent, Len(got) + 1, Len(sent)))
           delivered == SeenAll(got)
           l == Len(got)
           k == l + 1
<1>1. /\ l \in Nat /\ Len(sent) \in Nat /\ l <= Len(sent)
      /\ sent \in Seq(Sendable) /\ got \in Seq(ToSet(got))
  BY InFlight DEF WireInv
<1>2. CASE sent' = sent /\ got' = got
  BY <1>2
<1>3. CASE ClientSend
  <2>1. PICK n \in DOMAIN Frames : sent' = Append(sent, Frames[n])
    BY <1>3 DEF ClientSend
  <2> DEFINE f == Frames[n]
             q == SubSeq(sent, k, Len(sent))
  <2>2. f \in Sendable /\ got' = got
    BY <1>3 DEF ClientSend, Sendable, loopVars
  <2>3. n \in DOMAIN SeenAll(Frames) /\ SeenAll(Frames)[n] = Seen(f)
    BY DEF SeenAll
  <2> HIDE DEF f
  <2>4. k \in 1 .. Len(sent) + 1 /\ k \in 1 .. Len(sent) + 1
    BY <1>1
  <2>5. SubSeq(Append(sent, f), k, Len(sent) + 1) = Append(q, f)
    BY <1>1, <2>2, <2>4, BehindAppend
  <2>6. Len(sent') = Len(sent) + 1 /\ sent' = Append(sent, f)
    BY <1>1, <2>1, <2>2, AppendProperties DEF f
  <2>7. q \in Seq(Sendable)
    <3>1. \A i \in 1 .. Len(sent) : sent[i] \in Sendable
      BY <1>1
    <3> QED BY <1>1, <3>1
  <2> HIDE DEF q
  <2>8. SeenAll(Append(q, f)) = Append(SeenAll(q), Seen(f))
    BY <2>2, <2>7, SeenAppend
  <2>9. queue' = Append(queue, SeenAll(Frames)[n])
    BY <2>2, <2>3, <2>5, <2>6, <2>8 DEF q
  <2> HIDE DEF queue
  <2>10. \E i \in DOMAIN SeenAll(Frames) : queue' = Append(queue, SeenAll(Frames)[i])
    BY <2>3, <2>9
  <2>11. delivered' = delivered
    BY <2>2
  <2> HIDE DEF delivered
  <2> QED BY <2>10, <2>11 DEF Fifo!Put, queue, delivered
<1>4. CASE Turn /\ ~(sent' = sent /\ got' = got)
  <2> DEFINE f == read_frame(buffer)
             x == [name |-> f.name, chan |-> f.chan, args |-> f.args]
  <2>1. /\ f.name \notin {"None", "InvalidFrameError", "UnicodeDecodeError"}
        /\ got' = Append(got, x) /\ sent' = sent
    <3>1. sent' = sent /\ (TurnTakes(f) \/ TurnLeaves(f))
      BY <1>4, TurnShape
    <3>2. ~TurnLeaves(f)
      BY <1>4, <3>1, Zenon DEF TurnLeaves
    <3> QED BY <3>1, <3>2, Zenon DEF TurnTakes
  <2>2. k <= Len(sent) /\ Seen(x) = Seen(sent[k])
    <3>1. NoFrame.name = "None" /\ UnicodeDecodeError.name = "UnicodeDecodeError"
      BY DEF NoFrame, UnicodeDecodeError
    <3> QED BY <2>1, <3>1, TurnFinds DEF AsSent
  <2> HIDE DEF f, x
  <2>3. k \in 1 .. Len(sent)
    BY <1>1, <2>2
  <2>4. /\ queue # <<>> /\ Head(queue) = Seen(sent[k])
        /\ Tail(queue) = SeenAll(SubSeq(sent, k + 1, Len(sent)))
    BY <1>1, <2>3, SeenBehind
  <2>5. Len(got') = k
    BY <1>1, <2>1, AppendAny
  <2>6. queue' = Tail(queue)
    BY <2>1, <2>4, <2>5
  <2>7. delivered' = Append(delivered, Head(queue))
    <3> DEFINE S == ToSet(got) \cup {x}
    <3>1. got \in Seq(S) /\ x \in S
      <4> DEFINE E == ToSet(got)
      <4>1. got \in Seq(E) /\ E \subseteq S
        BY <1>1
      <4> HIDE DEF E, S
      <4>2. got \in Seq(S)
        BY <4>1
      <4> QED BY <4>2 DEF S
    <3> HIDE DEF S
    <3>2. SeenAll(Append(got, x)) = Append(SeenAll(got), Seen(x))
      BY <3>1, SeenAppend
    <3> HIDE DEF queue
    <3> QED BY <2>1, <2>2, <2>4, <3>2
  <2> HIDE DEF queue, delivered
  <2> QED BY <2>4, <2>6, <2>7 DEF Fifo!Deliver, queue, delivered
<1>5. CASE data_received \/ Post \/ UNCHANGED wireVars
  BY <1>2, <1>5 DEF data_received, Post, wireVars, loopVars
<1> QED BY <1>2, <1>3, <1>4, <1>5 DEF WireNext

\* The loop of data_received (protocol.py:103-110) over read_frame (frame.py:22-85) is a
\* queue of frames, for any frames and any cuts: the handlers get what the client sent,
\* in order.
THEOREM WireFifo == WireSpec => FramesInOrder
<1>1. WireInit => Fifo!FifoInit
  <2> SUFFICES ASSUME WireInit PROVE Fifo!FifoInit
    OBVIOUS
  <2>1. sent = <<>> /\ got = <<>>
    BY DEF WireInit
  <2>2. SeenAll(<<>>) = <<>>
    BY DEF SeenAll
  <2>3. SubSeq(<<>>, Len(<<>>) + 1, Len(<<>>)) = <<>>
    OBVIOUS
  <2> QED BY <2>1, <2>2, <2>3 DEF Fifo!FifoInit
<1>2. WireInv /\ [WireNext]_wireVars
        => [Fifo!Put \/ Fifo!Deliver]_<<SeenAll(SubSeq(sent, Len(got) + 1, Len(sent))),
                                        SeenAll(got)>>
  BY FifoStep
<1> QED BY <1>1, <1>2, WireInvariant, PTL DEF WireSpec, FramesInOrder, Fifo!FifoSafety

-----------------------------------------------------------------------------
(* Whole frames *)

\* Without bytes there is no frame (frame.py:22-30).
LEMMA NothingWaits == read_frame(<<>>) = NoFrame
<1>1. Len(<<>>) < 7
  OBVIOUS
<1> QED BY <1>1 DEF read_frame, FRAME_HEADER_SIZE

\* WholeFramesTaken by its cases, in a state that an action leads to.
LEMMA WholeLater ==
    (\/ running'
     \/ closing'
     \/ /\ ended' = "return" /\ parser_state' = "WAITING_TUNE_OK"
        /\ Last(got').name = "START_OK"
     \/ /\ ended' = "raise" /\ got' # <<>>
        /\ \/ parser_state' = "WAITING_START_OK" /\ Last(got').chan = 0
           \/ Last(got').name = "CHANNEL_OPEN" /\ Last(got').chan \notin Byte
     \/ read_frame(buffer') = NoFrame
     \/ read_frame(buffer') = UnicodeDecodeError /\ ended' = "raise")
        => WholeFramesTaken'
  BY Zenon DEF WholeFramesTaken

\* A turn ends the loop with a frame behind it in the ways that are named
\* (protocol.py:103-160).
LEMMA TurnWhole ==
    ASSUME WireInv, Turn
    PROVE  WholeFramesTaken'
<1> DEFINE f == read_frame(buffer)
           x == [name |-> f.name, chan |-> f.chan, args |-> f.args]
<1>1. TurnTakes(f) \/ TurnLeaves(f)
  BY TurnShape
<1>2. CASE TurnLeaves(f)
  <2>1. buffer' = buffer /\ (f = NoFrame \/ (f = UnicodeDecodeError /\ ended' = "raise"))
    BY <1>2, Zenon DEF TurnLeaves
  <2>2. \/ read_frame(buffer') = NoFrame
        \/ read_frame(buffer') = UnicodeDecodeError /\ ended' = "raise"
    BY <2>1
  <2> QED BY <2>2, WholeLater
<1>3. CASE TurnTakes(f)
  <2>1. got' = Append(got, x) /\ Leaves(f) /\ LoopType'
    BY <1>3, Zenon DEF TurnTakes
  <2> HIDE DEF f
  <2>2. Last(got').name = f.name /\ Last(got').chan = f.chan /\ got' # <<>>
    <3> DEFINE y == x
    <3>1. y.name = f.name /\ y.chan = f.chan /\ got' = Append(got, y)
      BY <2>1
    <3> HIDE DEF y
    <3>2. got \in Seq(ToSet(got))
      BY DEF WireInv
    <3>3. /\ got' \in Seq(ToSet(got')) /\ Len(got') = Len(got) + 1 /\ Len(got) \in Nat
          /\ got'[Len(got) + 1] = y
      BY <3>1, <3>2, AppendAny
    <3>4. got' # <<>>
      BY <3>3
    <3> QED BY <3>1, <3>3, <3>4 DEF Last
  <2>3. CASE Continue
    <3>1. running' \/ buffer' = <<>>
      BY <2>3, Zenon DEF Continue, GoesOn
    <3> QED BY <3>1, NothingWaits, WholeLater
  <2>4. CASE closing' = TRUE
    BY <2>4, WholeLater
  <2>5. CASE ended' = "return" /\ parser_state' = "WAITING_TUNE_OK" /\ f.name = "START_OK"
    BY <2>2, <2>5, WholeLater
  <2>6. CASE /\ ended' = "raise"
             /\ \/ parser_state' = "WAITING_START_OK" /\ f.chan = 0
                \/ f.name = "CHANNEL_OPEN" /\ f.chan \notin Byte
    BY <2>2, <2>6, WholeLater
  <2> QED BY <2>1, <2>3, <2>4, <2>5, <2>6 DEF Leaves
<1> QED BY <1>1, <1>2, <1>3

\* Whatever the frames and the cuts, the loop (protocol.py:103-160) leaves no whole frame
\* behind on an open connection, but where a branch returns or raises as is named.
THEOREM WireWhole == WireSpec => []WholeFramesTaken
<1>1. WireInit => WholeFramesTaken
  <2> SUFFICES ASSUME WireInit PROVE WholeFramesTaken
    OBVIOUS
  <2>1. read_frame(buffer) = NoFrame
    BY NothingWaits DEF WireInit
  <2> QED BY <2>1, Zenon DEF WholeFramesTaken
<1>2. WireInv /\ WholeFramesTaken /\ [WireNext]_wireVars => WholeFramesTaken'
  <2> SUFFICES ASSUME WireInv, WholeFramesTaken, [WireNext]_wireVars PROVE WholeFramesTaken'
    OBVIOUS
  <2>1. CASE ClientSend \/ Post \/ UNCHANGED wireVars
    <3>1. UNCHANGED <<buffer, parser_state, closing, running, ended, got>>
      BY <2>1 DEF ClientSend, Post, wireVars, loopVars
    <3> QED BY <3>1, Zenon DEF WholeFramesTaken
  <2>2. CASE data_received
    BY <2>2, WholeLater DEF data_received
  <2>3. CASE Turn
    BY <2>3, TurnWhole
  <2> QED BY <2>1, <2>2, <2>3, Zenon DEF WireNext
<1> QED BY <1>1, <1>2, WireInvariant, PTL DEF WireSpec

-----------------------------------------------------------------------------
(* Credentials *)

\* The bits that wait to be written are a byte at most (serialization.py:316-320).
LEMMA KeptBytes ==
    ASSUME NEW w, Keeps(w)
    PROVE  w.out \in Seq(Byte) /\ w.bits \in Seq(Byte)
<1> DEFINE b == w.bits
           c == w.bitcount
<1>1. w.out \in Seq(Byte) /\ c \in 0 .. 8
  BY DEF Keeps
<1>2. c = 0 => b = <<>>
  BY DEF Keeps
<1>3. c > 0 => \E y \in Byte : b = <<y>>
  BY DEF Keeps
<1> HIDE DEF b, c
<1>4. CASE c = 0
  <2>1. <<>> \in Seq(Byte)
    OBVIOUS
  <2>2. b \in Seq(Byte)
    BY <1>2, <1>4, <2>1, Zenon
  <2> QED BY <1>1, <2>2, Zenon DEF b
<1>5. CASE c > 0
  <2>1. PICK y \in Byte : b = <<y>>
    BY <1>3, <1>5
  <2>2. <<y>> \in Seq(Byte)
    OBVIOUS
  <2> QED BY <1>1, <2>1, <2>2 DEF b
<1>6. c = 0 \/ c > 0
  BY <1>1
<1> QED BY <1>4, <1>5, <1>6

\* What an argument that is no bit is written as (serialization.py:353-384).
LEMMA DumpedType ==
    ASSUME NEW p, p # "b", NEW val, Taken(p, val)
    PROVE  Dumped(p, val) \in Seq(Byte)
<1> DEFINE r == [values |-> <<>>, offset |-> 0, bits |-> 0, bitcount |-> 0]
<1>1. <<>> \in Seq(Byte) /\ Fits(Len(<<>>), 4) /\ r.offset \in Nat
  BY FitsNone
<1>2. r # UnicodeDecodeError
  BY StateNotRaised
<1> HIDE DEF r
<1> QED BY <1>1, <1>2, ArgumentAt, ZenonT(60)

\* What dumps has grows by what an argument is written as (serialization.py:353-384).
LEMMA DumpGrows ==
    ASSUME NEW w, Keeps(w), NEW p, NEW val, Taken(p, val), p # "b"
    PROVE  /\ Len(DumpOne(w, p, val).out) >= Len(w.out)
           /\ Len(DumpOne(w, p, val).out) >= Len(Dumped(p, val))
<1> DEFINE d == DumpOne(w, p, val)
           u == w.out \o w.bits
           v == Dumped(p, val)
<1>1. d.out = u \o v
  BY DEF DumpOne, flushbits
<1>2. v \in Seq(Byte)
  BY DumpedType, Zenon
<1>3. w.out \in Seq(Byte) /\ w.bits \in Seq(Byte)
  BY KeptBytes
<1> DEFINE a == w.out
           b == w.bits
<1> HIDE DEF a, b, v
<1>4. a \o b \in Seq(Byte) /\ Len(a \o b) = Len(a) + Len(b)
  BY <1>3, ConcatProperties, Zenon DEF a, b
<1>5. Len(u \o v) = Len(u) + Len(v)
  <2>1. u \in Seq(Byte)
    BY <1>4 DEF a, b
  <2> HIDE DEF u
  <2> QED BY <1>2, <2>1, ConcatProperties, Zenon
<1>6. Len(a) \in Nat /\ Len(b) \in Nat /\ Len(v) \in Nat
  BY <1>2, <1>3 DEF a, b
<1>7. Len(d.out) = Len(a) + Len(b) + Len(v)
  <2>1. Len(u) = Len(a) + Len(b)
    BY <1>4 DEF a, b
  <2> HIDE DEF u
  <2> QED BY <1>1, <1>5, <2>1
<1> HIDE DEF d
<1> QED BY <1>6, <1>7 DEF a, v, d

\* The response of a login is no longer than the method that carries it.
LEMMA ResponseFits ==
    ASSUME NEW f, Encodable(f), f.name = "START_OK"
    PROVE  /\ f.args["mechanism"] \in Keys /\ f.args["response"] \in Seq(Byte)
           /\ Fits(Len(f.args["response"]), 4)
<1> DEFINE args == f.args
           l == ClientMethod["START_OK"]
           format == l.format
           values == MethodValues("START_OK", args)
           S == {args[k] : k \in ToSet(l.args)}
           buf == MethodBytes("START_OK", args)
           out == dumps(format, values)
           r == args["response"]
<1>1. EncodableArgs("START_OK", args) /\ Fits(Len(ClientPayload(f)), 4)
  BY EncodableType
<1>2. MethodArgs("START_OK", args)
  <2> HIDE DEF args
  <2> QED BY <1>1, EncodableCases, Zenon DEF MethodArgs
<1>3. ClientPayload(f) = buf
  <2>1. f.name \in DOMAIN ClientMethod
    BY MethodNames DEF ClientNames
  <2> QED BY <2>1 DEF ClientPayload, MethodBytes, MethodValues
<1>4. /\ Len(l.args) = 4 /\ DOMAIN l.args = 1 .. 4 /\ format = <<"F", "s", "S", "s">>
      /\ l.args[2] = "mechanism" /\ l.args[3] = "response"
  BY DEF ClientMethod, Layout
<1>5. /\ format \in Seq(Letters) /\ values \in Seq(S) /\ Arguments(format, values)
      /\ buf \in Seq(Byte) /\ At(buf, 4, out)
  BY <1>2, MethodLayout
<1>6. values = [i \in 1 .. 4 |-> args[l.args[i]]]
  BY <1>4 DEF MethodValues
<1>7. Len(values) = 4 /\ values[2] = args["mechanism"] /\ values[3] = r
  <2> HIDE DEF l, values, args
  <2> QED BY <1>4, <1>6
<1> HIDE DEF l, values, args, buf, out, S
<1>8. /\ format[2] = "s" /\ format[3] = "S" /\ format[4] = "s" /\ Len(format) = 4
  BY <1>4
<1>9. Taken("s", values[2]) /\ Taken("S", r) /\ Taken("s", values[4])
  <2>1. \A n \in 1 .. 4 : Taken(format[n], values[n])
    BY <1>5, <1>8 DEF Arguments
  <2> HIDE DEF format
  <2> QED BY <1>7, <1>8, <2>1
<1> HIDE DEF format
<1>10. PICK w : IsDump(w, format, values)
  BY <1>5, DumpLoop
<1>11. Keeps(w[2]) /\ Keeps(w[3]) /\ Keeps(w[4])
  <2>1. \A n \in 0 .. 4 : BitsKept(w, format, n)
    BY <1>5, <1>7, <1>10, DumpKeeps
  <2> QED BY <2>1, 2 \in 0 .. 4, 3 \in 0 .. 4, 4 \in 0 .. 4, Zenon DEF BitsKept
<1>12. /\ w[3] = DumpOne(w[2], "S", r) /\ w[4] = DumpOne(w[3], "s", values[4])
       /\ out = w[4].out \o w[4].bits
  <2>1. \A n \in 1 .. 4 : w[n] = DumpOne(w[n - 1], format[n], values[n])
    BY <1>7, <1>10 DEF IsDump
  <2>2. w[3] = DumpOne(w[3 - 1], format[3], values[3])
    BY <2>1, 3 \in 1 .. 4
  <2>3. w[4] = DumpOne(w[4 - 1], format[4], values[4])
    BY <2>1, 4 \in 1 .. 4
  <2>4. 3 - 1 = 2 /\ 4 - 1 = 3
    OBVIOUS
  <2>5. out = flushbits(w[4]).out
    BY <1>7, <1>10 DEF IsDump, out
  <2>6. out = w[4].out \o w[4].bits
    BY <2>5 DEF flushbits
  <2> QED BY <1>7, <1>8, <2>2, <2>3, <2>4, <2>6, Zenon
<1>13. r \in Seq(Byte) /\ args["mechanism"] \in Keys
  BY <1>7, <1>9 DEF Taken
<1> HIDE DEF r
<1>14. Dumped("S", r) = Sized(r) /\ Len(Sized(r)) = 4 + Len(r)
  BY <1>13, SizedType, DumpCases
<1>15. Len(w[3].out) >= 4 + Len(r)
  BY <1>9, <1>11, <1>12, <1>14, DumpGrows
<1>16. Len(w[4].out) >= Len(w[3].out)
  BY <1>9, <1>11, <1>12, DumpGrows
<1>17. Len(out) >= Len(w[4].out)
  <2> DEFINE a == w[4].out
             b == w[4].bits
  <2>1. a \in Seq(Byte) /\ b \in Seq(Byte)
    BY <1>11, KeptBytes
  <2>2. out = a \o b
    BY <1>12
  <2> HIDE DEF a, b
  <2>3. Len(out) = Len(a) + Len(b)
    BY <2>1, <2>2, ConcatProperties, Zenon
  <2>4. Len(a) \in Nat /\ Len(b) \in Nat
    BY <2>1
  <2> QED BY <2>3, <2>4 DEF a
<1>18. 4 + Len(out) <= Len(buf)
  BY <1>5 DEF At
<1>19. Len(r) \in Nat /\ Len(buf) \in Nat /\ Len(w[3].out) \in Nat /\ Len(w[4].out) \in Nat
  BY <1>5, <1>11, <1>13, LenProperties DEF Keeps
<1>20. Len(r) <= Len(buf)
  <2>1. Len(out) \in Nat
    <3>1. out \in Seq(Byte)
      BY <1>5, DumpsType DEF out
    <3> QED BY <3>1
  <2>2. \A a, b, c, d, e \in Nat :
            b >= 4 + a /\ c >= b /\ d >= c /\ 4 + d <= e => a <= e
    OBVIOUS
  <2> QED BY <2>1, <2>2, <1>15, <1>16, <1>17, <1>18, <1>19
<1>21. Fits(Len(r), 4)
  BY <1>1, <1>3, <1>19, <1>20, FitsBelow
<1> QED BY <1>13, <1>21 DEF r, args

\* A byte that belongs to a character, as Utf8 has it (serialization.py:81-84).
Held(s, i) ==
    \E back \in 0 .. 3 : back < i /\ back < Width(s[i - back]) /\ CharAt(s, i - back)

LEMMA TextIsHeld ==
    ASSUME NEW s \in Seq(Byte)
    PROVE  Utf8(s) <=> \A i \in 1 .. Len(s) : Held(s, i)
<1>1. DOMAIN s = 1 .. Len(s)
  OBVIOUS
<1> QED BY <1>1, Zenon DEF Utf8, Held

\* Text within bytes keeps its characters, whatever stands around it.
LEMMA TextInside ==
    ASSUME NEW s \in Seq(Byte), NEW u \in Str, NEW o \in Nat, o + Len(u) <= Len(s),
           \A j \in 1 .. Len(u) : s[o + j] = u[j], NEW i \in 1 .. Len(u)
    PROVE  Held(s, o + i)
<1>1. u \in Seq(Byte) /\ Utf8(u)
  BY DEF Str
<1>2. Len(u) \in Nat /\ Len(s) \in Nat
  BY <1>1
<1>3. PICK back \in 0 .. 3 : back < i /\ back < Width(u[i - back]) /\ CharAt(u, i - back)
  <2>1. Held(u, i)
    BY <1>1, TextIsHeld
  <2> QED BY <2>1 DEF Held
<1> DEFINE j == i - back
           q == o + j
           w == Width(u[j])
<1>4. /\ j \in 1 .. Len(u) /\ q = o + i - back /\ q \in Nat /\ back < o + i
  BY <1>2, <1>3
<1>5. s[q] = u[j] /\ u[j] \in Byte
  BY <1>1, <1>4
<1>6. w \in 0 .. 4
  BY <1>5, Widths
<1>7. /\ j + w - 1 \in j .. Len(u)
      /\ \A k \in j + 1 .. j + w - 1 :
            u[k] \in IF k = j + 1 THEN Second(u[j]) ELSE 128 .. 191
  BY <1>3 DEF CharAt
<1> HIDE DEF w, j
<1>8. q + w - 1 \in q .. Len(s)
  BY <1>2, <1>4, <1>6, <1>7
<1>9. ASSUME NEW k \in q + 1 .. q + w - 1
      PROVE  s[k] \in IF k = q + 1 THEN Second(s[q]) ELSE 128 .. 191
  <2>1. /\ k - o \in j + 1 .. j + w - 1 /\ k - o \in 1 .. Len(u) /\ o + (k - o) = k
        /\ k = q + 1 <=> k - o = j + 1
    BY <1>2, <1>4, <1>6, <1>7
  <2>2. s[k] = u[k - o]
    BY <2>1
  <2> HIDE DEF q
  <2> QED BY <1>5, <1>7, <2>1, <2>2
<1>10. CharAt(s, q)
  <2>1. w = Width(s[q])
    BY <1>5 DEF w
  <2> HIDE DEF q
  <2> QED BY <1>8, <1>9, <2>1 DEF CharAt
<1>11. back < Width(s[q])
  BY <1>3, <1>5 DEF j
<1> QED BY <1>4, <1>10, <1>11 DEF Held

\* A str goes on behind its first byte with those of a character only.
LEMMA SecondBytes ==
    ASSUME NEW b
    PROVE  Second(b) \subseteq 128 .. 191
<1>1. Second(b) \in {160 .. 191, 144 .. 191, 128 .. 143, 128 .. 191}
  BY DEF Second
<1> QED BY <1>1

\* A str does not begin within a character.
LEMMA TextBegins ==
    ASSUME NEW u \in Str, Len(u) # 0
    PROVE  u[1] \notin 128 .. 191
<1>1. u \in Seq(Byte) /\ Utf8(u) /\ 1 \in 1 .. Len(u) /\ u[1] \in Byte
  BY DEF Str
<1>2. PICK back \in 0 .. 3 : back < 1 /\ back < Width(u[1 - back])
  <2>1. Held(u, 1)
    BY <1>1, TextIsHeld
  <2> QED BY <2>1 DEF Held
<1>3. back = 0 /\ 1 - back = 1
  BY <1>2
<1>4. 0 < Width(u[1])
  BY <1>2, <1>3
<1> QED BY <1>1, <1>4, Widths

\* Users and passwords are strs of a byte's length at most.
LEMMA CredentialType ==
    ASSUME NEW k \in Credential
    PROVE  /\ k \in Keys /\ k \in Str /\ k \in Seq(Byte) /\ Utf8(k) /\ ~Surrogates(k)
           /\ Len(k) \in Byte /\ \A i \in 1 .. Len(k) : k[i] \in Byte /\ k[i] # 0
<1>1. k \in Keys /\ 0 \notin ToSet(k) /\ ~Surrogates(k)
  BY Zenon DEF Credential
<1>2. k \in Str /\ Len(k) \in Byte
  BY <1>1, Zenon DEF Keys
<1>3. k \in Seq(Byte) /\ Utf8(k)
  BY <1>2, Zenon DEF Str
<1>4. DOMAIN k = 1 .. Len(k) /\ \A i \in 1 .. Len(k) : k[i] \in Byte
  BY <1>3
<1>5. \A i \in 1 .. Len(k) : k[i] # 0
  BY <1>1, <1>4 DEF ToSet
<1> QED BY <1>1, <1>2, <1>3, <1>4, <1>5

\* A PLAIN response, and where its parts stand.
PlainText(user, password) == << 0 >> \o user \o << 0 >> \o password

PlainLaid(r, user, password) ==
    /\ r \in Seq(Byte) /\ Len(r) = Len(user) + Len(password) + 2
    /\ r[1] = 0 /\ r[Len(user) + 2] = 0
    /\ \A i \in 1 .. Len(user) : r[1 + i] = user[i]
    /\ \A i \in 1 .. Len(password) : r[Len(user) + 2 + i] = password[i]

LEMMA PlainResponse ==
    ASSUME NEW user \in Seq(Byte), NEW password \in Seq(Byte)
    PROVE  PlainLaid(PlainText(user, password), user, password)
<1> DEFINE m == Len(user)
           n == Len(password)
           r == <<0>> \o user \o <<0>> \o password
<1>1. /\ m \in Nat /\ n \in Nat /\ <<0>> \in Seq(Byte)
      /\ \A i \in 1 .. m : user[i] \in Byte
      /\ \A i \in 1 .. n : password[i] \in Byte
  <2>1. 0 \in Byte
    BY DEF Byte
  <2>2. <<0>> \in Seq(Byte)
    BY <2>1
  <2> QED BY <2>2
<1>2. /\ r \in Seq(Byte) /\ Len(r) = m + n + 2
      /\ r[1] = 0 /\ r[m + 2] = 0
      /\ \A i \in 1 .. m : r[1 + i] = user[i]
      /\ \A i \in 1 .. n : r[m + 2 + i] = password[i]
  BY <1>1
<1> HIDE DEF r
<1> QED BY <1>2 DEF PlainLaid, PlainText, r

\* The parts of a PLAIN response (protocol.py:182-185), between its two NULs; it decodes.
LEMMA PlainSplit ==
    ASSUME NEW user \in Credential, NEW password \in Credential, NEW response,
           PlainLaid(response, user, password)
    PROVE  SplitPlain(response) = Login(user, password) /\ Utf8(response)
<1> DEFINE m == Len(user)
           n == Len(password)
           nuls == {i \in DOMAIN response : response[i] = 0}
<1>1. /\ user \in Str /\ password \in Str
      /\ user \in Seq(Byte) /\ password \in Seq(Byte)
  BY CredentialType
<1>2. /\ m \in Nat /\ n \in Nat
      /\ \A i \in 1 .. m : user[i] \in Byte /\ user[i] # 0
      /\ \A i \in 1 .. n : password[i] \in Byte /\ password[i] # 0
  <2>1. m \in Nat /\ n \in Nat
    BY <1>1
  <2> QED BY <2>1, CredentialType
<1>3. /\ response \in Seq(Byte) /\ Len(response) = m + n + 2
      /\ response[1] = 0 /\ response[m + 2] = 0
      /\ \A i \in 1 .. m : response[1 + i] = user[i]
      /\ \A i \in 1 .. n : response[m + 2 + i] = password[i]
  BY DEF PlainLaid
<1> HIDE DEF m, n
<1>4. \A i \in 1 .. m + n + 2 :
          \/ i = 1 \/ i = m + 2
          \/ i - 1 \in 1 .. m /\ i = 1 + (i - 1)
          \/ i - (m + 2) \in 1 .. n /\ i = m + 2 + (i - (m + 2))
  BY <1>2
<1>5. nuls = {1, m + 2}
  <2>1. DOMAIN response = 1 .. m + n + 2 /\ 1 \in 1 .. m + n + 2 /\ m + 2 \in 1 .. m + n + 2
    <3>1. DOMAIN response = 1 .. Len(response)
      BY <1>3
    <3>2. DOMAIN response = 1 .. m + n + 2
      BY <1>3, <3>1
    <3>3. m \in Nat /\ n \in Nat
      BY <1>2
    <3>4. 1 \in 1 .. m + n + 2 /\ m + 2 \in 1 .. m + n + 2
      BY <3>3
    <3> QED BY <3>2, <3>4
  <2>2. ASSUME NEW i \in 1 .. m + n + 2, response[i] = 0
        PROVE  i = 1 \/ i = m + 2
    <3>1. CASE i - 1 \in 1 .. m /\ i = 1 + (i - 1)
      BY <1>2, <1>3, <2>2, <3>1
    <3>2. CASE i - (m + 2) \in 1 .. n /\ i = m + 2 + (i - (m + 2))
      BY <1>2, <1>3, <2>2, <3>2
    <3> QED BY <1>4, <3>1, <3>2
  <2>3. \A i : i \in nuls <=> i = 1 \/ i = m + 2
    BY <1>3, <2>1, <2>2
  <2> QED
    <3> DEFINE q == m + 2
    <3>1. \A i : i \in nuls <=> i \in {1, q}
      BY <2>3
    <3> HIDE DEF nuls, q
    <3>2. nuls = {1, q}
      BY <3>1
    <3> QED BY <3>2 DEF q
<1>6. Cardinality(nuls) = 2
  <2>1. m + 2 \notin {1} /\ {1, m + 2} = {1} \cup {m + 2}
    BY <1>2
  <2>2. IsFiniteSet({1}) /\ Cardinality({1}) = 1
    BY FS_Singleton
  <2>3. Cardinality({1} \cup {m + 2}) = Cardinality({1}) + 1
    BY <2>1, <2>2, FS_AddElement, Zenon
  <2> HIDE DEF nuls
  <2>4. Cardinality(nuls) = Cardinality({1}) + 1
    BY <1>5, <2>1, <2>3, Zenon
  <2> DEFINE one == Cardinality({1})
             two == Cardinality(nuls)
  <2>5. one = 1 /\ two = one + 1
    BY <2>2, <2>4
  <2> HIDE DEF one, two
  <2>6. two = 2
    BY <2>5
  <2> QED BY <2>6 DEF two
<1>7. Min(nuls) = 1 /\ Max(nuls) = m + 2
  <2>1. 1 <= m + 2 /\ m + 2 \in Nat /\ ~(m + 2 <= 1)
    BY <1>2
  <2>2. Min(nuls) = CHOOSE x \in {1, m + 2} : \A y \in {1, m + 2} : x <= y
    BY <1>5, Zenon DEF Min
  <2>3. Max(nuls) = CHOOSE x \in {1, m + 2} : \A y \in {1, m + 2} : x >= y
    BY <1>5, Zenon DEF Max
  <2> HIDE DEF nuls
  <2> QED BY <2>1, <2>2, <2>3
<1>8. SplitPlain(response)
          = Login(SubSeq(response, 2, m + 1), SubSeq(response, m + 3, Len(response)))
  <2>1. Min(nuls) + 1 = 2 /\ Max(nuls) - 1 = m + 1 /\ Max(nuls) + 1 = m + 3
    <3> DEFINE a == Min(nuls)
               b == Max(nuls)
    <3>1. a = 1 /\ b = m + 2
      BY <1>7
    <3> HIDE DEF a, b
    <3>2. a + 1 = 2 /\ b - 1 = m + 1 /\ b + 1 = m + 3
      BY <1>2, <3>1
    <3> QED BY <3>2 DEF a, b
  <2>2. SplitPlain(response) =
            IF Cardinality(nuls) # 2 THEN ValueError
            ELSE Login(SubSeq(response, Min(nuls) + 1, Max(nuls) - 1),
                       SubSeq(response, Max(nuls) + 1, Len(response)))
    BY DEF SplitPlain
  <2> HIDE DEF nuls
  <2> QED BY <1>6, <2>1, <2>2, Zenon
<1>9. SubSeq(response, 2, m + 1) = user
  <2> DEFINE u == SubSeq(response, 2, m + 1)
  <2>1. \A i \in 1 .. Len(response) : response[i] \in Byte
    BY <1>3
  <2>2. u \in Seq(Byte) /\ Len(u) = m /\ \A i \in 1 .. m : u[i] = response[1 + i]
    BY <1>2, <1>3, <2>1
  <2> HIDE DEF u
  <2>3. \A i \in 1 .. m : u[i] = user[i]
    BY <1>3, <2>2
  <2>4. u = user
    BY <1>1, <2>2, <2>3, SameParts DEF m
  <2> QED BY <2>4 DEF u
<1>10. SubSeq(response, m + 3, Len(response)) = password
  <2> DEFINE u == SubSeq(response, m + 3, m + n + 2)
  <2>1. \A i \in 1 .. Len(response) : response[i] \in Byte
    BY <1>3
  <2>2. u \in Seq(Byte) /\ Len(u) = n /\ \A i \in 1 .. n : u[i] = response[m + 2 + i]
    <3>1. Len(response) \in Nat /\ m + 3 >= 1 /\ m + n + 2 <= Len(response)
          /\ m + n + 2 - (m + 3) + 1 = n /\ \A i \in 1 .. n : m + 3 + i - 1 = m + 2 + i
      <4>1. m \in Nat /\ n \in Nat
        BY <1>2
      <4> DEFINE l == Len(response)
      <4>2. l = m + n + 2
        BY <1>3
      <4> HIDE DEF l
      <4>3. l \in Nat /\ m + 3 >= 1 /\ m + n + 2 <= l
            /\ m + n + 2 - (m + 3) + 1 = n /\ \A i \in 1 .. n : m + 3 + i - 1 = m + 2 + i
        BY <4>1, <4>2
      <4> QED BY <4>3 DEF l
    <3> DEFINE a == m + 3
               b == m + n + 2
    <3>2. a \in Nat /\ b \in Nat /\ a >= 1 /\ b <= Len(response) /\ a <= b + 1
      <4>1. m \in Nat /\ n \in Nat
        BY <1>2
      <4> QED BY <3>1, <4>1
    <3>3. b - a + 1 = n /\ \A i \in 1 .. n : a + i - 1 = m + 2 + i
      <4>1. m \in Nat /\ n \in Nat
        BY <1>2
      <4> QED BY <4>1
    <3> HIDE DEF a, b
    <3>4. a \in Int /\ b \in Int /\ \A i \in a .. b : response[i] \in Byte
      <4> DEFINE l == Len(response)
      <4>1. \A i \in 1 .. l : response[i] \in Byte
        BY <2>1
      <4>2. l \in Nat /\ b <= l
        BY <3>1, <3>2
      <4> HIDE DEF l
      <4>3. a \in Nat /\ b \in Nat /\ a >= 1
        BY <3>2
      <4>4. \A i \in a .. b : i \in 1 .. l
        BY <4>2, <4>3
      <4> QED BY <4>1, <4>3, <4>4
    <3> DEFINE v == SubSeq(response, a, b)
    <3>5. /\ v \in Seq(Byte) /\ Len(v) = IF a <= b THEN b - a + 1 ELSE 0
          /\ \A i \in 1 .. b - a + 1 : v[i] = response[a + i - 1]
      BY <3>4, SubSeqProperties
    <3> HIDE DEF v
    <3>6. Len(v) = n /\ \A i \in 1 .. n : v[i] = response[a + i - 1]
      <4>1. n \in Nat
        BY <1>2
      <4>2. Len(v) = n
        <5>1. a \in Nat /\ b \in Nat /\ a <= b + 1 /\ b - a + 1 = n
          BY <3>2, <3>3
        <5>2. (IF a <= b THEN b - a + 1 ELSE 0) = n
          BY <4>1, <5>1
        <5> QED BY <3>5, <5>2
      <4> QED BY <3>3, <3>5, <4>2
    <3>7. \A i \in 1 .. n : v[i] = response[m + 2 + i]
      BY <3>3, <3>6
    <3> QED BY <3>5, <3>6, <3>7 DEF a, b, v
  <2> HIDE DEF u
  <2>3. \A i \in 1 .. n : u[i] = password[i]
    BY <1>3, <2>2
  <2>4. u = password
    BY <1>1, <2>2, <2>3, SameParts DEF n
  <2> QED BY <1>3, <2>4 DEF u
<1>11. Utf8(response)
  <2> SUFFICES ASSUME NEW i \in 1 .. m + n + 2 PROVE Held(response, i)
    BY <1>3, TextIsHeld
  <2>1. CASE i = 1 \/ i = m + 2
    <3>1. response[i] < 128 /\ i \in 1 .. Len(response)
      BY <1>3, <2>1
    <3> QED BY <1>3, <3>1, AsciiAt DEF Held
  <2>2. CASE i - 1 \in 1 .. m /\ i = 1 + (i - 1)
    <3> DEFINE j == i - 1
    <3>1. j \in 1 .. Len(user) /\ i = 1 + j /\ 1 + Len(user) <= Len(response)
      BY <1>2, <1>3, <2>2 DEF m
    <3>2. 1 \in Nat /\ \A k \in 1 .. Len(user) : response[1 + k] = user[k]
      BY <1>3 DEF m
    <3> HIDE DEF j
    <3>3. Held(response, 1 + j)
      BY <1>1, <1>3, <3>1, <3>2, TextInside
    <3> QED BY <3>1, <3>3
  <2>3. CASE i - (m + 2) \in 1 .. n /\ i = m + 2 + (i - (m + 2))
    <3> DEFINE j == i - (m + 2)
               o == m + 2
    <3>1. j \in 1 .. Len(password) /\ i = o + j /\ o + Len(password) <= Len(response)
      BY <1>2, <1>3, <2>3 DEF n
    <3>2. o \in Nat /\ \A k \in 1 .. Len(password) : response[o + k] = password[k]
      BY <1>2, <1>3 DEF n
    <3> HIDE DEF j, o
    <3>3. Held(response, o + j)
      BY <1>1, <1>3, <3>1, <3>2, TextInside
    <3> QED BY <3>1, <3>3
  <2> QED BY <1>4, <2>1, <2>2, <2>3
<1> QED BY <1>8, <1>9, <1>10, <1>11

\* A PLAIN response (protocol.py:181-184) has three parts, and the last two are the
\* user and the password it was made of.
LEMMA PlainParts ==
    ASSUME NEW user \in Credential, NEW password \in Credential, NEW response,
           response = PlainText(user, password)
    PROVE  SplitPlain(response) = Login(user, password) /\ Utf8(response)
<1>1. user \in Seq(Byte) /\ password \in Seq(Byte)
  BY CredentialType
<1>2. PlainLaid(response, user, password)
  BY <1>1, PlainResponse
<1> QED BY <1>2, PlainSplit

\* What an AMQPLAIN response is packed from.
LoginFormat == <<"s", "o", "S", "s", "o", "S">>
LoginFields(user, password) == << << 76 >>, Code.S, user, << 80 >>, Code.S, password >>

LEMMA LoginArguments ==
    ASSUME NEW user \in Seq(Byte), NEW password \in Seq(Byte)
    PROVE  /\ Arguments(LoginFormat, LoginFields(user, password))
           /\ LoginFormat \in Seq(Letters)
           /\ \E S : LoginFields(user, password) \in Seq(S)
<1> DEFINE f == <<"s", "o", "S", "s", "o", "S">>
           a == <<76>>
           b == <<80>>
           c == Code.S
           v == <<a, c, user, b, c, password>>
           S == {a, b, c, user, password}
<1>1. a \in Keys /\ b \in Keys /\ c \in Byte
  <2>1. c = 83
    BY DEF Code
  <2> HIDE DEF c
  <2> QED BY <2>1, ShortKeys DEF Byte
<1> HIDE DEF a, b, c
<1>2. /\ f \in Seq(Letters) /\ Len(f) = 6
      /\ f[1] = "s" /\ f[2] = "o" /\ f[3] = "S" /\ f[4] = "s" /\ f[5] = "o" /\ f[6] = "S"
  BY DEF Letters
<1>3. /\ v \in Seq(S) /\ Len(v) = 6
      /\ v[1] = a /\ v[2] = c /\ v[3] = user /\ v[4] = b /\ v[5] = c /\ v[6] = password
  OBVIOUS
<1>4. /\ Taken("s", a) /\ Taken("s", b) /\ Taken("o", c)
      /\ Taken("S", user) /\ Taken("S", password)
  <2>1. Taken("s", a) /\ Taken("s", b)
    BY <1>1 DEF Taken
  <2>2. Taken("S", user) /\ Taken("S", password)
    BY DEF Taken
  <2> QED BY <1>1, <2>1, <2>2, SmallTaken
<1> HIDE DEF f, v, S
<1>5. \A n \in 1 .. 6 : Taken(f[n], v[n])
  <2> TAKE n \in 1 .. 6
  <2>1. n = 1 \/ n = 2 \/ n = 3 \/ n = 4 \/ n = 5 \/ n = 6
    OBVIOUS
  <2> QED BY <1>2, <1>3, <1>4, <2>1
<1>6. Arguments(f, v)
  <2>1. 1 .. 6 - 8 = {}
    OBVIOUS
  <2>2. EightBits(f)
    BY <1>2, <2>1 DEF EightBits
  <2> QED BY <1>2, <1>3, <1>5, <2>2 DEF Arguments
<1> QED BY <1>2, <1>3, <1>6 DEF LoginFormat, LoginFields, f, v, a, b, c

\* The fields of an AMQPLAIN response (protocol.py:186-193), the third and the sixth.
LEMMA AmqplainParts ==
    ASSUME NEW user \in Credential, NEW password \in Credential,
           NEW response \in Seq(Byte), Fits(Len(response), 4),
           response = dumps(LoginFormat, LoginFields(user, password))
    PROVE  loads(LoginFormat, response, 0) = LoginFields(user, password)
<1> DEFINE f == LoginFormat
           v == LoginFields(user, password)
<1>1. user \in Seq(Byte) /\ password \in Seq(Byte) /\ Utf8(user) /\ Utf8(password)
  BY CredentialType
<1>2. f \in Seq(Letters) /\ Arguments(f, v)
  BY <1>1, LoginArguments
<1>3. PICK S : v \in Seq(S)
  BY <1>1, LoginArguments
<1>4. Legible(f, v)
  <2> SUFFICES ASSUME NEW n \in 1 .. Len(v) PROVE ~Illegible(f[n], v[n])
    BY DEF Legible
  <2>1. n = 1 \/ n = 2 \/ n = 3 \/ n = 4 \/ n = 5 \/ n = 6
    BY DEF LoginFields
  <2>2. /\ f[1] # "S" /\ f[2] # "S" /\ f[4] # "S" /\ f[5] # "S"
        /\ v[3] = user /\ v[6] = password
    BY DEF LoginFormat, LoginFields
  <2> HIDE DEF f, v
  <2> QED BY <1>1, <2>1, <2>2 DEF Illegible
<1>5. At(response, 0, dumps(f, v))
  <2>1. Len(response) \in Nat /\ \A i \in 1 .. Len(response) : 0 + i = i
    BY LenProperties
  <2>2. At(response, 0, response)
    BY <2>1 DEF At
  <2> QED BY <2>2
<1> HIDE DEF f, v
<1>6. load(f, response, 0).values = v
  BY <1>2, <1>3, <1>4, <1>5, 0 \in Nat, ArgumentsRoundTrip, ZenonT(60)
<1> QED BY <1>6 DEF f, v, loads

\* The size of a str of less than 256 bytes, in four (serialization.py:370-374).
LEMMA SizeInFour ==
    ASSUME NEW n \in Byte
    PROVE  pack(n, 4) = <<0, 0, 0, n>>
<1> DEFINE s == Shifted(n, 4)
           p == pack(n, 4)
<1>0. n \in Int /\ n >= 0 /\ n < 256 /\ 4 \in Nat
  BY SMT DEF Byte
<1>1. s[0] = n /\ \A k \in 1 .. 4 : s[k] = s[k - 1] \div 256
  <2>1. n \in Int /\ 4 \in Nat
    BY <1>0
  <2> QED BY <2>1, ShiftedDef
<1>2. p = [i \in 1 .. 4 |-> s[4 - i] % 256]
  BY Zenon DEF pack
<1> HIDE DEF s, p
<1>3. s[1] = 0
  <2>1. s[1] = s[1 - 1] \div 256
    BY <1>1, 1 \in 1 .. 4
  <2> QED BY <1>0, <1>1, <2>1
<1>4. s[2] = 0
  <2>1. s[2] = s[2 - 1] \div 256
    BY <1>1, 2 \in 1 .. 4
  <2> QED BY <1>3, <2>1
<1>5. s[3] = 0
  <2>1. s[3] = s[3 - 1] \div 256
    BY <1>1, 3 \in 1 .. 4
  <2> QED BY <1>4, <2>1
<1>9. s[0] = n
  BY <1>1
<1>6. p[1] = 0 /\ p[2] = 0 /\ p[3] = 0 /\ p[4] = n
  <2>1. p[1] = s[3] % 256 /\ p[2] = s[2] % 256 /\ p[3] = s[1] % 256 /\ p[4] = s[0] % 256
    BY <1>2
  <2>2. 0 % 256 = 0 /\ n % 256 = n
    BY <1>0
  <2> QED BY <1>3, <1>4, <1>5, <1>9, <2>1, <2>2
<1>7. p \in Seq(Byte) /\ Len(p) = 4
  BY <1>0, PackType DEF p
<1>8. p = <<p[1], p[2], p[3], p[4]>>
  BY <1>7, SMT
<1> QED BY <1>6, <1>8 DEF p

\* An argument that is no bit, behind others that are none (serialization.py:353-384).
LEMMA DumpMore ==
    ASSUME NEW w, NEW p, p # "b", NEW val, w.out \in Seq(Byte), w.bits = <<>>
    PROVE  DumpOne(w, p, val).out = w.out \o Dumped(p, val) /\ DumpOne(w, p, val).bits = <<>>
<1> DEFINE d == DumpOne(w, p, val)
<1>1. d = [flushbits(w) EXCEPT !.out = @ \o Dumped(p, val)]
  BY DEF DumpOne
<1>2. d.out = (w.out \o w.bits) \o Dumped(p, val) /\ d.bits = <<>>
  BY <1>1 DEF flushbits
<1>3. w.out \o w.bits = w.out
  BY ConcatEmptySeq
<1> HIDE DEF d
<1> QED BY <1>2, <1>3 DEF d

\* Where the parts of an AMQPLAIN response stand.
AmqplainLaid(r, user, password) ==
    LET m == Len(user)
        n == Len(password)
    IN /\ r \in Seq(Byte) /\ Len(r) = 14 + m + n
       /\ r[1] = 1 /\ r[2] = 76 /\ r[3] = 83 /\ r[4] = 0 /\ r[5] = 0 /\ r[6] = 0 /\ r[7] = m
       /\ \A i \in 1 .. m : r[7 + i] = user[i]
       /\ r[8 + m] = 1 /\ r[9 + m] = 80 /\ r[10 + m] = 83
       /\ r[11 + m] = 0 /\ r[12 + m] = 0 /\ r[13 + m] = 0 /\ r[14 + m] = n
       /\ \A i \in 1 .. n : r[14 + m + i] = password[i]

\* A name, the code of a str, and the str, behind others.
LoginPart(s, x, t) == ((s \o <<1, x>>) \o <<83>>) \o (<<0, 0, 0, Len(t)>> \o t)
PartLaid(r, s, x, t) ==
    LET l == Len(s)
    IN /\ r \in Seq(Byte) /\ Len(r) = l + 7 + Len(t)
       /\ \A i \in 1 .. l : r[i] = s[i]
       /\ r[l + 1] = 1 /\ r[l + 2] = x /\ r[l + 3] = 83
       /\ r[l + 4] = 0 /\ r[l + 5] = 0 /\ r[l + 6] = 0 /\ r[l + 7] = Len(t)
       /\ \A i \in 1 .. Len(t) : r[l + 7 + i] = t[i]
\* What dumps does with the three.
DumpedPart(u, x, t) == DumpOne(DumpOne(DumpOne(u, "s", <<x>>), "o", 83), "S", t)

LEMMA LaidMore ==
    ASSUME NEW s \in Seq(Byte), NEW x \in Byte, NEW t \in Seq(Byte), Len(t) \in Byte
    PROVE  PartLaid(LoginPart(s, x, t), s, x, t)
<1> DEFINE l == Len(s)
           m == Len(t)
           a == s \o <<1, x>>
           b == a \o <<83>>
           c == <<0, 0, 0, m>> \o t
           r == b \o c
<1>0. 0 \in Byte /\ 1 \in Byte /\ 83 \in Byte
  BY DEF Byte
<1> DEFINE p == <<1, x>>
           q == <<83>>
           z == <<0, 0, 0, m>>
<1>1. l \in Nat /\ m \in Nat /\ m \in Byte
  OBVIOUS
<1> HIDE DEF m
<1>10. p \in Seq(Byte) /\ Len(p) = 2 /\ p[1] = 1 /\ p[2] = x
  BY <1>0
<1>11. q \in Seq(Byte) /\ Len(q) = 1 /\ q[1] = 83
  BY <1>0
<1>12. /\ z \in Seq(Byte) /\ Len(z) = 4 /\ z[1] = 0 /\ z[2] = 0 /\ z[3] = 0 /\ z[4] = m
  BY <1>0, <1>1
<1> HIDE DEF p, q, z
<1>2. /\ a \in Seq(Byte) /\ Len(a) = l + 2 /\ a[l + 1] = 1 /\ a[l + 2] = x
      /\ \A i \in 1 .. l : a[i] = s[i]
  <2>1. /\ a \in Seq(Byte) /\ Len(a) = l + Len(p) /\ \A i \in 1 .. l : a[i] = s[i]
        /\ \A i \in 1 .. Len(p) : a[l + i] = p[i]
    BY <1>10, JoinParts DEF p
  <2> HIDE DEF a
  <2> QED BY <1>10, <2>1, 1 \in 1 .. 2, 2 \in 1 .. 2
<1> HIDE DEF a, l
<1>3. /\ b \in Seq(Byte) /\ Len(b) = l + 3 /\ b[l + 3] = 83
      /\ \A i \in 1 .. l + 2 : b[i] = a[i]
  <2>1. /\ b \in Seq(Byte) /\ Len(b) = Len(a) + Len(q) /\ \A i \in 1 .. Len(a) : b[i] = a[i]
        /\ \A i \in 1 .. Len(q) : b[Len(a) + i] = q[i]
    BY <1>2, <1>11, JoinParts DEF q
  <2> HIDE DEF b
  <2>2. Len(a) + 1 = l + 3
    BY <1>1, <1>2
  <2> QED BY <1>1, <1>2, <1>11, <2>1, <2>2, 1 \in 1 .. 1
<1> HIDE DEF b
<1>4. /\ c \in Seq(Byte) /\ Len(c) = 4 + m /\ c[1] = 0 /\ c[2] = 0 /\ c[3] = 0 /\ c[4] = m
      /\ \A i \in 1 .. m : c[4 + i] = t[i]
  <2>1. /\ c \in Seq(Byte) /\ Len(c) = Len(z) + Len(t)
        /\ \A i \in 1 .. Len(z) : c[i] = z[i]
        /\ \A i \in 1 .. Len(t) : c[Len(z) + i] = t[i]
    BY <1>12, JoinParts DEF z
  <2> HIDE DEF c
  <2>2. Len(t) = m /\ Len(c) = 4 + m
    BY <1>12, <2>1 DEF m
  <2>3. c[1] = 0 /\ c[2] = 0 /\ c[3] = 0 /\ c[4] = m
    <3>1. \A i \in 1 .. 4 : c[i] = z[i]
      BY <1>12, <2>1, Zenon
    <3> QED BY <1>12, <3>1, 1 \in 1 .. 4, 2 \in 1 .. 4, 3 \in 1 .. 4, 4 \in 1 .. 4
  <2>4. \A i \in 1 .. m : c[4 + i] = t[i]
    BY <1>12, <2>1, <2>2, Zenon
  <2> QED BY <2>1, <2>2, <2>3, <2>4
<1> HIDE DEF c
<1>5. /\ r \in Seq(Byte) /\ Len(r) = l + 3 + (4 + m)
      /\ \A i \in 1 .. l + 3 : r[i] = b[i]
      /\ \A i \in 1 .. 4 + m : r[l + 3 + i] = c[i]
  <2>1. /\ r \in Seq(Byte) /\ Len(r) = Len(b) + Len(c) /\ \A i \in 1 .. Len(b) : r[i] = b[i]
        /\ \A i \in 1 .. Len(c) : r[Len(b) + i] = c[i]
    <3>1. b \in Seq(Byte) /\ c \in Seq(Byte)
      BY <1>3, <1>4
    <3> QED BY <3>1, JoinParts
  <2>2. Len(b) = l + 3 /\ Len(c) = 4 + m
    BY <1>3, <1>4
  <2> HIDE DEF r
  <2> QED BY <2>1, <2>2, Zenon
<1> HIDE DEF r
<1>6. Len(r) = l + 7 + m
  BY <1>1, <1>5
<1>7. (\A i \in 1 .. l : r[i] = s[i]) /\ r[l + 1] = 1 /\ r[l + 2] = x /\ r[l + 3] = 83
  <2>1. /\ \A i \in 1 .. l : i \in 1 .. l + 2 /\ i \in 1 .. l + 3
        /\ l + 1 \in 1 .. l + 2 /\ l + 2 \in 1 .. l + 2
        /\ l + 1 \in 1 .. l + 3 /\ l + 2 \in 1 .. l + 3 /\ l + 3 \in 1 .. l + 3
    BY <1>1
  <2> QED BY <1>2, <1>3, <1>5, <2>1
<1>8. r[l + 4] = 0 /\ r[l + 5] = 0 /\ r[l + 6] = 0 /\ r[l + 7] = m
  <2>1. /\ 1 \in 1 .. 4 + m /\ 2 \in 1 .. 4 + m /\ 3 \in 1 .. 4 + m /\ 4 \in 1 .. 4 + m
        /\ l + 3 + 1 = l + 4 /\ l + 3 + 2 = l + 5 /\ l + 3 + 3 = l + 6 /\ l + 3 + 4 = l + 7
    BY <1>1
  <2> QED BY <1>4, <1>5, <2>1
<1>9. \A i \in 1 .. m : r[l + 7 + i] = t[i]
  <2> TAKE i \in 1 .. m
  <2>1. 4 + i \in 1 .. 4 + m /\ l + 3 + (4 + i) = l + 7 + i
    BY <1>1
  <2> QED BY <1>4, <1>5, <2>1
<1>10a. r = LoginPart(s, x, t)
  BY DEF m, a, b, c, r, p, q, z, LoginPart
<1>11a. PartLaid(r, s, x, t)
  BY <1>5, <1>6, <1>7, <1>8, <1>9, Zenon DEF l, m, PartLaid
<1> QED BY <1>10a, <1>11a, Zenon

\* The three arguments of a part.
LEMMA DumpPart ==
    ASSUME NEW u, u.out \in Seq(Byte), u.bits = <<>>, NEW x \in Byte,
           NEW t \in Seq(Byte), Len(t) \in Byte
    PROVE  /\ DumpedPart(u, x, t).out = LoginPart(u.out, x, t)
           /\ DumpedPart(u, x, t).bits = <<>>
<1> DEFINE v == DumpOne(u, "s", <<x>>)
           k == 83
           w == DumpOne(v, "o", k)
           y == DumpOne(w, "S", t)
<1>1. 1 \in Byte /\ 83 \in Byte
  BY DEF Byte
<1>2. Dumped("s", <<x>>) = <<1, x>>
  <2>1. Dumped("s", <<x>>) = pack(Len(<<x>>), 1) \o <<x>>
    BY DumpCases
  <2>2. Len(<<x>>) = 1
    OBVIOUS
  <2>3. pack(1, 1) = <<1>>
    BY <1>1, FitsByte
  <2>4. <<1>> \o <<x>> = <<1, x>>
    <3> DEFINE a == <<1>> \o <<x>>
    <3>1. <<1>> \in Seq(Byte) /\ <<x>> \in Seq(Byte) /\ Len(<<1>>) = 1 /\ Len(<<x>>) = 1
      BY <1>1
    <3>2. a \in Seq(Byte) /\ Len(a) = 1 + 1 /\ a[1] = 1 /\ a[1 + 1] = x
      BY <3>1, JoinParts, 1 \in 1 .. 1, SMT
    <3> HIDE DEF a
    <3>3. a = <<1, x>>
      BY <3>2
    <3> QED BY <3>3 DEF a
  <2> QED BY <2>1, <2>2, <2>3, <2>4
<1>3. Dumped("o", 83) = <<83>>
  <2>1. Dumped("o", 83) = pack(83, 1)
    BY DumpCases
  <2> QED BY <1>1, <2>1, FitsByte
<1>4. Dumped("S", t) = <<0, 0, 0, Len(t)>> \o t
  <2>1. Dumped("S", t) = Sized(t)
    BY DumpCases
  <2> QED BY <2>1, SizeInFour DEF Sized
<1> DEFINE a == <<1, x>>
           b == <<83>>
           c == <<0, 0, 0, Len(t)>> \o t
<1>5. a \in Seq(Byte) /\ b \in Seq(Byte)
  BY <1>1
<1>6. Dumped("s", <<x>>) = a /\ Dumped("o", k) = b /\ Dumped("S", t) = c
  BY <1>2, <1>3, <1>4
<1>13. "s" # "b" /\ "o" # "b" /\ "S" # "b"
  OBVIOUS
<1>14. y = DumpedPart(u, x, t)
  BY DEF DumpedPart
<1> HIDE DEF a, b, c, k
<1>7. v.out = u.out \o a /\ v.bits = <<>>
  BY <1>6, <1>13, DumpMore
<1> HIDE DEF v
<1>8. v.out \in Seq(Byte)
  BY <1>5, <1>7, ConcatProperties
<1>9. w.out = v.out \o b /\ w.bits = <<>>
  <2>1. v.bits = <<>>
    BY <1>7
  <2>2. w.out = v.out \o Dumped("o", k) /\ w.bits = <<>>
    BY <2>1, <1>8, "o" # "b", DumpMore, Zenon
  <2> QED BY <1>6, <2>2, Zenon
<1> HIDE DEF w
<1>10. w.out \in Seq(Byte)
  BY <1>5, <1>8, <1>9, ConcatProperties
<1>11. y.out = w.out \o c /\ y.bits = <<>>
  <2>1. w.bits = <<>>
    BY <1>9
  <2>2. y.out = w.out \o Dumped("S", t) /\ y.bits = <<>>
    BY <2>1, <1>10, "S" # "b", DumpMore, Zenon
  <2> QED BY <1>6, <2>2, Zenon
<1> HIDE DEF y
<1>12. y.out = ((u.out \o a) \o b) \o c
  BY <1>7, <1>9, <1>11, Zenon
<1> QED BY <1>11, <1>12, <1>14 DEF LoginPart, a, b, c

LEMMA AmqplainResponse ==
    ASSUME NEW user \in Seq(Byte), Len(user) \in Byte,
           NEW password \in Seq(Byte), Len(password) \in Byte
    PROVE  AmqplainLaid(dumps(LoginFormat, LoginFields(user, password)), user, password)
<1> DEFINE f == LoginFormat
           v == LoginFields(user, password)
           S == {<<76>>, Code.S, user, <<80>>, password}
           half == LoginPart(<<>>, 76, user)
           r == LoginPart(half, 80, password)
           m == Len(user)
           n == Len(password)
           l == Len(half)
<1>1. /\ v \in Seq(S) /\ Len(v) = 6
      /\ v[1] = <<76>> /\ v[2] = 83 /\ v[3] = user /\ v[4] = <<80>> /\ v[5] = 83
      /\ v[6] = password
      /\ f[1] = "s" /\ f[2] = "o" /\ f[3] = "S" /\ f[4] = "s" /\ f[5] = "o" /\ f[6] = "S"
  <2>1. Code.S = 83
    BY DEF Code
  <2> QED BY <2>1 DEF LoginFormat, LoginFields
<1>2. PICK w : IsDump(w, f, v)
  BY <1>1, DumpLoop
<1>3. /\ w[0].out = <<>> /\ w[0].bits = <<>>
      /\ w[1] = DumpOne(w[0], "s", <<76>>) /\ w[2] = DumpOne(w[1], "o", 83)
      /\ w[3] = DumpOne(w[2], "S", user) /\ w[4] = DumpOne(w[3], "s", <<80>>)
      /\ w[5] = DumpOne(w[4], "o", 83) /\ w[6] = DumpOne(w[5], "S", password)
      /\ dumps(f, v) = w[6].out \o w[6].bits
  <2> DEFINE d == dumps(f, v)
  <2>1. /\ w[0] = [out |-> <<>>, bits |-> <<>>, bitcount |-> 0]
        /\ \A k \in 1 .. 6 : w[k] = DumpOne(w[k - 1], f[k], v[k])
        /\ d = flushbits(w[6]).out
    BY <1>1, <1>2 DEF IsDump
  <2> HIDE DEF f, v, d
  <2>2. /\ w[1] = DumpOne(w[1 - 1], f[1], v[1]) /\ w[2] = DumpOne(w[2 - 1], f[2], v[2])
        /\ w[3] = DumpOne(w[3 - 1], f[3], v[3]) /\ w[4] = DumpOne(w[4 - 1], f[4], v[4])
        /\ w[5] = DumpOne(w[5 - 1], f[5], v[5]) /\ w[6] = DumpOne(w[6 - 1], f[6], v[6])
    BY <2>1, 1 \in 1 .. 6, 2 \in 1 .. 6, 3 \in 1 .. 6, 4 \in 1 .. 6, 5 \in 1 .. 6, 6 \in 1 .. 6
  <2>3. 1 - 1 = 0 /\ 2 - 1 = 1 /\ 3 - 1 = 2 /\ 4 - 1 = 3 /\ 5 - 1 = 4 /\ 6 - 1 = 5
    OBVIOUS
  <2>4. d = w[6].out \o w[6].bits
    BY <2>1 DEF flushbits
  <2>5. w[0].out = <<>> /\ w[0].bits = <<>>
    BY <2>1
  <2> QED BY <1>1, <2>2, <2>3, <2>4, <2>5, ZenonT(60) DEF d
<1>4. <<>> \in Seq(Byte) /\ 76 \in Byte /\ 80 \in Byte /\ Len(<<>>) = 0
  BY DEF Byte
<1>20. PartLaid(half, <<>>, 76, user)
  BY <1>4, LaidMore, Zenon
<1>5. /\ half \in Seq(Byte) /\ Len(half) = 0 + 7 + m
      /\ half[0 + 1] = 1 /\ half[0 + 2] = 76 /\ half[0 + 3] = 83
      /\ half[0 + 4] = 0 /\ half[0 + 5] = 0 /\ half[0 + 6] = 0 /\ half[0 + 7] = m
      /\ \A i \in 1 .. m : half[0 + 7 + i] = user[i]
  BY <1>4, <1>20 DEF PartLaid
<1>21. LoginPart(<<>>, 76, user) = half
  OBVIOUS
<1> HIDE DEF f, v, S, half
<1>6. w[3].out = half /\ w[3].bits = <<>>
  <2>1. w[3] = DumpedPart(w[0], 76, user)
    BY <1>3, Zenon DEF DumpedPart
  <2>2. w[0].out \in Seq(Byte) /\ w[0].bits = <<>>
    BY <1>3, <1>4, Zenon
  <2>3. w[3].out = LoginPart(w[0].out, 76, user) /\ w[3].bits = <<>>
    <3>1. w[0].out \in Seq(Byte) /\ w[0].bits = <<>> /\ 76 \in Byte
      BY <1>4, <2>2
    <3>2. /\ DumpedPart(w[0], 76, user).out = LoginPart(w[0].out, 76, user)
          /\ DumpedPart(w[0], 76, user).bits = <<>>
      BY <3>1, DumpPart, Zenon
    <3> QED BY <2>1, <3>2, Zenon
  <2> QED BY <1>3, <1>21, <2>3, Zenon
<1>7. w[6].out = r /\ w[6].bits = <<>>
  <2>1. w[6] = DumpedPart(w[3], 80, password)
    BY <1>3, Zenon DEF DumpedPart
  <2>2. w[3].out \in Seq(Byte)
    BY <1>5, <1>6, Zenon
  <2>3. w[6].out = LoginPart(w[3].out, 80, password) /\ w[6].bits = <<>>
    <3>1. w[3].out \in Seq(Byte) /\ w[3].bits = <<>> /\ 80 \in Byte
      BY <1>4, <1>6, <2>2
    <3>2. /\ DumpedPart(w[3], 80, password).out = LoginPart(w[3].out, 80, password)
          /\ DumpedPart(w[3], 80, password).bits = <<>>
      BY <3>1, DumpPart, Zenon
    <3> QED BY <2>1, <3>2, Zenon
  <2> QED BY <1>6, <2>3, Zenon
<1>22. PartLaid(r, half, 80, password)
  <2>1. half \in Seq(Byte) /\ 80 \in Byte
    BY <1>4, <1>5
  <2> QED BY <2>1, LaidMore, Zenon
<1>8. /\ r \in Seq(Byte) /\ Len(r) = l + 7 + n
      /\ \A i \in 1 .. l : r[i] = half[i]
      /\ r[l + 1] = 1 /\ r[l + 2] = 80 /\ r[l + 3] = 83
      /\ r[l + 4] = 0 /\ r[l + 5] = 0 /\ r[l + 6] = 0 /\ r[l + 7] = n
      /\ \A i \in 1 .. n : r[l + 7 + i] = password[i]
  BY <1>22, Zenon DEF PartLaid
<1> HIDE DEF r
<1>9. dumps(f, v) = r
  <2>1. r \o <<>> = r
    BY <1>8, ConcatEmptySeq
  <2> QED BY <1>3, <1>7, <2>1, Zenon
<1>10. m \in Nat /\ n \in Nat
  OBVIOUS
<1> HIDE DEF l, m, n
<1>11. l = 7 + m
  BY <1>5, <1>10 DEF l
<1>12. /\ r[1] = 1 /\ r[2] = 76 /\ r[3] = 83 /\ r[4] = 0 /\ r[5] = 0 /\ r[6] = 0 /\ r[7] = m
       /\ \A i \in 1 .. m : r[7 + i] = user[i]
  <2>1. /\ 1 \in 1 .. l /\ 2 \in 1 .. l /\ 3 \in 1 .. l /\ 4 \in 1 .. l /\ 5 \in 1 .. l
        /\ 6 \in 1 .. l /\ 7 \in 1 .. l /\ \A i \in 1 .. m : 7 + i \in 1 .. l
    BY <1>10, <1>11
  <2>2. /\ half[1] = 1 /\ half[2] = 76 /\ half[3] = 83 /\ half[4] = 0 /\ half[5] = 0
        /\ half[6] = 0 /\ half[7] = m
    BY <1>5
  <2>3. \A i \in 1 .. m : half[7 + i] = user[i]
    BY <1>5, <1>10
  <2> DEFINE same(i) == r[i] = half[i]
  <2>4. \A i \in 1 .. l : same(i)
    BY <1>8, Zenon
  <2>5. /\ same(1) /\ same(2) /\ same(3) /\ same(4) /\ same(5) /\ same(6) /\ same(7)
        /\ \A i \in 1 .. m : same(7 + i)
    <3> HIDE DEF same
    <3> QED BY <2>1, <2>4, Zenon
  <2>6. /\ r[1] = 1 /\ r[2] = 76 /\ r[3] = 83 /\ r[4] = 0 /\ r[5] = 0 /\ r[6] = 0
        /\ r[7] = m
    BY <2>2, <2>5
  <2>7. \A i \in 1 .. m : r[7 + i] = user[i]
    BY <2>3, <2>5, Zenon
  <2> QED BY <2>6, <2>7, Zenon
<1>13. /\ l + 1 = 8 + m /\ l + 2 = 9 + m /\ l + 3 = 10 + m /\ l + 4 = 11 + m
       /\ l + 5 = 12 + m /\ l + 6 = 13 + m /\ l + 7 = 14 + m /\ l + 7 + n = 14 + m + n
  BY <1>10, <1>11
<1>14. AmqplainLaid(r, user, password)
  <2>1. /\ r \in Seq(Byte) /\ Len(r) = 14 + m + n
        /\ r[8 + m] = 1 /\ r[9 + m] = 80 /\ r[10 + m] = 83
        /\ r[11 + m] = 0 /\ r[12 + m] = 0 /\ r[13 + m] = 0 /\ r[14 + m] = n
        /\ \A i \in 1 .. n : r[14 + m + i] = password[i]
    <3> DEFINE z(j) == r[j]
               N(i, j) == r[j + i] = password[i]
    <3>1. /\ Len(r) = l + 7 + n /\ z(l + 1) = 1 /\ z(l + 2) = 80 /\ z(l + 3) = 83
          /\ z(l + 4) = 0 /\ z(l + 5) = 0 /\ z(l + 6) = 0 /\ z(l + 7) = n
          /\ \A i \in 1 .. n : N(i, l + 7)
      BY <1>8, Zenon
    <3> HIDE DEF z, N
    <3>2. /\ Len(r) = 14 + m + n /\ z(8 + m) = 1 /\ z(9 + m) = 80 /\ z(10 + m) = 83
          /\ z(11 + m) = 0 /\ z(12 + m) = 0 /\ z(13 + m) = 0 /\ z(14 + m) = n
          /\ \A i \in 1 .. n : N(i, 14 + m)
      BY <3>1, <1>13
    <3> QED BY <1>8, <3>2, Zenon DEF z, N
  <2> QED BY <1>12, <2>1, ZenonT(60) DEF AmqplainLaid, m, n
<1> QED BY <1>9, <1>14 DEF r, f, v

\* A length that is one byte of a text, behind those that are 0, is below 128: nothing
\* begins a character before it, and it begins none of more than a byte.
LEMMA ShortLength ==
    ASSUME NEW r \in Seq(Byte), Utf8(r), NEW q \in 1 .. Len(r), q > 3,
           r[q - 1] = 0, r[q - 2] = 0, r[q - 3] = 0,
           q < Len(r) => r[q + 1] \notin 128 .. 191
    PROVE  r[q] < 128
<1>1. r[q] \in Byte /\ q \in Nat /\ Len(r) \in Nat
  OBVIOUS
<1>2. PICK back \in 0 .. 3 : back < q /\ back < Width(r[q - back]) /\ CharAt(r, q - back)
  <2>1. Held(r, q)
    <3>1. \A i \in 1 .. Len(r) : Held(r, i)
      BY TextIsHeld, Zenon
    <3> QED BY <3>1, Zenon
  <2> QED BY <2>1 DEF Held
<1>3. back = 0
  <2> SUFFICES ASSUME back \in 1 .. 3 PROVE FALSE
    BY <1>2
  <2>1. r[q - back] = 0
    <3>1. back = 1 \/ back = 2 \/ back = 3
      OBVIOUS
    <3> QED BY <3>1
  <2>2. 0 \in Byte
    BY DEF Byte
  <2>3. Width(0) = 1
    BY <2>2, Widths
  <2>4. back < 1
    BY <1>2, <2>1, <2>3
  <2> QED BY <2>4
<1>4. 0 < Width(r[q]) /\ CharAt(r, q)
  <2>1. q - back = q
    BY <1>1, <1>3
  <2> QED BY <1>2, <1>3, <2>1
<1> SUFFICES ASSUME ~(r[q] < 128) PROVE FALSE
  OBVIOUS
<1> DEFINE w == Width(r[q])
<1>5. w \in 2 .. 4
  <2> DEFINE b == r[q]
  <2>1. b \in Byte /\ ~(b < 128)
    BY <1>1
  <2> HIDE DEF b
  <2>2. Width(b) # 1 /\ Width(b) \in 0 .. 4
    <3>1. b >= 128
      BY <2>1, SMT DEF Byte
    <3> QED BY <2>1, <3>1, Widths
  <2>3. w = Width(b) /\ 0 < w
    BY <1>4 DEF b
  <2> HIDE DEF w
  <2> QED BY <2>2, <2>3
<1>6. /\ q + w - 1 \in q .. Len(r)
      /\ \A k \in q + 1 .. q + w - 1 :
            r[k] \in IF k = q + 1 THEN Second(r[q]) ELSE 128 .. 191
  BY <1>4 DEF CharAt
<1> HIDE DEF w
<1>7. q < Len(r) /\ r[q + 1] \in Second(r[q])
  <2>1. q + 1 \in q + 1 .. q + w - 1 /\ q < Len(r)
    BY <1>1, <1>5, <1>6
  <2>2. r[q + 1] \in IF q + 1 = q + 1 THEN Second(r[q]) ELSE 128 .. 191
    BY <1>6, <2>1, Zenon
  <2> QED BY <2>1, <2>2, Zenon
<1>8. Second(r[q]) \subseteq 128 .. 191
  BY SecondBytes, Zenon
<1> QED BY <1>7, <1>8, Zenon

\* What stands in an AMQPLAIN response: text, or a byte below 128 but for the lengths.
AmqplainPlace(r, user, password, i) ==
    LET m == Len(user)
        n == Len(password)
    IN \/ i = 7 /\ r[i] = m
       \/ i = 14 + m /\ r[i] = n
       \/ r[i] \in 0 .. 127
       \/ i - 7 \in 1 .. m /\ i = 7 + (i - 7)
       \/ i - (14 + m) \in 1 .. n /\ i = 14 + m + (i - (14 + m))

LEMMA AmqplainPlaces ==
    ASSUME NEW r, NEW user \in Seq(Byte), NEW password \in Seq(Byte),
           AmqplainLaid(r, user, password), NEW i \in 1 .. Len(r)
    PROVE  AmqplainPlace(r, user, password, i)
<1> DEFINE m == Len(user)
           n == Len(password)
<1>1. m \in Nat /\ n \in Nat
  OBVIOUS
<1>2. /\ Len(r) = 14 + m + n
      /\ r[1] = 1 /\ r[2] = 76 /\ r[3] = 83 /\ r[4] = 0 /\ r[5] = 0 /\ r[6] = 0 /\ r[7] = m
      /\ r[8 + m] = 1 /\ r[9 + m] = 80 /\ r[10 + m] = 83
      /\ r[11 + m] = 0 /\ r[12 + m] = 0 /\ r[13 + m] = 0 /\ r[14 + m] = n
  BY DEF AmqplainLaid
<1> HIDE DEF m, n
<1>3. \/ i \in 1 .. 7 \/ i - 7 \in 1 .. m
      \/ i \in {8 + m, 9 + m, 10 + m, 11 + m, 12 + m, 13 + m, 14 + m}
      \/ i - (14 + m) \in 1 .. n
  BY <1>1, <1>2
<1> DEFINE A == 0 .. 127
<1>20. 0 \in A /\ 1 \in A /\ 76 \in A /\ 80 \in A /\ 83 \in A
  OBVIOUS
<1> HIDE DEF A
<1>4. ASSUME i \in 1 .. 7
      PROVE  (i = 7 /\ r[i] = m) \/ r[i] \in A
  <2>1. i = 1 \/ i = 2 \/ i = 3 \/ i = 4 \/ i = 5 \/ i = 6 \/ i = 7
    BY <1>4
  <2>2. r[1] \in A /\ r[2] \in A /\ r[3] \in A /\ r[4] \in A /\ r[5] \in A /\ r[6] \in A
    BY <1>2, <1>20
  <2> QED BY <1>2, <2>1, <2>2
<1>5. i - 7 \in 1 .. m => i = 7 + (i - 7)
  BY <1>1
<1>6. ASSUME i \in {8 + m, 9 + m, 10 + m, 11 + m, 12 + m, 13 + m, 14 + m}
      PROVE  (i = 14 + m /\ r[i] = n) \/ r[i] \in A
  <2>1. /\ r[8 + m] \in A /\ r[9 + m] \in A /\ r[10 + m] \in A
        /\ r[11 + m] \in A /\ r[12 + m] \in A /\ r[13 + m] \in A
    BY <1>2, <1>20
  <2> QED BY <1>2, <1>6, <2>1
<1>7. i - (14 + m) \in 1 .. n => i = 14 + m + (i - (14 + m))
  BY <1>1
<1>8. \/ (i = 7 /\ r[i] = m) \/ (i = 14 + m /\ r[i] = n) \/ r[i] \in 0 .. 127
      \/ i - 7 \in 1 .. m /\ i = 7 + (i - 7)
      \/ i - (14 + m) \in 1 .. n /\ i = 14 + m + (i - (14 + m))
  BY <1>3, <1>4, <1>5, <1>6, <1>7 DEF A
<1> QED BY <1>8, Zenon DEF m, n, AmqplainPlace

\* An AMQPLAIN response is a text when and only when both its lengths are
\* (serialization.py:282), for a user and a password that are texts.
LEMMA AmqplainText ==
    ASSUME NEW r, NEW user \in Str, NEW password \in Str,
           AmqplainLaid(r, user, password)
    PROVE  Utf8(r) <=> Len(user) < 128 /\ Len(password) < 128
<1> DEFINE m == Len(user)
           n == Len(password)
<1>1. user \in Seq(Byte) /\ password \in Seq(Byte)
  BY DEF Str
<1>2. m \in Nat /\ n \in Nat
  BY <1>1
<1>3. r \in Seq(Byte) /\ Len(r) = 14 + m + n
  BY DEF AmqplainLaid
<1>4. ASSUME Utf8(r) PROVE m < 128 /\ n < 128
  <2>1. m < 128
    <3> DEFINE q == 7
    <3>1. /\ r[6] = 0 /\ r[5] = 0 /\ r[4] = 0 /\ r[q] = m
          /\ \A i \in 1 .. m : r[7 + i] = user[i]
          /\ r[8 + m] = 1
      BY DEF AmqplainLaid
    <3>2. q \in 1 .. Len(r) /\ q > 3 /\ q - 1 = 6 /\ q - 2 = 5 /\ q - 3 = 4
      BY <1>2, <1>3
    <3>3. r[q + 1] \notin 128 .. 191
      <4>1. CASE m = 0
        <5>1. r[7 + 1] = 1
          BY <3>1, <4>1
        <5> QED BY <5>1
      <4>2. CASE m # 0
        <5>1. 1 \in 1 .. m
          BY <1>2, <4>2
        <5>2. r[7 + 1] = user[1]
          BY <3>1, <5>1
        <5>3. user[1] \notin 128 .. 191
          BY <4>2, TextBegins
        <5> QED BY <5>2, <5>3
      <4> QED BY <4>1, <4>2
    <3> HIDE DEF m, q
    <3>4. r[q - 1] = 0 /\ r[q - 2] = 0 /\ r[q - 3] = 0
      BY <3>1, <3>2
    <3>5. r[q] < 128
      BY <1>3, <1>4, <3>2, <3>3, <3>4, ShortLength
    <3> QED BY <3>1, <3>5
  <2>2. n < 128
    <3> DEFINE q == 14 + m
    <3>1. /\ r[13 + m] = 0 /\ r[12 + m] = 0 /\ r[11 + m] = 0 /\ r[q] = n
          /\ \A i \in 1 .. n : r[q + i] = password[i]
      BY DEF AmqplainLaid
    <3>2. /\ q \in 1 .. Len(r) /\ q > 3
          /\ q - 1 = 13 + m /\ q - 2 = 12 + m /\ q - 3 = 11 + m
      BY <1>2, <1>3
    <3>3. ASSUME q < Len(r) PROVE r[q + 1] \notin 128 .. 191
      <4>1. 1 \in 1 .. n /\ n # 0
        BY <1>2, <1>3, <3>3
      <4>2. r[q + 1] = password[1]
        BY <3>1, <4>1
      <4>3. password[1] \notin 128 .. 191
        BY <4>1, TextBegins
      <4> QED BY <4>2, <4>3
    <3> HIDE DEF n, q
    <3>4. r[q - 1] = 0 /\ r[q - 2] = 0 /\ r[q - 3] = 0
      BY <3>1, <3>2
    <3>5. r[q] < 128
      BY <1>3, <1>4, <3>2, <3>3, <3>4, ShortLength
    <3> QED BY <3>1, <3>5
  <2> QED BY <2>1, <2>2
<1>5. ASSUME m < 128, n < 128 PROVE Utf8(r)
  <2> SUFFICES ASSUME NEW i \in 1 .. Len(r) PROVE Held(r, i)
    BY <1>3, TextIsHeld
  <2>1. CASE r[i] < 128
    BY <1>3, <2>1, AsciiAt DEF Held
  <2>2. CASE i - 7 \in 1 .. m /\ i = 7 + (i - 7)
    <3> DEFINE j == i - 7
    <3>1. /\ j \in 1 .. Len(user) /\ i = 7 + j /\ 7 + Len(user) <= Len(r) /\ 7 \in Nat
      BY <1>2, <1>3, <2>2
    <3>2. \A k \in 1 .. Len(user) : r[7 + k] = user[k]
      BY DEF AmqplainLaid
    <3> HIDE DEF j
    <3>3. Held(r, 7 + j)
      BY <1>3, <3>1, <3>2, TextInside
    <3> QED BY <3>1, <3>3
  <2>3. CASE i - (14 + m) \in 1 .. n /\ i = 14 + m + (i - (14 + m))
    <3> DEFINE o == 14 + m
               j == i - o
    <3>1. /\ j \in 1 .. Len(password) /\ i = o + j /\ o + Len(password) <= Len(r) /\ o \in Nat
      BY <1>2, <1>3, <2>3
    <3>2. \A k \in 1 .. Len(password) : r[o + k] = password[k]
      BY DEF AmqplainLaid
    <3> HIDE DEF j, o
    <3>3. Held(r, o + j)
      BY <1>3, <3>1, <3>2, TextInside
    <3> QED BY <3>1, <3>3
  <2>4. \/ (i = 7 /\ r[i] = m) \/ (i = 14 + m /\ r[i] = n) \/ r[i] \in 0 .. 127
        \/ i - 7 \in 1 .. m /\ i = 7 + (i - 7)
        \/ i - (14 + m) \in 1 .. n /\ i = 14 + m + (i - (14 + m))
    <3>1. AmqplainPlace(r, user, password, i)
      BY <1>1, AmqplainPlaces, Zenon
    <3> QED BY <3>1, Zenon DEF AmqplainPlace
  <2>5. CASE r[i] \in 0 .. 127 \/ r[i] = m \/ r[i] = n
    <3>1. r[i] < 128
      <4> DEFINE x == r[i]
      <4>1. m < 128 /\ n < 128 /\ (x \in 0 .. 127 \/ x = m \/ x = n)
        BY <1>5, <2>5
      <4> HIDE DEF m, n, x
      <4>2. CASE x \in 0 .. 127
        <5>1. x < 128
          BY <4>2
        <5> QED BY <5>1 DEF x
      <4>3. CASE x = m \/ x = n
        <5>1. x < 128
          BY <4>1, <4>3, Zenon
        <5> QED BY <5>1 DEF x
      <4> QED BY <4>1, <4>2, <4>3, Zenon
    <3> QED BY <2>1, <3>1
  <2> HIDE DEF m, n
  <2> QED BY <2>2, <2>3, <2>4, <2>5, Zenon
<1> QED BY <1>4, <1>5

\* An AMQPLAIN response that is a text is encoded again as it was (protocol.py:187): no
\* surrogate comes of its parts, none of which has one.
LEMMA AmqplainClean ==
    ASSUME NEW r, NEW user \in Credential, NEW password \in Credential,
           AmqplainLaid(r, user, password), Utf8(r)
    PROVE  ~Surrogates(r)
<1> DEFINE m == Len(user)
           n == Len(password)
<1>1. /\ user \in Str /\ password \in Str /\ user \in Seq(Byte) /\ password \in Seq(Byte)
      /\ ~Surrogates(user) /\ ~Surrogates(password)
  BY CredentialType
<1>2. m \in Nat /\ n \in Nat /\ m < 128 /\ n < 128
  BY <1>1, AmqplainText
<1>3. r \in Seq(Byte) /\ Len(r) = 14 + m + n
  BY DEF AmqplainLaid
<1> SUFFICES ASSUME NEW i \in 1 .. Len(r), r[i] = 237, i < Len(r), r[i + 1] >= 160
             PROVE  FALSE
  BY <1>3 DEF Surrogates
<1>4. \/ (i = 7 /\ r[i] = m) \/ (i = 14 + m /\ r[i] = n) \/ r[i] \in 0 .. 127
      \/ i - 7 \in 1 .. m /\ i = 7 + (i - 7)
      \/ i - (14 + m) \in 1 .. n /\ i = 14 + m + (i - (14 + m))
  <2>1. AmqplainPlace(r, user, password, i)
    <3>1. user \in Seq(Byte) /\ password \in Seq(Byte)
      BY <1>1
    <3> HIDE DEF m, n
    <3> QED BY <3>1, AmqplainPlaces
  <2> QED BY <2>1, Zenon DEF AmqplainPlace
<1>5. CASE i - 7 \in 1 .. m
  <2> DEFINE j == i - 7
  <2>1. r[8 + m] = 1 /\ \A k \in 1 .. m : r[7 + k] = user[k]
    BY DEF AmqplainLaid
  <2>2. CASE j = m
    <3>1. i + 1 = 8 + m
      BY <1>2, <2>2
    <3> QED BY <2>1, <3>1
  <2>3. CASE j # m
    <3>1. j \in 1 .. m /\ j + 1 \in 1 .. m /\ 7 + j = i /\ 7 + (j + 1) = i + 1 /\ j < m
      BY <1>2, <1>5, <2>3
    <3>2. user[j] = 237 /\ user[j + 1] >= 160
      <4> HIDE DEF j, m
      <4>1. user[j] = r[i] /\ user[j + 1] = r[i + 1]
        BY <2>1, <3>1
      <4> QED BY <4>1
    <3>3. DOMAIN user = 1 .. m
      BY <1>1
    <3>4. Surrogates(user)
      <4>1. j \in DOMAIN user /\ user[j] = 237 /\ j < Len(user) /\ user[j + 1] >= 160
        BY <3>1, <3>2, <3>3
      <4> HIDE DEF j
      <4> QED BY <4>1, Zenon DEF Surrogates
    <3> QED BY <1>1, <3>4
  <2> QED BY <2>2, <2>3
<1>6. CASE i - (14 + m) \in 1 .. n
  <2> DEFINE o == 14 + m
             j == i - o
  <2>1. \A k \in 1 .. n : r[o + k] = password[k]
    BY DEF AmqplainLaid
  <2>2. /\ j \in 1 .. n /\ j + 1 \in 1 .. n /\ o + j = i /\ o + (j + 1) = i + 1 /\ j < n
    BY <1>2, <1>3, <1>6
  <2> HIDE DEF j, o
  <2>3. password[j] = 237 /\ password[j + 1] >= 160
    BY <2>1, <2>2
  <2>4. DOMAIN password = 1 .. n
    BY <1>1
  <2> QED BY <1>1, <2>2, <2>3, <2>4 DEF Surrogates
<1>7. CASE r[i] \in 0 .. 127 \/ r[i] = m \/ r[i] = n
  <2> HIDE DEF m, n
  <2> QED BY <1>2, <1>7
<1> HIDE DEF m, n
<1> QED BY <1>4, <1>5, <1>6, <1>7, Zenon

\* A login that is found is the one that was sent, and its response is a text.
LEMMA LoginWhole ==
    ASSUME WireInv, NEW n \in DOMAIN got, sent[n].name = "START_OK"
    PROVE  got[n] = sent[n] /\ Encodable(sent[n]) /\ Utf8(sent[n].args["response"])
<1> DEFINE f == got[n]
           g == sent[n]
<1>1. Seen(f) = Seen(g) /\ Readable(g.name, g.args)
  BY DEF WireInv, AsSent
<1>2. g \in Sendable
  <2>1. /\ Len(got) \in Nat /\ Len(sent) \in Nat /\ Len(got) <= Len(sent)
        /\ DOMAIN got = 1 .. Len(got)
    BY InFlight
  <2>2. sent \in Seq(Sendable)
    BY DEF WireInv
  <2>3. n \in 1 .. Len(sent)
    BY <2>1
  <2> QED BY <2>2, <2>3
<1>3. g.name = "START_OK"
  OBVIOUS
<1> HIDE DEF f, g
<1>4. Encodable(g) /\ g = [name |-> g.name, chan |-> g.chan, args |-> g.args]
  BY <1>2, SendableEncoded DEF Encodable
<1>5. "START_OK" \notin DOMAIN Unread
  BY DEF Unread
<1>6. Seen(f) = g
  BY <1>1, <1>3, <1>5 DEF Seen
<1>7. f.name \notin DOMAIN Unread
  <2> SUFFICES ASSUME f.name \in DOMAIN Unread PROVE FALSE
    OBVIOUS
  <2> DEFINE rest == [k \in DOMAIN f.args \ Unread[f.name] |-> f.args[k]]
  <2>1. g = [f EXCEPT !.args = rest]
    BY <1>6 DEF Seen
  <2> HIDE DEF rest
  <2>2. DOMAIN g = DOMAIN f /\ "name" \in DOMAIN g
    BY <1>4, <2>1
  <2>3. g.name = f.name
    BY <2>1, <2>2
  <2> QED BY <1>3, <1>5, <2>3
<1>8. f = g
  BY <1>6, <1>7 DEF Seen
<1>9. Utf8(g.args["response"])
  BY <1>1, <1>3 DEF Readable
<1> QED BY <1>4, <1>8, <1>9 DEF f, g

\* The response of a client: a text, but by AMQPLAIN for a user or a password of 128
\* bytes or more; and what is looked up of a text is what it was made of
\* (protocol.py:181-193).
LEMMA ResponseOf ==
    ASSUME NEW f, Encodable(f), NEW l \in Logins, Carries(f, l)
    PROVE  /\ Utf8(f.args["response"]) => check_start_ok(f.args) = l
           /\ ~Utf8(f.args["response"]) =>
                 /\ f.args["mechanism"] = AMQPLAIN
                 /\ Len(l.user) >= 128 \/ Len(l.password) >= 128
<1> DEFINE args == f.args
           mechanism == args["mechanism"]
           response == args["response"]
           user == l.user
           password == l.password
<1>1. user \in Credential /\ password \in Credential /\ l = Login(user, password)
  <2>1. l \in [user : Credential, password : Credential]
    BY WireAssumption, Zenon
  <2> QED BY <2>1 DEF Login
<1>2. /\ f.name = "START_OK" /\ mechanism \in {PLAIN, AMQPLAIN}
      /\ response = LoginResponse(mechanism, user, password)
  BY Zenon DEF Carries
<1>3. response \in Seq(Byte) /\ Fits(Len(response), 4)
  BY <1>2, ResponseFits, Zenon
<1>4. PLAIN # AMQPLAIN
  <2>1. PLAIN[1] = 80 /\ AMQPLAIN[1] = 65
    BY DEF PLAIN, AMQPLAIN
  <2> QED BY <2>1
<1> SUFFICES /\ Utf8(response) => check_start_ok(args) = Login(user, password)
             /\ ~Utf8(response) =>
                   mechanism = AMQPLAIN /\ (Len(user) >= 128 \/ Len(password) >= 128)
  BY <1>1, Zenon
<1> HIDE DEF args, user, password
<1>5. CASE mechanism = PLAIN
  <2>1. response = PlainText(user, password)
    BY <1>2, <1>5, Zenon DEF LoginResponse, PlainText
  <2> HIDE DEF response
  <2>2. SplitPlain(response) = Login(user, password) /\ Utf8(response)
    BY <1>1, <2>1, PlainParts, Zenon
  <2>3. check_start_ok(args) = SplitPlain(response)
    BY <1>4, <1>5 DEF check_start_ok, response
  <2> QED BY <2>2, <2>3, Zenon
<1>6. CASE mechanism = AMQPLAIN
  <2> DEFINE fields == AmqplainFields(response)
  <2>1. /\ user \in Str /\ password \in Str /\ user \in Seq(Byte) /\ password \in Seq(Byte)
        /\ Len(user) \in Byte /\ Len(password) \in Byte
    BY <1>1, CredentialType, Zenon
  <2>2. response = dumps(LoginFormat, LoginFields(user, password))
    BY <1>2, <1>4, <1>6, Zenon DEF LoginResponse, LoginFormat, LoginFields
  <2>3. fields = LoginFields(user, password)
    BY <1>1, <1>3, <2>2, AmqplainParts, Zenon DEF AmqplainFields, LoginFormat
  <2>4. AmqplainLaid(response, user, password)
    BY <2>1, <2>2, AmqplainResponse, Zenon
  <2>5. ~Surrogates(response) => check_start_ok(args) = Login(fields[3], fields[6])
    BY <1>4, <1>6 DEF check_start_ok, response
  <2> HIDE DEF fields, response
  <2>6. ASSUME Utf8(response) PROVE check_start_ok(args) = Login(user, password)
    <3>1. ~Surrogates(response)
      BY <1>1, <2>4, <2>6, AmqplainClean, Zenon
    <3>2. fields[3] = user /\ fields[6] = password
      BY <2>3 DEF LoginFields
    <3> QED BY <2>5, <3>1, <3>2, Zenon
  <2>7. ASSUME ~Utf8(response) PROVE Len(user) >= 128 \/ Len(password) >= 128
    <3>1. ~(Len(user) < 128 /\ Len(password) < 128)
      BY <2>1, <2>4, <2>7, AmqplainText, Zenon
    <3>2. Len(user) \in Nat /\ Len(password) \in Nat
      BY <2>1, LenProperties
    <3> QED BY <3>1, <3>2
  <2> QED BY <1>6, <2>6, <2>7, Zenon
<1> QED BY <1>2, <1>5, <1>6, Zenon

\* The credentials looked up are the client's (protocol.py:181-193), by either mechanism,
\* for any user and password the client can name (Credential), whatever the cuts.  A
\* login is not read by AMQPLAIN only, for a user or a password of 128 bytes or more
\* (serialization.py:282).
THEOREM WireLogin == WireSpec => []LoginAsSent
<1>1. WireInv => LoginAsSent
  <2> SUFFICES ASSUME WireInv PROVE LoginAsSent
    OBVIOUS
  <2>1. ASSUME NEW n \in DOMAIN got, NEW l \in Logins, Carries(sent[n], l)
        PROVE  check_start_ok(got[n].args) = l
    <3>1. sent[n].name = "START_OK"
      BY <2>1, Zenon DEF Carries
    <3>2. got[n] = sent[n] /\ Encodable(sent[n]) /\ Utf8(sent[n].args["response"])
      BY <3>1, LoginWhole, Zenon
    <3>3. check_start_ok(sent[n].args) = l
      BY <2>1, <3>2, ResponseOf, Zenon
    <3> QED BY <3>2, <3>3, Zenon
  <2>2. ASSUME read_frame(buffer) = UnicodeDecodeError, NEW l \in Logins,
               Carries(sent[Len(got) + 1], l)
        PROVE  LET f == sent[Len(got) + 1]
               IN /\ f.args["mechanism"] = AMQPLAIN
                  /\ Len(l.user) >= 128 \/ Len(l.password) >= 128
    <3> DEFINE k == Len(got) + 1
               f == sent[k]
    <3>1. k <= Len(sent) /\ ~Readable(f.name, f.args)
      <4> DEFINE r == read_frame(buffer)
      <4>1. r = UnicodeDecodeError
        BY <2>2
      <4>2. r # NoFrame /\ r.name = "UnicodeDecodeError"
        BY <4>1 DEF UnicodeDecodeError, NoFrame
      <4>3. \/ r = NoFrame
            \/ k <= Len(sent) /\ ~Readable(f.name, f.args)
            \/ r.name \notin {"None", "InvalidFrameError", "UnicodeDecodeError"}
        BY TurnFinds, Zenon
      <4> HIDE DEF r
      <4> QED BY <4>2, <4>3, Zenon
    <3>2. f \in Sendable
      <4>1. Len(got) \in Nat /\ Len(sent) \in Nat /\ sent \in Seq(Sendable)
        BY InFlight DEF WireInv
      <4>2. k \in 1 .. Len(sent)
        BY <3>1, <4>1
      <4> QED BY <4>1, <4>2
    <3> HIDE DEF f
    <3>3. Encodable(f)
      BY <3>2, SendableEncoded, Zenon
    <3>4. ~Utf8(f.args["response"])
      BY <3>1, Zenon DEF Readable
    <3>5. Carries(f, l)
      BY <2>2 DEF f
    <3>6. f.args["mechanism"] = AMQPLAIN /\ (Len(l.user) >= 128 \/ Len(l.password) >= 128)
      BY <3>3, <3>4, <3>5, ResponseOf, Zenon
    <3> QED BY <3>6 DEF f
  <2> QED BY <2>1, <2>2, Zenon DEF LoginAsSent
<1> QED BY <1>1, WireInvariant, PTL
=============================================================================

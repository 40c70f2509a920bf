---------------------------- MODULE HeardProofs ----------------------------
(***************************************************************************)
(* What a client makes of the bytes the server writes, for any replies and *)
(* deliveries: it hears each of them, with its values and in order, up to  *)
(* the first delivery with a header that cannot be packed.                 *)
(*                                                                         *)
(* Says(e, frames) is what makes this a proof about one thing at a time:   *)
(* bytes e are heard as the frames, whatever is written behind them.  It   *)
(* holds of a frame (FrameSays), so of each reply (ReplySays) and each     *)
(* part of a delivery (PostSays), and it adds up (SaysThen).  Behind the   *)
(* bytes of a frame that is broken off, only Starts(e, frames) is left.    *)
(***************************************************************************)
EXTENDS WireProofs

-----------------------------------------------------------------------------
(* Content headers, as the client writes them *)

\* What is written first does not change how the others are written
\* (serialization.py:344-384).
After(d, w) == [out |-> d \o w.out, bits |-> w.bits, bitcount |-> w.bitcount]

\* A turn of the loop of dumps adds to what is written and reads nothing of it
\* (serialization.py:344-384).
LEMMA TurnAfter ==
    ASSUME NEW d \in Seq(Byte), NEW w, Keeps(w), NEW p, NEW val, Taken(p, val)
    PROVE  DumpOne(After(d, w), p, val) = After(d, DumpOne(w, p, val))
<1>1. w.out \in Seq(Byte) /\ w.bits \in Seq(Byte)
  BY KeptBytes
<1>2. CASE p = "b"
  BY <1>2 DEF DumpOne, DumpBit, After
<1>3. CASE p # "b"
  <2> DEFINE a == w.out
             b == w.bits
             v == Dumped(p, val)
  <2>1. v \in Seq(Byte)
    BY <1>3, DumpedType, Zenon
  <2>2. a \in Seq(Byte) /\ b \in Seq(Byte)
    BY <1>1
  <2>3. DumpOne(w, p, val) = [out |-> (a \o b) \o v, bits |-> <<>>, bitcount |-> 0]
    BY <1>3 DEF DumpOne, flushbits
  <2>4. DumpOne(After(d, w), p, val)
          = [out |-> ((d \o a) \o b) \o v, bits |-> <<>>, bitcount |-> 0]
    BY <1>3 DEF DumpOne, flushbits, After
  <2> HIDE DEF a, b, v
  <2>5. ((d \o a) \o b) \o v = d \o ((a \o b) \o v)
    <3>1. (d \o a) \o b = d \o (a \o b)
      BY <2>2, AppendBytes
    <3>2. a \o b \in Seq(Byte)
      BY <2>2, ConcatProperties, Zenon
    <3>3. (d \o (a \o b)) \o v = d \o ((a \o b) \o v)
      BY <2>1, <3>2, AppendBytes
    <3> QED BY <3>1, <3>3
  <2> QED BY <2>3, <2>4, <2>5 DEF After
<1> QED BY <1>2, <1>3

\* st is s and then t, s is x and then t.
Joins(s, t, st) == st = s \o t
Ahead(x, t, s) == s = <<x>> \o t

\* Arguments that dumps takes, and the bytes they become.
Packable(f, v) == f \in Seq(Letters) /\ (\E S : v \in Seq(S)) /\ Arguments(f, v)
Become(f, v, d) == Packable(f, v) /\ d = dumps(f, v)

\* A number or a text in front of the other arguments (serialization.py:344-392).
LEMMA DumpsFirst ==
    ASSUME NEW p \in Letters, p # "b", NEW x, Taken(p, x), NEW g, NEW h, Packable(g, h),
           NEW k, Ahead(p, g, k), NEW l, Ahead(x, h, l)
    PROVE  Packable(k, l) /\ dumps(k, l) = Dumped(p, x) \o dumps(g, h)
<1> SUFFICES ASSUME NEW S, h \in Seq(S), g \in Seq(Letters), Arguments(g, h)
             PROVE  Packable(k, l) /\ dumps(k, l) = Dumped(p, x) \o dumps(g, h)
  BY DEF Packable
<1> DEFINE f == <<p>> \o g
           v == <<x>> \o h
           m == Len(h)
           d == Dumped(p, x)
           X == {x} \cup S
           a == <<p>>
           b == <<x>>
<1>1. /\ a \in Seq(Letters) /\ Len(a) = 1 /\ a[1] = p
      /\ b \in Seq(X) /\ Len(b) = 1 /\ b[1] = x
  OBVIOUS
<1>2. h \in Seq(X) /\ m \in Nat /\ m = Len(g)
  <2>1. h \in Seq(S) /\ S \subseteq X
    OBVIOUS
  <2> HIDE DEF X
  <2> QED BY <2>1 DEF Arguments
<1> HIDE DEF a, b, X
<1>3. /\ f \in Seq(Letters) /\ Len(f) = 1 + m /\ f[1] = p
      /\ \A i \in 1 .. m : f[1 + i] = g[i]
  <2>0. a \in Seq(Letters) /\ g \in Seq(Letters)
    BY <1>1
  <2>1. /\ a \o g \in Seq(Letters) /\ Len(a \o g) = Len(a) + Len(g)
        /\ \A i \in 1 .. Len(a) : (a \o g)[i] = a[i]
        /\ \A i \in 1 .. Len(g) : (a \o g)[Len(a) + i] = g[i]
    BY <2>0, JoinParts
  <2>2. f = a \o g
    BY DEF a
  <2> HIDE DEF f, m
  <2>3. /\ f \in Seq(Letters) /\ Len(f) = Len(a) + Len(g)
        /\ \A i \in 1 .. Len(a) : f[i] = a[i]
        /\ \A i \in 1 .. Len(g) : f[Len(a) + i] = g[i]
    BY <2>1, <2>2, Zenon
  <2>4. Len(f) = 1 + m /\ f[1] = p
    BY <1>1, <1>2, <2>3, 1 \in 1 .. 1
  <2>5. \A i \in 1 .. m : f[1 + i] = g[i]
    BY <1>1, <1>2, <2>3, Zenon
  <2> QED BY <2>3, <2>4, <2>5
<1>4. /\ v \in Seq(X) /\ Len(v) = 1 + m /\ v[1] = x
      /\ \A i \in 1 .. m : v[1 + i] = h[i]
  <2>0. b \in Seq(X) /\ h \in Seq(X)
    BY <1>1, <1>2
  <2>1. /\ b \o h \in Seq(X) /\ Len(b \o h) = Len(b) + Len(h)
        /\ \A i \in 1 .. Len(b) : (b \o h)[i] = b[i]
        /\ \A i \in 1 .. Len(h) : (b \o h)[Len(b) + i] = h[i]
    BY <2>0, JoinParts
  <2>2. v = b \o h
    BY DEF b
  <2> HIDE DEF v
  <2>3. /\ v \in Seq(X) /\ Len(v) = Len(b) + Len(h)
        /\ \A i \in 1 .. Len(b) : v[i] = b[i]
        /\ \A i \in 1 .. Len(h) : v[Len(b) + i] = h[i]
    BY <2>1, <2>2, Zenon
  <2>4. Len(v) = 1 + m /\ v[1] = x
    BY <1>1, <1>2, <2>3, 1 \in 1 .. 1
  <2>5. \A i \in 1 .. m : v[1 + i] = h[i]
    BY <1>1, <2>3, Zenon
  <2> QED BY <2>3, <2>4, <2>5
<1> HIDE DEF f, v
<1>5. Arguments(f, v)
  <2>1. ASSUME NEW n \in 1 .. (1 + m) - 8 PROVE \E i \in n .. n + 8 : f[i] # "b"
    <3>1. CASE n = 1
      BY <1>3, <3>1
    <3>2. CASE n # 1
      <4> DEFINE j == n - 1
      <4>1. j \in 1 .. Len(g) - 8 /\ n = 1 + j /\ j \in Nat
        BY <1>2, <3>2
      <4>2. PICK i \in j .. j + 8 : g[i] # "b"
        BY <4>1 DEF Arguments, EightBits
      <4> HIDE DEF j
      <4>3. i \in 1 .. m /\ 1 + i \in n .. n + 8
        BY <1>2, <4>1
      <4> QED BY <1>3, <4>2, <4>3
    <3> QED BY <3>1, <3>2
  <2>2. ASSUME NEW n \in 1 .. 1 + m PROVE Taken(f[n], v[n])
    <3>1. CASE n = 1
      BY <1>3, <1>4, <3>1
    <3>2. CASE n # 1
      <4> DEFINE j == n - 1
      <4>1. j \in 1 .. m /\ n = 1 + j
        BY <1>2, <3>2
      <4> HIDE DEF j
      <4>2. Taken(g[j], h[j])
        BY <1>2, <4>1 DEF Arguments
      <4> QED BY <1>3, <1>4, <4>1, <4>2
    <3> QED BY <3>1, <3>2
  <2> QED BY <1>3, <1>4, <2>1, <2>2 DEF Arguments, EightBits
<1>6. d \in Seq(Byte)
  BY DumpedType, Zenon
<1>7. PICK y : IsDump(y, g, h)
  BY DumpLoop
<1>8. PICK w : IsDump(w, f, v)
  BY <1>4, DumpLoop
<1>9. \A n \in 0 .. m : Keeps(y[n])
  BY <1>7, DumpKeeps DEF BitsKept
<1> HIDE DEF d
<1> DEFINE T == {n \in Nat : n <= m => w[1 + n] = After(d, y[n])}
<1>10. 0 \in T
  <2>1. w[1] = DumpOne(w[0], p, x)
    <3>1. 1 \in 1 .. Len(v) /\ 1 - 1 = 0
      BY <1>2, <1>4
    <3> QED BY <1>3, <1>4, <1>8, <3>1 DEF IsDump
  <2>2. w[0] = [out |-> <<>>, bits |-> <<>>, bitcount |-> 0]
    BY <1>8 DEF IsDump
  <2>3. w[1] = [out |-> (<<>> \o <<>>) \o d, bits |-> <<>>, bitcount |-> 0]
    BY <2>1, <2>2 DEF DumpOne, flushbits, d
  <2>4. (<<>> \o <<>>) \o d = d \o <<>>
    BY <1>6, ConcatEmptySeq
  <2>5. y[0] = [out |-> <<>>, bits |-> <<>>, bitcount |-> 0]
    BY <1>7 DEF IsDump
  <2>6. w[1] = After(d, y[0])
    BY <2>3, <2>4, <2>5 DEF After
  <2> QED BY <2>6
<1>11. ASSUME NEW n \in Nat, n \in T PROVE n + 1 \in T
  <2> SUFFICES ASSUME n + 1 <= m PROVE w[1 + (n + 1)] = After(d, y[n + 1])
    OBVIOUS
  <2> DEFINE i == n + 1
  <2>1. i \in 1 .. m /\ i - 1 = n /\ 1 + i \in 1 .. 1 + m /\ (1 + i) - 1 = 1 + n /\ n \in 0 .. m
    BY <1>2
  <2>2. w[1 + n] = After(d, y[n])
    BY <1>11, <2>1
  <2> HIDE DEF i
  <2>3. w[1 + i] = DumpOne(w[1 + n], f[1 + i], v[1 + i])
    BY <1>4, <1>8, <2>1 DEF IsDump
  <2>4. y[i] = DumpOne(y[n], g[i], h[i])
    BY <1>7, <2>1 DEF IsDump
  <2>5. Taken(g[i], h[i])
    BY <1>2, <2>1 DEF Arguments
  <2>6. DumpOne(After(d, y[n]), g[i], h[i]) = After(d, DumpOne(y[n], g[i], h[i]))
    BY <1>6, <1>9, <2>1, <2>5, TurnAfter
  <2>7. f[1 + i] = g[i] /\ v[1 + i] = h[i]
    BY <1>3, <1>4, <2>1
  <2>8. w[1 + i] = After(d, y[i])
    BY <2>2, <2>3, <2>4, <2>6, <2>7, Zenon
  <2> QED BY <2>8 DEF i
<1>12. Nat \subseteq T
  <2> HIDE DEF T
  <2> QED BY <1>10, <1>11, SetInduction
<1>13. w[1 + m] = After(d, y[m])
  BY <1>2, <1>12
<1> HIDE DEF T, m
<1> DEFINE s == y[m].out
           t == y[m].bits
<1>14. s \in Seq(Byte) /\ t \in Seq(Byte)
  BY <1>2, <1>9, KeptBytes
<1>15. dumps(g, h) = s \o t
  BY <1>7 DEF IsDump, flushbits, m
<1>16. dumps(f, v) = (d \o s) \o t
  <2>1. dumps(f, v) = flushbits(w[1 + m]).out
    BY <1>4, <1>8, Zenon DEF IsDump
  <2>2. flushbits(After(d, y[m])).out = (d \o s) \o t
    BY DEF flushbits, After
  <2> QED BY <1>13, <2>1, <2>2, Zenon
<1> HIDE DEF s, t
<1>17. (d \o s) \o t = d \o (s \o t)
  BY <1>6, <1>14, AppendBytes
<1>18. dumps(f, v) = d \o dumps(g, h)
  BY <1>15, <1>16, <1>17, Zenon
<1>19. f \in Seq(Letters) /\ v \in Seq(X) /\ Arguments(f, v) /\ dumps(f, v) = d \o dumps(g, h)
  BY <1>3, <1>4, <1>5, <1>18, Zenon
<1>20. k = f /\ l = v
  BY DEF Ahead, f, v
<1> QED BY <1>19, <1>20, Zenon DEF Packable, d

\* An argument in front of others is written in front of them (serialization.py:344-384).
LEMMA BecomeFirst ==
    ASSUME NEW p \in Letters, p # "b", NEW x, Taken(p, x), NEW g, NEW h, NEW d, Become(g, h, d),
           NEW k, Ahead(p, g, k), NEW l, Ahead(x, h, l), NEW e, Joins(Dumped(p, x), d, e)
    PROVE  Become(k, l, e)
<1>1. Packable(g, h) /\ d = dumps(g, h)
  BY Zenon DEF Become
<1>2. Packable(k, l) /\ dumps(k, l) = Dumped(p, x) \o dumps(g, h)
  BY <1>1, DumpsFirst, SMTT(60)
<1> QED BY <1>1, <1>2, Zenon DEF Become, Joins

\* Their lengths add up (serialization.py:339).
LEMMA JoinLength ==
    ASSUME NEW s \in Seq(Byte), NEW t \in Seq(Byte)
    PROVE  /\ s \o t \in Seq(Byte) /\ Len(s \o t) = Len(s) + Len(t)
           /\ Len(s) \in Nat /\ Len(t) \in Nat
  OBVIOUS

\* A method without arguments (sender.py:385-405).
LEMMA DumpsNone == dumps(<<>>, <<>>) = <<>>
<1>1. <<>> \in Seq({}) /\ Len(<<>>) = 0
  OBVIOUS
<1>2. PICK w : IsDump(w, <<>>, <<>>)
  BY <1>1, DumpLoop
<1>3. w[0] = [out |-> <<>>, bits |-> <<>>, bitcount |-> 0]
  BY <1>2 DEF IsDump
<1>4. dumps(<<>>, <<>>) = flushbits(w[0]).out
  BY <1>1, <1>2 DEF IsDump
<1>5. flushbits(w[0]).out = <<>> \o <<>>
  BY <1>3 DEF flushbits
<1>6. <<>> \o <<>> = <<>>
  OBVIOUS
<1> QED BY <1>4, <1>5, <1>6

\* The arguments of the server's methods are a few short ones (sender.py:40-351, 446-489).
LEMMA DumpsLength ==
    ASSUME NEW format \in Seq(Letters), Len(format) <= 5, NEW S, NEW values \in Seq(S),
           Arguments(format, values),
           \A n \in 1 .. Len(format) :
              format[n] # "b" => Len(Dumped(format[n], values[n])) <= 1000
    PROVE  Fits(4 + Len(dumps(format, values)), 4)
<1> DEFINE m == Len(values)
<1>1. PICK w : IsDump(w, format, values)
  BY DumpLoop, Zenon
<1>2. m \in Nat /\ m = Len(format) /\ m <= 5
  BY LenProperties DEF Arguments
<1>3. ASSUME NEW n \in 0 .. m
      PROVE  /\ Keeps(w[n]) /\ w[n].out \in Seq(Byte) /\ w[n].bits \in Seq(Byte)
             /\ Len(w[n].bits) <= 1
  <2>1. Keeps(w[n])
    BY <1>1, DumpKeeps DEF BitsKept
  <2>2. w[n].out \in Seq(Byte) /\ w[n].bits \in Seq(Byte)
    BY <2>1, KeptBytes
  <2> DEFINE b == w[n].bits
             c == w[n].bitcount
  <2>3. c \in 0 .. 8 /\ (c = 0 => b = <<>>) /\ (c > 0 => \E y \in Byte : b = <<y>>)
    BY <2>1 DEF Keeps
  <2> HIDE DEF b, c
  <2>4. Len(b) <= 1
    <3>1. CASE c = 0
      BY <2>3, <3>1
    <3>2. CASE c # 0
      <4>1. PICK y \in Byte : b = <<y>>
        BY <2>3, <3>2
      <4> QED BY <4>1
    <3> QED BY <3>1, <3>2
  <2> QED BY <2>1, <2>2, <2>4 DEF b
<1> DEFINE T == {n \in Nat : n <= m => Len(w[n].out) <= 1001 * n}
<1>4. 0 \in T
  <2>1. w[0].out = <<>>
    BY <1>1 DEF IsDump
  <2>2. Len(w[0].out) = 0
    BY <2>1
  <2> QED BY <2>2
<1>5. ASSUME NEW n \in Nat, n \in T PROVE n + 1 \in T
  <2> SUFFICES ASSUME n + 1 <= m PROVE Len(w[n + 1].out) <= 1001 * (n + 1)
    OBVIOUS
  <2> DEFINE u == w[n]
             a == u.out
             b == u.bits
             p == format[n + 1]
             v == values[n + 1]
             z == w[n + 1].out
             k == Len(a)
  <2>1. n \in 0 .. m /\ n + 1 \in 1 .. m /\ (n + 1) - 1 = n
    BY <1>2
  <2>2. w[n + 1] = DumpOne(u, p, v)
    BY <1>1, <2>1 DEF IsDump
  <2>3. a \in Seq(Byte) /\ b \in Seq(Byte) /\ Len(b) <= 1
    BY <1>3, <2>1
  <2>4. k <= 1001 * n
    BY <1>5, <2>1
  <2>5. Taken(p, v) /\ (p # "b" => Len(Dumped(p, v)) <= 1000)
    BY <1>2, <2>1 DEF Arguments
  <2>6. k \in Nat
    BY <2>3
  <2>7. CASE p = "b"
    <3>1. z = a
      BY <2>2, <2>7 DEF DumpOne, DumpBit
    <3> HIDE DEF k, z, a
    <3> QED BY <2>4, <2>6, <3>1 DEF k, z
  <2>8. CASE p # "b"
    <3> DEFINE d == Dumped(p, v)
    <3>1. d \in Seq(Byte)
      BY <2>5, <2>8, DumpedType, Zenon
    <3>2. z = (a \o b) \o d
      <4>1. DumpOne(u, p, v).out = (u.out \o u.bits) \o Dumped(p, v)
        BY <2>8 DEF DumpOne, flushbits
      <4> QED BY <2>2, <4>1, Zenon
    <3>3. Len(d) <= 1000
      BY <2>5, <2>8, Zenon
    <3> HIDE DEF d, z, a, b, k
    <3>4. a \o b \in Seq(Byte) /\ Len(a \o b) = Len(a) + Len(b)
      <4>1. a \in Seq(Byte) /\ b \in Seq(Byte)
        BY <2>3
      <4> QED BY <4>1, JoinLength, ZenonT(60)
    <3>5. Len((a \o b) \o d) = Len(a \o b) + Len(d)
      <4>1. a \o b \in Seq(Byte) /\ d \in Seq(Byte)
        BY <3>1, <3>4
      <4> QED BY <4>1, JoinLength, Zenon
    <3>6. Len(d) \in Nat /\ Len(b) \in Nat
      BY <2>3, <3>1
    <3>7. Len(z) = k + Len(b) + Len(d)
      BY <3>2, <3>4, <3>5 DEF k
    <3>8. Len(z) <= 1001 * (n + 1)
      BY <2>3, <2>4, <2>6, <3>3, <3>6, <3>7
    <3> QED BY <3>8 DEF z
  <2> QED BY <2>7, <2>8
<1>6. Nat \subseteq T
  <2> HIDE DEF T
  <2> QED BY <1>4, <1>5, SetInduction
<1> DEFINE a == w[m].out
           b == w[m].bits
<1>7. Len(a) <= 1001 * m
  BY <1>2, <1>6
<1>8. a \in Seq(Byte) /\ b \in Seq(Byte) /\ Len(b) <= 1
  BY <1>2, <1>3
<1>9. dumps(format, values) = a \o b
  <2>1. dumps(format, values) = flushbits(w[m]).out
    BY <1>1 DEF IsDump
  <2>2. flushbits(w[m]).out = w[m].out \o w[m].bits
    BY DEF flushbits
  <2> QED BY <2>1, <2>2, Zenon
<1> HIDE DEF a, b, m
<1>10. Len(a \o b) = Len(a) + Len(b)
  <2>1. a \in Seq(Byte) /\ b \in Seq(Byte)
    BY <1>8
  <2> QED BY <2>1, JoinLength, Zenon
<1>11. Len(a) \in Nat /\ Len(b) \in Nat
  BY <1>8
<1> DEFINE l == Len(dumps(format, values))
<1>12. l = Len(a) + Len(b)
  BY <1>9, <1>10
<1> HIDE DEF l
<1>13. 4 + l \in Nat /\ 4 + l <= 131072
  BY <1>2, <1>7, <1>8, <1>11, <1>12
<1> QED BY <1>13, FitsLong DEF l

\* Two bytes of which the first is 0 (sender.py:413-417).
LEMMA PackByte ==
    ASSUME NEW n \in Byte
    PROVE  pack(n, 2) = <<0, n>>
<1> DEFINE s == Shifted(n, 2)
<1>0. n \in Int /\ 2 \in Nat
  BY DEF Byte
<1>1. n \in 0 .. 255
  BY DEF Byte
<1>2. s[0] = n /\ \A k \in 1 .. 2 : s[k] = s[k - 1] \div 256
  <2> DEFINE w == 2
             t == Shifted(n, w)
  <2>1. n \in Int /\ w \in Nat
    BY <1>0
  <2> HIDE DEF w
  <2>2. t[0] = n
    BY <2>1, ShiftedDef
  <2>3. \A k \in 1 .. w : t[k] = t[k - 1] \div 256
    BY <2>1, ShiftedDef
  <2> QED BY <2>2, <2>3, Zenon DEF w
<1>3. s[1] = 0
  BY <1>1, <1>2, 1 \in 1 .. 2, SMT
<1>4. pack(n, 2) = [i \in 1 .. 2 |-> s[2 - i] % 256]
  BY DEF pack
<1> HIDE DEF s
<1>5. s[2 - 1] % 256 = 0 /\ s[2 - 2] % 256 = n
  BY <1>1, <1>2, <1>3
<1>6. ASSUME NEW i \in 1 .. 2 PROVE s[2 - i] % 256 = <<0, n>>[i]
  <2>1. i = 1 \/ i = 2
    OBVIOUS
  <2> QED BY <1>5, <2>1
<1> QED BY <1>4, <1>6

\* The server lays out a frame as the client does (sender.py:408-443, 498-533).
LEMMA SameFrame ==
    ASSUME NEW type \in Byte, NEW channel \in Byte, NEW payload \in Seq(Byte)
    PROVE  Frame(type, channel, payload) = ClientFrame(type, channel, payload)
<1>1. pack(channel, 2) = <<0, channel>>
  BY PackByte
<1>2. <<type>> \o <<0, channel>> = <<type, 0, channel>>
  <2> DEFINE a == <<type>>
             b == <<0, channel>>
             c == <<type, 0, channel>>
  <2>1. /\ a \in Seq(Byte) /\ Len(a) = 1 /\ a[1] = type
        /\ b \in Seq(Byte) /\ Len(b) = 2 /\ b[1] = 0 /\ b[2] = channel
        /\ c \in Seq(Byte) /\ Len(c) = 3 /\ c[1] = type /\ c[2] = 0 /\ c[3] = channel
    BY DEF Byte
  <2> HIDE DEF a, b, c
  <2>0. /\ a \o b \in Seq(Byte) /\ Len(a \o b) = Len(a) + Len(b)
        /\ \A i \in 1 .. Len(a) : (a \o b)[i] = a[i]
        /\ \A i \in 1 .. Len(b) : (a \o b)[Len(a) + i] = b[i]
    <3>1. a \in Seq(Byte) /\ b \in Seq(Byte)
      BY <2>1
    <3> QED BY <3>1, JoinParts
  <2>2. a \o b \in Seq(Byte) /\ Len(a \o b) = 3
    BY <2>0, <2>1
  <2>3. (a \o b)[1] = type /\ (a \o b)[2] = 0 /\ (a \o b)[3] = channel
    <3> DEFINE d == a \o b
    <3>1. /\ \A i \in 1 .. 1 : d[i] = a[i]
          /\ \A i \in 1 .. 2 : d[1 + i] = b[i]
      BY <2>0, <2>1, Zenon
    <3> HIDE DEF d
    <3>2. d[1] = a[1] /\ d[1 + 1] = b[1] /\ d[1 + 2] = b[2]
      BY <3>1
    <3>3. 1 + 1 = 2 /\ 1 + 2 = 3
      OBVIOUS
    <3> QED BY <2>1, <3>2, <3>3 DEF d
  <2>4. \A i \in 1 .. 3 : (a \o b)[i] = c[i]
    <3> TAKE i \in 1 .. 3
    <3>1. i = 1 \/ i = 2 \/ i = 3
      OBVIOUS
    <3> QED BY <2>1, <2>3, <3>1, Zenon
  <2> DEFINE d == a \o b
  <2>5. d \in Seq(Byte) /\ Len(d) = Len(c) /\ \A i \in 1 .. Len(d) : d[i] = c[i]
    BY <2>1, <2>2, <2>4, Zenon
  <2> HIDE DEF d
  <2>6. d = c
    BY <2>1, <2>5, SameParts, Zenon
  <2> QED BY <2>6 DEF a, b, c, d
<1>3. <<type>> \o pack(channel, 2) = <<type, 0, channel>>
  BY <1>1, <1>2
<1> QED BY <1>3, Zenon DEF Frame, ClientFrame


\* Only names that a property has matter (sender.py:511-516, method.py:86-89).
LEMMA SelectedSame ==
    ASSUME NEW table, Len(table) \in Nat, NEW A, NEW B,
           \A n \in 1 .. Len(table) : table[n][1] \in A <=> table[n][1] \in B
    PROVE  Selected(table, A) = Selected(table, B) /\ Flags(table, A) = Flags(table, B)
<1> DEFINE m == Len(table)
<1>1. PICK f : IsSelected(f, table, A)
  BY SelectedLoop
<1>2. PICK g : IsSelected(g, table, B)
  BY SelectedLoop
<1>3. PICK u : IsFlags(u, table, A)
  BY FlagsLoop
<1>4. PICK v : IsFlags(v, table, B)
  BY FlagsLoop
<1> DEFINE T == {n \in Nat : n <= m => f[n] = g[n] /\ u[n] = v[n]}
<1>5. 0 \in T
  BY <1>1, <1>2, <1>3, <1>4 DEF IsSelected, IsFlags
<1>6. ASSUME NEW n \in Nat, n \in T PROVE n + 1 \in T
  <2> SUFFICES ASSUME n + 1 <= m PROVE f[n + 1] = g[n + 1] /\ u[n + 1] = v[n + 1]
    OBVIOUS
  <2> DEFINE i == n + 1
  <2>1. i \in 1 .. m /\ i - 1 = n /\ f[n] = g[n] /\ u[n] = v[n]
    BY <1>6
  <2> HIDE DEF i
  <2>2. table[i][1] \in A <=> table[i][1] \in B
    BY <2>1
  <2>3. f[i] = g[i]
    BY <1>1, <1>2, <2>1, <2>2 DEF IsSelected
  <2>4. u[i] = v[i]
    BY <1>3, <1>4, <2>1, <2>2 DEF IsFlags
  <2> QED BY <2>3, <2>4 DEF i
<1>7. Nat \subseteq T
  <2> HIDE DEF T
  <2> QED BY <1>5, <1>6, SetInduction
<1>8. f[m] = g[m] /\ u[m] = v[m]
  BY <1>7
<1> QED BY <1>1, <1>2, <1>3, <1>4, <1>8 DEF IsSelected, IsFlags

\* In whichever order three parts are joined (serialization.py:339).
LEMMA JoinThree ==
    ASSUME NEW S, NEW x \in Seq(S), NEW y \in Seq(S), NEW z \in Seq(S)
    PROVE  (x \o y) \o z = x \o (y \o z)
  BY ConcatAssociative

\* One more argument behind others.
LEMMA OneBehind ==
    ASSUME NEW S, NEW p \in Seq(S), NEW x \in S, NEW q \in Seq(S),
           Len(q) = Len(p) + 1, q[Len(q)] = x, \A i \in 1 .. Len(p) : q[i] = p[i]
    PROVE  q = p \o <<x>>
<1>1. /\ Append(p, x) \in Seq(S) /\ Len(Append(p, x)) = Len(p) + 1
      /\ \A i \in 1 .. Len(p) : Append(p, x)[i] = p[i]
      /\ Append(p, x)[Len(p) + 1] = x
  BY AppendProperties
<1>2. Len(p) \in Nat
  OBVIOUS
<1> DEFINE r == Append(p, x)
<1>3. r = p \o <<x>>
  BY AppendIsConcat
<1> HIDE DEF r
<1>4. \A i \in 1 .. Len(r) : r[i] = q[i]
  BY <1>1, <1>2 DEF r
<1>5. r = q
  BY <1>1, <1>4, SameParts DEF r
<1> QED BY <1>3, <1>5, Zenon

\* The four arguments in front of the properties, one by one (sender.py:518-526).
LEMMA FourFirst ==
    ASSUME NEW S, NEW a \in S, NEW b \in S, NEW c \in S, NEW d \in S, NEW s \in Seq(S),
           NEW s1, Ahead(d, s, s1), NEW s2, Ahead(c, s1, s2),
           NEW s3, Ahead(b, s2, s3), NEW s4, Ahead(a, s3, s4)
    PROVE  <<a, b, c, d>> \o s = s4
<1> DEFINE p == <<a>>
           q == <<a, b>>
           r == <<a, b, c>>
           t == <<a, b, c, d>>
           B == <<b>>
           C == <<c>>
           D == <<d>>
<1>1. /\ p \in Seq(S) /\ q \in Seq(S) /\ r \in Seq(S) /\ t \in Seq(S)
      /\ B \in Seq(S) /\ C \in Seq(S) /\ D \in Seq(S)
  OBVIOUS
<1>2. /\ Len(p) = 1 /\ Len(q) = 2 /\ Len(r) = 3 /\ Len(t) = 4
      /\ p[1] = a /\ q[1] = a /\ q[2] = b /\ r[1] = a /\ r[2] = b /\ r[3] = c
      /\ t[1] = a /\ t[2] = b /\ t[3] = c /\ t[4] = d
  OBVIOUS
<1> HIDE DEF p, q, r, t
<1>3. q = p \o B
  <2>0. p \in Seq(S) /\ q \in Seq(S) /\ Len(q) = Len(p) + 1 /\ q[Len(q)] = b
    BY <1>1, <1>2
  <2>1. \A i \in 1 .. Len(p) : q[i] = p[i]
    BY <1>2
  <2> HIDE DEF p, q
  <2> QED BY <2>0, <2>1, OneBehind DEF B
<1>4. r = q \o C
  <2>0. q \in Seq(S) /\ r \in Seq(S) /\ Len(r) = Len(q) + 1 /\ r[Len(r)] = c
    BY <1>1, <1>2
  <2>1. \A i \in 1 .. 2 : r[i] = q[i]
    <3> TAKE i \in 1 .. 2
    <3>1. i = 1 \/ i = 2
      OBVIOUS
    <3> QED BY <1>2, <3>1, Zenon
  <2>2. \A i \in 1 .. Len(q) : r[i] = q[i]
    BY <1>2, <2>1, Zenon
  <2> HIDE DEF q, r
  <2> QED BY <2>0, <2>2, OneBehind DEF C
<1>0. t = r \o D
  <2>0. r \in Seq(S) /\ t \in Seq(S) /\ Len(t) = Len(r) + 1 /\ t[Len(t)] = d
    BY <1>1, <1>2
  <2>1. \A i \in 1 .. 3 : t[i] = r[i]
    <3> TAKE i \in 1 .. 3
    <3>1. i = 1 \/ i = 2 \/ i = 3
      OBVIOUS
    <3> QED BY <1>2, <3>1, Zenon
  <2>2. \A i \in 1 .. Len(r) : t[i] = r[i]
    BY <1>2, <2>1, Zenon
  <2> HIDE DEF r, t
  <2> QED BY <2>0, <2>2, OneBehind DEF D
<1> HIDE DEF B, C, D
<1> DEFINE u == D \o s
           v == C \o u
<1>5. D \in Seq(S) /\ u \in Seq(S)
  BY <1>1, ConcatProperties
<1> HIDE DEF u
<1>6. C \in Seq(S) /\ v \in Seq(S)
  BY <1>1, <1>5, ConcatProperties
<1> HIDE DEF v, p, q, r, t
<1>7. (r \o D) \o s = r \o u
  <2>1. r \in Seq(S) /\ D \in Seq(S)
    BY <1>1, Zenon
  <2>2. (r \o D) \o s = r \o (D \o s)
    BY <2>1, JoinThree, SMTT(60)
  <2> QED BY <2>2, Zenon DEF u
<1>8. (q \o C) \o u = q \o v
  <2>1. q \in Seq(S) /\ C \in Seq(S) /\ u \in Seq(S)
    BY <1>1, <1>5, Zenon
  <2>2. (q \o C) \o u = q \o (C \o u)
    BY <2>1, JoinThree, SMTT(60)
  <2> QED BY <2>2, Zenon DEF v
<1>9. (p \o B) \o v = p \o (B \o v)
  <2>1. p \in Seq(S) /\ B \in Seq(S) /\ v \in Seq(S)
    BY <1>1, <1>6, Zenon
  <2> QED BY <2>1, JoinThree, SMTT(60)
<1>10. t \o s = p \o (B \o v)
  BY <1>0, <1>3, <1>4, <1>7, <1>8, <1>9, Zenon
<1>11. s4 = p \o (B \o v)
  BY Zenon DEF Ahead, p, B, C, D, u, v
<1> QED BY <1>10, <1>11, Zenon DEF t

\* However they are joined (serialization.py:339).
LEMMA Regroup ==
    ASSUME NEW s \in Seq(Byte), NEW t \in Seq(Byte), NEW u \in Seq(Byte),
           NEW st, Joins(s, t, st), NEW tu, Joins(t, u, tu), NEW x, Joins(st, u, x)
    PROVE  Joins(s, tu, x) /\ st \in Seq(Byte) /\ tu \in Seq(Byte) /\ x \in Seq(Byte)
<1>1. (s \o t) \o u = s \o (t \o u)
  BY AppendBytes
<1>2. s \o t \in Seq(Byte) /\ t \o u \in Seq(Byte) /\ (s \o t) \o u \in Seq(Byte)
  BY ConcatProperties
<1> QED BY <1>1, <1>2, Zenon DEF Joins

\* Four numbers in front of other arguments (sender.py:518-526).
LEMMA DumpsFour ==
    ASSUME NEW p \in Letters, p # "b", NEW q \in Letters, q # "b",
           NEW a, NEW b, NEW c, NEW e, Taken(p, a), Taken(p, b), Taken(q, c), Taken(p, e),
           NEW g, NEW h, NEW d, Become(g, h, d),
           NEW g1, Ahead(p, g, g1), NEW g2, Ahead(q, g1, g2),
           NEW g3, Ahead(p, g2, g3), NEW g4, Ahead(p, g3, g4),
           NEW h1, Ahead(e, h, h1), NEW h2, Ahead(c, h1, h2),
           NEW h3, Ahead(b, h2, h3), NEW h4, Ahead(a, h3, h4),
           NEW d1, Joins(Dumped(p, e), d, d1), NEW d2, Joins(Dumped(q, c), d1, d2),
           NEW d3, Joins(Dumped(p, b), d2, d3), NEW d4, Joins(Dumped(p, a), d3, d4)
    PROVE  Become(g4, h4, d4)
<1>1. Become(g1, h1, d1)
  BY BecomeFirst
<1>2. Become(g2, h2, d2)
  BY <1>1, BecomeFirst
<1>3. Become(g3, h3, d3)
  BY <1>2, BecomeFirst
<1> QED BY <1>3, BecomeFirst

\* The four numbers in front of the properties of a content header.
HeaderWritten(size, flags, g, h) ==
    dumps(<<"B", "B", "L", "B">> \o g, <<60, 0, size, flags>> \o h)
      = <<0, 60, 0, 0>> \o pack(size, 8) \o pack(flags, 2) \o dumps(g, h)

\* The class, the weight, the size of the body and the flags come first, as the client
\* reads them (sender.py:518-526).
LEMMA DumpsHeader ==
    ASSUME NEW size \in Nat, Fits(size, 8), NEW flags \in Nat, Fits(flags, 2),
           NEW g, NEW h, Packable(g, h)
    PROVE  HeaderWritten(size, flags, g, h)
<1>1. /\ "B" \in Letters /\ "L" \in Letters /\ "B" # "b" /\ "L" # "b"
      /\ Taken("L", size) /\ Taken("B", flags) /\ Taken("B", 0) /\ Taken("B", 60)
  <2>1. Taken("B", 0) /\ Taken("B", 60)
    BY SmallTaken, SMT
  <2>2. Taken("L", size) /\ Taken("B", flags)
    BY DEF Taken
  <2> QED BY <2>1, <2>2 DEF Letters
<1>2. PICK S : h \in Seq(S)
  BY Zenon DEF Packable
<1>3. PICK d : Become(g, h, d)
  BY Zenon DEF Become
<1>4. g \in Seq(Letters) /\ Arguments(g, h) /\ d = dumps(g, h)
  BY <1>3, Zenon DEF Packable, Become
<1>5. PICK a, b, x, y : a = <<0, 60>> /\ b = <<0, 0>> /\ x = pack(size, 8) /\ y = pack(flags, 2)
  OBVIOUS
<1>6. /\ Dumped("B", 60) = a /\ Dumped("B", 0) = b
      /\ Dumped("B", flags) = y /\ Dumped("L", size) = x
  <2>1. 60 \in Byte /\ 0 \in Byte
    BY DEF Byte
  <2>2. pack(60, 2) = a /\ pack(0, 2) = b
    BY <1>5, <2>1, PackByte
  <2> QED BY <1>5, <2>2 DEF Dumped
<1>7. d \in Seq(Byte)
  BY <1>2, <1>4, DumpsType
<1>8. x \in Seq(Byte) /\ y \in Seq(Byte)
  <2>1. size \in Int /\ flags \in Int /\ 8 \in Nat /\ 2 \in Nat
    OBVIOUS
  <2> QED BY <1>5, <2>1, PackType
<1>9. a \in Seq(Byte) /\ b \in Seq(Byte) /\ <<0, 60, 0, 0>> = a \o b
      /\ <<0, 60, 0, 0>> \in Seq(Byte)
  <2>1. 60 \in Byte /\ 0 \in Byte
    BY DEF Byte
  <2>2. <<0, 60, 0, 0>> = a \o b
    BY <1>5
  <2>3. a \in Seq(Byte) /\ b \in Seq(Byte) /\ <<0, 60, 0, 0>> \in Seq(Byte)
    BY <1>5, <2>1
  <2> QED BY <2>2, <2>3
<1>10. PICK g1 : Ahead("B", g, g1)
  BY Zenon DEF Ahead
<1>11. PICK g2 : Ahead("L", g1, g2)
  BY Zenon DEF Ahead
<1>12. PICK g3 : Ahead("B", g2, g3)
  BY Zenon DEF Ahead
<1>13. PICK g4 : Ahead("B", g3, g4)
  BY Zenon DEF Ahead
<1>14. PICK h1 : Ahead(flags, h, h1)
  BY Zenon DEF Ahead
<1>15. PICK h2 : Ahead(size, h1, h2)
  BY Zenon DEF Ahead
<1>16. PICK h3 : Ahead(0, h2, h3)
  BY Zenon DEF Ahead
<1>17. PICK h4 : Ahead(60, h3, h4)
  BY Zenon DEF Ahead
<1>18. <<"B", "B", "L", "B">> \o g = g4
  <2>1. "B" \in Letters /\ "L" \in Letters /\ g \in Seq(Letters)
    BY <1>1, <1>4
  <2> QED BY <2>1, <1>10, <1>11, <1>12, <1>13, FourFirst
<1>19. <<60, 0, size, flags>> \o h = h4
  <2> DEFINE V == {60, 0, size, flags} \cup S
  <2>1. 60 \in V /\ 0 \in V /\ size \in V /\ flags \in V
    OBVIOUS
  <2>2. S \subseteq V
    OBVIOUS
  <2> HIDE DEF V
  <2>3. h \in Seq(V)
    BY <1>2, <2>2
  <2> QED BY <2>1, <2>3, <1>14, <1>15, <1>16, <1>17, FourFirst
<1>20. PICK d1 : Joins(y, d, d1)
  BY Zenon DEF Joins
<1>21. PICK d2 : Joins(x, d1, d2)
  BY Zenon DEF Joins
<1>22. PICK d3 : Joins(b, d2, d3)
  BY Zenon DEF Joins
<1>23. PICK z : z = <<0, 60, 0, 0>> /\ Joins(a, b, z)
  BY <1>9, Zenon DEF Joins
<1>24. PICK zx : Joins(z, x, zx)
  BY Zenon DEF Joins
<1>25. PICK zxy : Joins(zx, y, zxy)
  BY Zenon DEF Joins
<1>26. PICK all : Joins(zxy, d, all)
  BY Zenon DEF Joins
<1>27. Joins(a, d3, all)
  <2>1. z \in Seq(Byte)
    BY <1>9, <1>23, Zenon
  <2>2. zx \in Seq(Byte)
    BY <1>8, <1>24, <2>1, JoinLength DEF Joins
  <2>3. Joins(zx, d1, all) /\ d1 \in Seq(Byte)
    BY <1>7, <1>8, <1>20, <1>25, <1>26, <2>2, Regroup
  <2>4. Joins(z, d2, all) /\ d2 \in Seq(Byte)
    BY <1>8, <1>21, <1>24, <2>1, <2>3, Regroup
  <2>5. a \in Seq(Byte) /\ b \in Seq(Byte) /\ Joins(a, b, z)
    BY <1>9, <1>23
  <2> QED BY <1>22, <2>4, <2>5, Regroup
<1>28. Become(g4, h4, all)
  <2>1. /\ Joins(Dumped("B", flags), d, d1) /\ Joins(Dumped("L", size), d1, d2)
        /\ Joins(Dumped("B", 0), d2, d3) /\ Joins(Dumped("B", 60), d3, all)
    BY <1>6, <1>20, <1>21, <1>22, <1>27, Zenon
  <2> QED BY <1>1, <1>3, <1>10, <1>11, <1>12, <1>13, <1>14, <1>15, <1>16, <1>17, <2>1, DumpsFour
<1>29. all = <<0, 60, 0, 0>> \o pack(size, 8) \o pack(flags, 2) \o dumps(g, h)
  BY <1>4, <1>5, <1>23, <1>24, <1>25, <1>26, Zenon DEF Joins
<1> QED BY <1>18, <1>19, <1>28, <1>29, Zenon DEF Become, HeaderWritten

\* A content header that the sender writes is laid out as a client lays out the body
\* size and the properties that are kept (sender.py:503-530).
HeaderOf(headers, size) ==
    [body_size |-> size,
     properties |-> [k \in {q[1] : q \in ToSet(Kept(headers))} |-> headers[k][2]]]

\* A content header is the one a client would write with the properties that are kept:
\* the others leave no trace in the flags (sender.py:492-533).
LEMMA HeaderAsClient ==
    ASSUME NEW headers, \A k \in DOMAIN headers : headers[k] \in Given,
           ~HeaderRaises(headers), NEW size \in Nat, Fits(size, 4)
    PROVE  /\ HeaderArgs(HeaderOf(headers, size))
           /\ ContentHeader(headers, size) = ClientHeader(HeaderOf(headers, size))
<1> DEFINE given == DOMAIN headers
           kept == Kept(headers)
           l == Len(kept)
           E == {PROPERTIES[m] : m \in 1 .. 14}
           names == {q[1] : q \in ToSet(kept)}
           props == [k \in names |-> headers[k][2]]
           args == HeaderOf(headers, size)
<1>1. Len(PROPERTIES) = 14 /\ Len(PROPERTIES) \in Nat
  BY PropertyTable
<1>2. kept = Selected(PROPERTIES, given)
  BY SameTables DEF Kept
<1>3. Found(kept, PROPERTIES, given, 14)
  <2>1. Found(Selected(PROPERTIES, given), PROPERTIES, given, 14)
    BY <1>1, SelectedFound
  <2> HIDE DEF kept, given
  <2> QED BY <1>2, <2>1
<1>4. \A p \in ToSet(kept) : Packs(p[2], headers[p[1]])
  BY DEF HeaderRaises
<1>5. args.body_size = size /\ args.properties = props
      /\ args = [body_size |-> args.body_size, properties |-> args.properties]
  BY DEF HeaderOf
<1> HIDE DEF kept, E, args
<1>6. /\ kept \in Seq(E) /\ DOMAIN kept = 1 .. l /\ l \in Nat
      /\ \A i \in 1 .. l : \E m \in 1 .. 14 : kept[i] = PROPERTIES[m] /\ PROPERTIES[m][1] \in given
      /\ \A m \in 1 .. 14 : PROPERTIES[m][1] \in given => \E i \in 1 .. l : kept[i] = PROPERTIES[m]
  <2>1. kept \in Seq(E)
    BY <1>1, <1>3 DEF Found, E
  <2>2. DOMAIN kept = 1 .. l /\ l \in Nat
    BY <2>1, LenProperties
  <2> QED BY <1>1, <1>3, <2>1, <2>2 DEF Found
<1>7. ToSet(kept) = {kept[i] : i \in 1 .. l}
  BY <1>6 DEF ToSet
<1> HIDE DEF l
<1>8. \A k \in names : \E m \in 1 .. 14 :
          PROPERTIES[m][1] = k /\ k \in given /\ Packs(PROPERTIES[m][2], headers[k])
  <2> SUFFICES ASSUME NEW k \in names
               PROVE  \E m \in 1 .. 14 : PROPERTIES[m][1] = k /\ k \in given
                                          /\ Packs(PROPERTIES[m][2], headers[k])
    OBVIOUS
  <2>1. PICK q \in ToSet(kept) : k = q[1]
    OBVIOUS
  <2>2. PICK i \in 1 .. l : q = kept[i]
    BY <1>7, <2>1
  <2>3. PICK m \in 1 .. 14 : kept[i] = PROPERTIES[m] /\ PROPERTIES[m][1] \in given
    BY <1>6, <2>2
  <2>4. Packs(q[2], headers[q[1]])
    BY <1>4, <2>1
  <2> QED BY <2>1, <2>2, <2>3, <2>4
<1>9. \A m \in 1 .. 14 : PROPERTIES[m][1] \in given <=> PROPERTIES[m][1] \in names
  <2>1. ASSUME NEW m \in 1 .. 14, PROPERTIES[m][1] \in given PROVE PROPERTIES[m][1] \in names
    <3>1. PICK i \in 1 .. l : kept[i] = PROPERTIES[m]
      BY <1>6, <2>1
    <3>2. kept[i] \in ToSet(kept)
      BY <1>7, <3>1
    <3> QED BY <3>1, <3>2
  <2>2. ASSUME NEW m \in 1 .. 14, PROPERTIES[m][1] \in names PROVE PROPERTIES[m][1] \in given
    BY <1>8, <2>2
  <2> QED BY <2>1, <2>2
<1> HIDE DEF names
<1>10. /\ kept = Selected(PROPERTIES, names)
       /\ Flags(sender_PROPERTIES, given) = Flags(PROPERTIES, names)
  <2>1. /\ Selected(PROPERTIES, given) = Selected(PROPERTIES, names)
        /\ Flags(PROPERTIES, given) = Flags(PROPERTIES, names)
    <3> HIDE DEF given
    <3> QED BY <1>1, <1>9, SelectedSame
  <2> QED BY <1>2, <2>1, SameTables, Zenon
<1>11. DOMAIN props = names
  OBVIOUS
<1>12. HeaderArgs(args)
  <2>1. Fits(size, 8)
    BY FitsWider
  <2>2. props = [k \in DOMAIN props |-> props[k]]
    OBVIOUS
  <2>3. ASSUME NEW k \in names
        PROVE  \E m \in 1 .. 14 : PROPERTIES[m][1] = k /\ Taken(PROPERTIES[m][2], props[k])
    <3>1. PICK m \in 1 .. 14 :
              PROPERTIES[m][1] = k /\ k \in given /\ Packs(PROPERTIES[m][2], headers[k])
      BY <1>8, <2>3
    <3>2. headers[k] \in Given /\ PROPERTIES[m][2] \in {"s", "F", "o", "L"}
      BY <3>1, PropertyTable
    <3>3. Taken(PROPERTIES[m][2], headers[k][2])
      BY <3>1, <3>2, PacksTaken
    <3> QED BY <3>1, <3>3
  <2> HIDE DEF props
  <2> QED BY <1>5, <1>11, <2>1, <2>2, <2>3 DEF HeaderArgs
<1> DEFINE g == HeaderFormat(names)
           h == HeaderValues(props)
           flags == Flags(PROPERTIES, names)
<1>13. [i \in DOMAIN kept |-> kept[i][2]] = g
  BY <1>10, Zenon DEF HeaderFormat
<1>14. [i \in DOMAIN kept |-> headers[kept[i][1]][2]] = h
  <2>1. h = [i \in DOMAIN kept |-> props[kept[i][1]]]
    BY <1>10, <1>11 DEF HeaderValues
  <2>2. ASSUME NEW i \in DOMAIN kept PROVE props[kept[i][1]] = headers[kept[i][1]][2]
    <3>1. kept[i][1] \in names
      BY <1>6, <1>7, <2>2 DEF names
    <3> QED BY <3>1
  <2> HIDE DEF props, h
  <2> QED BY <2>1, <2>2
<1>15. Packable(g, h)
  <2>1. /\ HeaderFormat(DOMAIN args.properties) \in Seq(Letters)
        /\ HeaderValues(args.properties)
             \in Seq({args.properties[k] : k \in DOMAIN args.properties})
        /\ Arguments(HeaderFormat(DOMAIN args.properties), HeaderValues(args.properties))
    BY <1>12, HeaderArguments, ZenonT(60)
  <2>2. args.properties = props /\ DOMAIN args.properties = names
    BY <1>5, <1>11
  <2> HIDE DEF props
  <2> QED BY <2>1, <2>2, Zenon DEF Packable
<1>16. flags \in Nat /\ Fits(flags, 2)
  <2>1. flags \in Nat /\ flags < 65536
    BY MaskInSum
  <2> QED BY <2>1, FitsShort
<1>17. Fits(size, 8)
  BY FitsWider
<1>18. ContentHeader(headers, size)
         = dumps(<<"B", "B", "L", "B">> \o g, <<60, 0, size, flags>> \o h)
  BY <1>10, <1>13, <1>14 DEF ContentHeader, kept
<1>19. ClientHeader(args)
         = <<0, 60, 0, 0>> \o pack(size, 8) \o pack(flags, 2) \o dumps(g, h)
  <2>1. /\ args.properties = props /\ DOMAIN args.properties = names /\ args.body_size = size
    BY <1>5, <1>11
  <2> HIDE DEF props
  <2> QED BY <2>1, Zenon DEF ClientHeader, HeaderFormat, HeaderValues
<1> HIDE DEF g, h, flags
<1>20. HeaderWritten(size, flags, g, h)
  BY <1>15, <1>16, <1>17, DumpsHeader, Zenon
<1>21. ContentHeader(headers, size) = ClientHeader(args)
  BY <1>18, <1>19, <1>20, Zenon DEF HeaderWritten
<1> QED BY <1>12, <1>21 DEF args

-----------------------------------------------------------------------------
(* What the client hears *)

\* A number that is read is not negative (serialization.py:128-143).
LEMMA UnpackNat ==
    ASSUME NEW bytes \in Seq(Byte)
    PROVE  unpack(bytes) \in Nat
<1> DEFINE m == Len(bytes)
<1>0. \A x \in Byte : x \in Nat /\ x \in Int
  BY DEF Byte
<1>1. m \in Nat /\ \A k \in 1 .. m : bytes[k] \in Nat
  <2>1. m \in Nat /\ \A k \in 1 .. m : bytes[k] \in Byte
    OBVIOUS
  <2> QED BY <1>0, <2>1
<1>2. bytes \in Seq(Int)
  BY <1>0
<1>3. PICK f : /\ f[0] = 0 /\ f[m] = unpack(bytes)
               /\ \A k \in 1 .. m : f[k] = 256 * f[k - 1] + bytes[k]
  BY <1>2, UnpackDef
<1> HIDE DEF m
<1> DEFINE T == {k \in Nat : k <= m => f[k] \in Nat}
<1>4. 0 \in T
  BY <1>3
<1>5. ASSUME NEW k \in Nat, k \in T PROVE k + 1 \in T
  <2> SUFFICES ASSUME k + 1 <= m PROVE f[k + 1] \in Nat
    OBVIOUS
  <2>1. k + 1 \in 1 .. m /\ (k + 1) - 1 = k /\ f[k] \in Nat
    BY <1>1, <1>5
  <2>2. f[k + 1] = 256 * f[k] + bytes[k + 1] /\ bytes[k + 1] \in Nat
    BY <1>1, <1>3, <2>1
  <2> QED BY <2>1, <2>2
<1>6. Nat \subseteq T
  <2> HIDE DEF T
  <2> QED BY <1>4, <1>5, SetInduction
<1> QED BY <1>1, <1>3, <1>6

\* Bytes that begin with a frame, as far as its size tells.
Whole(bytes) ==
    /\ ~(Len(bytes) < FRAME_HEADER_SIZE) /\ frame_size(bytes) <= Len(bytes)
    /\ bytes[frame_size(bytes)] = FRAME_END

\* A frame takes eight bytes or more (frame.py:24-36).
LEMMA SizeOfFrame ==
    ASSUME NEW bytes \in Seq(Byte), ~(Len(bytes) < FRAME_HEADER_SIZE)
    PROVE  frame_size(bytes) \in Nat /\ 8 <= frame_size(bytes)
<1> DEFINE b == Bytes(bytes, 3, 4)
<1>1. b \in Seq(Byte)
  <2>1. 7 <= Len(bytes)
    BY DEF FRAME_HEADER_SIZE
  <2> QED BY <2>1 DEF Bytes
<1>2. unpack(b) \in Nat
  <2> HIDE DEF b
  <2> QED BY <1>1, UnpackNat
<1> QED BY <1>2 DEF frame_size, FRAME_HEADER_SIZE, FRAME_END_SIZE

\* The last n of some bytes.
Behind(bytes, n) == SubSeq(bytes, Len(bytes) - n + 1, Len(bytes))

\* What is left of a stream: its last n bytes.
LEMMA BehindParts ==
    ASSUME NEW bytes \in Seq(Byte), NEW n \in 0 .. Len(bytes)
    PROVE  /\ Behind(bytes, n) \in Seq(Byte) /\ Len(Behind(bytes, n)) = n
           /\ \A i \in 1 .. n : Behind(bytes, n)[i] = bytes[Len(bytes) - n + i]
<1> DEFINE b == Behind(bytes, n)
           m == Len(bytes)
<1>1. m \in Nat /\ n \in Nat /\ n <= m
  OBVIOUS
<1>2. b \in Seq(Byte)
  BY DEF Behind
<1>3. Len(b) = n /\ \A i \in 1 .. n : b[i] = bytes[(m - n + 1) + i - 1]
  BY DEF Behind
<1> HIDE DEF b, m
<1>4. \A i \in 1 .. n : (m - n + 1) + i - 1 = m - n + i
  BY <1>1
<1> QED BY <1>2, <1>3, <1>4 DEF b, m

\* What is left of what is left.
LEMMA BehindBehind ==
    ASSUME NEW bytes \in Seq(Byte), NEW n \in 0 .. Len(bytes), NEW k \in 0 .. n
    PROVE  Behind(Behind(bytes, n), k) = Behind(bytes, k)
<1> DEFINE b == Behind(bytes, n)
           c == Behind(bytes, k)
           d == Behind(b, k)
           m == Len(bytes)
<1>1. m \in Nat /\ n \in Nat /\ k \in Nat /\ k <= n /\ n <= m /\ k \in 0 .. Len(bytes)
  OBVIOUS
<1>2. b \in Seq(Byte) /\ Len(b) = n /\ \A i \in 1 .. n : b[i] = bytes[m - n + i]
  BY BehindParts
<1>3. c \in Seq(Byte) /\ Len(c) = k /\ \A i \in 1 .. k : c[i] = bytes[m - k + i]
  BY <1>1, BehindParts
<1> HIDE DEF b, c
<1>4. d \in Seq(Byte) /\ Len(d) = k /\ \A i \in 1 .. k : d[i] = b[n - k + i]
  <2>1. k \in 0 .. Len(b)
    BY <1>1, <1>2
  <2> QED BY <1>2, <2>1, BehindParts
<1> HIDE DEF d, m
<1>5. \A i \in 1 .. k : d[i] = c[i]
  <2> TAKE i \in 1 .. k
  <2>1. n - k + i \in 1 .. n /\ m - n + (n - k + i) = m - k + i
    BY <1>1
  <2> QED BY <1>2, <1>3, <1>4, <2>1
<1>6. d = c
  BY <1>3, <1>4, <1>5, SameParts
<1> QED BY <1>6 DEF d, c, b

\* The client reads one frame after the other (protocol.py:103-110 on its side).
HearsAt(h, rest, n) ==
    IF Whole(rest) THEN <<HeardFrame(rest)>> \o h[n - frame_size(rest)] ELSE <<>>

Hears(h, bytes) ==
    \A n \in 0 .. Len(bytes) : h[n] = HearsAt(h, Behind(bytes, n), n)

\* The loop of Heard reads a frame and goes on behind it.
LEMMA HeardLoop ==
    ASSUME NEW bytes \in Seq(Byte)
    PROVE  \E h : Hears(h, bytes) /\ h[Len(bytes)] = Heard(bytes)
<1> DEFINE m == Len(bytes)
           B(n) == SubSeq(bytes, Len(bytes) - n + 1, Len(bytes))
           z(n) == frame_size(B(n))
           Piece(f, n) == IF n < FRAME_HEADER_SIZE THEN <<>>
                         ELSE IF z(n) > n \/ B(n)[z(n)] # FRAME_END THEN <<>>
                         ELSE <<HeardFrame(B(n))>> \o f[n - z(n)]
           Rec(f, k) == f = [n \in 0 .. k |-> Piece(f, n)]
           T == {k \in Nat : k <= m => \E f : Rec(f, k)}
<1>1. Heard(bytes) = (CHOOSE f : Rec(f, m))[m]
  BY DEF Heard
<1>2. m \in Nat
  OBVIOUS
<1>3. \A n \in 0 .. m : B(n) = Behind(bytes, n) /\ Len(B(n)) = n
                         /\ (~(n < FRAME_HEADER_SIZE) => z(n) \in Nat /\ 8 <= z(n))
  <2> SUFFICES ASSUME NEW n \in 0 .. m
               PROVE  B(n) = Behind(bytes, n) /\ Len(B(n)) = n
                      /\ (~(n < FRAME_HEADER_SIZE) => z(n) \in Nat /\ 8 <= z(n))
    OBVIOUS
  <2>1. B(n) = Behind(bytes, n)
    BY DEF Behind
  <2> DEFINE b == Behind(bytes, n)
  <2>2. b \in Seq(Byte) /\ Len(b) = n
    BY BehindParts
  <2> HIDE DEF b
  <2>3. ~(n < FRAME_HEADER_SIZE) => frame_size(b) \in Nat /\ 8 <= frame_size(b)
    BY <2>2, SizeOfFrame
  <2> QED BY <2>1, <2>2, <2>3 DEF b
<1> HIDE DEF B, m
<1>4. ASSUME NEW f, NEW g, NEW n \in 0 .. m, \A i \in 0 .. n - 1 : f[i] = g[i]
      PROVE  Piece(f, n) = Piece(g, n)
  <2>1. CASE n < FRAME_HEADER_SIZE \/ z(n) > n
    BY <2>1
  <2>2. CASE ~(n < FRAME_HEADER_SIZE) /\ ~(z(n) > n)
    <3>1. n - z(n) \in 0 .. n - 1
      BY <1>2, <1>3, <2>2
    <3>2. f[n - z(n)] = g[n - z(n)]
      BY <1>4, <3>1
    <3> HIDE DEF z
    <3> QED BY <3>2
  <2> QED BY <2>1, <2>2
<1> HIDE DEF Piece
<1>5. 0 \in T
  <2> DEFINE e == [n \in 0 .. 0 |-> Piece(<<>>, n)]
  <2>1. Piece(e, 0) = Piece(<<>>, 0)
    <3>1. 0 \in 0 .. m /\ \A i \in 0 .. 0 - 1 : e[i] = <<>>[i]
      BY <1>2
    <3> HIDE DEF e
    <3> QED BY <1>4, <3>1
  <2>2. e = [n \in 0 .. 0 |-> Piece(e, n)]
    <3>1. \A n \in 0 .. 0 : n = 0
      OBVIOUS
    <3>2. e[0] = Piece(<<>>, 0)
      OBVIOUS
    <3> HIDE DEF e
    <3>3. \A n \in 0 .. 0 : Piece(e, n) = Piece(<<>>, n)
      BY <2>1, <3>1
    <3> QED BY <3>3, Zenon DEF e
  <2> HIDE DEF e
  <2> QED BY <2>2
<1>6. ASSUME NEW k \in Nat, k \in T PROVE k + 1 \in T
  <2> SUFFICES ASSUME k + 1 <= m PROVE \E f : Rec(f, k + 1)
    OBVIOUS
  <2>1. PICK f : Rec(f, k)
    <3>1. k <= m
      BY <1>2
    <3>2. k \in {j \in Nat : j <= m => \E f : Rec(f, j)}
      BY <1>6, Zenon
    <3> HIDE DEF Rec
    <3>3. \E f : Rec(f, k)
      BY <3>1, <3>2
    <3> QED BY <3>3
  <2> DEFINE g == [n \in 0 .. k + 1 |-> IF n = k + 1 THEN Piece(f, k + 1) ELSE f[n]]
  <2>2. \A n \in 0 .. k : g[n] = f[n] /\ f[n] = Piece(f, n)
    <3> TAKE n \in 0 .. k
    <3>1. n \in 0 .. k + 1 /\ n # k + 1
      OBVIOUS
    <3>2. g[n] = f[n]
      BY <3>1, Zenon
    <3>3. f[n] = Piece(f, n)
      BY <2>1, Zenon
    <3> QED BY <3>2, <3>3
  <2>3. g[k + 1] = Piece(f, k + 1)
    OBVIOUS
  <2>4. g = [n \in 0 .. k + 1 |-> g[n]]
    OBVIOUS
  <2> HIDE DEF g
  <2>5. \A n \in 0 .. k + 1 : g[n] = Piece(g, n)
    <3> TAKE n \in 0 .. k + 1
    <3>1. n \in 0 .. m /\ \A i \in 0 .. n - 1 : g[i] = f[i]
      BY <1>2, <2>2
    <3>2. Piece(f, n) = Piece(g, n)
      BY <1>4, <3>1
    <3>3. g[n] = Piece(f, n)
      <4>1. n \in 0 .. k \/ n = k + 1
        OBVIOUS
      <4> QED BY <2>2, <2>3, <4>1
    <3> QED BY <3>2, <3>3
  <2>6. Rec(g, k + 1)
    BY <2>4, <2>5, Zenon
  <2> QED BY <2>6
<1>7. Nat \subseteq T
  <2> HIDE DEF T
  <2> QED BY <1>5, <1>6, SetInduction
<1> DEFINE h == CHOOSE f : Rec(f, m)
<1>8. Rec(h, m)
  <2>1. \E f : Rec(f, m)
    BY <1>2, <1>7
  <2> HIDE DEF Rec
  <2> QED BY <2>1
<1>9. Heard(bytes) = h[m]
  BY <1>1 DEF Piece
<1> HIDE DEF h
<1>10. \A n \in 0 .. m : h[n] = HearsAt(h, Behind(bytes, n), n)
  <2> TAKE n \in 0 .. m
  <2>1. h[n] = Piece(h, n)
    BY <1>8
  <2> DEFINE b == B(n)
  <2>2. b = Behind(bytes, n) /\ Len(b) = n
        /\ (~(n < FRAME_HEADER_SIZE) => frame_size(b) \in Nat)
    BY <1>3
  <2> HIDE DEF b
  <2>3. Piece(h, n) = IF n < FRAME_HEADER_SIZE THEN <<>>
                     ELSE IF frame_size(b) > n \/ b[frame_size(b)] # FRAME_END THEN <<>>
                     ELSE <<HeardFrame(b)>> \o h[n - frame_size(b)]
    BY DEF Piece, b
  <2>4. HearsAt(h, b, n) = IF n < FRAME_HEADER_SIZE THEN <<>>
                     ELSE IF frame_size(b) > n \/ b[frame_size(b)] # FRAME_END THEN <<>>
                     ELSE <<HeardFrame(b)>> \o h[n - frame_size(b)]
    BY <2>2, n \in Nat DEF HearsAt, Whole
  <2> QED BY <2>1, <2>2, <2>3, <2>4
<1> QED BY <1>9, <1>10 DEF Hears, m

\* At first nothing has been read.
LEMMA BehindAll ==
    ASSUME NEW bytes \in Seq(Byte)
    PROVE  Behind(bytes, Len(bytes)) = bytes
<1> DEFINE m == Len(bytes)
           b == Behind(bytes, m)
<1>1. m \in Nat /\ m \in 0 .. Len(bytes)
  OBVIOUS
<1>2. b \in Seq(Byte) /\ Len(b) = m /\ \A i \in 1 .. m : b[i] = bytes[m - m + i]
  BY <1>1, BehindParts
<1> HIDE DEF b
<1>3. \A i \in 1 .. m : b[i] = bytes[i]
  <2> TAKE i \in 1 .. m
  <2> HIDE DEF m
  <2>1. m - m + i = i
    BY <1>1
  <2> QED BY <1>2, <2>1
<1>4. b = bytes
  BY <1>2, <1>3, SameParts
<1> QED BY <1>4 DEF b

\* What follows in the stream does not depend on how much was read before.
LEMMA HearsStep ==
    ASSUME NEW rest \in Seq(Byte), NEW h, NEW g, \A i \in 0 .. Len(rest) - 1 : h[i] = g[i]
    PROVE  HearsAt(h, rest, Len(rest)) = HearsAt(g, rest, Len(rest))
<1> DEFINE n == Len(rest)
           z == frame_size(rest)
<1>1. CASE Whole(rest)
  <2>1. z \in Nat /\ 8 <= z /\ z <= n /\ n \in Nat
    BY <1>1, SizeOfFrame DEF Whole
  <2> HIDE DEF n, z
  <2>2. n - z \in 0 .. n - 1
    BY <2>1
  <2>3. h[n - z] = g[n - z]
    BY <2>2 DEF n
  <2> QED BY <1>1, <2>3, Zenon DEF HearsAt, n, z
<1>2. CASE ~Whole(rest)
  BY <1>2 DEF HearsAt
<1> QED BY <1>1, <1>2

\* So a part of the stream is heard alike on its own.
LEMMA HearsSame ==
    ASSUME NEW bytes \in Seq(Byte), NEW n \in 0 .. Len(bytes), NEW h, Hears(h, bytes),
           NEW g, Hears(g, Behind(bytes, n))
    PROVE  g[n] = h[n]
<1> DEFINE T == {k \in Nat : k <= n => \A j \in 0 .. k : g[j] = h[j]}
           rest == Behind(bytes, n)
<1>0. n \in Nat /\ Len(bytes) \in Nat /\ rest \in Seq(Byte) /\ Len(rest) = n
  BY BehindParts
<1>1. ASSUME NEW k \in 0 .. n, \A j \in 0 .. k - 1 : g[j] = h[j] PROVE g[k] = h[k]
  <2> DEFINE b == Behind(bytes, k)
  <2>1. k \in 0 .. Len(bytes) /\ k \in 0 .. Len(rest)
    BY <1>0
  <2>2. b \in Seq(Byte) /\ Len(b) = k
    BY <2>1, BehindParts
  <2>3. Behind(rest, k) = b
    BY BehindBehind
  <2>4. h[k] = HearsAt(h, b, k)
    BY <2>1 DEF Hears
  <2>5. g[k] = HearsAt(g, b, k)
    BY <2>1, <2>3 DEF Hears
  <2> HIDE DEF b
  <2>6. \A i \in 0 .. Len(b) - 1 : g[i] = h[i]
    BY <1>1, <2>2
  <2>7. HearsAt(g, b, Len(b)) = HearsAt(h, b, Len(b))
    BY <2>2, <2>6, HearsStep
  <2> QED BY <2>2, <2>4, <2>5, <2>7, Zenon
<1>2. 0 \in T
  <2>1. 0 \in 0 .. n /\ \A j \in 0 .. 0 - 1 : g[j] = h[j]
    BY <1>0
  <2>2. g[0] = h[0]
    BY <1>1, <2>1
  <2>3. \A j \in 0 .. 0 : j = 0
    OBVIOUS
  <2> QED BY <2>2, <2>3
<1>3. ASSUME NEW k \in Nat, k \in T PROVE k + 1 \in T
  <2> SUFFICES ASSUME k + 1 <= n PROVE \A j \in 0 .. k + 1 : g[j] = h[j]
    OBVIOUS
  <2>1. \A j \in 0 .. k : g[j] = h[j]
    BY <1>0, <1>3
  <2>2. k + 1 \in 0 .. n /\ \A j \in 0 .. (k + 1) - 1 : g[j] = h[j]
    BY <1>0, <2>1
  <2>3. g[k + 1] = h[k + 1]
    BY <1>1, <2>2
  <2>4. \A j \in 0 .. k + 1 : j \in 0 .. k \/ j = k + 1
    OBVIOUS
  <2> QED BY <2>1, <2>3, <2>4
<1>4. Nat \subseteq T
  <2> HIDE DEF T
  <2> QED BY <1>2, <1>3, SetInduction
<1> QED BY <1>0, <1>4

\* The first frame, and what is heard behind it.
LEMMA HeardOne ==
    ASSUME NEW bytes \in Seq(Byte)
    PROVE  /\ ~Whole(bytes) => Heard(bytes) = <<>>
           /\ Whole(bytes) =>
                Heard(bytes) = <<HeardFrame(bytes)>>
                                 \o Heard(Behind(bytes, Len(bytes) - frame_size(bytes)))
<1> DEFINE m == Len(bytes)
           z == frame_size(bytes)
<1>1. PICK h : Hears(h, bytes) /\ h[m] = Heard(bytes)
  BY HeardLoop
<1>2. h[m] = HearsAt(h, bytes, m)
  <2>1. m \in 0 .. Len(bytes)
    OBVIOUS
  <2>2. h[m] = HearsAt(h, Behind(bytes, m), m)
    BY <1>1, <2>1 DEF Hears
  <2> QED BY <2>2, BehindAll
<1>3. CASE ~Whole(bytes)
  BY <1>1, <1>2, <1>3, Zenon DEF HearsAt
<1>4. CASE Whole(bytes)
  <2> DEFINE n == m - z
             rest == Behind(bytes, n)
  <2>1. n \in 0 .. Len(bytes)
    <3>1. z \in Nat /\ 8 <= z /\ z <= m /\ m \in Nat
      BY <1>4, SizeOfFrame DEF Whole
    <3> HIDE DEF z, m
    <3>2. n \in 0 .. m
      BY <3>1
    <3> QED BY <3>2 DEF m
  <2> HIDE DEF n
  <2>2. rest \in Seq(Byte) /\ Len(rest) = n
    BY <2>1, BehindParts
  <2>3. PICK g : Hears(g, rest) /\ g[Len(rest)] = Heard(rest)
    <3> HIDE DEF rest
    <3> QED BY <2>2, HeardLoop
  <2>4. g[n] = h[n]
    BY <1>1, <2>1, <2>3, HearsSame
  <2>5. h[m] = <<HeardFrame(bytes)>> \o h[n]
    BY <1>2, <1>4, Zenon DEF HearsAt, n
  <2>6. Heard(bytes) = <<HeardFrame(bytes)>> \o Heard(rest)
    BY <1>1, <2>2, <2>3, <2>4, <2>5, Zenon
  <2> QED BY <1>4, <2>6 DEF n
<1> QED BY <1>3, <1>4

\* The client hears frames.
Sounds == {HeardFrame(b) : b \in Seq(Byte)}

\* Whatever the bytes, frames are heard, finitely many.
LEMMA HeardSounds ==
    ASSUME NEW bytes \in Seq(Byte)
    PROVE  Heard(bytes) \in Seq(Sounds)
<1> DEFINE T == {k \in Nat : \A b \in Seq(Byte) : Len(b) <= k => Heard(b) \in Seq(Sounds)}
<1>1. ASSUME NEW k \in Nat, NEW b \in Seq(Byte), Len(b) <= k,
             \A r \in Seq(Byte) : Len(r) <= k - 1 => Heard(r) \in Seq(Sounds)
      PROVE  Heard(b) \in Seq(Sounds)
  <2>1. CASE ~Whole(b)
    <3>1. Heard(b) = <<>>
      BY <2>1, HeardOne
    <3> QED BY <3>1
  <2>2. CASE Whole(b)
    <3> DEFINE n == Len(b) - frame_size(b)
               rest == Behind(b, n)
               s == <<HeardFrame(b)>>
    <3>1. n \in 0 .. Len(b) /\ n <= k - 1
      <4> DEFINE m == Len(b)
                 z == frame_size(b)
      <4>1. z \in Nat /\ 8 <= z /\ z <= m /\ m \in Nat /\ m <= k
        BY <1>1, <2>2, SizeOfFrame DEF Whole
      <4> HIDE DEF z, m
      <4>2. m - z \in 0 .. m /\ m - z <= k - 1
        BY <4>1
      <4> QED BY <4>2 DEF m, z
    <3> HIDE DEF n
    <3>2. rest \in Seq(Byte) /\ Len(rest) = n
      BY <3>1, BehindParts
    <3>3. Heard(rest) \in Seq(Sounds)
      BY <1>1, <3>1, <3>2
    <3>4. s \in Seq(Sounds)
      BY DEF Sounds
    <3>5. Heard(b) = s \o Heard(rest)
      BY <2>2, HeardOne DEF n
    <3> HIDE DEF rest, s
    <3> QED BY <3>3, <3>4, <3>5
  <2> QED BY <2>1, <2>2
<1>2. 0 \in T
  <2> SUFFICES ASSUME NEW b \in Seq(Byte), Len(b) <= 0 PROVE Heard(b) \in Seq(Sounds)
    OBVIOUS
  <2>1. \A r \in Seq(Byte) : ~(Len(r) <= 0 - 1)
    OBVIOUS
  <2> QED BY <1>1, <2>1, 0 \in Nat
<1>3. ASSUME NEW k \in Nat, k \in T PROVE k + 1 \in T
  <2> SUFFICES ASSUME NEW b \in Seq(Byte), Len(b) <= k + 1 PROVE Heard(b) \in Seq(Sounds)
    OBVIOUS
  <2>1. \A r \in Seq(Byte) : Len(r) <= (k + 1) - 1 => Heard(r) \in Seq(Sounds)
    <3>1. (k + 1) - 1 = k
      OBVIOUS
    <3> QED BY <1>3, <3>1
  <2> QED BY <1>1, <2>1, k + 1 \in Nat
<1>4. Nat \subseteq T
  <2> HIDE DEF T
  <2> QED BY <1>2, <1>3, SetInduction
<1>5. Len(bytes) \in Nat
  OBVIOUS
<1> QED BY <1>4, <1>5

-----------------------------------------------------------------------------
(* What bytes stand for *)

\* Bytes stand for frames that a client hears, whatever follows them; or they begin
\* with such frames, and what comes then makes no difference to those.
Says(e, frames) ==
    /\ e \in Seq(Byte) /\ frames \in Seq(Sounds)
    /\ \A rest \in Seq(Byte) : Heard(e \o rest) = frames \o Heard(rest)

Starts(e, frames) ==
    /\ e \in Seq(Byte) /\ frames \in Seq(Sounds)
    /\ \A rest \in Seq(Byte) : \E more \in Seq(Sounds) : Heard(e \o rest) = frames \o more

\* What is heard of one thing after the other.
LEMMA JoinSounds ==
    ASSUME NEW s \in Seq(Sounds), NEW t \in Seq(Sounds)
    PROVE  s \o t \in Seq(Sounds)
  BY ConcatProperties

\* It makes no difference which are taken together.
LEMMA RegroupSounds ==
    ASSUME NEW s \in Seq(Sounds), NEW t \in Seq(Sounds), NEW u \in Seq(Sounds)
    PROVE  (s \o t) \o u = s \o (t \o u)
  BY ConcatAssociative

\* One after the other (sender.py:446-555).
LEMMA SaysThen ==
    ASSUME NEW e, NEW s, Says(e, s), NEW f, NEW t, Says(f, t)
    PROVE  Says(e \o f, s \o t)
<1>1. e \in Seq(Byte) /\ f \in Seq(Byte) /\ s \in Seq(Sounds) /\ t \in Seq(Sounds)
  BY Zenon DEF Says
<1>2. e \o f \in Seq(Byte) /\ s \o t \in Seq(Sounds)
  BY <1>1, JoinLength, JoinSounds
<1>3. ASSUME NEW rest \in Seq(Byte) PROVE Heard((e \o f) \o rest) = (s \o t) \o Heard(rest)
  <2>1. (e \o f) \o rest = e \o (f \o rest) /\ f \o rest \in Seq(Byte)
    <3>1. e \in Seq(Byte) /\ f \in Seq(Byte)
      BY <1>1, Zenon
    <3>2. (e \o f) \o rest = e \o (f \o rest)
      BY <3>1, AppendBytes, SMTT(60)
    <3>3. f \o rest \in Seq(Byte)
      BY <3>1, JoinLength, SMTT(60)
    <3> QED BY <3>2, <3>3
  <2>2. Heard(e \o (f \o rest)) = s \o Heard(f \o rest)
    BY <2>1, Zenon DEF Says
  <2>3. Heard(f \o rest) = t \o Heard(rest)
    BY Zenon DEF Says
  <2>4. Heard(rest) \in Seq(Sounds)
    BY HeardSounds
  <2>5. (s \o t) \o Heard(rest) = s \o (t \o Heard(rest))
    <3> DEFINE h == Heard(rest)
    <3>1. s \in Seq(Sounds) /\ t \in Seq(Sounds) /\ h \in Seq(Sounds)
      BY <1>1, <2>4
    <3> HIDE DEF h
    <3>2. (s \o t) \o h = s \o (t \o h)
      BY <3>1, RegroupSounds
    <3> QED BY <3>2 DEF h
  <2> QED BY <2>1, <2>2, <2>3, <2>5, Zenon
<1> QED BY <1>2, <1>3, Zenon DEF Says

\* A whole frame and then a broken one (sender.py:446-518: basic.deliver, and a header
\* that cannot be packed).
LEMMA SaysStarts ==
    ASSUME NEW e, NEW s, Says(e, s), NEW f, NEW t, Starts(f, t)
    PROVE  Starts(e \o f, s \o t)
<1>1. e \in Seq(Byte) /\ f \in Seq(Byte) /\ s \in Seq(Sounds) /\ t \in Seq(Sounds)
  BY Zenon DEF Says, Starts
<1>2. e \o f \in Seq(Byte) /\ s \o t \in Seq(Sounds)
  BY <1>1, JoinLength, JoinSounds
<1>3. ASSUME NEW rest \in Seq(Byte)
      PROVE  \E more \in Seq(Sounds) : Heard((e \o f) \o rest) = (s \o t) \o more
  <2>1. (e \o f) \o rest = e \o (f \o rest) /\ f \o rest \in Seq(Byte)
    <3>1. e \in Seq(Byte) /\ f \in Seq(Byte)
      BY <1>1, Zenon
    <3>2. (e \o f) \o rest = e \o (f \o rest)
      BY <3>1, AppendBytes, SMTT(60)
    <3>3. f \o rest \in Seq(Byte)
      BY <3>1, JoinLength, SMTT(60)
    <3> QED BY <3>2, <3>3
  <2>2. Heard(e \o (f \o rest)) = s \o Heard(f \o rest)
    BY <2>1, Zenon DEF Says
  <2>3. PICK more \in Seq(Sounds) : Heard(f \o rest) = t \o more
    BY Zenon DEF Starts
  <2>4. (s \o t) \o more = s \o (t \o more)
    BY <1>1, RegroupSounds
  <2>5. Heard((e \o f) \o rest) = (s \o t) \o more
    BY <2>1, <2>2, <2>3, <2>4, Zenon
  <2> QED BY <2>5
<1> QED BY <1>2, <1>3, Zenon DEF Starts

\* Behind a broken frame it makes no difference what is written.
LEMMA StartsThen ==
    ASSUME NEW e, NEW s, Starts(e, s), NEW f \in Seq(Byte)
    PROVE  Starts(e \o f, s)
<1>1. e \in Seq(Byte) /\ s \in Seq(Sounds)
  BY Zenon DEF Starts
<1>2. e \o f \in Seq(Byte)
  BY <1>1, JoinLength
<1>3. ASSUME NEW rest \in Seq(Byte)
      PROVE  \E more \in Seq(Sounds) : Heard((e \o f) \o rest) = s \o more
  <2>1. (e \o f) \o rest = e \o (f \o rest) /\ f \o rest \in Seq(Byte)
    <3>1. e \in Seq(Byte)
      BY <1>1
    <3> QED BY <3>1, AppendBytes, JoinLength
  <2>2. PICK more \in Seq(Sounds) : Heard(e \o (f \o rest)) = s \o more
    BY <2>1, Zenon DEF Starts
  <2> QED BY <2>1, <2>2, Zenon
<1> QED BY <1>1, <1>2, <1>3, Zenon DEF Starts

\* Anything starts with nothing.
LEMMA StartsAny ==
    ASSUME NEW e \in Seq(Byte)
    PROVE  Starts(e, <<>>)
<1>1. <<>> \in Seq(Sounds)
  OBVIOUS
<1>2. ASSUME NEW rest \in Seq(Byte)
      PROVE  \E more \in Seq(Sounds) : Heard(e \o rest) = <<>> \o more
  <2> DEFINE h == Heard(e \o rest)
  <2>1. h \in Seq(Sounds)
    <3>1. e \o rest \in Seq(Byte)
      BY JoinLength
    <3> QED BY <3>1, HeardSounds
  <2> HIDE DEF h
  <2>2. h = <<>> \o h
    BY <2>1, ConcatEmptySeq
  <2> QED BY <2>1, <2>2 DEF h
<1> QED BY <1>1, <1>2, Zenon DEF Starts

\* What a frame of this type, on this channel, sounds like.
Sound(type, channel, payload) ==
    LET f == CASE type = 1 -> HeardMethod(payload)
               [] type = 2 -> Header(payload)
               [] type = 3 -> Body(payload)
               [] type = 8 -> [name |-> "HEARTBEAT", args |-> <<>>]
    IN [name |-> f.name, chan |-> channel, args |-> f.args]

\* The frame and the rest of the stream.
LEMMA JoinBytes ==
    ASSUME NEW s \in Seq(Byte), NEW t \in Seq(Byte), NEW st, Joins(s, t, st)
    PROVE  /\ st \in Seq(Byte) /\ Len(st) = Len(s) + Len(t) /\ Len(s) \in Nat /\ Len(t) \in Nat
           /\ \A i \in 1 .. Len(s) : st[i] = s[i]
           /\ \A i \in 1 .. Len(t) : st[Len(s) + i] = t[i]
  BY JoinParts DEF Joins

\* Behind some bytes is what was written after them.
LEMMA BehindJoin ==
    ASSUME NEW e \in Seq(Byte), NEW rest \in Seq(Byte), NEW d, Joins(e, rest, d)
    PROVE  Behind(d, Len(d) - Len(e)) = rest
<1> DEFINE n == Len(d) - Len(e)
           m == Len(e)
           r == Behind(d, n)
<1>1. /\ d \in Seq(Byte) /\ Len(d) = m + Len(rest) /\ m \in Nat /\ Len(rest) \in Nat
      /\ \A i \in 1 .. Len(rest) : d[m + i] = rest[i]
  BY JoinBytes
<1> HIDE DEF m
<1>2. n = Len(rest) /\ n \in 0 .. Len(d) /\ Len(d) - n = m
  BY <1>1 DEF m
<1> HIDE DEF n
<1>3. r \in Seq(Byte) /\ Len(r) = n /\ \A i \in 1 .. n : r[i] = d[Len(d) - n + i]
  BY <1>1, <1>2, BehindParts
<1> HIDE DEF r
<1>4. \A i \in 1 .. n : r[i] = rest[i]
  BY <1>1, <1>2, <1>3
<1>5. r = rest
  BY <1>2, <1>3, <1>4, SameParts
<1> QED BY <1>5 DEF r, n

\* Bytes of a frame are read as its type tells, from its payload (frame.py:50-72).
LEMMA FrameSounds ==
    ASSUME NEW data \in Seq(Byte), NEW type \in Byte, NEW channel \in Nat,
           NEW payload \in Seq(Byte), FrameAt(data, type, channel, payload),
           Fits(channel, 2), Fits(Len(payload), 4)
    PROVE  /\ Whole(data) /\ HeardFrame(data) = Sound(type, channel, payload)
           /\ frame_size(data) = 8 + Len(payload)
<1>1. /\ frame_size(data) = 8 + Len(payload) /\ frame_size(data) <= Len(data)
      /\ ~(Len(data) < FRAME_HEADER_SIZE)
      /\ data[frame_size(data)] = FRAME_END /\ data[1] = type
      /\ unpack(Bytes(data, 1, 2)) = channel
      /\ Payload(data) = payload
  BY FrameParts
<1>2. HeardFrame(data) = Sound(type, channel, payload)
  BY <1>1, Zenon DEF HeardFrame, Sound
<1>3. Whole(data)
  BY <1>1, Zenon DEF Whole
<1> QED BY <1>1, <1>2, <1>3, Zenon

\* A frame of the sender's is heard, and then what follows (sender.py:518-530).
LEMMA FrameSays ==
    ASSUME NEW type \in Byte, NEW channel \in Byte, NEW payload \in Seq(Byte),
           Fits(Len(payload), 4)
    PROVE  Says(Frame(type, channel, payload), <<Sound(type, channel, payload)>>)
<1> DEFINE e == Frame(type, channel, payload)
           s == Sound(type, channel, payload)
           n == Len(payload)
<1>1. channel \in Nat /\ n \in Nat
  BY DEF Byte
<1>2. Fits(channel, 2)
  BY FitsShort, SMT DEF Byte
<1>3. e \in Seq(Byte) /\ Len(e) = 8 + n /\ FrameAt(e, type, channel, payload)
  <2>1. e = ClientFrame(type, channel, payload)
    BY SameFrame
  <2> HIDE DEF e
  <2> QED BY <1>1, <2>1, FrameLayout
<1> HIDE DEF e, n
<1>4. ASSUME NEW rest \in Seq(Byte)
      PROVE  /\ Whole(e \o rest) /\ HeardFrame(e \o rest) = s
             /\ frame_size(e \o rest) = 8 + n
  <2> DEFINE d == e \o rest
  <2>1. d \in Seq(Byte)
    BY <1>3, JoinLength
  <2>2. FrameAt(d, type, channel, payload)
    BY <1>1, <1>3, FrameFront
  <2> HIDE DEF d
  <2>3. /\ Whole(d) /\ HeardFrame(d) = Sound(type, channel, payload)
        /\ frame_size(d) = 8 + Len(payload)
    BY <1>1, <1>2, <2>1, <2>2, FrameSounds
  <2> QED BY <2>3, Zenon DEF d, n
<1>5. ASSUME NEW rest \in Seq(Byte) PROVE Heard(e \o rest) = <<s>> \o Heard(rest)
  <2> DEFINE d == e \o rest
  <2>1. e \in Seq(Byte) /\ Joins(e, rest, d) /\ d \in Seq(Byte)
    BY <1>3, JoinLength DEF Joins
  <2>2. Whole(d) /\ HeardFrame(d) = s /\ frame_size(d) = Len(e)
    BY <1>3, <1>4
  <2> HIDE DEF d
  <2>3. Heard(d) = <<HeardFrame(d)>> \o Heard(Behind(d, Len(d) - frame_size(d)))
    BY <2>1, <2>2, HeardOne
  <2>4. Behind(d, Len(d) - Len(e)) = rest
    BY <2>1, BehindJoin
  <2> QED BY <2>2, <2>3, <2>4, Zenon DEF d
<1>6. <<s>> \in Seq(Sounds)
  <2>1. <<>> \in Seq(Byte)
    OBVIOUS
  <2>2. HeardFrame(e \o <<>>) = s
    BY <1>4, <2>1
  <2>3. e \o <<>> \in Seq(Byte)
    BY <1>3, <2>1, JoinLength
  <2>4. s \in Sounds
    BY <2>2, <2>3 DEF Sounds
  <2> HIDE DEF s
  <2> QED BY <2>4
<1> QED BY <1>3, <1>5, <1>6, Zenon DEF Says, e

-----------------------------------------------------------------------------
(* Methods of the server *)

ServerNames ==
    {"START", "TUNE", "OPEN_OK", "CLOSE_OK", "CHANNEL_OPEN_OK", "CHANNEL_CLOSE_OK",
     "EXCHANGE_DECLARE_OK", "QUEUE_DECLARE_OK", "QUEUE_BIND_OK", "BASIC_QOS_OK",
     "BASIC_CONSUME_OK", "BASIC_CANCEL_OK", "BASIC_DELIVER"}

\* Class and method in one number.
ServerNumber(name) == 256 * ServerMethod[name].id[2] + ServerMethod[name].id[4]

\* No two methods of the server have the same number.
LEMMA ServerNumbers ==
    /\ DOMAIN ServerMethod = ServerNames
    /\ \A n, k \in ServerNames : ServerMethod[n].id = ServerMethod[k].id => n = k
<1>0. DOMAIN ServerMethod = ServerNames
  BY DEF ServerMethod, ServerNames
<1>1. ServerNumber("START") = 2570
  BY SMT DEF ServerNumber, ServerMethod, Layout
<1>2. ServerNumber("TUNE") = 2590
  BY SMT DEF ServerNumber, ServerMethod, Layout
<1>3. ServerNumber("OPEN_OK") = 2601
  BY SMT DEF ServerNumber, ServerMethod, Layout
<1>4. ServerNumber("CLOSE_OK") = 2611
  BY SMT DEF ServerNumber, ServerMethod, Layout
<1>5. ServerNumber("CHANNEL_OPEN_OK") = 5131
  BY SMT DEF ServerNumber, ServerMethod, Layout
<1>6. ServerNumber("CHANNEL_CLOSE_OK") = 5161
  BY SMT DEF ServerNumber, ServerMethod, Layout
<1>7. ServerNumber("EXCHANGE_DECLARE_OK") = 10251
  BY SMT DEF ServerNumber, ServerMethod, Layout
<1>8. ServerNumber("QUEUE_DECLARE_OK") = 12811
  BY SMT DEF ServerNumber, ServerMethod, Layout
<1>9. ServerNumber("QUEUE_BIND_OK") = 12821
  BY SMT DEF ServerNumber, ServerMethod, Layout
<1>10. ServerNumber("BASIC_QOS_OK") = 15371
  BY SMT DEF ServerNumber, ServerMethod, Layout
<1>11. ServerNumber("BASIC_CONSUME_OK") = 15381
  BY SMT DEF ServerNumber, ServerMethod, Layout
<1>12. ServerNumber("BASIC_CANCEL_OK") = 15391
  BY SMT DEF ServerNumber, ServerMethod, Layout
<1>13. ServerNumber("BASIC_DELIVER") = 15420
  BY SMT DEF ServerNumber, ServerMethod, Layout
<1>14. \A n, k \in ServerNames : ServerNumber(n) = ServerNumber(k) => n = k
  BY <1>1, <1>2, <1>3, <1>4, <1>5, <1>6, <1>7, <1>8, <1>9, <1>10, <1>11, <1>12, <1>13, SMTT(60)
     DEF ServerNames
<1>15. ASSUME NEW n, NEW k, ServerMethod[n].id = ServerMethod[k].id
       PROVE  ServerNumber(n) = ServerNumber(k)
  BY <1>15, Zenon DEF ServerNumber
<1> QED BY <1>0, <1>14, <1>15, Zenon

\* The arguments that a client makes of the values of a method.
ArgumentsOf(keys, values) ==
    [i \in ToSet(keys) \ {"reserved-1"} |-> values[CHOOSE k \in DOMAIN keys : keys[k] = i]]

\* A client decodes what dumps wrote behind a method's number (sender.py:25-443).
LEMMA HeardArguments ==
    ASSUME NEW name \in ServerNames, NEW c \in Byte, NEW m \in Byte,
           NEW format \in Seq(Letters), NEW keys,
           ServerMethod[name] = Layout(c, m, format, keys),
           NEW S, NEW values \in Seq(S), Arguments(format, values), Legible(format, values),
           NEW d \in Seq(Byte), d = dumps(format, values), Fits(4 + Len(d), 4)
    PROVE  /\ <<0, c, 0, m>> \o d \in Seq(Byte) /\ Fits(Len(<<0, c, 0, m>> \o d), 4)
           /\ HeardMethod(<<0, c, 0, m>> \o d) = [name |-> name, args |-> ArgumentsOf(keys, values)]
<1> DEFINE id == <<0, c, 0, m>>
           buf == id \o d
           l == ServerMethod[name]
<1>1. id \in Seq(Byte) /\ Len(id) = 4
  BY DEF Byte
<1>2. l.id = id /\ l.format = format /\ l.args = keys
  BY DEF Layout
<1> HIDE DEF id, l
<1>3. buf \in Seq(Byte) /\ Len(buf) = 4 + Len(d)
  <2>1. id \in Seq(Byte)
    BY <1>1
  <2> QED BY <1>1, <2>1, JoinLength
<1>4. Fits(Len(buf), 4)
  BY <1>3
<1>5. At(buf, 0, id) /\ At(buf, 4, d)
  <2> HIDE DEF buf
  <2>1. At(buf, 0, id \o d)
    <3>1. ASSUME NEW w \in Seq(Byte), NEW v, v = w PROVE At(v, 0, w)
      BY <3>1 DEF At
    <3>2. buf = id \o d
      BY DEF buf
    <3> QED BY <1>3, <3>1, <3>2
  <2>2. At(buf, 0, id) /\ At(buf, 0 + Len(id), d)
    BY <1>1, <1>3, <2>1, AtConcat, 0 \in Nat
  <2> QED BY <1>1, <2>2
<1> HIDE DEF buf
<1>6. Bytes(buf, 0, 4) = id
  <2>1. Bytes(buf, 0, Len(id)) = id
    BY <1>1, <1>3, <1>5, AtBytes, 0 \in Nat
  <2> QED BY <1>1, <2>1
<1> DEFINE n == CHOOSE n \in DOMAIN ServerMethod : ServerMethod[n].id = Bytes(buf, 0, 4)
           read == loads(format, buf, 4)
<1>7. n = name
  <2>1. name \in DOMAIN ServerMethod /\ ServerMethod[name].id = Bytes(buf, 0, 4)
    BY <1>2, <1>6, ServerNumbers DEF l
  <2>2. n \in DOMAIN ServerMethod /\ ServerMethod[n].id = Bytes(buf, 0, 4)
    BY <2>1
  <2> HIDE DEF n
  <2> QED BY <2>1, <2>2, ServerNumbers
<1>8. read = values
  <2>1. load(format, buf, 4).values = values
    BY <1>3, <1>4, <1>5, ArgumentsRoundTrip, 4 \in Nat, ZenonT(60)
  <2> QED BY <2>1, Zenon DEF loads
<1> DEFINE M(k) == [name |-> k,
                    args |-> [i \in ToSet(ServerMethod[k].args) \ {"reserved-1"} |->
                       loads(ServerMethod[k].format, buf, 4)
                          [CHOOSE j \in DOMAIN ServerMethod[k].args : ServerMethod[k].args[j] = i]]]
<1>9. HeardMethod(buf) = M(n)
  BY DEF HeardMethod
<1> HIDE DEF n
<1>10. M(name) = [name |-> name, args |-> ArgumentsOf(keys, read)]
  <2> DEFINE A(k, f) == [i \in ToSet(k) \ {"reserved-1"} |->
                       loads(f, buf, 4)[CHOOSE j \in DOMAIN k : k[j] = i]]
  <2>1. M(name) = [name |-> name, args |-> A(l.args, l.format)]
    BY DEF l
  <2>2. A(keys, format) = ArgumentsOf(keys, read)
    BY DEF ArgumentsOf
  <2> HIDE DEF A, M, read
  <2> QED BY <1>2, <2>1, <2>2, Zenon
<1> HIDE DEF M, read
<1>11. HeardMethod(buf) = [name |-> name, args |-> ArgumentsOf(keys, values)]
  BY <1>7, <1>8, <1>9, <1>10, Zenon
<1> QED BY <1>3, <1>4, <1>11, Zenon DEF buf, id

\* An argument that takes few bytes, and a method of five or less of them.
Brief(p, x) ==
    /\ p \in Letters /\ Taken(p, x) /\ ~Illegible(p, x)
    /\ p # "b" => Len(Dumped(p, x)) <= 1000

Short(format, values) ==
    /\ format \in Seq(Letters) /\ Len(format) <= 5 /\ \E S : values \in Seq(S)
    /\ Len(values) = Len(format) /\ \A n \in 1 .. Len(format) : Brief(format[n], values[n])

\* dumps takes them, and four bytes hold how many bytes they are (sender.py:40-351).
LEMMA ShortFits ==
    ASSUME NEW format, NEW values, Short(format, values)
    PROVE  /\ Packable(format, values) /\ Legible(format, values)
           /\ dumps(format, values) \in Seq(Byte)
           /\ Fits(4 + Len(dumps(format, values)), 4)
<1>1. PICK S : values \in Seq(S)
  BY DEF Short
<1>2. /\ format \in Seq(Letters) /\ Len(format) <= 5 /\ Len(values) = Len(format)
      /\ \A n \in 1 .. Len(format) : Taken(format[n], values[n])
      /\ \A n \in 1 .. Len(format) :
            format[n] # "b" => Len(Dumped(format[n], values[n])) <= 1000
  <2>1. /\ format \in Seq(Letters) /\ Len(format) <= 5 /\ Len(values) = Len(format)
        /\ \A n \in 1 .. Len(format) : Brief(format[n], values[n])
    BY DEF Short
  <2>2. ASSUME NEW p, NEW x, Brief(p, x)
        PROVE  Taken(p, x) /\ (p # "b" => Len(Dumped(p, x)) <= 1000)
    BY <2>2 DEF Brief
  <2> QED BY <2>1, <2>2
<1>3. EightBits(format)
  <2>1. Len(format) \in Nat
    BY <1>2, LenProperties
  <2>2. 1 .. Len(format) - 8 = {}
    BY <1>2, <2>1
  <2> QED BY <2>2 DEF EightBits
<1>4. Arguments(format, values)
  BY <1>2, <1>3, Zenon DEF Arguments
<1>5. dumps(format, values) \in Seq(Byte)
  BY <1>1, <1>2, <1>4, DumpsType
<1>6. Fits(4 + Len(dumps(format, values)), 4)
  BY <1>1, <1>2, <1>4, DumpsLength
<1>7. Packable(format, values)
  BY <1>1, <1>2, <1>4, Zenon DEF Packable
<1>8. Legible(format, values)
  <2>1. /\ Len(values) = Len(format)
        /\ \A n \in 1 .. Len(format) : Brief(format[n], values[n])
    BY Zenon DEF Short
  <2>2. \A p, x : Brief(p, x) => ~Illegible(p, x)
    BY Zenon DEF Brief
  <2> QED BY <2>1, <2>2, Zenon DEF Legible
<1> QED BY <1>5, <1>6, <1>7, <1>8, Zenon

\* A method that the server writes is heard as that method, with its arguments
\* (sender.py:25-443).
LEMMA ReplySays ==
    ASSUME NEW name \in ServerNames, NEW c \in Byte, NEW m \in Byte,
           NEW format, NEW values, NEW keys,
           ServerMethod[name] = Layout(c, m, format, keys), Short(format, values),
           NEW channel \in Byte
    PROVE  Says(Reply(channel, c, m, dumps(format, values)),
                <<[name |-> name, chan |-> channel, args |-> ArgumentsOf(keys, values)]>>)
<1> DEFINE d == dumps(format, values)
           payload == <<0, c, 0, m>> \o d
           a == ArgumentsOf(keys, values)
<1>1. PICK S : /\ format \in Seq(Letters) /\ values \in Seq(S)
               /\ Arguments(format, values) /\ Legible(format, values)
  BY ShortFits, Zenon DEF Packable
<1>2. d \in Seq(Byte) /\ Fits(4 + Len(d), 4)
  BY ShortFits
<1>3. /\ payload \in Seq(Byte) /\ Fits(Len(payload), 4)
      /\ HeardMethod(payload) = [name |-> name, args |-> a]
  <2>1. d = dumps(format, values)
    OBVIOUS
  <2> HIDE DEF d
  <2> QED BY <1>1, <1>2, <2>1, HeardArguments
<1>4. Reply(channel, c, m, d) = Frame(1, channel, payload)
  BY DEF Reply
<1> HIDE DEF payload, d, a
<1>5. 1 \in Byte
  BY DEF Byte
<1>6. Sound(1, channel, payload) = [name |-> name, chan |-> channel, args |-> a]
  BY <1>3 DEF Sound
<1>7. Says(Frame(1, channel, payload), <<Sound(1, channel, payload)>>)
  BY <1>3, <1>5, FrameSays
<1> QED BY <1>4, <1>6, <1>7, Zenon DEF d, a

\* What AMQP expects in answer to a frame, by the name of the answer and its arguments.
AnswerOf(f, n, keys) ==
    [name |-> n, chan |-> IF f.name \in OfConnection THEN 0 ELSE f.chan,
     args |-> IF n = "HEARTBEAT" THEN <<>>
              ELSE [a \in ToSet(keys) \ {"reserved-1"} |-> Answer(f, a)]]

\* What AMQP expects of a reply is what its layout gives it.
LEMMA ConfirmationNamed ==
    ASSUME NEW f, NEW name, ConfirmedBy[f.name] = name, NEW keys, ServerMethod[name].args = keys
    PROVE  Confirmation(f) = AnswerOf(f, name, keys)
<1>1. \A n, k : n = name /\ k = keys => AnswerOf(f, n, k) = AnswerOf(f, name, keys)
  OBVIOUS
<1>2. Confirmation(f) = AnswerOf(f, ConfirmedBy[f.name], ServerMethod[ConfirmedBy[f.name]].args)
  BY DEF Confirmation, AnswerOf
<1> QED BY <1>1, <1>2

\* A reply is heard as what AMQP expects in answer to the frame, when its values are
\* those of the answer (sender.py:25-443).
LEMMA ReplyConfirms ==
    ASSUME NEW f, NEW name \in ServerNames, ConfirmedBy[f.name] = name,
           NEW c \in Byte, NEW m \in Byte, NEW format, NEW values, NEW keys,
           ServerMethod[name] = Layout(c, m, format, keys), Short(format, values),
           \A j \in DOMAIN keys : keys[j] = "reserved-1" \/ values[j] = Answer(f, keys[j]),
           NEW channel \in Byte, channel = IF f.name \in OfConnection THEN 0 ELSE f.chan
    PROVE  Says(Reply(channel, c, m, dumps(format, values)), <<Confirmation(f)>>)
<1> DEFINE A == [a \in ToSet(keys) \ {"reserved-1"} |-> Answer(f, a)]
<1>1. ServerMethod[name].args = keys /\ name # "HEARTBEAT"
  BY DEF Layout, ServerNames
<1>2. ArgumentsOf(keys, values) = A
  <2> DEFINE V(a) == values[CHOOSE k \in DOMAIN keys : keys[k] = a]
             T == ToSet(keys) \ {"reserved-1"}
  <2>1. ASSUME NEW a \in T PROVE V(a) = Answer(f, a)
    <3>1. \E k \in DOMAIN keys : keys[k] = a
      BY DEF ToSet
    <3> DEFINE k == CHOOSE k \in DOMAIN keys : keys[k] = a
    <3>2. k \in DOMAIN keys /\ keys[k] = a /\ a # "reserved-1"
      BY <3>1
    <3> HIDE DEF k
    <3>3. values[k] = Answer(f, a)
      BY <3>2
    <3> QED BY <3>3 DEF k
  <2>2. ArgumentsOf(keys, values) = [a \in T |-> V(a)]
    BY DEF ArgumentsOf
  <2>3. A = [a \in T |-> Answer(f, a)]
    OBVIOUS
  <2> HIDE DEF A, V, T
  <2> QED BY <2>1, <2>2, <2>3
<1>3. Confirmation(f) = [name |-> name, chan |-> channel, args |-> A]
  <2>1. Confirmation(f) = AnswerOf(f, name, keys)
    BY <1>1, ConfirmationNamed, Zenon
  <2>2. AnswerOf(f, name, keys) = [name |-> name, chan |-> channel, args |-> A]
    BY <1>1 DEF AnswerOf
  <2> QED BY <2>1, <2>2, Zenon
<1> HIDE DEF A
<1>4. Says(Reply(channel, c, m, dumps(format, values)),
           <<[name |-> name, chan |-> channel, args |-> ArgumentsOf(keys, values)]>>)
  BY ReplySays
<1> QED BY <1>2, <1>3, <1>4, Zenon

\* Names and tags, numbers and flags are brief (sender.py:40-489).
LEMMA BriefNumber ==
    ASSUME NEW p, NEW width \in {1, 2, 4, 8}, NEW n \in Nat, Fits(n, width),
           Dumped(p, n) = pack(n, width), p \in Letters, p # "S", Taken(p, n)
    PROVE  Brief(p, n)
<1>1. n \in Int /\ width \in Nat /\ width <= 1000
  OBVIOUS
<1>2. Len(pack(n, width)) = width
  BY <1>1, PackType
<1> QED BY <1>1, <1>2 DEF Brief, Illegible

\* Short values of each letter (serialization.py:355-381).
LEMMA BriefCases ==
    /\ \A n \in Byte : Brief("o", n)
    /\ \A n \in Nat : Fits(n, 2) => Brief("B", n)
    /\ \A n \in Nat : Fits(n, 4) => Brief("l", n)
    /\ \A n \in Nat : Fits(n, 8) => Brief("L", n)
    /\ Brief("b", FALSE)
<1>1. "o" \in Letters /\ "B" \in Letters /\ "l" \in Letters /\ "L" \in Letters /\ "b" \in Letters
  BY DEF Letters
<1>2. ASSUME NEW n \in Byte PROVE Brief("o", n)
  <2>1. n \in Nat /\ Fits(n, 1)
    BY FitsByte DEF Byte
  <2>2. Taken("o", n)
    BY <2>1 DEF Taken
  <2>3. Dumped("o", n) = pack(n, 1) /\ 1 \in {1, 2, 4, 8}
    BY DumpCases
  <2> QED BY <1>1, <2>1, <2>2, <2>3, BriefNumber
<1>3. ASSUME NEW n \in Nat, Fits(n, 2) PROVE Brief("B", n)
  <2>2. Taken("B", n)
    BY <1>3 DEF Taken
  <2>3. Dumped("B", n) = pack(n, 2) /\ 2 \in {1, 2, 4, 8}
    BY DumpCases
  <2> QED BY <1>1, <1>3, <2>2, <2>3, BriefNumber
<1>4. ASSUME NEW n \in Nat, Fits(n, 4) PROVE Brief("l", n)
  <2>2. Taken("l", n)
    BY <1>4 DEF Taken
  <2>3. Dumped("l", n) = pack(n, 4) /\ 4 \in {1, 2, 4, 8}
    BY DumpCases
  <2> QED BY <1>1, <1>4, <2>2, <2>3, BriefNumber
<1>5. ASSUME NEW n \in Nat, Fits(n, 8) PROVE Brief("L", n)
  <2>2. Taken("L", n)
    BY <1>5 DEF Taken
  <2>3. Dumped("L", n) = pack(n, 8) /\ 8 \in {1, 2, 4, 8}
    BY DumpCases
  <2> QED BY <1>1, <1>5, <2>2, <2>3, BriefNumber
<1>6. Brief("b", FALSE)
  BY <1>1 DEF Brief, Taken, Illegible
<1> QED BY <1>2, <1>3, <1>4, <1>5, <1>6

\* The strs that the sender writes itself, and those behind a long length
\* (sender.py:40-95, 186-196).
LEMMA ShortStrs ==
    /\ <<80, 65>> \in Str /\ <<101>> \in Str /\ <<52, 50>> \in Str
    /\ Len(<<80, 65>>) <= 900 /\ Len(<<101>>) <= 900 /\ Len(<<52, 50>>) <= 900
<1>1. ASSUME NEW a \in 0 .. 127, NEW b \in 0 .. 127 PROVE <<a, b>> \in Str
  <2> DEFINE s == <<a, b>>
  <2>1. s \in Seq(Byte) /\ Len(s) = 2 /\ s[1] < 128 /\ s[2] < 128
    BY DEF Byte
  <2> HIDE DEF s
  <2>2. \A i \in 1 .. Len(s) : s[i] < 128
    <3>1. \A i \in 1 .. 2 : i = 1 \/ i = 2
      OBVIOUS
    <3> QED BY <2>1, <3>1
  <2>3. s \in Str
    BY <2>1, <2>2, AsciiText
  <2> QED BY <2>3 DEF s
<1>2. <<101>> \in Str
  <2>1. <<101>> \in Keys
    BY ShortKeys, 101 \in 0 .. 127
  <2> QED BY <2>1, Zenon DEF Keys
<1>3. <<80, 65>> \in Str /\ <<52, 50>> \in Str
  <2>1. 80 \in 0 .. 127 /\ 65 \in 0 .. 127 /\ 52 \in 0 .. 127 /\ 50 \in 0 .. 127
    OBVIOUS
  <2> QED BY <1>1, <2>1
<1>4. Len(<<80, 65>>) <= 900 /\ Len(<<101>>) <= 900 /\ Len(<<52, 50>>) <= 900
  OBVIOUS
<1> QED BY <1>2, <1>3, <1>4

\* Names of at most 255 bytes, and short texts (serialization.py:369-376).
LEMMA BriefTexts ==
    /\ \A x \in Keys : Brief("s", x)
    /\ \A x \in Str : Len(x) <= 900 => Brief("S", x)
<1>1. ASSUME NEW x \in Keys PROVE Brief("s", x)
  <2> DEFINE d == pack(Len(x), 1)
  <2>1. x \in Seq(Byte) /\ Len(x) \in Nat /\ Len(x) <= 255
    <3>1. x \in Seq(Byte) /\ Len(x) \in Byte
      BY Zenon DEF Keys, Str
    <3>2. \A k \in Byte : k \in Nat /\ k <= 255
      BY DEF Byte
    <3> QED BY <3>1, <3>2
  <2>2. d \in Seq(Byte) /\ Len(d) = 1
    <3>1. Len(x) \in Int /\ 1 \in Nat
      BY <2>1
    <3> QED BY <3>1, PackType
  <2>3. Dumped("s", x) = d \o x
    BY DumpCases
  <2> HIDE DEF d
  <2>4. Len(d \o x) = Len(d) + Len(x)
    BY <2>1, <2>2, JoinLength
  <2>5. Len(Dumped("s", x)) <= 1000
    BY <2>1, <2>2, <2>3, <2>4
  <2>6. Taken("s", x) /\ "s" \in Letters /\ ~Illegible("s", x)
    BY DEF Taken, Letters, Illegible
  <2> QED BY <2>5, <2>6 DEF Brief
<1>2. ASSUME NEW x \in Str, Len(x) <= 900 PROVE Brief("S", x)
  <2> DEFINE d == pack(Len(x), 4)
  <2>1. x \in Seq(Byte) /\ Len(x) \in Nat
    BY DEF Str
  <2>2. d \in Seq(Byte) /\ Len(d) = 4
    <3>1. Len(x) \in Int /\ 4 \in Nat
      BY <2>1
    <3> QED BY <3>1, PackType
  <2>3. Dumped("S", x) = d \o x
    BY DumpCases DEF Sized
  <2> HIDE DEF d
  <2>4. Len(d \o x) = Len(d) + Len(x)
    BY <2>1, <2>2, JoinLength
  <2>5. Len(Dumped("S", x)) <= 1000
    BY <1>2, <2>1, <2>2, <2>3, <2>4
  <2>6. Taken("S", x) /\ "S" \in Letters
    BY <2>1 DEF Taken, Letters
  <2>7. ~Illegible("S", x)
    BY DEF Str, Illegible
  <2> QED BY <2>5, <2>6, <2>7 DEF Brief
<1> QED BY <1>1, <1>2

\* Methods without arguments, and of one, three and five of them.
LEMMA ShortNone == Short(<<>>, <<>>)
<1>1. <<>> \in Seq(Letters) /\ <<>> \in Seq({}) /\ Len(<<>>) = 0
  OBVIOUS
<1>2. 1 .. 0 = {}
  OBVIOUS
<1> QED BY <1>1, <1>2 DEF Short

\* One argument (sender.py:121-155, 408-443).
LEMMA ShortOne ==
    ASSUME NEW p, NEW x, Brief(p, x)
    PROVE  Short(<<p>>, <<x>>)
<1> DEFINE f == <<p>>
           v == <<x>>
           S == {x}
<1>1. p \in Letters
  BY DEF Brief
<1>2. /\ f \in Seq(Letters) /\ Len(f) = 1 /\ v \in Seq(S) /\ Len(v) = 1
      /\ f[1] = p /\ v[1] = x
  BY <1>1
<1> HIDE DEF f, v, S
<1>3. \A n \in 1 .. Len(f) : Brief(f[n], v[n])
  BY <1>2
<1>4. Short(f, v)
  BY <1>2, <1>3 DEF Short
<1> QED BY <1>4 DEF f, v

\* Three of them (sender.py:158-188, 312-351).
LEMMA ShortThree ==
    ASSUME NEW p, NEW q, NEW r, NEW x, NEW y, NEW z, Brief(p, x), Brief(q, y), Brief(r, z)
    PROVE  Short(<<p, q, r>>, <<x, y, z>>)
<1> DEFINE f == <<p, q, r>>
           v == <<x, y, z>>
           S == {x, y, z}
<1>1. p \in Letters /\ q \in Letters /\ r \in Letters
  BY DEF Brief
<1>2. /\ f \in Seq(Letters) /\ Len(f) = 3 /\ f[1] = p /\ f[2] = q /\ f[3] = r
  BY <1>1
<1>3. /\ v \in Seq(S) /\ Len(v) = 3 /\ v[1] = x /\ v[2] = y /\ v[3] = z
  OBVIOUS
<1> HIDE DEF f, v, S
<1>4. \A n \in 1 .. Len(f) : Brief(f[n], v[n])
  <2> TAKE n \in 1 .. Len(f)
  <2>1. n = 1 \/ n = 2 \/ n = 3
    BY <1>2
  <2> QED BY <1>2, <1>3, <2>1
<1>5. Short(f, v)
  BY <1>2, <1>3, <1>4 DEF Short
<1> QED BY <1>5 DEF f, v

\* Five of them (sender.py:40-95, 446-489).
LEMMA ShortFive ==
    ASSUME NEW p, NEW q, NEW r, NEW s, NEW t, NEW x, NEW y, NEW z, NEW u, NEW w,
           Brief(p, x), Brief(q, y), Brief(r, z), Brief(s, u), Brief(t, w)
    PROVE  Short(<<p, q, r, s, t>>, <<x, y, z, u, w>>)
<1> DEFINE f == <<p, q, r, s, t>>
           v == <<x, y, z, u, w>>
           S == {x, y, z, u, w}
<1>1. p \in Letters /\ q \in Letters /\ r \in Letters /\ s \in Letters /\ t \in Letters
  BY DEF Brief
<1>2. /\ f \in Seq(Letters) /\ Len(f) = 5 /\ f[1] = p /\ f[2] = q /\ f[3] = r
      /\ f[4] = s /\ f[5] = t
  BY <1>1
<1>3. /\ v \in Seq(S) /\ Len(v) = 5 /\ v[1] = x /\ v[2] = y /\ v[3] = z /\ v[4] = u
      /\ v[5] = w
  OBVIOUS
<1> HIDE DEF f, v, S
<1>4. \A n \in 1 .. Len(f) : Brief(f[n], v[n])
  <2> TAKE n \in 1 .. Len(f)
  <2>1. n = 1 \/ n = 2 \/ n = 3 \/ n = 4 \/ n = 5
    BY <1>2
  <2> QED BY <1>2, <1>3, <2>1
<1>5. Short(f, v)
  BY <1>2, <1>3, <1>4 DEF Short
<1> QED BY <1>5 DEF f, v

\* Replies without arguments, with one, and with three (sender.py:25-443).
LEMMA ConfirmsNone ==
    ASSUME NEW f, NEW name \in ServerNames, ConfirmedBy[f.name] = name,
           NEW c \in Byte, NEW m \in Byte, ServerMethod[name] = Layout(c, m, <<>>, <<>>),
           NEW channel \in Byte, channel = IF f.name \in OfConnection THEN 0 ELSE f.chan
    PROVE  Says(Reply(channel, c, m, <<>>), <<Confirmation(f)>>)
<1>1. Short(<<>>, <<>>) /\ dumps(<<>>, <<>>) = <<>>
  BY ShortNone, DumpsNone
<1> DEFINE none == <<>>
<1>2. \A j \in DOMAIN none : none[j] = "reserved-1" \/ none[j] = Answer(f, none[j])
  OBVIOUS
<1>3. Short(none, none) /\ ServerMethod[name] = Layout(c, m, none, none)
  BY <1>1
<1> HIDE DEF none
<1>4. Says(Reply(channel, c, m, dumps(none, none)), <<Confirmation(f)>>)
  BY <1>2, <1>3, ReplyConfirms
<1> QED BY <1>1, <1>4, Zenon DEF none

\* A confirmation with one argument.
LEMMA ConfirmsOne ==
    ASSUME NEW f, NEW name \in ServerNames, ConfirmedBy[f.name] = name,
           NEW c \in Byte, NEW m \in Byte, NEW p, NEW key, NEW x,
           ServerMethod[name] = Layout(c, m, <<p>>, <<key>>),
           Brief(p, x), key = "reserved-1" \/ x = Answer(f, key),
           NEW channel \in Byte, channel = IF f.name \in OfConnection THEN 0 ELSE f.chan
    PROVE  Says(Reply(channel, c, m, dumps(<<p>>, <<x>>)), <<Confirmation(f)>>)
<1> DEFINE format == <<p>>
           keys == <<key>>
           values == <<x>>
<1>1. Short(format, values)
  BY ShortOne
<1>2. \A j \in DOMAIN keys : keys[j] = "reserved-1" \/ values[j] = Answer(f, keys[j])
  OBVIOUS
<1>3. ServerMethod[name] = Layout(c, m, format, keys)
  OBVIOUS
<1> HIDE DEF format, keys, values
<1>4. Says(Reply(channel, c, m, dumps(format, values)), <<Confirmation(f)>>)
  BY <1>1, <1>2, <1>3, ReplyConfirms
<1> QED BY <1>4 DEF format, values

\* A confirmation with three.
LEMMA ConfirmsThree ==
    ASSUME NEW f, NEW name \in ServerNames, ConfirmedBy[f.name] = name,
           NEW c \in Byte, NEW m \in Byte, NEW p, NEW q, NEW r, NEW k1, NEW k2, NEW k3,
           NEW x, NEW y, NEW z,
           ServerMethod[name] = Layout(c, m, <<p, q, r>>, <<k1, k2, k3>>),
           Brief(p, x), Brief(q, y), Brief(r, z),
           x = Answer(f, k1), y = Answer(f, k2), z = Answer(f, k3),
           NEW channel \in Byte, channel = IF f.name \in OfConnection THEN 0 ELSE f.chan
    PROVE  Says(Reply(channel, c, m, dumps(<<p, q, r>>, <<x, y, z>>)), <<Confirmation(f)>>)
<1> DEFINE format == <<p, q, r>>
           keys == <<k1, k2, k3>>
           values == <<x, y, z>>
<1>1. Short(format, values)
  BY ShortThree
<1>2. \A j \in DOMAIN keys : keys[j] = "reserved-1" \/ values[j] = Answer(f, keys[j])
  <2>1. /\ keys[1] = k1 /\ keys[2] = k2 /\ keys[3] = k3 /\ DOMAIN keys = 1 .. 3
        /\ values[1] = x /\ values[2] = y /\ values[3] = z
    OBVIOUS
  <2> HIDE DEF keys, values
  <2>2. \A j \in 1 .. 3 : j = 1 \/ j = 2 \/ j = 3
    OBVIOUS
  <2> QED BY <2>1, <2>2
<1>3. ServerMethod[name] = Layout(c, m, format, keys)
  OBVIOUS
<1> HIDE DEF format, keys, values
<1>4. Says(Reply(channel, c, m, dumps(format, values)), <<Confirmation(f)>>)
  BY <1>1, <1>2, <1>3, ReplyConfirms
<1> QED BY <1>4 DEF format, values

\* A heartbeat is answered by a heartbeat (protocol.py:112-115, sender.py:25-37).
LEMMA ConfirmsHeartbeat ==
    ASSUME NEW f, f.name = "HEARTBEAT"
    PROVE  Says(send_heartbeat, <<Confirmation(f)>>)
<1>1. /\ 8 \in Byte /\ 0 \in Byte /\ <<>> \in Seq(Byte)
      /\ Fits(Len(<<>>), 4)
  BY FitsNone DEF Byte
<1>2. Says(Frame(8, 0, <<>>), <<Sound(8, 0, <<>>)>>)
  BY <1>1, FrameSays
<1>3. Sound(8, 0, <<>>) = [name |-> "HEARTBEAT", chan |-> 0, args |-> <<>>]
  BY DEF Sound
<1>4. Confirmation(f) = [name |-> "HEARTBEAT", chan |-> 0, args |-> <<>>]
  <2>1. ConfirmedBy[f.name] = "HEARTBEAT" /\ f.name \in OfConnection
    BY DEF ConfirmedBy, OfConnection
  <2> QED BY <2>1 DEF Confirmation
<1> QED BY <1>2, <1>3, <1>4 DEF send_heartbeat

\* Every reply is heard as what AMQP expects in answer to its frame, on the right
\* channel and with the frame's arguments (protocol.py:112-348, sender.py:25-443).
LEMMA ReplyHeard ==
    ASSUME NEW f, f.name \in Replied, f.chan \in Byte,
           f.name = "QUEUE_DECLARE" => f.args["queue-name"] \in Keys,
           f.name \in {"BASIC_CONSUME", "BASIC_CANCEL"} => f.args["consumer-tag"] \in Keys
    PROVE  Says(reply(f), <<Confirmation(f)>>)
<1> DEFINE G == f.name \in OfConnection
           channel == IF G THEN 0 ELSE f.chan
           ok == <<Confirmation(f)>>
<1> HIDE DEF ok
<1>0. /\ 0 \in Byte /\ 10 \in Byte /\ 11 \in Byte /\ 20 \in Byte /\ 21 \in Byte /\ 30 \in Byte
      /\ 31 \in Byte /\ 40 \in Byte /\ 41 \in Byte /\ 50 \in Byte /\ 51 \in Byte /\ 60 \in Byte
  BY DEF Byte
<1>1. channel \in Byte /\ channel = IF f.name \in OfConnection THEN 0 ELSE f.chan
  BY <1>0
<1> HIDE DEF channel
<1>2. CASE f.name = "HEARTBEAT"
  <2>1. reply(f) = send_heartbeat
    BY <1>2 DEF reply
  <2>2. Says(send_heartbeat, <<Confirmation(f)>>)
    BY <1>2, ConfirmsHeartbeat
  <2> QED BY <2>1, <2>2
<1>3. CASE f.name = "CLOSE"
  <2>1. reply(f) = send_connection_close_ok
    BY <1>3 DEF reply
  <2>2. send_connection_close_ok = Reply(0, 10, 51, <<>>)
    BY DEF send_connection_close_ok
  <2>3. channel = 0 /\ ConfirmedBy[f.name] = "CLOSE_OK" /\ "CLOSE_OK" \in ServerNames
    BY <1>3 DEF channel, OfConnection, ConfirmedBy, ServerNames
  <2>4. ServerMethod["CLOSE_OK"] = Layout(10, 51, <<>>, <<>>)
    BY DEF ServerMethod
  <2>5. Says(Reply(channel, 10, 51, <<>>), <<Confirmation(f)>>)
    BY <1>0, <1>1, <2>3, <2>4, ConfirmsNone
  <2> QED BY <2>1, <2>2, <2>3, <2>5
<1>4. CASE f.name = "CHANNEL_CLOSE"
  <2>1. reply(f) = send_channel_close_ok(f.chan)
    BY <1>4 DEF reply
  <2>2. send_channel_close_ok(f.chan) = Reply(f.chan, 20, 41, <<>>)
    BY DEF send_channel_close_ok
  <2>3. /\ channel = f.chan /\ ConfirmedBy[f.name] = "CHANNEL_CLOSE_OK"
        /\ "CHANNEL_CLOSE_OK" \in ServerNames
    BY <1>4 DEF channel, OfConnection, ConfirmedBy, ServerNames
  <2>4. ServerMethod["CHANNEL_CLOSE_OK"] = Layout(20, 41, <<>>, <<>>)
    BY DEF ServerMethod
  <2>5. Says(Reply(channel, 20, 41, <<>>), <<Confirmation(f)>>)
    BY <1>0, <1>1, <2>3, <2>4, ConfirmsNone
  <2> QED BY <2>1, <2>2, <2>3, <2>5
<1>5. CASE f.name = "EXCHANGE_DECLARE"
  <2>1. reply(f) = send_exchange_declare_ok(f.chan)
    BY <1>5 DEF reply
  <2>2. send_exchange_declare_ok(f.chan) = Reply(f.chan, 40, 11, <<>>)
    BY DEF send_exchange_declare_ok
  <2>3. /\ channel = f.chan /\ ConfirmedBy[f.name] = "EXCHANGE_DECLARE_OK"
        /\ "EXCHANGE_DECLARE_OK" \in ServerNames
    BY <1>5 DEF channel, OfConnection, ConfirmedBy, ServerNames
  <2>4. ServerMethod["EXCHANGE_DECLARE_OK"] = Layout(40, 11, <<>>, <<>>)
    BY DEF ServerMethod
  <2>5. Says(Reply(channel, 40, 11, <<>>), <<Confirmation(f)>>)
    BY <1>0, <1>1, <2>3, <2>4, ConfirmsNone
  <2> QED BY <2>1, <2>2, <2>3, <2>5
<1>6. CASE f.name = "QUEUE_BIND"
  <2>1. reply(f) = send_queue_bind_ok(f.chan)
    BY <1>6 DEF reply
  <2>2. send_queue_bind_ok(f.chan) = Reply(f.chan, 50, 21, <<>>)
    BY DEF send_queue_bind_ok
  <2>3. /\ channel = f.chan /\ ConfirmedBy[f.name] = "QUEUE_BIND_OK"
        /\ "QUEUE_BIND_OK" \in ServerNames
    BY <1>6 DEF channel, OfConnection, ConfirmedBy, ServerNames
  <2>4. ServerMethod["QUEUE_BIND_OK"] = Layout(50, 21, <<>>, <<>>)
    BY DEF ServerMethod
  <2>5. Says(Reply(channel, 50, 21, <<>>), <<Confirmation(f)>>)
    BY <1>0, <1>1, <2>3, <2>4, ConfirmsNone
  <2> QED BY <2>1, <2>2, <2>3, <2>5
<1>7. CASE f.name = "BASIC_QOS"
  <2>1. reply(f) = send_basic_qos_ok(f.chan)
    BY <1>7 DEF reply
  <2>2. send_basic_qos_ok(f.chan) = Reply(f.chan, 60, 11, <<>>)
    BY DEF send_basic_qos_ok
  <2>3. /\ channel = f.chan /\ ConfirmedBy[f.name] = "BASIC_QOS_OK"
        /\ "BASIC_QOS_OK" \in ServerNames
    BY <1>7 DEF channel, OfConnection, ConfirmedBy, ServerNames
  <2>4. ServerMethod["BASIC_QOS_OK"] = Layout(60, 11, <<>>, <<>>)
    BY DEF ServerMethod
  <2>5. Says(Reply(channel, 60, 11, <<>>), <<Confirmation(f)>>)
    BY <1>0, <1>1, <2>3, <2>4, ConfirmsNone
  <2> QED BY <2>1, <2>2, <2>3, <2>5
<1>8. CASE f.name = "OPEN"
  <2> DEFINE x == <<>>
  <2>1. reply(f) = send_connection_ok
    BY <1>8 DEF reply
  <2>2. send_connection_ok = Reply(0, 10, 41, dumps(<<"s">>, <<x>>))
    BY DEF send_connection_ok
  <2>3. channel = 0 /\ ConfirmedBy[f.name] = "OPEN_OK" /\ "OPEN_OK" \in ServerNames
    BY <1>8 DEF channel, OfConnection, ConfirmedBy, ServerNames
  <2>4. ServerMethod["OPEN_OK"] = Layout(10, 41, <<"s">>, <<"reserved-1">>)
    BY DEF ServerMethod
  <2>5. Brief("s", x)
    <3>1. x \in Keys
      BY ShortKeys
    <3> QED BY <3>1, BriefTexts
  <2>6. "reserved-1" = "reserved-1" \/ x = Answer(f, "reserved-1")
    BY SMTT(60) DEF Answer
  <2> HIDE DEF x
  <2>7. Says(Reply(channel, 10, 41, dumps(<<"s">>, <<x>>)), <<Confirmation(f)>>)
    BY <1>0, <1>1, <2>3, <2>4, <2>5, <2>6, ConfirmsOne
  <2> QED BY <2>1, <2>2, <2>3, <2>7
<1>9. CASE f.name = "CHANNEL_OPEN"
  <2> DEFINE x == <<52, 50>>
  <2>1. reply(f) = send_channel_open_ok(f.chan)
    BY <1>9 DEF reply
  <2>2. send_channel_open_ok(f.chan) = Reply(f.chan, 20, 11, dumps(<<"S">>, <<x>>))
    BY DEF send_channel_open_ok
  <2>3. /\ channel = f.chan /\ ConfirmedBy[f.name] = "CHANNEL_OPEN_OK"
        /\ "CHANNEL_OPEN_OK" \in ServerNames
    BY <1>9 DEF channel, OfConnection, ConfirmedBy, ServerNames
  <2>4. ServerMethod["CHANNEL_OPEN_OK"] = Layout(20, 11, <<"S">>, <<"reserved-1">>)
    BY DEF ServerMethod
  <2>5. Brief("S", x)
    <3>1. x \in Str /\ Len(x) <= 900
      BY ShortStrs
    <3> HIDE DEF x
    <3> QED BY <3>1, BriefTexts
  <2>6. "reserved-1" = "reserved-1" \/ x = Answer(f, "reserved-1")
    BY SMTT(60) DEF Answer
  <2> HIDE DEF x
  <2>7. Says(Reply(channel, 20, 11, dumps(<<"S">>, <<x>>)), <<Confirmation(f)>>)
    BY <1>0, <1>1, <2>3, <2>4, <2>5, <2>6, ConfirmsOne
  <2> QED BY <2>1, <2>2, <2>3, <2>7
<1>10. CASE f.name = "BASIC_CONSUME"
  <2> DEFINE x == f.args["consumer-tag"]
  <2>1. reply(f) = send_basic_consume_ok(f.chan, f.args["consumer-tag"])
    BY <1>10 DEF reply
  <2>2. send_basic_consume_ok(f.chan, f.args["consumer-tag"])
          = Reply(f.chan, 60, 21, dumps(<<"s">>, <<x>>))
    BY DEF send_basic_consume_ok
  <2>3. /\ channel = f.chan /\ ConfirmedBy[f.name] = "BASIC_CONSUME_OK"
        /\ "BASIC_CONSUME_OK" \in ServerNames
    BY <1>10 DEF channel, OfConnection, ConfirmedBy, ServerNames
  <2>4. ServerMethod["BASIC_CONSUME_OK"] = Layout(60, 21, <<"s">>, <<"consumer-tag">>)
    BY DEF ServerMethod
  <2>5. Brief("s", x)
    <3>1. x \in Keys
      BY <1>10
    <3> HIDE DEF x
    <3> QED BY <3>1, BriefTexts
  <2>6. "consumer-tag" = "reserved-1" \/ x = Answer(f, "consumer-tag")
    BY SMTT(60) DEF Answer
  <2> HIDE DEF x
  <2>7. Says(Reply(channel, 60, 21, dumps(<<"s">>, <<x>>)), <<Confirmation(f)>>)
    BY <1>0, <1>1, <2>3, <2>4, <2>5, <2>6, ConfirmsOne
  <2> QED BY <2>1, <2>2, <2>3, <2>7
<1>11. CASE f.name = "BASIC_CANCEL"
  <2> DEFINE x == f.args["consumer-tag"]
  <2>1. reply(f) = send_basic_cancel_ok(f.chan, f.args["consumer-tag"])
    BY <1>11 DEF reply
  <2>2. send_basic_cancel_ok(f.chan, f.args["consumer-tag"])
          = Reply(f.chan, 60, 31, dumps(<<"s">>, <<x>>))
    BY DEF send_basic_cancel_ok
  <2>3. /\ channel = f.chan /\ ConfirmedBy[f.name] = "BASIC_CANCEL_OK"
        /\ "BASIC_CANCEL_OK" \in ServerNames
    BY <1>11 DEF channel, OfConnection, ConfirmedBy, ServerNames
  <2>4. ServerMethod["BASIC_CANCEL_OK"] = Layout(60, 31, <<"s">>, <<"consumer-tag">>)
    BY DEF ServerMethod
  <2>5. Brief("s", x)
    <3>1. x \in Keys
      BY <1>11
    <3> HIDE DEF x
    <3> QED BY <3>1, BriefTexts
  <2>6. "consumer-tag" = "reserved-1" \/ x = Answer(f, "consumer-tag")
    BY SMTT(60) DEF Answer
  <2> HIDE DEF x
  <2>7. Says(Reply(channel, 60, 31, dumps(<<"s">>, <<x>>)), <<Confirmation(f)>>)
    BY <1>0, <1>1, <2>3, <2>4, <2>5, <2>6, ConfirmsOne
  <2> QED BY <2>1, <2>2, <2>3, <2>7
<1>12. CASE f.name = "START_OK"
  <2> DEFINE x == 0
             y == 131072
             z == 10
  <2>1. reply(f) = send_connection_tune
    BY <1>12 DEF reply
  <2>2. send_connection_tune
          = Reply(0, 10, 30, dumps(<<"B", "l", "B">>, <<x, y, z>>))
    BY DEF send_connection_tune
  <2>3. channel = 0 /\ ConfirmedBy[f.name] = "TUNE" /\ "TUNE" \in ServerNames
    BY <1>12 DEF channel, OfConnection, ConfirmedBy, ServerNames
  <2>4. ServerMethod["TUNE"]
          = Layout(10, 30, <<"B", "l", "B">>, <<"channel-max", "frame-max", "heartbeat">>)
    BY DEF ServerMethod
  <2>5. Brief("B", x) /\ Brief("l", y) /\ Brief("B", z)
    <3>1. x \in Nat /\ y \in Nat /\ z \in Nat /\ Fits(x, 2) /\ Fits(y, 4) /\ Fits(z, 2)
      BY FitsShort, FitsLong, SMT
    <3> HIDE DEF x, y, z
    <3> QED BY <3>1, BriefCases
  <2>6. x = Answer(f, "channel-max") /\ y = Answer(f, "frame-max") /\ z = Answer(f, "heartbeat")
    BY SMTT(60) DEF Answer
  <2> HIDE DEF x, y, z
  <2>7. Says(Reply(channel, 10, 30, dumps(<<"B", "l", "B">>, <<x, y, z>>)), <<Confirmation(f)>>)
    BY <1>0, <1>1, <2>3, <2>4, <2>5, <2>6, ConfirmsThree, SMTT(60)
  <2> QED BY <2>1, <2>2, <2>3, <2>7
<1>13. CASE f.name = "QUEUE_DECLARE"
  <2> DEFINE x == f.args["queue-name"]
             y == 0
             z == 0
  <2>1. reply(f) = send_queue_declare_ok(f.chan, f.args["queue-name"], 0, 0)
    BY <1>13 DEF reply
  <2>2. send_queue_declare_ok(f.chan, f.args["queue-name"], 0, 0)
          = Reply(f.chan, 50, 11, dumps(<<"s", "l", "l">>, <<x, y, z>>))
    BY DEF send_queue_declare_ok
  <2>3. /\ channel = f.chan /\ ConfirmedBy[f.name] = "QUEUE_DECLARE_OK"
        /\ "QUEUE_DECLARE_OK" \in ServerNames
    BY <1>13 DEF channel, OfConnection, ConfirmedBy, ServerNames
  <2>4. ServerMethod["QUEUE_DECLARE_OK"]
          = Layout(50, 11, <<"s", "l", "l">>,
                   <<"queue-name", "message-count", "consumer-count">>)
    BY DEF ServerMethod
  <2>5. Brief("s", x) /\ Brief("l", y) /\ Brief("l", z)
    <3>1. x \in Keys /\ y = 0 /\ z = 0
      BY <1>13
    <3>2. 0 \in Nat /\ Fits(0, 4)
      BY FitsLong, SMT
    <3> HIDE DEF x, y, z
    <3> QED BY <3>1, <3>2, BriefTexts, BriefCases
  <2>6. /\ x = Answer(f, "queue-name") /\ y = Answer(f, "message-count")
        /\ z = Answer(f, "consumer-count")
    BY SMTT(60) DEF Answer
  <2> HIDE DEF x, y, z
  <2>7. Says(Reply(channel, 50, 11, dumps(<<"s", "l", "l">>, <<x, y, z>>)), <<Confirmation(f)>>)
    BY <1>0, <1>1, <2>3, <2>4, <2>5, <2>6, ConfirmsThree, SMTT(60)
  <2> QED BY <2>1, <2>2, <2>3, <2>7
<1> QED BY <1>2, <1>3, <1>4, <1>5, <1>6, <1>7, <1>8, <1>9, <1>10, <1>11, <1>12, <1>13 DEF Replied

-----------------------------------------------------------------------------
(* The greeting *)

\* Three short entries make up a short table (serialization.py:395-415).
LEMMA TableShort ==
    ASSUME NEW items, NEW w \in [items -> Seq(Byte)], NEW d \in Dicts(items), Len(d) <= 3,
           NEW b \in Nat, \A k \in 1 .. Len(d) : Len(Entry(w, d[k])) <= b
    PROVE  Len(write_table(w, d)) <= 4 + b + b + b
<1> DEFINE m == Len(d)
           ss == Entries(w, d)
<1>1. m \in Nat /\ DOMAIN d = 1 .. m /\ \A k \in 1 .. m : d[k] \in Keys \X items
  BY LenProperties DEF Dicts
<1>2. \A k \in 1 .. m : Entry(w, d[k]) \in Seq(Byte)
  BY <1>1, EntryType
<1>3. ss = [k \in 1 .. m |-> Entry(w, d[k])]
  BY <1>1 DEF Entries
<1>4. Len(write_table(w, d)) = 4 + Len(FlattenSeq(ss))
  BY TableType
<1>5. m <= 3 /\ \A k \in 1 .. m : Len(Entry(w, d[k])) <= b
  OBVIOUS
<1>6. ss \in Seq(Seq(Byte)) /\ Len(ss) = m /\ \A k \in 1 .. m : Len(ss[k]) <= b
  <2>1. ss \in [1 .. m -> Seq(Byte)] /\ \A k \in 1 .. m : Len(ss[k]) <= b
    BY <1>2, <1>3, <1>5
  <2> HIDE DEF ss, m
  <2> QED BY <1>1, <2>1
<1> HIDE DEF ss, m
<1>7. PICK f : /\ f \in [0 .. m -> Seq(Byte)] /\ f[0] = <<>> /\ f[m] = FlattenSeq(ss)
               /\ \A k \in 1 .. m : f[k] = f[k - 1] \o ss[k]
  BY <1>6, FlattenDef
<1>8. ASSUME NEW k \in 1 .. m
      PROVE  /\ Len(f[k]) <= Len(f[k - 1]) + b /\ Len(f[k]) \in Nat /\ Len(f[k - 1]) \in Nat
  <2> DEFINE x == f[k - 1]
             y == ss[k]
  <2>1. x \in Seq(Byte) /\ y \in Seq(Byte) /\ f[k] = x \o y /\ Len(y) <= b
    <3>1. k - 1 \in 0 .. m
      BY <1>1
    <3>2. x \in Seq(Byte)
      BY <1>7, <3>1
    <3>3. y \in Seq(Byte)
      BY <1>6, k \in 1 .. Len(ss)
    <3>4. f[k] = x \o y /\ Len(y) <= b
      BY <1>6, <1>7
    <3> QED BY <3>2, <3>3, <3>4
  <2> HIDE DEF x, y
  <2>2. Len(x \o y) = Len(x) + Len(y) /\ Len(x) \in Nat /\ Len(y) \in Nat
    BY <2>1, JoinLength
  <2>3. Len(f[k]) = Len(x) + Len(y)
    BY <2>1, <2>2
  <2> QED BY <2>1, <2>2, <2>3 DEF x
<1>9. Len(f[0]) = 0
  BY <1>7
<1> DEFINE l(k) == Len(f[k])
<1>10. /\ l(0) = 0 /\ \A k \in 1 .. m : l(k) <= l(k - 1) + b /\ l(k) \in Nat
  BY <1>8, <1>9
<1> HIDE DEF l
<1>11. m = 0 \/ m = 1 \/ m = 2 \/ m = 3
  BY <1>1, <1>5
<1>12. l(m) <= b + b + b
  <2>1. CASE m = 0
    BY <1>10, <2>1
  <2>2. CASE m = 1
    <3>1. l(1) <= l(0) + b
      BY <1>10, <2>2, 1 \in 1 .. 1, 1 - 1 = 0
    <3> QED BY <1>10, <2>2, <3>1
  <2>3. CASE m = 2
    <3>1. l(1) <= l(0) + b /\ l(1) \in Nat
      BY <1>10, <2>3, 1 \in 1 .. 2, 1 - 1 = 0
    <3>2. l(2) <= l(1) + b /\ l(2) \in Nat
      BY <1>10, <2>3, 2 \in 1 .. 2, 2 - 1 = 1
    <3> QED BY <1>10, <2>3, <3>1, <3>2
  <2>4. CASE m = 3
    <3>1. l(1) <= l(0) + b /\ l(1) \in Nat
      BY <1>10, <2>4, 1 \in 1 .. 3, 1 - 1 = 0
    <3>2. l(2) <= l(1) + b /\ l(2) \in Nat
      BY <1>10, <2>4, 2 \in 1 .. 3, 2 - 1 = 1
    <3>3. l(3) <= l(2) + b /\ l(3) \in Nat
      BY <1>10, <2>4, 3 \in 1 .. 3, 3 - 1 = 2
    <3> QED BY <1>10, <2>4, <3>1, <3>2, <3>3
  <2> QED BY <1>11, <2>1, <2>2, <2>3, <2>4
<1>13. Len(FlattenSeq(ss)) = l(m)
  BY <1>7 DEF l
<1>14. l(m) \in Nat
  <2>1. FlattenSeq(ss) \in Seq(Byte)
    BY <1>6, FlattenType
  <2> QED BY <1>13, <2>1
<1> QED BY <1>4, <1>12, <1>13, <1>14 DEF ss

\* The capabilities take few bytes, and so does the table they are in (sender.py:41-60).
Capabilities == << << <<110>>, Value("bool", TRUE)>>, << <<112>>, Value("bool", TRUE)>> >>

\* The capabilities are a table of booleans (sender.py:44-58).
LEMMA CapabilitiesTable ==
    /\ MaxDepth - 1 \in 0 .. MaxDepth /\ MaxDepth \in 1 .. MaxDepth
    /\ Capabilities \in Dicts(Items[MaxDepth - 1])
    /\ Value("dict", Capabilities) \in Items[MaxDepth]
    /\ Scalars \subseteq Items[MaxDepth - 1] /\ Scalars \subseteq Items[MaxDepth]
    /\ Value("bool", TRUE) \in Scalars
    /\ \A x \in 0 .. 127 : Value("str", <<x>>) \in Scalars
<1> DEFINE true == Value("bool", TRUE)
           deeper == Items[MaxDepth - 1]
<1>1. /\ MaxDepth - 1 \in 0 .. MaxDepth /\ MaxDepth \in 1 .. MaxDepth
      /\ Items[MaxDepth] = Scalars \cup Typed("dict", Dicts(deeper))
                           \cup Typed("list", Lists(deeper))
  BY ItemsDef, DepthAssumption
<1>2. Scalars \subseteq deeper
  <2>1. MaxDepth - 1 = 0 \/ MaxDepth - 1 \in 1 .. MaxDepth
    BY DepthAssumption
  <2>2. Items[0] = Scalars
    BY ItemsDef
  <2>3. MaxDepth - 1 \in 1 .. MaxDepth => Scalars \subseteq Items[MaxDepth - 1]
    BY ItemsDef
  <2> QED BY <2>1, <2>2, <2>3
<1>3. true \in Scalars
  BY DEF Value, Typed, Scalars
<1>4. ASSUME NEW x \in 0 .. 127 PROVE Value("str", <<x>>) \in Scalars
  <2>1. <<x>> \in Str
    BY ShortKeys, Zenon DEF Keys
  <2> QED BY <2>1 DEF Value, Typed, Scalars
<1> HIDE DEF deeper, true
<1>5. Capabilities \in Dicts(deeper)
  <2>1. true \in deeper
    BY <1>2, <1>3
  <2>2. <<110>> # <<112>>
    OBVIOUS
  <2>3. <<110>> \in Keys /\ <<112>> \in Keys
    BY ShortKeys, 110 \in 0 .. 127, 112 \in 0 .. 127
  <2>4. Capabilities = << << <<110>>, true>>, << <<112>>, true>> >>
    BY DEF Capabilities, true
  <2>5. Capabilities \in Seq(Keys \X deeper)
    BY <2>1, <2>3, <2>4
  <2>6. \A m, n \in DOMAIN Capabilities : Capabilities[m][1] = Capabilities[n][1] => m = n
    BY <2>2, <2>4
  <2> QED BY <2>5, <2>6 DEF Dicts
<1>6. Value("dict", Capabilities) \in Items[MaxDepth]
  BY <1>1, <1>5 DEF Typed, Value
<1> QED BY <1>1, <1>2, <1>3, <1>4, <1>5, <1>6 DEF deeper, true

\* What is written of a bool, of a str of one byte and of a table, at some depth
\* (serialization.py:436-475).
LEMMA WrittenShort ==
    ASSUME NEW n \in 0 .. MaxDepth
    PROVE  /\ write_item[n] \in [Items[n] -> Seq(Byte)]
           /\ Value("bool", TRUE) \in Items[n] => Len(write_item[n][Value("bool", TRUE)]) = 2
           /\ \A x \in 0 .. 127 : Value("str", <<x>>) \in Items[n] =>
                 Len(write_item[n][Value("str", <<x>>)]) = 6
<1>1. write_item[n] \in [Items[n] -> Seq(Byte)]
  BY WriteItemType DEF Written
<1>2. PICK item : \A x \in Items[n] : write_item[n][x] = WriteItem(item, x)
  <2>1. MaxDepth \in Nat
    BY DepthAssumption
  <2>2. CASE n = 0
    BY <2>2, WriteItemDef
  <2>3. CASE n # 0
    <3>1. n \in 1 .. MaxDepth
      BY <2>1, <2>3
    <3>2. write_item[n] = [x \in Items[n] |-> WriteItem(write_item[n - 1], x)]
      BY <3>1, WriteItemDef
    <3> QED BY <3>2
  <2> QED BY <2>2, <2>3
<1>3. Value("bool", TRUE) \in Items[n] => Len(write_item[n][Value("bool", TRUE)]) = 2
  <2> SUFFICES ASSUME Value("bool", TRUE) \in Items[n]
               PROVE  Len(write_item[n][Value("bool", TRUE)]) = 2
    OBVIOUS
  <2>1. write_item[n][Value("bool", TRUE)] = <<Code.t, 1>>
    BY <1>2, WriteBool
  <2> QED BY <2>1
<1>4. ASSUME NEW x \in 0 .. 127, Value("str", <<x>>) \in Items[n]
      PROVE  Len(write_item[n][Value("str", <<x>>)]) = 6
  <2> DEFINE k == <<x>>
             s == Sized(k)
  <2>1. write_item[n][Value("str", <<x>>)] = <<Code.S>> \o s
    BY <1>2, <1>4, WriteStr
  <2>2. k \in Seq(Byte) /\ Len(k) = 1
    BY DEF Byte
  <2> HIDE DEF k
  <2>3. s \in Seq(Byte) /\ Len(s) = 5
    <3>1. s \in Seq(Byte) /\ Len(s) = 4 + Len(k)
      BY <2>2, SizedType
    <3> HIDE DEF s
    <3> QED BY <2>2, <3>1
  <2> HIDE DEF s
  <2> DEFINE c == Code.S
  <2>5. c \in Byte
    BY DEF Code, Byte
  <2> HIDE DEF c
  <2>6. Len(<<c>> \o s) = 1 + Len(s)
    BY <2>3, <2>5, CodeType
  <2>4. Len(<<Code.S>> \o s) = 6
    BY <2>3, <2>6 DEF c
  <2> QED BY <2>1, <2>4
<1> QED BY <1>1, <1>3, <1>4

\* An entry whose key has one byte.
LEMMA EntryShort ==
    ASSUME NEW items, NEW w \in [items -> Seq(Byte)], NEW x \in 0 .. 127, NEW y \in items,
           NEW b \in Nat, Len(w[y]) <= b
    PROVE  Len(Entry(w, << <<x>>, y>>)) <= 2 + b
<1> DEFINE k == <<x>>
           e == <<k, y>>
<1>1. k \in Keys /\ Len(k) = 1
  BY ShortKeys
<1> HIDE DEF k
<1>2. e \in Keys \X items /\ e[1] = k /\ e[2] = y
  <2>1. k \in Keys
    BY <1>1
  <2> HIDE DEF k
  <2> QED BY <2>1
<1> HIDE DEF e, k
<1>3. Len(Entry(w, e)) = 1 + Len(e[1]) + Len(w[e[2]]) /\ Len(w[e[2]]) \in Nat
  BY <1>2, EntryType, ZenonT(60)
<1>4. Len(Entry(w, e)) <= 2 + b
  BY <1>1, <1>2, <1>3
<1> QED BY <1>4, Zenon DEF e, k

\* The properties of the server are written in a few bytes (sender.py:41-60).
LEMMA PeerBrief == Brief("F", peer_properties)
<1> DEFINE true == Value("bool", TRUE)
           product == Value("str", <<108>>)
           version == Value("str", <<51>>)
           capabilities == Value("dict", Capabilities)
           v == write_item[MaxDepth - 1]
           w == write_item[MaxDepth]
           deeper == Items[MaxDepth - 1]
           items == Items[MaxDepth]
<1>1. /\ v \in [deeper -> Seq(Byte)] /\ w \in [items -> Seq(Byte)]
      /\ Capabilities \in Dicts(deeper) /\ true \in deeper /\ capabilities \in items
      /\ product \in items /\ version \in items
      /\ Len(v[true]) = 2 /\ Len(w[product]) = 6 /\ Len(w[version]) = 6
  <2>1. MaxDepth \in 0 .. MaxDepth
    BY DepthAssumption
  <2>2. 108 \in 0 .. 127 /\ 51 \in 0 .. 127
    OBVIOUS
  <2>3. MaxDepth - 1 \in 0 .. MaxDepth
    BY CapabilitiesTable
  <2>4. /\ Capabilities \in Dicts(deeper) /\ true \in deeper /\ capabilities \in items
        /\ product \in items /\ version \in items
    BY <2>2, CapabilitiesTable
  <2>5. v \in [deeper -> Seq(Byte)] /\ Len(v[true]) = 2
    BY <2>3, <2>4, WrittenShort
  <2>6. w \in [items -> Seq(Byte)] /\ Len(w[product]) = 6 /\ Len(w[version]) = 6
    BY <2>1, <2>2, <2>4, WrittenShort, ZenonT(60)
  <2> QED BY <2>4, <2>5, <2>6, Zenon
<1>2. w[capabilities] = <<Code.F>> \o write_table(v, Capabilities)
  <2>1. w = [x \in items |-> WriteItem(v, x)]
    BY CapabilitiesTable, WriteItemDef
  <2>2. w[capabilities] = WriteItem(v, capabilities)
    BY <1>1, <2>1
  <2> QED BY <2>2, WriteDict
<1>3. Len(write_table(v, Capabilities)) <= 16
  <2>1. /\ Len(Capabilities) = 2 /\ Capabilities[1] = << <<110>>, true>>
        /\ Capabilities[2] = << <<112>>, true>>
    BY DEF Capabilities
  <2> HIDE DEF v, true, deeper
  <2>2. Len(Entry(v, << <<110>>, true>>)) <= 4 /\ Len(Entry(v, << <<112>>, true>>)) <= 4
    <3>1. 110 \in 0 .. 127 /\ 112 \in 0 .. 127 /\ Len(v[true]) <= 2 /\ 2 \in Nat /\ 2 + 2 = 4
      <4>1. Len(v[true]) = 2
        BY <1>1, Zenon
      <4>2. 110 \in 0 .. 127 /\ 112 \in 0 .. 127 /\ 2 \in Nat /\ 2 + 2 = 4
        OBVIOUS
      <4> DEFINE m == Len(v[true])
      <4>3. m = 2
        BY <4>1, Zenon
      <4> HIDE DEF m
      <4>4. m <= 2
        BY <4>3
      <4>5. Len(v[true]) <= 2
        BY <4>4, Zenon DEF m
      <4> QED BY <4>2, <4>5, Zenon
    <3>2. ASSUME NEW x \in 0 .. 127 PROVE Len(Entry(v, << <<x>>, true>>)) <= 2 + 2
      <4>1. v \in [deeper -> Seq(Byte)] /\ true \in deeper
        BY <1>1, Zenon
      <4> QED BY <3>1, <4>1, EntryShort, Zenon
    <3> QED BY <3>1, <3>2
  <2>3. \A k \in 1 .. Len(Capabilities) : Len(Entry(v, Capabilities[k])) <= 4
    <3>1. \A k \in 1 .. 2 : k = 1 \/ k = 2
      OBVIOUS
    <3> QED BY <2>1, <2>2, <3>1
  <2>4. Len(Capabilities) <= 3 /\ 4 \in Nat /\ 4 + 4 + 4 + 4 = 16
    <3>1. Len(Capabilities) = 2
      BY <2>1, Zenon
    <3> QED BY <3>1
  <2>5. Len(write_table(v, Capabilities)) <= 4 + 4 + 4 + 4
    <3>1. v \in [deeper -> Seq(Byte)] /\ Capabilities \in Dicts(deeper)
      BY <1>1, Zenon
    <3> QED BY <2>3, <2>4, <3>1, TableShort, Zenon
  <2> QED BY <2>4, <2>5
<1>4. Len(w[capabilities]) <= 17
  <2> DEFINE c == Code.F
             s == write_table(v, Capabilities)
  <2>1. c \in Byte
    BY DEF Code, Byte
  <2>2. s \in Seq(Byte)
    <3> HIDE DEF v, deeper
    <3> QED BY <1>1, TableType
  <2>3. Len(s) <= 16 /\ w[capabilities] = <<c>> \o s
    BY <1>2, <1>3
  <2> HIDE DEF c, s, w, capabilities
  <2>4. Len(<<c>> \o s) = 1 + Len(s) /\ Len(s) \in Nat
    BY <2>1, <2>2, CodeType
  <2> QED BY <2>3, <2>4
<1>5. Len(write_table(w, peer_properties)) <= 61
  <2> DEFINE d == peer_properties
  <2>1. /\ Len(d) = 3 /\ d[1] = << <<99>>, capabilities>>
        /\ d[2] = << <<105>>, product>> /\ d[3] = << <<118>>, version>>
    BY DEF peer_properties, Capabilities
  <2>2. d \in Dicts(items)
    BY PeerProperties
  <2> HIDE DEF d, w, capabilities, product, version, items
  <2>3. /\ 99 \in 0 .. 127 /\ 105 \in 0 .. 127 /\ 118 \in 0 .. 127
        /\ 17 \in Nat /\ 2 + 17 = 19
    OBVIOUS
  <2>4. Len(w[product]) <= 17 /\ Len(w[version]) <= 17
    BY <1>1
  <2>5. ASSUME NEW x \in 0 .. 127, NEW y \in items, Len(w[y]) <= 17
        PROVE  Len(Entry(w, << <<x>>, y>>)) <= 2 + 17
    <3>1. w \in [items -> Seq(Byte)]
      BY <1>1, Zenon
    <3> QED BY <2>3, <2>5, <3>1, EntryShort, Zenon
  <2>6. /\ Len(Entry(w, << <<99>>, capabilities>>)) <= 19
        /\ Len(Entry(w, << <<105>>, product>>)) <= 19
        /\ Len(Entry(w, << <<118>>, version>>)) <= 19
    <3>1. capabilities \in items /\ product \in items /\ version \in items
      BY <1>1, Zenon
    <3>2. \A x \in 0 .. 127, y \in items : Len(w[y]) <= 17 => Len(Entry(w, << <<x>>, y>>)) <= 19
      BY <2>3, <2>5
    <3> QED BY <1>4, <2>3, <2>4, <3>1, <3>2, Zenon
  <2>7. \A k \in 1 .. Len(d) : Len(Entry(w, d[k])) <= 19
    <3>1. \A k \in 1 .. 3 : k = 1 \/ k = 2 \/ k = 3
      OBVIOUS
    <3> QED BY <2>1, <2>6, <3>1
  <2>8. Len(d) <= 3 /\ 19 \in Nat /\ 4 + 19 + 19 + 19 = 61
    <3>1. Len(d) = 3
      BY <2>1, Zenon
    <3> QED BY <3>1
  <2>9. Len(write_table(w, d)) <= 4 + 19 + 19 + 19
    <3>1. w \in [items -> Seq(Byte)]
      BY <1>1, Zenon
    <3> QED BY <2>2, <2>7, <2>8, <3>1, TableShort, ZenonT(60)
  <2> QED BY <2>8, <2>9 DEF d
<1>6. Dumped("F", peer_properties) = write_table(w, peer_properties)
  BY DumpCases
<1>7. Len(Dumped("F", peer_properties)) <= 1000
  <2> DEFINE s == write_table(w, peer_properties)
  <2>1. s \in Seq(Byte) /\ Len(s) <= 61 /\ Dumped("F", peer_properties) = s
    BY <1>1, <1>5, <1>6, PeerProperties, TableType
  <2> HIDE DEF s
  <2>2. Len(s) \in Nat
    BY <2>1
  <2> QED BY <2>1, <2>2
<1>8. Taken("F", peer_properties) /\ "F" \in Letters
  BY PeerProperties DEF Taken, Letters
<1>9. ~Illegible("F", peer_properties)
  BY DEF Illegible
<1> QED BY <1>7, <1>8, <1>9 DEF Brief

\* The greeting is heard as connection.start (sender.py:40-95).
Greeting == CHOOSE g : Says(send_connection_start, <<g>>)

\* The greeting is a whole frame (sender.py:40-95).
LEMMA StartSays == Says(send_connection_start, <<Greeting>>)
<1> DEFINE format == <<"o", "o", "F", "S", "S">>
           keys == <<"version-major", "version-minor", "server-properties", "mechanisms",
                     "locales">>
           a == <<80, 65>>
           b == <<101>>
           values == <<0, 9, peer_properties, a, b>>
           d == dumps(format, values)
<1>1. a \in Str /\ b \in Str /\ Len(a) <= 900 /\ Len(b) <= 900
  BY ShortStrs
<1>2. 0 \in Byte /\ 9 \in Byte /\ 10 \in Byte /\ "START" \in ServerNames
  BY DEF Byte, ServerNames
<1> HIDE DEF a, b
<1>3. Brief("o", 0) /\ Brief("o", 9) /\ Brief("F", peer_properties) /\ Brief("S", a) /\ Brief("S", b)
  BY <1>1, <1>2, BriefCases, BriefTexts, PeerBrief
<1>4. Short(format, values)
  BY <1>3, ShortFive
<1>5. ServerMethod["START"] = Layout(10, 10, format, keys)
  BY DEF ServerMethod
<1>6. send_connection_start = Reply(0, 10, 10, d)
  BY DEF send_connection_start, a, b
<1> DEFINE g == [name |-> "START", chan |-> 0, args |-> ArgumentsOf(keys, values)]
<1> HIDE DEF format, keys, values
<1>7. Says(Reply(0, 10, 10, d), <<g>>)
  BY <1>2, <1>4, <1>5, ReplySays
<1> HIDE DEF g, d
<1>8. Says(send_connection_start, <<g>>)
  BY <1>6, <1>7, Zenon
<1> QED BY <1>8, Zenon DEF Greeting

\* basic.deliver is heard with the consumer's tag, the delivery tag and the exchange
\* (sender.py:446-489).
LEMMA DeliverSays ==
    ASSUME NEW p, p.chan \in Byte, p.tag \in Keys, p.dtag \in Nat, Fits(p.dtag, 8),
           p.exchange \in Keys
    PROVE  Says(send_basic_deliver(p.chan, p.tag, p.dtag, FALSE, p.exchange, <<>>),
                <<[name |-> "BASIC_DELIVER", chan |-> p.chan,
                   args |-> [a \in ToSet(ServerMethod["BASIC_DELIVER"].args) |-> Label(p, a)]]>>)
<1> DEFINE format == <<"s", "L", "b", "s", "s">>
           keys == <<"consumer-tag", "delivery-tag", "redelivered", "exchange-name",
                     "routing-key">>
           none == <<>>
           values == <<p.tag, p.dtag, FALSE, p.exchange, none>>
           channel == p.chan
<1>1. 60 \in Byte /\ "BASIC_DELIVER" \in ServerNames
  BY DEF Byte, ServerNames
<1>2. /\ Brief("s", p.tag) /\ Brief("L", p.dtag) /\ Brief("b", FALSE) /\ Brief("s", p.exchange)
      /\ Brief("s", none)
  <2>1. Brief("s", p.tag) /\ Brief("s", p.exchange)
    BY BriefTexts, ShortKeys, Zenon
  <2>2. Brief("L", p.dtag)
    BY BriefCases, Zenon
  <2>3. Brief("b", FALSE)
    BY BriefCases, Zenon
  <2>4. Brief("s", none)
    BY BriefTexts, ShortKeys
  <2> QED BY <2>1, <2>2, <2>3, <2>4, Zenon
<1>3. Short(format, values)
  <2> HIDE DEF none
  <2> QED BY <1>2, ShortFive
<1>4. ServerMethod["BASIC_DELIVER"] = Layout(60, 60, format, keys)
  BY DEF ServerMethod
<1>5. send_basic_deliver(channel, p.tag, p.dtag, FALSE, p.exchange, <<>>)
        = Reply(channel, 60, 60, dumps(format, values))
  BY DEF send_basic_deliver
<1>6. ASSUME NEW j \in DOMAIN keys PROVE values[j] = Label(p, keys[j]) /\ keys[j] # "reserved-1"
  <2>1. /\ keys[1] = "consumer-tag" /\ keys[2] = "delivery-tag" /\ keys[3] = "redelivered"
        /\ keys[4] = "exchange-name" /\ keys[5] = "routing-key" /\ DOMAIN keys = 1 .. 5
    OBVIOUS
  <2>2. /\ values[1] = p.tag /\ values[2] = p.dtag /\ values[3] = FALSE
        /\ values[4] = p.exchange /\ values[5] = <<>>
    OBVIOUS
  <2>3. /\ Label(p, "consumer-tag") = p.tag /\ Label(p, "delivery-tag") = p.dtag
        /\ Label(p, "redelivered") = FALSE /\ Label(p, "exchange-name") = p.exchange
        /\ Label(p, "routing-key") = <<>>
    BY DEF Label
  <2> HIDE DEF keys, values
  <2>4. j = 1 \/ j = 2 \/ j = 3 \/ j = 4 \/ j = 5
    BY <2>1
  <2> QED BY <2>1, <2>2, <2>3, <2>4
<1> DEFINE T == ToSet(keys)
           A == [a \in T |-> Label(p, a)]
<1> HIDE DEF format, keys, values, channel
<1>7. ArgumentsOf(keys, values) = A
  <2> DEFINE V(a) == values[CHOOSE k \in DOMAIN keys : keys[k] = a]
  <2>1. ASSUME NEW a \in T PROVE V(a) = Label(p, a)
    <3>1. \E k \in DOMAIN keys : keys[k] = a
      BY DEF ToSet
    <3> DEFINE k == CHOOSE k \in DOMAIN keys : keys[k] = a
    <3>2. k \in DOMAIN keys /\ keys[k] = a
      BY <3>1
    <3> HIDE DEF k
    <3>3. values[k] = Label(p, a)
      BY <1>6, <3>2
    <3> QED BY <3>3 DEF k
  <2>2. T \ {"reserved-1"} = T
    <3>1. ASSUME NEW a \in T PROVE a # "reserved-1"
      <4>1. \E k \in DOMAIN keys : keys[k] = a
        BY DEF ToSet
      <4> QED BY <1>6, <4>1
    <3> QED BY <3>1
  <2>3. ArgumentsOf(keys, values) = [a \in T \ {"reserved-1"} |-> V(a)]
    BY DEF ArgumentsOf
  <2> HIDE DEF V, T
  <2> QED BY <2>1, <2>2, <2>3
<1>8. Says(Reply(channel, 60, 60, dumps(format, values)),
           <<[name |-> "BASIC_DELIVER", chan |-> channel, args |-> ArgumentsOf(keys, values)]>>)
  <2>1. channel \in Byte
    BY DEF channel
  <2> QED BY <1>1, <1>3, <1>4, <2>1, ReplySays
<1>9. ServerMethod["BASIC_DELIVER"].args = keys
  BY <1>4 DEF Layout
<1> HIDE DEF A
<1>10. [a \in ToSet(ServerMethod["BASIC_DELIVER"].args) |-> Label(p, a)] = A
  BY <1>9 DEF A
<1> QED BY <1>5, <1>7, <1>8, <1>10, Zenon DEF channel

\* A content header is heard with the properties that are kept, and a body as it was
\* written (sender.py:492-555).
LEMMA HeaderSays ==
    ASSUME NEW headers, \A k \in DOMAIN headers : headers[k] \in Given,
           ~HeaderRaises(headers), NEW size \in Nat, Fits(size, 4),
           ContentHeader(headers, size) \in Seq(Byte),
           Fits(Len(ContentHeader(headers, size)), 4), NEW channel \in Byte
    PROVE  Says(send_content_header(channel, headers, size),
                <<[name |-> "HEADER", chan |-> channel, args |-> HeaderOf(headers, size)]>>)
<1> DEFINE args == HeaderOf(headers, size)
           payload == ContentHeader(headers, size)
<1>1. HeaderArgs(args) /\ payload = ClientHeader(args)
  BY HeaderAsClient
<1>2. send_content_header(channel, headers, size) = Frame(2, channel, payload)
  BY DEF send_content_header
<1>3. payload \in Seq(Byte) /\ Fits(Len(payload), 4)
  OBVIOUS
<1> HIDE DEF args, payload
<1>4. Header(payload) = [name |-> "HEADER", args |-> args]
  <2>1. Fits(Len(ClientHeader(args)), 4)
    BY <1>1, <1>3, Zenon
  <2>2. Header(ClientHeader(args)) = [name |-> "HEADER", args |-> args]
    BY <1>1, <2>1, HeaderRoundTrip
  <2> QED BY <1>1, <2>2, Zenon
<1>5. 2 \in Byte
  BY DEF Byte
<1>6. Sound(2, channel, payload) = [name |-> "HEADER", chan |-> channel, args |-> args]
  BY <1>4 DEF Sound
<1>7. Says(Frame(2, channel, payload), <<Sound(2, channel, payload)>>)
  BY <1>3, <1>5, FrameSays
<1> QED BY <1>2, <1>6, <1>7, Zenon DEF args

\* A body is heard as it was written (sender.py:536-555).
LEMMA BodySays ==
    ASSUME NEW body \in Seq(Byte), Fits(Len(body), 4), NEW channel \in Byte
    PROVE  Says(send_content_body(channel, body),
                <<[name |-> "BODY", chan |-> channel, args |-> [content |-> body]]>>)
<1>1. 3 \in Byte
  BY DEF Byte
<1>2. Says(Frame(3, channel, body), <<Sound(3, channel, body)>>)
  BY <1>1, FrameSays
<1>3. Sound(3, channel, body) = [name |-> "BODY", chan |-> channel, args |-> [content |-> body]]
  BY DEF Sound, Body
<1> QED BY <1>2, <1>3, Zenon DEF send_content_body

\* Two of them one after the other.
LEMMA PairJoined ==
    ASSUME NEW x, NEW y
    PROVE  <<x>> \o <<y>> = <<x, y>>
<1> DEFINE S == {x, y}
           s == <<x>>
           t == <<y>>
           u == <<x, y>>
<1>1. s \in Seq(S) /\ t \in Seq(S) /\ u \in Seq(S) /\ Len(s) = 1 /\ Len(t) = 1 /\ Len(u) = 2
      /\ s[1] = x /\ t[1] = y /\ u[1] = x /\ u[2] = y
  OBVIOUS
<1> HIDE DEF S, s, t, u
<1>2. /\ s \o t \in Seq(S) /\ Len(s \o t) = 2 /\ (s \o t)[1] = x /\ (s \o t)[2] = y
  <2> DEFINE r == s \o t
  <2>1. s \in Seq(S) /\ t \in Seq(S)
    BY <1>1, Zenon
  <2>2. /\ r \in Seq(S) /\ Len(r) = Len(s) + Len(t)
        /\ \A i \in 1 .. Len(s) + Len(t) : r[i] = IF i <= Len(s) THEN s[i] ELSE t[i - Len(s)]
    BY <2>1, ConcatProperties
  <2> HIDE DEF r
  <2>3. Len(r) = 2 /\ \A i \in 1 .. 2 : r[i] = IF i <= 1 THEN s[i] ELSE t[i - 1]
    BY <1>1, <2>2
  <2>4. r[1] = s[1]
    BY <2>3, 1 \in 1 .. 2, 1 <= 1
  <2>5. r[2] = t[1]
    BY <2>3, 2 \in 1 .. 2, ~(2 <= 1), 2 - 1 = 1
  <2>6. r[1] = x /\ r[2] = y
    BY <1>1, <2>4, <2>5, Zenon
  <2> QED BY <2>2, <2>3, <2>6 DEF r
<1>3. s \o t = u
  <2> DEFINE r == s \o t
  <2>1. r \in Seq(S) /\ u \in Seq(S) /\ Len(r) = Len(u)
    BY <1>1, <1>2
  <2>2. \A i \in 1 .. Len(r) : r[i] = u[i]
    <3>1. Len(r) = 2 /\ \A i \in 1 .. 2 : i = 1 \/ i = 2
      BY <1>2
    <3>2. r[1] = u[1] /\ r[2] = u[2]
      BY <1>1, <1>2
    <3> HIDE DEF r
    <3> QED BY <3>1, <3>2
  <2> HIDE DEF r
  <2>3. r = u
    BY <2>1, <2>2, SeqEqual
  <2> QED BY <2>3 DEF r
<1> QED BY <1>3 DEF s, t, u

\* A delivery is heard as it was meant, or up to its header when that cannot be packed
\* (protocol.py:379-409).
LEMMA PostSays ==
    ASSUME NEW n \in DOMAIN Posts
    PROVE  LET p == Posts[n]
               e == push_message(p.headers, p.body, p.chan, p.tag, p.dtag, p.exchange)
           IN IF HeaderRaises(p.headers) THEN Starts(e, Delivery(p)) ELSE Says(e, Delivery(p))
<1> DEFINE p == Posts[n]
           headers == p.headers
           body == p.body
           size == Len(body)
           chan == p.chan
           d == send_basic_deliver(chan, p.tag, p.dtag, FALSE, p.exchange, <<>>)
           h == send_content_header(chan, headers, size)
           b == send_content_body(chan, body)
           e == push_message(headers, body, chan, p.tag, p.dtag, p.exchange)
           D == [name |-> "BASIC_DELIVER", chan |-> chan,
                 args |-> [a \in ToSet(ServerMethod["BASIC_DELIVER"].args) |-> Label(p, a)]]
           H == [name |-> "HEADER", chan |-> chan, args |-> HeaderOf(headers, size)]
           B == [name |-> "BODY", chan |-> chan, args |-> [content |-> body]]
<1>1. /\ chan \in Byte /\ p.tag \in Keys /\ p.exchange \in Keys /\ p.dtag \in Nat
      /\ Fits(p.dtag, 8) /\ body \in Seq(Byte) /\ Fits(size, 4)
      /\ \A k \in DOMAIN headers : headers[k] \in Given
      /\ HeaderRaises(headers) \/ Fits(Len(ContentHeader(headers, size)), 4)
  BY WireAssumption
<1>2. size \in Nat
  BY <1>1
<1>3. Says(d, <<D>>)
  <2> HIDE DEF p
  <2> QED BY <1>1, DeliverSays
<1>4. e = d \o h \o (IF HeaderRaises(headers) THEN <<>> ELSE b)
  BY DEF push_message
<1>5. Delivery(p) = <<D>> \o (IF HeaderRaises(headers) THEN <<>> ELSE <<H, B>>)
  BY DEF Delivery, HeaderOf
<1>6. <<D>> \in Seq(Sounds) /\ d \in Seq(Byte)
  BY <1>3 DEF Says
<1> HIDE DEF p, headers, body, size, chan, d, b, e, D, H, B
<1>7. CASE HeaderRaises(headers)
  <2>1. h = <<2, 0, chan>>
    BY <1>7 DEF send_content_header
  <2>2. h \in Seq(Byte)
    <3>1. 2 \in Byte /\ 0 \in Byte /\ chan \in Byte
      BY <1>1 DEF Byte
    <3> HIDE DEF h
    <3> QED BY <2>1, <3>1
  <2> HIDE DEF h
  <2>3. Starts(h, <<>>)
    BY <2>2, StartsAny
  <2>4. Starts(d \o h, <<D>> \o <<>>)
    BY <1>3, <2>3, SaysStarts
  <2>5. e = (d \o h) \o <<>> /\ Delivery(p) = <<D>> \o <<>>
    BY <1>4, <1>5, <1>7, Zenon
  <2>6. (d \o h) \o <<>> = d \o h
    <3>1. d \o h \in Seq(Byte)
      BY <1>6, <2>2, JoinLength
    <3> QED BY <3>1, ConcatEmptySeq
  <2>7. Starts(e, Delivery(p))
    BY <2>4, <2>5, <2>6, Zenon
  <2> QED BY <1>7, <2>7, Zenon DEF p, headers, body, chan, e
<1>8. CASE ~HeaderRaises(headers)
  <2>1. ContentHeader(headers, size) \in Seq(Byte)
    BY <1>1, <1>2, <1>8, ContentHeaderBytes
  <2>2. Says(h, <<H>>)
    BY <1>1, <1>2, <1>8, <2>1, HeaderSays DEF H
  <2>3. Says(b, <<B>>)
    BY <1>1, BodySays DEF b, B, size
  <2> HIDE DEF h
  <2>4. Says((d \o h) \o b, (<<D>> \o <<H>>) \o <<B>>)
    <3>1. Says(d \o h, <<D>> \o <<H>>)
      BY <1>3, <2>2, SaysThen
    <3> QED BY <2>3, <3>1, SaysThen
  <2>5. e = (d \o h) \o b /\ Delivery(p) = <<D>> \o <<H, B>>
    BY <1>4, <1>5, <1>8, Zenon
  <2>6. (<<D>> \o <<H>>) \o <<B>> = <<D>> \o <<H, B>>
    <3>1. <<D>> \in Seq(Sounds) /\ <<H>> \in Seq(Sounds) /\ <<B>> \in Seq(Sounds)
      BY <1>3, <2>2, <2>3, Zenon DEF Says
    <3>2. <<H>> \o <<B>> = <<H, B>>
      BY PairJoined
    <3>3. (<<D>> \o <<H>>) \o <<B>> = <<D>> \o (<<H>> \o <<B>>)
      BY <3>1, RegroupSounds
    <3> QED BY <3>2, <3>3
  <2>7. Says(e, Delivery(p))
    BY <2>4, <2>5, <2>6, Zenon
  <2> QED BY <1>8, <2>7, Zenon DEF p, headers, body, chan, e
<1> QED BY <1>7, <1>8

-----------------------------------------------------------------------------
(* What was said *)

\* What each of the things said means, and where the stream breaks.
MeantOf(s) == [n \in DOMAIN s |-> Meant(s[n])]
Cut(s) == SelectInSeq(s, Breaks)
UpTo(s, n) == SubSeq(s, 1, n)

\* The bytes stand for what was said, behind the greeting: the whole of it, or up to
\* where the stream breaks.
Told(s, e) ==
    /\ s \in Seq(ToSet(s)) /\ MeantOf(s) \in Seq(Seq(Sounds))
    /\ Cut(s) = 0 => Says(e, <<Greeting>> \o FlattenSeq(MeantOf(s)))
    /\ Cut(s) # 0 => Starts(e, <<Greeting>> \o FlattenSeq(MeantOf(UpTo(s, Cut(s)))))

\* The stream breaks at the first delivery with a header that cannot be packed
\* (sender.py:498-518).
LEMMA CutFinds ==
    ASSUME NEW s, Len(s) \in Nat
    PROVE  \/ Cut(s) = 0 /\ \A n \in 1 .. Len(s) : ~Breaks(s[n])
           \/ /\ Cut(s) \in 1 .. Len(s) /\ Breaks(s[Cut(s)])
              /\ \A n \in 1 .. Len(s) : Breaks(s[n]) => Cut(s) <= n
<1> DEFINE I == {i \in 1 .. Len(s) : Breaks(s[i])}
           c == Cut(s)
<1>1. c = IF I # {} THEN Min(I) ELSE 0
  BY DEF Cut, SelectInSeq
<1>2. I \subseteq Nat /\ (\A i \in I : i \in 1 .. Len(s) /\ Breaks(s[i]))
      /\ \A i \in 1 .. Len(s) : Breaks(s[i]) => i \in I
  OBVIOUS
<1> HIDE DEF I, c
<1>3. CASE I = {}
  BY <1>1, <1>2, <1>3 DEF c
<1>4. CASE I # {}
  <2>1. \E x \in I : \A y \in I : x <= y
    BY <1>2, <1>4, LeastElement
  <2>2. c \in I /\ \A y \in I : c <= y
    BY <1>1, <1>4, <2>1, Zenon DEF Min
  <2> QED BY <1>2, <2>2 DEF c
<1> QED BY <1>3, <1>4

\* What is said later neither mends the stream nor breaks it earlier.
LEMMA CutGrows ==
    ASSUME NEW s, s \in Seq(ToSet(s)), NEW x
    PROVE  LET t == Append(s, x)
           IN /\ Cut(s) # 0 => Cut(s) \in 1 .. Len(s) /\ Cut(t) = Cut(s)
              /\ Cut(s) = 0 => Cut(t) = IF Breaks(x) THEN Len(s) + 1 ELSE 0
<1> DEFINE t == Append(s, x)
           m == Len(s)
           c == Cut(s)
           d == Cut(t)
<1>1. m \in Nat /\ Len(t) = m + 1 /\ t[m + 1] = x /\ \A n \in 1 .. m : t[n] = s[n]
  BY AppendAny
<1> HIDE DEF t, m
<1>2. \/ c = 0 /\ \A n \in 1 .. m : ~Breaks(s[n])
      \/ c \in 1 .. m /\ Breaks(s[c]) /\ \A n \in 1 .. m : Breaks(s[n]) => c <= n
  BY <1>1, CutFinds DEF m
<1>3. \/ d = 0 /\ \A n \in 1 .. m + 1 : ~Breaks(t[n])
      \/ d \in 1 .. m + 1 /\ Breaks(t[d]) /\ \A n \in 1 .. m + 1 : Breaks(t[n]) => d <= n
  <2>1. Len(t) \in Nat
    BY <1>1
  <2>2. \/ d = 0 /\ \A n \in 1 .. Len(t) : ~Breaks(t[n])
        \/ d \in 1 .. Len(t) /\ Breaks(t[d]) /\ \A n \in 1 .. Len(t) : Breaks(t[n]) => d <= n
    BY <2>1, CutFinds
  <2> HIDE DEF d
  <2> QED BY <1>1, <2>2
<1> HIDE DEF c, d
<1>4. \A n \in 1 .. m + 1 : n \in 1 .. m \/ n = m + 1
  BY <1>1
<1>5. \A n \in 1 .. m : n \in 1 .. m + 1 /\ (Breaks(t[n]) <=> Breaks(s[n]))
  BY <1>1
<1>6. m + 1 \in 1 .. m + 1 /\ (Breaks(t[m + 1]) <=> Breaks(x))
  BY <1>1
<1>7. c # 0 => c \in 1 .. m /\ d = c
  <2> SUFFICES ASSUME c # 0 PROVE c \in 1 .. m /\ d = c
    OBVIOUS
  <2>1. c \in 1 .. m /\ Breaks(s[c]) /\ \A n \in 1 .. m : Breaks(s[n]) => c <= n
    BY <1>2
  <2>2. c \in 1 .. m + 1 /\ Breaks(t[c])
    BY <1>5, <2>1
  <2>3. d \in 1 .. m + 1 /\ Breaks(t[d]) /\ d <= c
    BY <1>3, <2>2
  <2>4. d \in 1 .. m
    BY <1>1, <2>1, <2>3
  <2>5. c <= d
    BY <1>5, <2>1, <2>3, <2>4
  <2>6. d = c
    BY <1>1, <2>1, <2>3, <2>4, <2>5
  <2> QED BY <2>1, <2>6
<1>8. c = 0 => d = IF Breaks(x) THEN m + 1 ELSE 0
  <2> SUFFICES ASSUME c = 0 PROVE d = IF Breaks(x) THEN m + 1 ELSE 0
    OBVIOUS
  <2>1. \A n \in 1 .. m : ~Breaks(s[n])
    BY <1>1, <1>2
  <2>2. CASE Breaks(x)
    <3>1. d \in 1 .. m + 1 /\ Breaks(t[d])
      BY <1>3, <1>6, <2>2
    <3>2. d = m + 1
      BY <1>4, <1>5, <2>1, <3>1
    <3> QED BY <2>2, <3>2
  <2>3. CASE ~Breaks(x)
    <3>1. \A n \in 1 .. m + 1 : ~Breaks(t[n])
      BY <1>4, <1>5, <1>6, <2>1, <2>3
    <3> QED BY <1>3, <2>3, <3>1
  <2> QED BY <2>2, <2>3
<1> QED BY <1>7, <1>8 DEF t, m, c, d

\* A list that has one part more, at its end.
OneMore(u, v, z, m) ==
    /\ m \in Nat /\ Len(v) = m /\ u = [n \in 1 .. m + 1 |-> u[n]] /\ u[m + 1] = z
    /\ \A n \in 1 .. m : u[n] = v[n]

\* Such a list is the other one with the part appended to it.
LEMMA OnePartMore ==
    ASSUME NEW E, NEW v \in Seq(E), NEW z \in E, NEW u, NEW m, OneMore(u, v, z, m)
    PROVE  u = Append(v, z) /\ u \in Seq(E)
<1>0. /\ m \in Nat /\ Len(v) = m /\ u = [n \in 1 .. m + 1 |-> u[n]] /\ u[m + 1] = z
      /\ \A n \in 1 .. m : u[n] = v[n]
  BY Zenon DEF OneMore
<1> DEFINE w == Append(v, z)
<1>1. w \in Seq(E) /\ Len(w) = m + 1 /\ w[m + 1] = z /\ \A n \in 1 .. m : w[n] = v[n]
  BY <1>0, AppendParts
<1>2. \A n \in 1 .. m : v[n] \in E
  BY <1>0
<1> HIDE DEF w
<1>3. \A n \in 1 .. m + 1 : u[n] = w[n] /\ u[n] \in E
  <2> TAKE n \in 1 .. m + 1
  <2>1. n \in 1 .. m \/ n = m + 1
    BY <1>0
  <2> QED BY <1>0, <1>1, <1>2, <2>1
<1>4. u \in Seq(E) /\ Len(u) = m + 1
  BY <1>0, <1>3
<1>5. u = w
  BY <1>1, <1>3, <1>4, SameParts
<1> QED BY <1>4, <1>5 DEF w

\* What is meant grows with what is said.
LEMMA MeantGrows ==
    ASSUME NEW s, s \in Seq(ToSet(s)), NEW x, MeantOf(s) \in Seq(Seq(Sounds)),
           Meant(x) \in Seq(Sounds)
    PROVE  /\ MeantOf(Append(s, x)) = Append(MeantOf(s), Meant(x))
           /\ MeantOf(Append(s, x)) \in Seq(Seq(Sounds))
<1> DEFINE R == Seq(Sounds)
           m == Len(s)
           t == Append(s, x)
           u == MeantOf(t)
           v == MeantOf(s)
           z == Meant(x)
<1>0. v \in Seq(R) /\ z \in R
  OBVIOUS
<1> HIDE DEF R
<1>1. /\ m \in Nat /\ DOMAIN s = 1 .. m
      /\ t[m + 1] = x /\ (\A n \in 1 .. m : t[n] = s[n]) /\ DOMAIN t = 1 .. m + 1
  BY AppendAny
<1> HIDE DEF t
<1>2. v = [n \in 1 .. m |-> Meant(s[n])] /\ u = [n \in 1 .. m + 1 |-> Meant(t[n])]
  BY <1>1 DEF MeantOf
<1> HIDE DEF u, v, m
<1>3. Len(v) = m
  <2>1. DOMAIN v = 1 .. m
    BY <1>2, Zenon
  <2> QED BY <1>0, <1>1, <2>1, LenProperties
<1>4. u = [n \in 1 .. m + 1 |-> u[n]]
  BY <1>2
<1>5. u[m + 1] = z
  <2>1. m + 1 \in 1 .. m + 1
    BY <1>1
  <2>2. u[m + 1] = Meant(t[m + 1])
    BY <1>2, <2>1, Zenon
  <2> QED BY <1>1, <2>2, Zenon
<1>6. \A n \in 1 .. m : u[n] = v[n]
  <2> TAKE n \in 1 .. m
  <2>1. n \in 1 .. m + 1
    BY <1>1
  <2>2. u[n] = Meant(t[n]) /\ v[n] = Meant(s[n]) /\ t[n] = s[n]
    BY <1>1, <1>2, <2>1, Zenon
  <2> QED BY <2>2, Zenon
<1> HIDE DEF z
<1>7. u = Append(v, z) /\ u \in Seq(R)
  <2>1. OneMore(u, v, z, m)
    BY <1>1, <1>3, <1>4, <1>5, <1>6, Zenon DEF OneMore
  <2> QED BY <1>0, <2>1, OnePartMore, Zenon
<1> QED BY <1>7, Zenon DEF t, u, v, z, R

\* Sounds of a list of what is said, one after the other.
LEMMA FlattenSounds ==
    ASSUME NEW ss \in Seq(Seq(Sounds))
    PROVE  FlattenSeq(ss) \in Seq(Sounds)
<1>1. \E f : /\ f \in [0 .. Len(ss) -> Seq(Sounds)]
             /\ f[0] = <<>> /\ f[Len(ss)] = FlattenSeq(ss)
             /\ \A k \in 1 .. Len(ss) : f[k] = f[k - 1] \o ss[k]
  BY FlattenParts, Zenon
<1>2. Len(ss) \in 0 .. Len(ss)
  OBVIOUS
<1> QED BY <1>1, <1>2, Zenon

\* The greeting, what was meant before, and what is meant now.
LEMMA MeantBehind ==
    ASSUME NEW s, s \in Seq(ToSet(s)), NEW x, MeantOf(s) \in Seq(Seq(Sounds)),
           Meant(x) \in Seq(Sounds)
    PROVE  <<Greeting>> \o FlattenSeq(MeantOf(Append(s, x)))
             = (<<Greeting>> \o FlattenSeq(MeantOf(s))) \o Meant(x)
<1> DEFINE g == <<Greeting>>
           v == MeantOf(s)
           z == Meant(x)
           w == FlattenSeq(v)
<1>1. g \in Seq(Sounds)
  BY StartSays, Zenon DEF Says
<1>2. w \in Seq(Sounds)
  BY FlattenSounds, Zenon
<1>3. MeantOf(Append(s, x)) = Append(v, z)
  BY MeantGrows, Zenon
<1>4. FlattenSeq(Append(v, z)) = w \o z
  BY FlattenGrows, Zenon
<1>5. (g \o w) \o z = g \o (w \o z)
  <2> HIDE DEF g, w, z
  <2>1. z \in Seq(Sounds)
    BY DEF z
  <2> QED BY <1>1, <1>2, <2>1, RegroupSounds, Zenon
<1> HIDE DEF g, v, z, w
<1>6. g \o FlattenSeq(MeantOf(Append(s, x))) = (g \o w) \o z
  BY <1>3, <1>4, <1>5, Zenon
<1> QED BY <1>6, Zenon DEF g, v, z, w

\* The part of a list up to a place within it is not changed by what comes later.
LEMMA UpToLater ==
    ASSUME NEW s, s \in Seq(ToSet(s)), NEW x
    PROVE  /\ \A c \in 1 .. Len(s) : UpTo(Append(s, x), c) = UpTo(s, c)
           /\ UpTo(Append(s, x), Len(s) + 1) = Append(s, x)
<1> DEFINE t == Append(s, x)
           m == Len(s)
           E == ToSet(t)
<1>1. /\ t \in Seq(E) /\ Len(t) = m + 1 /\ m \in Nat /\ \A n \in 1 .. m : t[n] = s[n]
  BY AppendAny
<1> HIDE DEF t, m, E
<1>2. UpTo(t, m + 1) = t
  BY <1>1, SubSeqFull DEF UpTo
<1>3. ASSUME NEW c \in 1 .. m PROVE UpTo(t, c) = UpTo(s, c)
  <2>1. \A n \in 1 .. c : t[n] = s[n]
    BY <1>1
  <2>2. UpTo(t, c) = [n \in 1 .. c |-> t[n]] /\ UpTo(s, c) = [n \in 1 .. c |-> s[n]]
    <3>1. c - 1 + 1 = c /\ \A n \in 1 .. c : n + 1 - 1 = n
      BY <1>1
    <3>2. \A r : SubSeq(r, 1, c) = [n \in 1 .. c |-> r[n]]
      BY <1>1
    <3> QED BY <3>2 DEF UpTo
  <2> QED BY <2>1, <2>2
<1> QED BY <1>2, <1>3 DEF t, m

\* What is meant by a part of what was said.
LEMMA MeantPart ==
    ASSUME NEW s, s \in Seq(ToSet(s)), MeantOf(s) \in Seq(Seq(Sounds)), Cut(s) # 0
    PROVE  MeantOf(UpTo(s, Cut(s))) \in Seq(Seq(Sounds))
<1> DEFINE R == Seq(Sounds)
           c == Cut(s)
           r == UpTo(s, c)
           v == MeantOf(s)
           u == MeantOf(r)
<1>0. v \in Seq(R)
  OBVIOUS
<1>1. Len(s) \in Nat /\ DOMAIN s = 1 .. Len(s)
  BY LenProperties
<1>2. c \in 1 .. Len(s)
  BY <1>1, CutFinds
<1> HIDE DEF c, R
<1>3. r = [n \in 1 .. c |-> s[n]]
  <2>1. \A q : SubSeq(q, 1, c) = [n \in 1 .. c |-> q[n]]
    BY <1>1, <1>2
  <2> QED BY <2>1 DEF UpTo
<1> HIDE DEF r
<1>4. v = [n \in 1 .. Len(s) |-> Meant(s[n])] /\ u = [n \in 1 .. c |-> Meant(r[n])]
  BY <1>1, <1>3 DEF MeantOf
<1> HIDE DEF u, v
<1>5. \A n \in 1 .. Len(s) : v[n] \in R
  <2>1. DOMAIN v = 1 .. Len(s)
    BY <1>4, Zenon
  <2> QED BY <1>0, <2>1
<1>6. \A n \in 1 .. c : u[n] \in R
  <2> TAKE n \in 1 .. c
  <2>1. n \in 1 .. Len(s)
    BY <1>1, <1>2
  <2>2. u[n] = Meant(r[n]) /\ r[n] = s[n] /\ v[n] = Meant(s[n])
    BY <1>3, <1>4, <2>1, Zenon
  <2> QED BY <1>5, <2>1, <2>2, Zenon
<1>7. u \in Seq(R)
  <2>1. u = [n \in 1 .. c |-> u[n]]
    BY <1>4
  <2>2. c \in Nat
    BY <1>1, <1>2
  <2> HIDE DEF u
  <2> QED BY <1>6, <2>1, <2>2, SMTT(30)
<1> QED BY <1>7 DEF u, r, c, R

\* What is written and said now goes behind what was before: after a break it makes no
\* difference (sender.py:25-555).
LEMMA ToldMore ==
    ASSUME NEW s, NEW e, Told(s, e), NEW x, NEW b, Meant(x) \in Seq(Sounds),
           IF Breaks(x) THEN Starts(b, Meant(x)) ELSE Says(b, Meant(x))
    PROVE  Told(Append(s, x), e \o b)
<1> DEFINE t == Append(s, x)
           c == Cut(s)
           d == Cut(t)
           m == Len(s)
           A(r) == <<Greeting>> \o FlattenSeq(MeantOf(r))
           z == Meant(x)
<1>1. /\ s \in Seq(ToSet(s)) /\ MeantOf(s) \in Seq(Seq(Sounds))
      /\ (c = 0 => Says(e, A(s))) /\ (c # 0 => Starts(e, A(UpTo(s, c))))
  BY Zenon DEF Told
<1>2. b \in Seq(Byte)
  BY Zenon DEF Says, Starts
<1>3. t \in Seq(ToSet(t)) /\ m \in Nat
  BY <1>1, AppendAny
<1>4. MeantOf(t) \in Seq(Seq(Sounds))
  BY <1>1, MeantGrows, Zenon
<1>5. A(t) = A(s) \o z
  BY <1>1, MeantBehind, Zenon
<1>6. /\ c # 0 => c \in 1 .. m /\ d = c
      /\ c = 0 => d = IF Breaks(x) THEN m + 1 ELSE 0
  BY <1>1, CutGrows, Zenon
<1>7. (\A n \in 1 .. m : UpTo(t, n) = UpTo(s, n)) /\ UpTo(t, m + 1) = t
  BY <1>1, UpToLater, Zenon
<1> HIDE DEF t, c, d, m, A, z
<1>8. CASE c # 0
  <2>1. UpTo(t, d) = UpTo(s, c) /\ d # 0
    BY <1>6, <1>7, <1>8, Zenon
  <2>2. Starts(e \o b, A(UpTo(s, c)))
    BY <1>1, <1>2, <1>8, StartsThen, Zenon
  <2>3. (d = 0 => Says(e \o b, A(t))) /\ (d # 0 => Starts(e \o b, A(UpTo(t, d))))
    BY <2>1, <2>2, Zenon
  <2> QED BY <1>3, <1>4, <2>3, Zenon DEF Told, t, d, A
<1>9. CASE c = 0 /\ Breaks(x)
  <2>1. d = m + 1 /\ d # 0 /\ UpTo(t, d) = t
    BY <1>3, <1>6, <1>7, <1>9
  <2>2. Starts(b, z)
    BY <1>9, Zenon DEF z
  <2>3. Says(e, A(s))
    BY <1>1, <1>9, Zenon
  <2>4. Starts(e \o b, A(t))
    BY <1>5, <2>2, <2>3, SaysStarts, Zenon
  <2>5. (d = 0 => Says(e \o b, A(t))) /\ (d # 0 => Starts(e \o b, A(UpTo(t, d))))
    BY <2>1, <2>4, Zenon
  <2> QED BY <1>3, <1>4, <2>5, Zenon DEF Told, t, d, A
<1>10. CASE c = 0 /\ ~Breaks(x)
  <2>1. d = 0
    BY <1>6, <1>10
  <2>2. Says(b, z)
    BY <1>10, Zenon DEF z
  <2>3. Says(e, A(s))
    BY <1>1, <1>10, Zenon
  <2>4. Says(e \o b, A(t))
    BY <1>5, <2>2, <2>3, SaysThen, Zenon
  <2>5. (d = 0 => Says(e \o b, A(t))) /\ (d # 0 => Starts(e \o b, A(UpTo(t, d))))
    BY <2>1, <2>4, Zenon
  <2> QED BY <1>3, <1>4, <2>5, Zenon DEF Told, t, d, A
<1> QED BY <1>8, <1>9, <1>10, Zenon

-----------------------------------------------------------------------------
(* What is heard is what was said *)

HeardInv == Told(said, outbound)

\* At first connection.start is written, and nothing is said behind it
\* (protocol.py:94-101).
LEMMA HeardStart ==
    ASSUME WireInit
    PROVE  HeardInv
<1> DEFINE x == [on |-> "start"]
           s == <<x>>
           g == <<Greeting>>
<1>1. said = s /\ outbound = send_connection_start
  BY DEF WireInit
<1>2. Meant(x) = <<>> /\ ~Breaks(x)
  BY DEF Meant, Breaks
<1>3. s \in Seq(ToSet(s)) /\ Len(s) = 1 /\ DOMAIN s = 1 .. 1 /\ s[1] = x
  BY DEF ToSet
<1> HIDE DEF s, x
<1>4. MeantOf(s) = [n \in 1 .. 1 |-> <<>>]
  <2>1. \A n \in 1 .. 1 : Meant(s[n]) = <<>>
    BY <1>2, <1>3
  <2> QED BY <1>3, <2>1 DEF MeantOf
<1> DEFINE u == [n \in 1 .. 1 |-> <<>>]
<1>5. u \in Seq(Seq(Sounds)) /\ Len(u) = 1 /\ u[1] = <<>>
  OBVIOUS
<1>6. FlattenSeq(u) = <<>>
  <2>1. \E f : /\ f \in [0 .. Len(u) -> Seq(Sounds)]
               /\ f[0] = <<>> /\ f[Len(u)] = FlattenSeq(u)
               /\ \A k \in 1 .. Len(u) : f[k] = f[k - 1] \o u[k]
    <3> HIDE DEF u
    <3> QED BY <1>5, FlattenParts, Zenon
  <2> HIDE DEF u
  <2>2. PICK f : f[0] = <<>> /\ f[1] = FlattenSeq(u) /\ f[1] = f[0] \o u[1]
    <3>1. 1 \in 1 .. 1 /\ 1 - 1 = 0
      OBVIOUS
    <3> QED BY <1>5, <2>1, <3>1
  <2>3. <<>> \o <<>> = <<>>
    OBVIOUS
  <2> QED BY <1>5, <2>2, <2>3
<1> HIDE DEF u
<1>7. Cut(s) = 0
  BY <1>2, <1>3, CutFinds
<1>8. g \o <<>> = g
  OBVIOUS
<1>9. Says(send_connection_start, g)
  BY StartSays, Zenon
<1> HIDE DEF g
<1>10. Says(send_connection_start, g \o FlattenSeq(MeantOf(s)))
  BY <1>4, <1>6, <1>8, <1>9, Zenon DEF u
<1>11. MeantOf(s) \in Seq(Seq(Sounds))
  BY <1>4, <1>5, Zenon DEF u
<1>12. Told(s, send_connection_start)
  BY <1>3, <1>7, <1>10, <1>11, Zenon DEF Told, g
<1> QED BY <1>1, <1>12, Zenon DEF HeardInv

\* A confirmation is about the name, the channel and the arguments of the frame that was
\* read (frame.py:22-85).
LEMMA SameConfirmation ==
    ASSUME NEW f, NEW g, f.name = g.name, f.chan = g.chan, f.args = g.args
    PROVE  Confirmation(g) = Confirmation(f)
<1>1. \A a : Answer(g, a) = Answer(f, a)
  BY SMT DEF Answer
<1> QED BY <1>1, Zenon DEF Confirmation

\* What is said of a frame that is answered.
LEMMA MeantReply ==
    ASSUME NEW f
    PROVE  LET x == [on |-> "reply", to |-> f]
           IN Meant(x) = <<Confirmation(f)>> /\ ~Breaks(x)
  BY DEF Meant, Breaks

\* A reply is heard as what AMQP expects in answer to the frame (protocol.py:112-348).
LEMMA HeardTurn ==
    ASSUME WireInv, HeardInv, Turn
    PROVE  HeardInv'
<1> DEFINE f == read_frame(buffer)
           k == Len(got) + 1
           y == [name |-> f.name, chan |-> f.chan, args |-> f.args]
           x == [on |-> "reply", to |-> y]
<1>1. \/ outbound' = outbound /\ said' = said
      \/ /\ f.name \notin {"None", "InvalidFrameError", "UnicodeDecodeError"}
         /\ f.name \in Replied /\ f.chan \in Byte
         /\ outbound' = outbound \o reply(f) /\ got' = Append(got, y)
         /\ said' = Append(said, [on |-> "reply", to |-> Last(got')])
  <2>1. TurnTakes(f) \/ TurnLeaves(f)
    BY TurnShape, Zenon
  <2> HIDE DEF f
  <2>2. TurnLeaves(f) => outbound' = outbound /\ said' = said
    BY DEF TurnLeaves
  <2>3. TurnTakes(f) => /\ f.name \notin {"None", "InvalidFrameError", "UnicodeDecodeError"}
                        /\ got' = Append(got, y) /\ Writes(f)
    BY Zenon DEF TurnTakes
  <2> QED BY <2>1, <2>2, <2>3, Zenon DEF Writes
<1>2. CASE outbound' = outbound /\ said' = said
  BY <1>2, Zenon DEF HeardInv
<1>3. CASE /\ f.name \notin {"None", "InvalidFrameError", "UnicodeDecodeError"}
           /\ f.name \in Replied /\ f.chan \in Byte
           /\ outbound' = outbound \o reply(f) /\ got' = Append(got, y)
           /\ said' = Append(said, [on |-> "reply", to |-> Last(got')])
  <2> DEFINE g == sent[k]
  <2>0. sent \in Seq(Sendable) /\ got \in Seq(ToSet(got))
    BY DEF WireInv
  <2>1. /\ k <= Len(sent) /\ f.name = g.name /\ f.chan = g.chan /\ Seen(y) = Seen(g)
    <3>1. NoFrame.name = "None" /\ UnicodeDecodeError.name = "UnicodeDecodeError"
      BY DEF NoFrame, UnicodeDecodeError
    <3>2. /\ k <= Len(sent) /\ f.name = sent[k].name /\ f.chan = sent[k].chan
          /\ AsSent(y, sent[k])
      BY <1>3, <3>1, TurnFinds
    <3> HIDE DEF f, k
    <3> QED BY <3>2, Zenon DEF AsSent
  <2>2. y.name = f.name /\ y.chan = f.chan /\ y.args = f.args
    OBVIOUS
  <2> HIDE DEF f
  <2>3. Last(got') = y
    <3> DEFINE z == y
    <3>1. got' = Append(got, z)
      BY <1>3
    <3> HIDE DEF z
    <3>2. got'[Len(got) + 1] = z /\ Len(got') = Len(got) + 1
      BY <2>0, <3>1, AppendAny
    <3>3. Last(got') = z
      BY <3>2 DEF Last
    <3> QED BY <3>3 DEF z
  <2>4. g \in Sendable
    <3>1. k \in 1 .. Len(sent)
      BY <2>0, <2>1, InFlight
    <3> QED BY <2>0, <3>1
  <2>5. Encodable(g)
    BY <2>4, SendableEncoded
  <2> HIDE DEF g, y
  <2>6. f.name \in {"QUEUE_DECLARE", "BASIC_CONSUME", "BASIC_CANCEL"} => f.args = g.args
    <3>1. f.name \in {"QUEUE_DECLARE", "BASIC_CONSUME", "BASIC_CANCEL"} =>
              f.name \notin DOMAIN Unread
      BY DEF Unread
    <3>2. f.name \notin DOMAIN Unread => y = g
      BY <2>1, <2>2, SeenWhole
    <3> QED BY <2>2, <3>1, <3>2
  <2>7. /\ f.name = "QUEUE_DECLARE" => f.args["queue-name"] \in Keys
        /\ f.name \in {"BASIC_CONSUME", "BASIC_CANCEL"} => f.args["consumer-tag"] \in Keys
    <3>1. f.name = g.name
      BY <2>1, Zenon
    <3>2. /\ g.name = "QUEUE_DECLARE" => g.args["queue-name"] \in Keys
          /\ g.name \in {"BASIC_CONSUME", "BASIC_CANCEL"} => g.args["consumer-tag"] \in Keys
      BY <2>5, NamesOfReplies, Zenon
    <3>3. f.name \in {"BASIC_CONSUME", "BASIC_CANCEL"} \/ f.name = "QUEUE_DECLARE"
            => f.args = g.args
      BY <2>6, Zenon
    <3> QED BY <3>1, <3>2, <3>3, Zenon
  <2>8. Says(reply(f), <<Confirmation(f)>>)
    <3>1. f.name \in Replied /\ f.chan \in Byte
      BY <1>3, Zenon
    <3> QED BY <2>7, <3>1, ReplyHeard, Zenon
  <2>9. Confirmation(f) = Confirmation(y)
    BY <2>2, SameConfirmation, Zenon
  <2>10. Meant(x) = <<Confirmation(y)>> /\ ~Breaks(x)
    BY MeantReply, Zenon
  <2> DEFINE r == reply(f)
  <2> HIDE DEF x, r
  <2>11. Says(r, Meant(x))
    BY <2>8, <2>9, <2>10, Zenon DEF r
  <2>12. Meant(x) \in Seq(Sounds)
    BY <2>11, Zenon DEF Says
  <2>13. Told(Append(said, x), outbound \o r)
    BY <2>10, <2>11, <2>12, ToldMore, Zenon DEF HeardInv
  <2>14. said' = Append(said, x) /\ outbound' = outbound \o r
    BY <1>3, <2>3, Zenon DEF x, r
  <2> QED BY <2>13, <2>14, Zenon DEF HeardInv
<1> QED BY <1>1, <1>2, <1>3

\* A delivery is heard with its labels, its headers and its body, or it breaks the
\* stream (protocol.py:379-409).
LEMMA HeardPost ==
    ASSUME HeardInv, Post
    PROVE  HeardInv'
<1>1. PICK n \in DOMAIN Posts :
          LET p == Posts[n]
          IN /\ outbound' = outbound \o push_message(p.headers, p.body, p.chan, p.tag, p.dtag,
                                                     p.exchange)
             /\ said' = Append(said, [on |-> "post", post |-> p])
  BY DEF Post
<1> DEFINE p == Posts[n]
           x == [on |-> "post", post |-> p]
           b == push_message(p.headers, p.body, p.chan, p.tag, p.dtag, p.exchange)
<1>2. IF HeaderRaises(p.headers) THEN Starts(b, Delivery(p)) ELSE Says(b, Delivery(p))
  BY PostSays, Zenon
<1>3. said' = Append(said, x) /\ outbound' = outbound \o b
  BY <1>1, Zenon
<1>4. Meant(x) = Delivery(p) /\ (Breaks(x) <=> HeaderRaises(p.headers))
  BY DEF Meant, Breaks
<1> HIDE DEF p, b, x
<1>5. IF Breaks(x) THEN Starts(b, Meant(x)) ELSE Says(b, Meant(x))
  BY <1>2, <1>4, Zenon
<1>6. Meant(x) \in Seq(Sounds)
  BY <1>5, Zenon DEF Says, Starts
<1>7. Told(Append(said, x), outbound \o b)
  BY <1>5, <1>6, ToldMore, Zenon DEF HeardInv
<1> QED BY <1>3, <1>7, Zenon DEF HeardInv

\* Nothing else writes.
LEMMA HeardStep ==
    ASSUME WireInv, HeardInv, [WireNext]_wireVars
    PROVE  HeardInv'
<1>1. CASE Turn
  BY <1>1, HeardTurn
<1>2. CASE Post
  BY <1>2, HeardPost
<1>3. CASE ClientSend \/ data_received \/ UNCHANGED wireVars
  <2>1. outbound' = outbound /\ said' = said
    BY <1>3 DEF ClientSend, data_received, wireVars, outVars
  <2> QED BY <2>1, Zenon DEF HeardInv
<1> QED BY <1>1, <1>2, <1>3 DEF WireNext

\* A beginning is a prefix.
LEMMA BeginningIsPrefix ==
    ASSUME NEW s \in Seq(Sounds), NEW t \in Seq(Sounds)
    PROVE  IsPrefix(s, s \o t)
<1> DEFINE u == s \o t
           m == Len(s)
<1>1. /\ u \in Seq(Sounds) /\ Len(u) = m + Len(t) /\ m \in Nat /\ Len(t) \in Nat
      /\ \A i \in 1 .. m : u[i] = s[i]
  BY JoinParts
<1> HIDE DEF u, m
<1>2. SubSeq(s, 1, m) = SubSeq(u, 1, m)
  <2>1. \A r : SubSeq(r, 1, m) = [i \in 1 .. m |-> r[i]]
    BY <1>1
  <2> QED BY <1>1, <2>1
<1>3. m <= Len(u)
  BY <1>1
<1> QED BY <1>2, <1>3 DEF IsPrefix, u, m

\* What comes behind the first.
LEMMA BehindFirst ==
    ASSUME NEW S, NEW g \in S, NEW m \in Seq(S)
    PROVE  Tail(<<g>> \o m) = m
<1> DEFINE s == <<g>>
           u == s \o m
           w == Tail(u)
<1>1. s \in Seq(S) /\ Len(s) = 1 /\ Len(m) \in Nat
  OBVIOUS
<1> HIDE DEF s
<1>2. /\ u \in Seq(S) /\ Len(u) = 1 + Len(m)
      /\ \A i \in 1 .. Len(m) : u[1 + i] = m[i]
  <2>1. /\ u \in Seq(S) /\ Len(u) = Len(s) + Len(m)
        /\ \A i \in 1 .. Len(m) : u[Len(s) + i] = m[i]
    BY <1>1, JoinParts
  <2> HIDE DEF u
  <2> QED BY <1>1, <2>1
<1> HIDE DEF u
<1>3. w \in Seq(S) /\ Len(w) = Len(m) /\ \A i \in 1 .. Len(m) : w[i] = u[i + 1]
  BY <1>1, <1>2
<1> HIDE DEF w
<1>4. \A i \in 1 .. Len(m) : w[i] = m[i]
  <2> TAKE i \in 1 .. Len(m)
  <2>1. 1 + i = i + 1
    OBVIOUS
  <2> QED BY <1>2, <1>3, <2>1
<1>5. w = m
  BY <1>3, <1>4, SameParts
<1> QED BY <1>5 DEF w, u, s

\* The client hears what the handlers said, to the last value, up to the first delivery
\* that breaks the stream.
LEMMA ToldIsHeard ==
    ASSUME HeardInv
    PROVE  HeardAsSaid
<1> DEFINE g == <<Greeting>>
           cut == Cut(said)
           none == <<>>
           heard == Heard(outbound)
           A(r) == FlattenSeq(MeantOf(r))
<1>1. /\ said \in Seq(ToSet(said)) /\ MeantOf(said) \in Seq(Seq(Sounds))
      /\ (cut = 0 => Says(outbound, g \o A(said)))
      /\ (cut # 0 => Starts(outbound, g \o A(UpTo(said, cut))))
  BY Zenon DEF HeardInv, Told
<1>2. Greeting \in Sounds
  <2>1. g \in Seq(Sounds) /\ Len(g) = 1 /\ g[1] = Greeting
    <3>1. g \in Seq(Sounds)
      BY StartSays, Zenon DEF Says
    <3> QED BY <3>1
  <2> HIDE DEF g
  <2> QED BY <2>1
<1>3. none \in Seq(Byte) /\ none \in Seq(Sounds) /\ \A S : \A r \in Seq(S) : r \o none = r
  OBVIOUS
<1>4. outbound \in Seq(Byte)
  BY <1>1, Zenon DEF Says, Starts
<1>5. Heard(none) = none
  <2>1. ~Whole(none)
    BY DEF Whole, FRAME_HEADER_SIZE
  <2> QED BY <1>3, <2>1, HeardOne, Zenon
<1> HIDE DEF none
<1>6. outbound \o none = outbound
  BY <1>3, <1>4, Zenon
<1>7. CASE cut = 0
  <2> DEFINE m == A(said)
  <2>1. m \in Seq(Sounds)
    BY <1>1, FlattenSounds, Zenon
  <2>2. g \o m \in Seq(Sounds) /\ Heard(outbound \o none) = (g \o m) \o Heard(none)
    BY <1>1, <1>3, <1>7, Zenon DEF Says
  <2>3. heard = g \o m
    BY <1>3, <1>5, <1>6, <2>2, Zenon
  <2> HIDE DEF m
  <2>4. Tail(g \o m) = m
    BY <1>2, <2>1, BehindFirst
  <2>5. Tail(heard) = m
    BY <2>3, <2>4, Zenon
  <2> QED BY <1>7, <2>5 DEF HeardAsSaid, Cut, MeantOf, m
<1>8. CASE cut # 0
  <2> DEFINE r == UpTo(said, cut)
             m == A(r)
  <2>1. m \in Seq(Sounds)
    <3>1. MeantOf(r) \in Seq(Seq(Sounds))
      BY <1>1, <1>8, MeantPart
    <3> QED BY <3>1, FlattenSounds, Zenon
  <2>2. /\ g \o m \in Seq(Sounds)
        /\ \E more \in Seq(Sounds) : Heard(outbound \o none) = (g \o m) \o more
    BY <1>1, <1>3, <1>8, Zenon DEF Starts
  <2>3. PICK more \in Seq(Sounds) : heard = (g \o m) \o more
    BY <1>6, <2>2, Zenon
  <2> HIDE DEF m
  <2>4. (g \o m) \o more = g \o (m \o more) /\ m \o more \in Seq(Sounds)
    <3>1. g \in Seq(Sounds)
      BY <1>2
    <3> HIDE DEF g
    <3> QED BY <2>1, <3>1, RegroupSounds, JoinSounds
  <2>5. Tail(heard) = m \o more
    <3>1. Tail(g \o (m \o more)) = m \o more
      BY <1>2, <2>4, BehindFirst
    <3> QED BY <2>3, <2>4, <3>1, Zenon
  <2>6. IsPrefix(m, Tail(heard))
    <3>1. IsPrefix(m, m \o more)
      BY <2>1, BeginningIsPrefix
    <3> QED BY <2>5, <3>1, Zenon
  <2> QED BY <1>8, <2>6 DEF HeardAsSaid, Cut, MeantOf, UpTo, m
<1> QED BY <1>7, <1>8

\* The client hears what the handlers said: the greeting, then each confirmation and
\* each delivery with its values, in order, up to the first delivery with a header that
\* cannot be packed (sender.py:25-555, protocol.py:112-409).
THEOREM WireHeard == WireSpec => []HeardAsSaid
<1>1. WireInit => WireInv /\ HeardInv
  BY WireStart, HeardStart
<1>2. (WireInv /\ HeardInv) /\ [WireNext]_wireVars => (WireInv /\ HeardInv)'
  BY WireStep, HeardStep
<1>3. WireInv /\ HeardInv => HeardAsSaid
  BY ToldIsHeard
<1> QED BY <1>1, <1>2, <1>3, PTL DEF WireSpec
=============================================================================

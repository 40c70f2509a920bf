------------------------ MODULE SerializationProofs ------------------------
(***************************************************************************)
(* What is written is read back (serialization.py): the numbers of struct, *)
(* and the items of tables and arrays, however deep they nest.  The module *)
(* FramesProofs goes on to the formats of loads and dumps, and to frames.   *)
(*                                                                         *)
(* The loops of the source are recursive functions in the model.  That one *)
(* exists, and what it computes, is proved with the least number for which *)
(* it would not: NatLessThanWellFounded, as a fact about sets.             *)
(***************************************************************************)
EXTENDS Serialization, WellFoundedInduction, SequenceTheorems, TLAPS

-----------------------------------------------------------------------------
(* Induction *)

\* The least of the offsets, widths or counts (serialization.py:243-304) that have a
\* property.
LEMMA LeastElement ==
    ASSUME NEW T, T \subseteq Nat, T # {}
    PROVE  \E m \in T : \A k \in T : m <= k
<1>1. \E x \in T : \A y \in T : ~ (<<y, x>> \in OpToRel(<, Nat))
  BY NatLessThanWellFounded, WFMin
<1>2. PICK x \in T : \A y \in T : <<y, x>> \notin OpToRel(<, Nat)
  BY <1>1
<1>3. \A y \in T : ~(y < x)
  BY <1>2 DEF OpToRel
<1> QED BY <1>3

\* What a turn of a loop (serialization.py:180-194, 243-312) preserves holds after any number.
LEMMA SetInduction ==
    ASSUME NEW T, 0 \in T, \A n \in Nat : n \in T => n + 1 \in T
    PROVE  Nat \subseteq T
<1> SUFFICES ASSUME Nat \ T # {} PROVE FALSE
  OBVIOUS
<1>1. PICK m \in Nat \ T : \A k \in Nat \ T : m <= k
  BY LeastElement
<1>2. m # 0 /\ m - 1 \in Nat
  BY <1>1
<1>3. m - 1 \in T
  BY <1>1, <1>2
<1> QED BY <1>1, <1>2, <1>3

-----------------------------------------------------------------------------
(* Numbers *)

\* The shifts of pack (serialization.py:62, struct), one byte after the other.
LEMMA ShiftedDef ==
    ASSUME NEW n \in Int, NEW width \in Nat
    PROVE  /\ Shifted(n, width) \in [0 .. width -> Int]
           /\ Shifted(n, width)[0] = n
           /\ \A k \in 1 .. width :
                  Shifted(n, width)[k] = Shifted(n, width)[k - 1] \div 256
<1> DEFINE Rec(f, w) == f = [k \in 0 .. w |-> IF k = 0 THEN n ELSE f[k - 1] \div 256]
           T == {w \in Nat : \E f : Rec(f, w)}
<1>1. 0 \in T
  <2>1. Rec([k \in 0 .. 0 |-> n], 0)
    OBVIOUS
  <2> QED BY <2>1
<1>2. ASSUME NEW w \in Nat, w \in T PROVE w + 1 \in T
  <2>1. PICK f : Rec(f, w)
    BY <1>2
  <2> DEFINE g == [k \in 0 .. w + 1 |-> IF k = w + 1 THEN f[w] \div 256 ELSE f[k]]
  <2>2. Rec(g, w + 1)
    BY <2>1
  <2> HIDE DEF g
  <2> QED BY <2>2
<1>3. Nat \subseteq T
  <2> HIDE DEF T
  <2> QED BY <1>1, <1>2, SetInduction
<1>4. \E f : Rec(f, width)
  BY <1>3
<1>5. Rec(Shifted(n, width), width)
  BY <1>4 DEF Shifted
<1> DEFINE f == Shifted(n, width)
<1> HIDE DEF f
<1>6. f[0] = n /\ \A k \in 1 .. width : f[k] = f[k - 1] \div 256
  BY <1>5 DEF f
<1> DEFINE U == {k \in Nat : k <= width => f[k] \in Int}
<1>7. 0 \in U /\ \A k \in Nat : k \in U => k + 1 \in U
  BY <1>6
<1>8. Nat \subseteq U
  <2> HIDE DEF U
  <2> QED BY <1>7, SetInduction
<1> QED BY <1>5, <1>6, <1>8 DEF f

\* Complementing a number complements its bytes (struct, of negative numbers).
LEMMA ShiftedComplement ==
    ASSUME NEW n \in Int, NEW width \in Nat
    PROVE  \A k \in 0 .. width : Shifted(-1 - n, width)[k] = -1 - Shifted(n, width)[k]
<1> DEFINE f == Shifted(-1 - n, width)
           g == Shifted(n, width)
<1>1. /\ f[0] = -1 - n /\ g[0] = n /\ f \in [0 .. width -> Int] /\ g \in [0 .. width -> Int]
      /\ \A k \in 1 .. width : f[k] = f[k - 1] \div 256 /\ g[k] = g[k - 1] \div 256
  BY ShiftedDef, -1 - n \in Int
<1> HIDE DEF f, g
<1> DEFINE T == {k \in Nat : k <= width => f[k] = -1 - g[k]}
<1>2. 0 \in T
  BY <1>1
<1>3. ASSUME NEW k \in Nat, k \in T PROVE k + 1 \in T
  <2> SUFFICES ASSUME k + 1 <= width PROVE f[k + 1] = -1 - g[k + 1]
    OBVIOUS
  <2>1. f[k] = -1 - g[k] /\ g[k] \in Int
    BY <1>1, <1>3
  <2>2. f[k + 1] = f[k] \div 256 /\ g[k + 1] = g[k] \div 256
    BY <1>1, k + 1 \in 1 .. width
  <2>3. \A m \in Int : (-1 - m) \div 256 = -1 - (m \div 256)
    OBVIOUS
  <2> QED BY <2>1, <2>2, <2>3
<1>4. Nat \subseteq T
  <2> HIDE DEF T
  <2> QED BY <1>2, <1>3, SetInduction
<1> QED BY <1>4 DEF f, g

\* pack (struct) writes as many bytes as the format is wide.
LEMMA PackType ==
    ASSUME NEW n \in Int, NEW width \in Nat
    PROVE  pack(n, width) \in Seq(Byte) /\ Len(pack(n, width)) = width
<1> DEFINE s == Shifted(n, width)
<1>1. s \in [0 .. width -> Int]
  BY ShiftedDef
<1>2. pack(n, width) = [i \in 1 .. width |-> s[width - i] % 256]
  BY DEF pack
<1> HIDE DEF s
<1>3. \A m \in Int : m % 256 \in 0 .. 255
  OBVIOUS
<1>4. \A i \in 1 .. width : s[width - i] % 256 \in Byte
  <2> TAKE i \in 1 .. width
  <2>1. s[width - i] \in Int
    BY <1>1, width - i \in 0 .. width
  <2> QED BY <2>1, <1>3 DEF Byte
<1>5. pack(n, width) \in [1 .. width -> Byte]
  BY <1>2, <1>4
<1> QED BY <1>5

\* The value of unpack (struct), one byte after the other.
LEMMA UnpackDef ==
    ASSUME NEW bytes \in Seq(Int)
    PROVE  \E f : /\ f[0] = 0 /\ f[Len(bytes)] = unpack(bytes)
                  /\ \A k \in 1 .. Len(bytes) : f[k] = 256 * f[k - 1] + bytes[k]
                  /\ f \in [0 .. Len(bytes) -> Int]
<1> DEFINE Rec(f, w) == f = [k \in 0 .. w |-> IF k = 0 THEN 0 ELSE 256 * f[k - 1] + bytes[k]]
           T == {w \in Nat : \E f : Rec(f, w)}
<1>1. 0 \in T
  <2>1. Rec([k \in 0 .. 0 |-> 0], 0)
    OBVIOUS
  <2> QED BY <2>1
<1>2. ASSUME NEW w \in Nat, w \in T PROVE w + 1 \in T
  <2>1. PICK f : Rec(f, w)
    BY <1>2
  <2> DEFINE g == [k \in 0 .. w + 1 |-> IF k = w + 1 THEN 256 * f[w] + bytes[w + 1] ELSE f[k]]
  <2>2. Rec(g, w + 1)
    BY <2>1
  <2> HIDE DEF g
  <2> QED BY <2>2
<1>3. Nat \subseteq T
  <2> HIDE DEF T
  <2> QED BY <1>1, <1>2, SetInduction
<1>4. \E f : Rec(f, Len(bytes))
  BY <1>3
<1> DEFINE f == CHOOSE f : Rec(f, Len(bytes))
<1>5. Rec(f, Len(bytes)) /\ f[Len(bytes)] = unpack(bytes)
  BY <1>4 DEF unpack
<1> DEFINE m == Len(bytes)
<1>6. m \in Nat /\ \A k \in 1 .. m : bytes[k] \in Int
  OBVIOUS
<1> HIDE DEF f, m
<1>7. f[0] = 0 /\ \A k \in 1 .. m : f[k] = 256 * f[k - 1] + bytes[k]
  BY <1>5, <1>6, SMTT(60) DEF m
<1> DEFINE U == {k \in Nat : k <= m => f[k] \in Int}
<1>8. 0 \in U /\ \A k \in Nat : k \in U => k + 1 \in U
  <2>1. ASSUME NEW k \in Nat, k + 1 <= m, f[k] \in Int PROVE f[k + 1] \in Int
    <3>1. k + 1 \in 1 .. m /\ (k + 1) - 1 = k
      BY <2>1, <1>6
    <3>2. f[k + 1] = 256 * f[k] + bytes[k + 1] /\ bytes[k + 1] \in Int
      BY <3>1, <1>6, <1>7
    <3> QED BY <3>2, <2>1
  <2> QED BY <2>1, <1>6, <1>7
<1>9. Nat \subseteq U
  <2> HIDE DEF U
  <2> QED BY <1>8, SetInduction
<1>10. f \in [0 .. m -> Int]
  <2>1. DOMAIN f = 0 .. m /\ f = [k \in 0 .. m |-> f[k]]
    BY <1>5 DEF m
  <2>2. \A k \in 0 .. m : f[k] \in Int
    BY <1>9, <1>6
  <2> QED BY <2>1, <2>2
<1> QED BY <1>5, <1>7, <1>10 DEF m

\* What unpack makes of the bytes of pack (struct), of a number the width holds.
THEOREM UnpackPack ==
    ASSUME NEW n \in Int, NEW width \in Nat, Fits(n, width)
    PROVE  unpack(pack(n, width)) = n
<1> DEFINE b == pack(n, width)
           s == Shifted(n, width)
<1>1. /\ s[0] = n /\ s \in [0 .. width -> Int]
      /\ \A k \in 1 .. width : s[k] = s[k - 1] \div 256
  <2>1. s \in [0 .. width -> Int]
    BY ShiftedDef
  <2>2. s[0] = n
    BY ShiftedDef
  <2>3. \A k \in 1 .. width : s[k] = s[k - 1] \div 256
    BY ShiftedDef
  <2> QED BY <2>1, <2>2, <2>3
<1>2. s[width] = 0
  BY DEF Fits
<1>3. b \in Seq(Int) /\ Len(b) = width /\ \A i \in 1 .. width : b[i] = s[width - i] % 256
  BY PackType, <1>1 DEF pack, Byte
<1> HIDE DEF b, s
<1>4. PICK f : /\ f[0] = 0 /\ f[width] = unpack(b)
               /\ \A k \in 1 .. width : f[k] = 256 * f[k - 1] + b[k]
  <2>1. b \in Seq(Int)
    BY <1>3
  <2>2. \E f : /\ f[0] = 0 /\ f[Len(b)] = unpack(b)
               /\ \A k \in 1 .. Len(b) : f[k] = 256 * f[k - 1] + b[k]
               /\ f \in [0 .. Len(b) -> Int]
    BY <2>1, UnpackDef
  <2>3. PICK f : /\ f[0] = 0 /\ f[Len(b)] = unpack(b)
                 /\ \A k \in 1 .. Len(b) : f[k] = 256 * f[k - 1] + b[k]
    BY <2>2, Zenon
  <2>4. f[width] = unpack(b)
    BY <2>3, <1>3
  <2>5. \A k \in 1 .. width : f[k] = 256 * f[k - 1] + b[k]
    BY <2>3, <1>3
  <2> QED BY <2>3, <2>4, <2>5, ZenonT(60)
<1> DEFINE T == {k \in Nat : k <= width => f[k] = s[width - k]}
<1>5. 0 \in T
  BY <1>2, <1>4
<1>6. ASSUME NEW k \in Nat, k \in T PROVE k + 1 \in T
  <2> SUFFICES ASSUME k + 1 <= width PROVE f[k + 1] = s[width - (k + 1)]
    OBVIOUS
  <2> DEFINE m == s[width - (k + 1)]
  <2>1. m \in Int /\ s[width - k] = m \div 256
    BY <1>1, width - k \in 1 .. width, width - (k + 1) \in 0 .. width,
       width - (k + 1) = width - k - 1
  <2>2. f[k + 1] = 256 * f[k] + b[k + 1] /\ b[k + 1] = m % 256
    BY <1>3, <1>4, k + 1 \in 1 .. width
  <2>3. f[k] = m \div 256
    BY <1>6, <2>1
  <2> HIDE DEF m
  <2>4. (256 * (m \div 256)) + (m % 256) = m
    BY <2>1
  <2> QED BY <2>2, <2>3, <2>4 DEF m
<1>7. Nat \subseteq T
  <2> HIDE DEF T
  <2> QED BY <1>5, <1>6, SetInduction
<1> QED BY <1>1, <1>4, <1>7 DEF b, s

\* A smaller number fits as well (struct).
LEMMA FitsBelow ==
    ASSUME NEW n \in Nat, NEW m \in Nat, NEW width \in Nat, m <= n
    PROVE  Fits(n, width) => Fits(m, width)
<1> DEFINE f == Shifted(m, width)
           g == Shifted(n, width)
<1>0. m \in Int /\ n \in Int
  OBVIOUS
<1>1. f[0] = m /\ \A k \in 1 .. width : f[k] = f[k - 1] \div 256
  BY ShiftedDef, <1>0
<1>2. g[0] = n /\ \A k \in 1 .. width : g[k] = g[k - 1] \div 256
  BY ShiftedDef, <1>0
<1> SUFFICES g[width] = 0 => f[width] = 0
  BY DEF Fits
<1> HIDE DEF f, g
<1> DEFINE T == {k \in Nat : k <= width => f[k] \in Nat /\ g[k] \in Nat /\ f[k] <= g[k]}
<1>4. 0 \in T
  BY <1>1, <1>2
<1>5. ASSUME NEW k \in Nat, k \in T PROVE k + 1 \in T
  <2> SUFFICES ASSUME k + 1 <= width
               PROVE  f[k + 1] \in Nat /\ g[k + 1] \in Nat /\ f[k + 1] <= g[k + 1]
    OBVIOUS
  <2>1. f[k] \in Nat /\ g[k] \in Nat /\ f[k] <= g[k]
    BY <1>5
  <2>2. k + 1 \in 1 .. width /\ (k + 1) - 1 = k
    OBVIOUS
  <2>3. f[k + 1] = f[k] \div 256 /\ g[k + 1] = g[k] \div 256
    BY <1>1, <1>2, <2>2
  <2>4. \A x, y \in Nat : x <= y => /\ x \div 256 \in Nat /\ y \div 256 \in Nat
                                    /\ x \div 256 <= y \div 256
    OBVIOUS
  <2> QED BY <2>1, <2>3, <2>4
<1>6. Nat \subseteq T
  <2> HIDE DEF T
  <2> QED BY <1>4, <1>5, SetInduction
<1> QED BY <1>6

\* A byte holds the numbers up to 255 (serialization.py:355, 373, 401).
LEMMA FitsByte ==
    ASSUME NEW n \in Byte
    PROVE  Fits(n, 1) /\ pack(n, 1) = <<n>>
<1> DEFINE s == Shifted(n, 1)
<1>0. n \in Int /\ 1 \in Nat
  BY DEF Byte
<1>1. s[0] = n /\ \A k \in 1 .. 1 : s[k] = s[k - 1] \div 256
  BY ShiftedDef, <1>0
<1>2. pack(n, 1) = [i \in 1 .. 1 |-> s[1 - i] % 256]
  BY DEF pack
<1> HIDE DEF s
<1>3. n \div 256 = 0 /\ n % 256 = n
  BY DEF Byte
<1>4. s[1] = 0
  BY <1>1, <1>3
<1>5. pack(n, 1) = [i \in 1 .. 1 |-> n]
  BY <1>1, <1>2, <1>3
<1> QED BY <1>4, <1>5 DEF Fits, s

\* Two bytes hold those up to 65535 (serialization.py:358).
LEMMA FitsShort ==
    ASSUME NEW n \in Nat, n <= 65535
    PROVE  Fits(n, 2)
<1> DEFINE s == Shifted(n, 2)
<1>0. n \in Int /\ 2 \in Nat
  BY SMT
<1>1. s[0] = n /\ \A k \in 1 .. 2 : s[k] = s[k - 1] \div 256
  BY ShiftedDef, <1>0, SMT
<1> HIDE DEF s
<1>2. s[1] = n \div 256 /\ s[2] = s[1] \div 256
  BY <1>1, 1 \in 1 .. 2, 2 \in 1 .. 2, SMT
<1>3. s[2] = 0
  BY <1>2, SMT
<1> QED BY <1>3, SMT DEF s, Fits

\* _write_item gives integers of at most 2147483647 four bytes (serialization.py:451-454).
LEMMA FitsFour ==
    ASSUME NEW n \in Int, n <= 2147483647, n >= -2147483647
    PROVE  FitsSigned(n, 4)
<1> DEFINE s == Shifted(n, 4)
<1>1. s[0] = n /\ \A k \in 1 .. 4 : s[k] = s[k - 1] \div 256
  BY ShiftedDef
<1> HIDE DEF s
<1>2. s[1] = n \div 256 /\ s[2] = s[1] \div 256 /\ s[3] = s[2] \div 256
  BY <1>1, 1 \in 1 .. 4, 2 \in 1 .. 4, 3 \in 1 .. 4
<1>3. s[0] \in Int /\ s[0] <= 2147483647 /\ s[0] >= -2147483647
  BY <1>1, SMT
<1>4. s[1] \in Int /\ s[1] >= -8388608 /\ s[1] <= 8388607
  BY <1>2, <1>3, <1>1, SMT
<1>5. s[2] \in Int /\ s[2] >= -32768 /\ s[2] <= 32767
  BY <1>2, <1>4, SMT
<1>6. s[3] \in Int /\ s[3] >= -128 /\ s[3] <= 127
  BY <1>2, <1>5, SMT
<1>7. s[3] \div 128 \in {-1, 0}
  BY <1>6, SMT
<1> QED BY <1>7, SMT DEF s, FitsSigned

\* What unpack of a signed format makes of the bytes of pack (struct).
THEOREM UnpackPackSigned ==
    ASSUME NEW n \in Int, NEW width \in Nat, width # 0, FitsSigned(n, width)
    PROVE  unpack_signed(pack(n, width)) = n
<1> DEFINE b == pack(n, width)
           s == Shifted(n, width)
           c == [i \in DOMAIN b |-> 255 - b[i]]
<1>0. width \in Nat /\ 1 \in 1 .. width /\ width \in 1 .. width
  OBVIOUS
<1>1. /\ s[0] = n /\ s \in [0 .. width -> Int]
      /\ \A k \in 1 .. width : s[k] = s[k - 1] \div 256
  <2>1. s \in [0 .. width -> Int]
    BY ShiftedDef
  <2>2. s[0] = n
    BY ShiftedDef
  <2>3. \A k \in 1 .. width : s[k] = s[k - 1] \div 256
    BY ShiftedDef
  <2> QED BY <2>1, <2>2, <2>3
<1>2. \A i \in 1 .. width : b[i] = s[width - i] % 256
  BY DEF pack
<1>3. s[width - 1] \div 128 \in {-1, 0}
  BY DEF FitsSigned
<1>4. DOMAIN b = 1 .. width
  BY DEF pack
<1> HIDE DEF s, b
<1>5. s[width - 1] \in Int /\ s[width] = s[width - 1] \div 256 /\ b[1] = s[width - 1] % 256
  BY <1>0, <1>1, <1>2, width - 1 \in 0 .. width
<1>6. CASE s[width - 1] \div 128 = 0
  <2>1. s[width] = 0 /\ b[1] < 128
    BY <1>5, <1>6
  <2>2. Fits(n, width)
    BY <2>1 DEF Fits, s
  <2> QED BY <2>1, <2>2, <1>0, UnpackPack DEF unpack_signed, b
<1>7. CASE s[width - 1] \div 128 = -1
  <2>1. s[width] = -1 /\ b[1] >= 128 /\ b[1] \in Int
    BY <1>5, <1>7
  <2> DEFINE t == Shifted(-1 - n, width)
  <2>2. \A k \in 0 .. width : t[k] = -1 - s[k]
    BY ShiftedComplement, <1>0 DEF s
  <2>3. t[width] = 0
    BY <2>1, <2>2, <1>0
  <2>4. Fits(-1 - n, width)
    BY <2>3 DEF Fits
  <2>5. pack(-1 - n, width) = [i \in 1 .. width |-> t[width - i] % 256]
    BY DEF pack
  <2> HIDE DEF t
  <2>6. \A i \in 1 .. width : 255 - b[i] = t[width - i] % 256
    <3> TAKE i \in 1 .. width
    <3>1. width - i \in 0 .. width
      BY <1>0
    <3>2. s[width - i] \in Int /\ t[width - i] = -1 - s[width - i]
      BY <3>1, <1>1, <2>2
    <3>3. \A m \in Int : 255 - (m % 256) = (-1 - m) % 256
      OBVIOUS
    <3> QED BY <3>2, <3>3, <1>2
  <2>7. c = pack(-1 - n, width)
    BY <1>4, <2>5, <2>6
  <2>8. unpack(c) = -1 - n
    BY <2>4, <2>7, <1>0, -1 - n \in Int, UnpackPack
  <2>9. ~(b[1] < 128) /\ -1 - (-1 - n) = n
    BY <2>1
  <2>10. unpack_signed(b) = -1 - unpack(c)
    BY <2>9 DEF unpack_signed
  <2> QED BY <2>8, <2>9, <2>10 DEF b
<1> QED BY <1>3, <1>6, <1>7

-----------------------------------------------------------------------------
(* Bytes in a buffer *)

\* The bytes w stand in buf from offset on.
At(buf, offset, w) ==
    /\ offset + Len(w) <= Len(buf)
    /\ \A i \in 1 .. Len(w) : buf[offset + i] = w[i]

\* What was written one after the other (serialization.py:339, BytesIO) stands so.
LEMMA AtConcat ==
    ASSUME NEW buf \in Seq(Byte), NEW o \in Nat, NEW u \in Seq(Byte), NEW v \in Seq(Byte)
    PROVE  At(buf, o, u \o v) => At(buf, o, u) /\ At(buf, o + Len(u), v)
<1> DEFINE w == u \o v
<1>1. /\ Len(w) = Len(u) + Len(v) /\ Len(u) \in Nat /\ Len(v) \in Nat
      /\ \A i \in 1 .. Len(u) : w[i] = u[i]
      /\ \A i \in 1 .. Len(v) : w[Len(u) + i] = v[i]
  OBVIOUS
<1> HIDE DEF w
<1> SUFFICES ASSUME At(buf, o, w) PROVE At(buf, o, u) /\ At(buf, o + Len(u), v)
  BY DEF w
<1>2. o + Len(w) <= Len(buf) /\ \A i \in 1 .. Len(w) : buf[o + i] = w[i]
  BY DEF At
<1>3. At(buf, o, u)
  <2>1. \A i \in 1 .. Len(u) : i \in 1 .. Len(w)
    BY <1>1
  <2> QED BY <1>1, <1>2, <2>1 DEF At
<1>4. At(buf, o + Len(u), v)
  <2>1. ASSUME NEW i \in 1 .. Len(v) PROVE buf[(o + Len(u)) + i] = v[i]
    <3>1. Len(u) + i \in 1 .. Len(w) /\ (o + Len(u)) + i = o + (Len(u) + i)
      BY <1>1
    <3>2. buf[o + (Len(u) + i)] = w[Len(u) + i]
      BY <3>1, <1>2
    <3> QED BY <1>1, <3>1, <3>2
  <2>2. (o + Len(u)) + Len(v) <= Len(buf)
    BY <1>1, <1>2
  <2> QED BY <2>1, <2>2 DEF At
<1> QED BY <1>3, <1>4

\* A slice of a buffer (serialization.py:115) is what stands there.
LEMMA AtBytes ==
    ASSUME NEW buf \in Seq(Byte), NEW o \in Nat, NEW w \in Seq(Byte), At(buf, o, w)
    PROVE  Bytes(buf, o, Len(w)) = w
<1>1. /\ o + Len(w) <= Len(buf) /\ Len(buf) \in Nat /\ Len(w) \in Nat
      /\ \A i \in 1 .. Len(w) : buf[o + i] = w[i]
  BY DEF At
<1> DEFINE b == SubSeq(buf, o + 1, o + Len(w))
<1>2. Len(b) = Len(w) /\ \A i \in 1 .. Len(w) : b[i] = buf[(o + 1) + i - 1]
  BY <1>1
<1>3. b \in Seq(Byte)
  BY <1>1
<1> HIDE DEF b
<1>4. \A i \in 1 .. Len(w) : (o + 1) + i - 1 = o + i
  OBVIOUS
<1>5. \A i \in 1 .. Len(w) : b[i] = w[i]
  BY <1>1, <1>2, <1>4
<1>6. b = w
  BY <1>2, <1>3, <1>5, SeqEqual
<1> QED BY <1>6 DEF b, Bytes

\* The single byte of struct's B (serialization.py:128, 181) and what follows it.
LEMMA AtByte ==
    ASSUME NEW buf \in Seq(Byte), NEW o \in Nat, NEW c \in Byte, NEW w \in Seq(Byte),
           At(buf, o, <<c>> \o w)
    PROVE  buf[o + 1] = c /\ At(buf, o + 1, w)
<1>1. At(buf, o, <<c>>) /\ At(buf, o + 1, w)
  <2>1. <<c>> \in Seq(Byte) /\ Len(<<c>>) = 1
    OBVIOUS
  <2>2. At(buf, o, <<c>>) /\ At(buf, o + Len(<<c>>), w)
    BY <2>1, AtConcat
  <2> QED BY <2>1, <2>2
<1> QED BY <1>1 DEF At

\* A text or a table behind its size (serialization.py:414-415, 444-445), in a buffer whose length
\* four bytes hold.
LEMMA AtSized ==
    ASSUME NEW buf \in Seq(Byte), NEW o \in Nat, NEW w \in Seq(Byte),
           Fits(Len(buf), 4), At(buf, o, Sized(w))
    PROVE  /\ unpack(Bytes(buf, o, 4)) = Len(w)
           /\ At(buf, o + 4, w)
<1> DEFINE p == pack(Len(w), 4)
<1>1. p \in Seq(Byte) /\ Len(p) = 4
  BY PackType, Len(w) \in Int
<1> HIDE DEF p
<1>2. At(buf, o, p) /\ At(buf, o + 4, w)
  <2>1. At(buf, o, p \o w)
    BY DEF p, Sized
  <2>2. At(buf, o, p) /\ At(buf, o + Len(p), w)
    BY <1>1, <2>1, AtConcat
  <2> QED BY <1>1, <2>2
<1>3. Bytes(buf, o, 4) = p
  BY <1>1, <1>2, AtBytes
<1>4. Len(w) \in Nat /\ Len(buf) \in Nat /\ Len(w) <= Len(buf)
  BY <1>2 DEF At
<1>5. Fits(Len(w), 4)
  BY <1>4, FitsBelow
<1>6. unpack(p) = Len(w)
  BY <1>4, <1>5, UnpackPack DEF p
<1> QED BY <1>2, <1>3, <1>6

\* A size (serialization.py:414, 432, 444) takes four bytes.
LEMMA SizedType ==
    ASSUME NEW w \in Seq(Byte)
    PROVE  Sized(w) \in Seq(Byte) /\ Len(Sized(w)) = 4 + Len(w)
<1> DEFINE p == pack(Len(w), 4)
<1>1. p \in Seq(Byte) /\ Len(p) = 4
  BY PackType, Len(w) \in Int
<1> HIDE DEF p
<1>2. p \o w \in Seq(Byte) /\ Len(p \o w) = Len(p) + Len(w)
  BY <1>1, ConcatProperties, Zenon
<1> QED BY <1>1, <1>2 DEF Sized, p

\* Sequences put one after the other, as the entries of a table or an array are
\* (serialization.py:398-404, 421-423).
LEMMA FlattenParts ==
    ASSUME NEW S, NEW ss \in Seq(Seq(S))
    PROVE  \E f : /\ f \in [0 .. Len(ss) -> Seq(S)]
                  /\ f[0] = <<>> /\ f[Len(ss)] = FlattenSeq(ss)
                  /\ \A k \in 1 .. Len(ss) : f[k] = f[k - 1] \o ss[k]
<1> DEFINE Cat(x, k) == x \o ss[k]
           Rec(f, w) == f = [k \in 1 .. w |-> IF k = 1 THEN ss[k] ELSE Cat(f[k - 1], k)]
           T == {w \in Nat : \E f : Rec(f, w)}
           m == Len(ss)
<1> HIDE DEF Cat
<1>1. 0 \in T
  <2> DEFINE g == [k \in 1 .. 0 |-> ss[k]]
  <2>1. Rec(g, 0)
    OBVIOUS
  <2> HIDE DEF g
  <2> QED BY <2>1
<1>2. ASSUME NEW w \in Nat, w \in T PROVE w + 1 \in T
  <2>1. PICK f : Rec(f, w)
    BY <1>2
  <2> DEFINE g == [k \in 1 .. w + 1 |->
                      IF k <= w THEN f[k] ELSE IF w = 0 THEN ss[1] ELSE Cat(f[w], w + 1)]
  <2>2. Rec(g, w + 1)
    BY <2>1
  <2> HIDE DEF g
  <2> QED BY <2>2
<1>3. Nat \subseteq T
  <2> HIDE DEF T
  <2> QED BY <1>1, <1>2, SetInduction
<1>4. m \in Nat /\ \A k \in 1 .. m : ss[k] \in Seq(S)
  OBVIOUS
<1>5. \E f : Rec(f, m)
  BY <1>3, <1>4
<1> DEFINE f == CHOOSE f : Rec(f, m)
<1>6. Rec(f, m)
  BY <1>5
<1>7. m # 0 => FlattenSeq(ss) = f[m]
  BY DEF FlattenSeq, Cat
<1>8. m = 0 => FlattenSeq(ss) = <<>>
  BY DEF FlattenSeq
<1> HIDE DEF f, m
<1>9. /\ m # 0 => f[1] = ss[1]
      /\ \A k \in 2 .. m : f[k] = Cat(f[k - 1], k)
  <2>1. \A k \in 1 .. m : f[k] = IF k = 1 THEN ss[k] ELSE Cat(f[k - 1], k)
    BY <1>6, Zenon
  <2>2. m # 0 => 1 \in 1 .. m
    BY <1>4
  <2>3. ASSUME NEW k \in 2 .. m PROVE k \in 1 .. m /\ k # 1
    BY <1>4
  <2>4. ASSUME NEW k \in 2 .. m PROVE f[k] = Cat(f[k - 1], k)
    BY <2>1, <2>3, Zenon
  <2> QED BY <2>1, <2>2, <2>4, Zenon
<1> DEFINE h == [k \in 0 .. m |-> IF k = 0 THEN <<>> ELSE f[k]]
<1>10. h[0] = <<>> /\ h[m] = FlattenSeq(ss) /\ DOMAIN h = 0 .. m
  BY <1>4, <1>7, <1>8
<1>11. \A k \in 1 .. m : h[k] = Cat(h[k - 1], k)
  <2> TAKE k \in 1 .. m
  <2>1. CASE k = 1
    <3>1. m # 0 /\ h[k - 1] = <<>> /\ h[k] = ss[1] /\ ss[1] \in Seq(S)
      BY <2>1, <1>4, <1>9
    <3>2. Cat(<<>>, 1) = ss[1]
      BY <3>1, ConcatEmptySeq DEF Cat
    <3> QED BY <2>1, <3>1, <3>2
  <2>2. CASE k # 1
    <3>1. k \in 2 .. m /\ k - 1 \in 1 .. m
      BY <2>2, <1>4
    <3>2. h[k] = f[k] /\ h[k - 1] = f[k - 1]
      BY <3>1
    <3> QED BY <1>9, <3>1, <3>2
  <2> QED BY <2>1, <2>2
<1> HIDE DEF h
<1> DEFINE U == {k \in Nat : k <= m => h[k] \in Seq(S)}
<1>12. 0 \in U
  BY <1>10, EmptySeq
<1>13. ASSUME NEW k \in Nat, k \in U PROVE k + 1 \in U
  <2> SUFFICES ASSUME k + 1 <= m PROVE h[k + 1] \in Seq(S)
    OBVIOUS
  <2>1. h[k] \in Seq(S)
    BY <1>13, <1>4
  <2>2. k + 1 \in 1 .. m /\ (k + 1) - 1 = k
    BY <1>4
  <2>3. h[k + 1] = h[k] \o ss[k + 1] /\ ss[k + 1] \in Seq(S)
    BY <2>2, <1>4, <1>11 DEF Cat
  <2> QED BY <2>1, <2>3, ConcatProperties
<1>14. Nat \subseteq U
  <2> HIDE DEF U
  <2> QED BY <1>12, <1>13, SetInduction
<1>15. h \in [0 .. m -> Seq(S)]
  <2>1. \A k \in 0 .. m : h[k] \in Seq(S)
    BY <1>4, <1>14
  <2>2. h = [k \in 0 .. m |-> h[k]]
    BY DEF h
  <2> QED BY <2>1, <2>2
<1> QED BY <1>10, <1>11, <1>15 DEF m, Cat

\* The entries of a table or an array (serialization.py:398-404, 421-423), written one
\* after the other.
LEMMA FlattenDef ==
    ASSUME NEW ss \in Seq(Seq(Byte))
    PROVE  \E f : /\ f \in [0 .. Len(ss) -> Seq(Byte)]
                  /\ f[0] = <<>> /\ f[Len(ss)] = FlattenSeq(ss)
                  /\ \A k \in 1 .. Len(ss) : f[k] = f[k - 1] \o ss[k]
  BY FlattenParts

\* The entries of a table or an array stand one behind the other (serialization.py:398-404):
\* at[k] is where the k-th ends.
LEMMA FlattenAt ==
    ASSUME NEW buf \in Seq(Byte), NEW o \in Nat, NEW ss \in Seq(Seq(Byte))
    PROVE  (\A k \in 1 .. Len(ss) : Len(ss[k]) # 0) /\ At(buf, o, FlattenSeq(ss)) =>
           \E at : /\ at \in [0 .. Len(ss) -> Nat]
                   /\ at[0] = o /\ at[Len(ss)] = o + Len(FlattenSeq(ss))
                   /\ \A k \in 1 .. Len(ss) : /\ at[k] = at[k - 1] + Len(ss[k])
                                              /\ At(buf, at[k - 1], ss[k])
                   /\ \A k \in 0 .. Len(ss) : at[k] >= o + k /\ at[k] <= at[Len(ss)]
                   /\ \A k \in 1 .. Len(ss) : at[k - 1] < at[Len(ss)]
<1>0. SUFFICES ASSUME \A k \in 1 .. Len(ss) : Len(ss[k]) # 0, At(buf, o, FlattenSeq(ss))
               PROVE  \E at : /\ at \in [0 .. Len(ss) -> Nat]
                              /\ at[0] = o /\ at[Len(ss)] = o + Len(FlattenSeq(ss))
                              /\ \A k \in 1 .. Len(ss) : /\ at[k] = at[k - 1] + Len(ss[k])
                                                         /\ At(buf, at[k - 1], ss[k])
                              /\ \A k \in 0 .. Len(ss) : at[k] >= o + k /\ at[k] <= at[Len(ss)]
                              /\ \A k \in 1 .. Len(ss) : at[k - 1] < at[Len(ss)]
  OBVIOUS
<1> DEFINE m == Len(ss)
           w == FlattenSeq(ss)
<1>1. m \in Nat /\ \A k \in 1 .. m : ss[k] \in Seq(Byte) /\ Len(ss[k]) \in Nat \ {0}
  <2>1. m \in Nat /\ \A k \in 1 .. m : ss[k] \in Seq(Byte)
    OBVIOUS
  <2>2. \A k \in 1 .. m : Len(ss[k]) \in Nat
    BY <2>1, LenProperties
  <2> QED BY <1>0, <2>1, <2>2
<1>2. PICK f : /\ f \in [0 .. m -> Seq(Byte)]
               /\ f[0] = <<>> /\ f[m] = w
               /\ \A k \in 1 .. m : f[k] = f[k - 1] \o ss[k]
  BY FlattenDef
<1>3. At(buf, o, f[m])
  BY <1>0, <1>2
<1> HIDE DEF m, w
<1>4. \A k \in 1 .. m : /\ f[k - 1] \in Seq(Byte) /\ f[k] \in Seq(Byte)
                        /\ Len(f[k - 1]) \in Nat /\ Len(f[k]) \in Nat
                        /\ Len(f[k]) = Len(f[k - 1]) + Len(ss[k])
  <2> TAKE k \in 1 .. m
  <2>1. k - 1 \in 0 .. m /\ k \in 0 .. m
    BY <1>1
  <2>2. f[k - 1] \in Seq(Byte) /\ f[k] \in Seq(Byte) /\ ss[k] \in Seq(Byte)
    BY <1>1, <1>2, <2>1
  <2>3. f[k] = f[k - 1] \o ss[k]
    BY <1>2
  <2>4. Len(f[k - 1] \o ss[k]) = Len(f[k - 1]) + Len(ss[k])
    BY <2>2, ConcatProperties, Zenon
  <2>5. Len(f[k - 1]) \in Nat /\ Len(f[k]) \in Nat
    BY <2>2, LenProperties, Zenon
  <2> QED BY <2>2, <2>3, <2>4, <2>5
<1> DEFINE at == [k \in 0 .. m |-> o + Len(f[k])]
<1>5. at[0] = o /\ at[m] = o + Len(w)
  <2>1. Len(f[0]) = 0
    BY <1>2, EmptySeq
  <2>2. 0 \in 0 .. m /\ m \in 0 .. m
    BY <1>1
  <2>3. at[0] = o + Len(f[0]) /\ at[m] = o + Len(f[m])
    BY <2>2
  <2> QED BY <1>2, <2>1, <2>3
<1>6. \A k \in 1 .. m : at[k] = at[k - 1] + Len(ss[k]) /\ at[k - 1] \in Nat /\ at[k] \in Nat
  <2> TAKE k \in 1 .. m
  <2> DEFINE x == Len(f[k - 1])
             y == Len(ss[k])
             z == Len(f[k])
  <2>1. k - 1 \in 0 .. m /\ k \in 0 .. m
    BY <1>1
  <2>2. at[k] = o + z /\ at[k - 1] = o + x
    BY <2>1
  <2>3. x \in Nat /\ y \in Nat /\ z = x + y
    BY <1>1, <1>4
  <2> HIDE DEF at, x, y, z
  <2>4. at[k] = at[k - 1] + y /\ at[k - 1] \in Nat /\ at[k] \in Nat
    BY <2>2, <2>3
  <2> QED BY <2>4 DEF y
<1>7. at \in [0 .. m -> Nat]
  <2>1. \A k \in 0 .. m : at[k] \in Nat
    <3> TAKE k \in 0 .. m
    <3>1. CASE k = 0
      BY <3>1, <1>5
    <3>2. CASE k # 0
      BY <3>2, <1>1, <1>6, k \in 1 .. m
    <3> QED BY <3>1, <3>2
  <2> QED BY <2>1
\* Down from the last one, each stands at the end of what stands before it.
<1> DEFINE T == {j \in Nat : j <= m => At(buf, o, f[m - j])}
<1>8. 0 \in T
  BY <1>1, <1>3
<1>9. ASSUME NEW j \in Nat, j \in T PROVE j + 1 \in T
  <2> SUFFICES ASSUME j + 1 <= m PROVE At(buf, o, f[m - (j + 1)])
    OBVIOUS
  <2> DEFINE k == m - j
  <2>1. k \in 1 .. m /\ m - (j + 1) = k - 1 /\ At(buf, o, f[k])
    BY <1>1, <1>9
  <2> HIDE DEF k
  <2>2. f[k] = f[k - 1] \o ss[k] /\ f[k - 1] \in Seq(Byte) /\ ss[k] \in Seq(Byte)
    BY <1>1, <1>2, <1>4, <2>1
  <2>3. At(buf, o, f[k - 1] \o ss[k])
    BY <2>1, <2>2
  <2>4. At(buf, o, f[k - 1])
    BY <2>2, <2>3, AtConcat
  <2> QED BY <2>1, <2>4
<1>10. Nat \subseteq T
  <2> HIDE DEF T
  <2> QED BY <1>8, <1>9, SetInduction
<1>11. \A k \in 1 .. m : At(buf, at[k - 1], ss[k])
  <2> TAKE k \in 1 .. m
  <2>1. m - k \in Nat /\ m - (m - k) = k /\ m - k <= m
    BY <1>1
  <2>2. At(buf, o, f[k])
    BY <1>10, <2>1
  <2>3. f[k] = f[k - 1] \o ss[k] /\ f[k - 1] \in Seq(Byte) /\ ss[k] \in Seq(Byte)
    BY <1>1, <1>2, <1>4
  <2>4. At(buf, o, f[k - 1] \o ss[k])
    BY <2>2, <2>3
  <2>5. At(buf, o + Len(f[k - 1]), ss[k])
    BY <2>3, <2>4, AtConcat
  <2>6. at[k - 1] = o + Len(f[k - 1])
    BY <1>1
  <2> QED BY <2>5, <2>6
<1> HIDE DEF at
<1> DEFINE U == {k \in Nat : k <= m => at[k] >= o + k}
<1>12. 0 \in U /\ \A k \in Nat : k \in U => k + 1 \in U
  <2>1. ASSUME NEW k \in Nat, k + 1 <= m, at[k] >= o + k PROVE at[k + 1] >= o + (k + 1)
    <3>1. k + 1 \in 1 .. m /\ (k + 1) - 1 = k
      BY <2>1, <1>1
    <3>2. at[k + 1] = at[k] + Len(ss[k + 1]) /\ at[k] \in Nat /\ Len(ss[k + 1]) \in Nat \ {0}
      BY <3>1, <1>1, <1>6
    <3> QED BY <2>1, <3>2
  <2>2. 0 \in U
    BY <1>5
  <2> QED BY <2>1, <2>2, <1>1
<1>13. Nat \subseteq U
  <2> HIDE DEF U
  <2> QED BY <1>12, SetInduction
\* And up to the last one, each ends no later.
<1> DEFINE V == {j \in Nat : j + 1 <= m => at[m - (j + 1)] < at[m]}
<1>14. 0 \in V
  <2> SUFFICES ASSUME 1 <= m PROVE at[m - 1] < at[m]
    BY <1>1
  <2> QED BY <1>1, <1>6, m \in 1 .. m
<1>15. ASSUME NEW j \in Nat, j \in V PROVE j + 1 \in V
  <2> SUFFICES ASSUME (j + 1) + 1 <= m PROVE at[m - ((j + 1) + 1)] < at[m]
    OBVIOUS
  <2> DEFINE k == m - (j + 1)
  <2>1. k \in 1 .. m /\ k - 1 = m - ((j + 1) + 1) /\ at[k] < at[m]
    BY <1>1, <1>15
  <2> HIDE DEF k
  <2>2. at[k] = at[k - 1] + Len(ss[k]) /\ Len(ss[k]) \in Nat \ {0} /\ at[k - 1] \in Nat
    BY <1>1, <1>6, <2>1
  <2>3. at[m] \in Nat
    BY <1>7, <1>1, m \in 0 .. m
  <2>4. at[k - 1] < at[m]
    BY <2>1, <2>2, <2>3
  <2> QED BY <2>1, <2>4
<1>16. Nat \subseteq V
  <2> HIDE DEF V
  <2> QED BY <1>14, <1>15, SetInduction
<1>17. \A k \in 1 .. m : at[k - 1] < at[m]
  <2> TAKE k \in 1 .. m
  <2>1. m - k \in Nat /\ (m - k) + 1 <= m /\ m - ((m - k) + 1) = k - 1
    BY <1>1
  <2> QED BY <1>16, <2>1
<1>18. \A k \in 0 .. m : at[k] >= o + k /\ at[k] <= at[m]
  <2> TAKE k \in 0 .. m
  <2>1. at[k] >= o + k
    BY <1>13
  <2>2. CASE k = m
    BY <2>1, <2>2, <1>7
  <2>3. CASE k # m
    <3>1. k + 1 \in 1 .. m /\ (k + 1) - 1 = k
      BY <2>3, <1>1
    <3>2. at[k] < at[m]
      BY <3>1, <1>17
    <3>3. at[k] \in Nat /\ at[m] \in Nat
      BY <1>1, <1>7, m \in 0 .. m
    <3> QED BY <2>1, <3>2, <3>3
  <2> QED BY <2>2, <2>3
<1>19. \A k \in 1 .. m : at[k] = at[k - 1] + Len(ss[k]) /\ At(buf, at[k - 1], ss[k])
  BY <1>6, <1>11
<1> QED BY <1>5, <1>7, <1>17, <1>18, <1>19 DEF m, w

-----------------------------------------------------------------------------
(* The loops over the entries of a table or an array *)

\* What the loop of an array has appended (serialization.py:192-194) grows by one value.
LEMMA PrefixGrows ==
    ASSUME NEW S, NEW s \in Seq(S), NEW k \in Nat
    PROVE  k < Len(s) => SubSeq(s, 1, k + 1) = Append(SubSeq(s, 1, k), s[k + 1])
<1>0. SUFFICES ASSUME k < Len(s)
               PROVE  SubSeq(s, 1, k + 1) = Append(SubSeq(s, 1, k), s[k + 1])
  OBVIOUS
<1>1. k + 1 \in 1 .. Len(s) /\ (k + 1) - 1 = k /\ 1 \in 1 .. Len(s) /\ k + 1 \in 1 .. k + 1
  BY <1>0
<1>2. SubSeq(s, 1, k + 1) = SubSeq(s, 1, k) \o <<s[k + 1]>>
  <2>1. k + 1 \in 1 .. Len(s) /\ 1 \in 1 .. Len(s)
    BY <1>1
  <2>2. SubSeq(s, 1, k + 1) = SubSeq(s, 1, (k + 1) - 1) \o <<s[k + 1]>>
    BY <2>1, SubSeqRecursiveSecond
  <2> QED BY <2>2, <1>1
<1>3. \A i \in 1 .. k : s[i] \in S
  BY <1>0
<1>4. SubSeq(s, 1, k) \in Seq(S) /\ s[k + 1] \in S
  BY <1>1, <1>3, SubSeqProperties
<1> QED BY <1>2, <1>4, AppendIsConcat

\* A key read for the first time (serialization.py:185, 295) comes last in the dict.
LEMMA AssignGrows ==
    ASSUME NEW items, NEW d \in Dicts(items), NEW k \in Nat
    PROVE  k < Len(d) =>
             Assign(SubSeq(d, 1, k), d[k + 1][1], d[k + 1][2]) = SubSeq(d, 1, k + 1)
<1>0. SUFFICES ASSUME k < Len(d)
               PROVE  Assign(SubSeq(d, 1, k), d[k + 1][1], d[k + 1][2]) = SubSeq(d, 1, k + 1)
  OBVIOUS
<1>1. /\ d \in Seq(Keys \X items)
      /\ \A m, n \in DOMAIN d : d[m][1] = d[n][1] => m = n
  BY DEF Dicts
<1>2. /\ k + 1 \in 1 .. Len(d) /\ DOMAIN d = 1 .. Len(d) /\ Len(d) \in Nat
      /\ d[k + 1] \in Keys \X items
  BY <1>0, <1>1, LenProperties
<1>3. <<d[k + 1][1], d[k + 1][2]>> = d[k + 1]
  BY <1>2
<1> DEFINE p == SubSeq(d, 1, k)
<1>4. DOMAIN p = 1 .. k /\ \A i \in 1 .. k : p[i] = d[i]
  <2>1. \A i \in 1 .. k : d[i] \in Keys \X items
    BY <1>1, <1>2
  <2>2. p \in Seq(Keys \X items) /\ Len(p) = k /\ \A i \in 1 .. k - 1 + 1 : p[i] = d[1 + i - 1]
    BY <2>1, SubSeqProperties
  <2>3. DOMAIN p = 1 .. k
    BY <2>2, LenProperties
  <2>4. \A i \in 1 .. k : i \in 1 .. k - 1 + 1 /\ 1 + i - 1 = i
    OBVIOUS
  <2> QED BY <2>2, <2>3, <2>4
<1> HIDE DEF p
<1>5. \A i \in 1 .. k : i \in 1 .. Len(d) /\ i # k + 1
  BY <1>2
<1>6. ~ \E i \in DOMAIN p : p[i][1] = d[k + 1][1]
  BY <1>1, <1>2, <1>4, <1>5
<1>7. Assign(p, d[k + 1][1], d[k + 1][2]) = Append(p, d[k + 1])
  BY <1>3, <1>6 DEF Assign
<1>8. SubSeq(d, 1, k + 1) = Append(SubSeq(d, 1, k), d[k + 1])
  BY <1>0, <1>1, PrefixGrows
<1> QED BY <1>7, <1>8 DEF p

\* What is read (serialization.py:178-194) is not what is raised.
LEMMA ReadNotRaised == \A v, o : [val |-> v, offset |-> o] # UnicodeDecodeError
<1> TAKE v, o
<1> DEFINE r == [val |-> v, offset |-> o]
<1>1. DOMAIN r = {"val", "offset"} /\ DOMAIN UnicodeDecodeError = {"name"}
  BY DEF UnicodeDecodeError
<1>2. "val" \notin {"name"}
  OBVIOUS
<1> HIDE DEF r
<1> QED BY <1>1, <1>2

\* A turn of the loop of a table (serialization.py:180-185, 290-295).
TableTurn(item, buf, limit, r) ==
    LET keylen == buf[r.offset + 1]
        key == Bytes(buf, r.offset + 1, keylen)
        i == item[r.offset + 1 + keylen]
    IN IF r = UnicodeDecodeError THEN r
       ELSE IF r.offset >= limit THEN r
       ELSE IF ~Utf8(key) \/ i = UnicodeDecodeError THEN UnicodeDecodeError
       ELSE [val |-> Assign(r.val, key, i.val), offset |-> i.offset]

\* All the turns of the loop of a table (serialization.py:180-185, 290-295).
IsTableLoop(loop, item, buf, o, limit) ==
    /\ loop[0] = [val |-> <<>>, offset |-> o]
    /\ loop[limit - o] = read_table(item, buf, o, limit)
    /\ \A k \in 1 .. limit - o :
           loop[k] = TableTurn(item, buf, limit, loop[k - 1])

\* The loop of a table turns as often as there can be entries
\* (serialization.py:180-185, 290-295).
LEMMA TableLoop ==
    ASSUME NEW item, NEW buf, NEW o \in Nat, NEW limit \in Nat
    PROVE  limit - o \in Nat =>
             \E loop : IsTableLoop(loop, item, buf, o, limit)
<1>1. HAVE limit - o \in Nat
<1> DEFINE Turn(r) == TableTurn(item, buf, limit, r)
           Zero == [val |-> <<>>, offset |-> o]
           Rec(f, w) == f = [k \in 0 .. w |-> IF k = 0 THEN Zero ELSE Turn(f[k - 1])]
           T == {w \in Nat : \E f : Rec(f, w)}
           n == limit - o
<1>2. read_table(item, buf, o, limit) = (CHOOSE f : Rec(f, n))[n]
  BY Zenon DEF read_table, TableTurn
<1> HIDE DEF Turn, Zero, n
<1>3. 0 \in T
  <2>1. Rec([k \in 0 .. 0 |-> Zero], 0)
    OBVIOUS
  <2> QED BY <2>1
<1>4. ASSUME NEW w \in Nat, w \in T PROVE w + 1 \in T
  <2>1. PICK f : Rec(f, w)
    BY <1>4
  <2> DEFINE g == [k \in 0 .. w + 1 |-> IF k = w + 1 THEN Turn(f[w]) ELSE f[k]]
  <2>2. Rec(g, w + 1)
    BY <2>1
  <2> HIDE DEF g
  <2> QED BY <2>2
<1>5. Nat \subseteq T
  <2> HIDE DEF T
  <2> QED BY <1>3, <1>4, SetInduction
<1>6. n \in Nat
  BY <1>1 DEF n
<1> DEFINE loop == CHOOSE f : Rec(f, n)
<1>7. Rec(loop, n)
  BY <1>5, <1>6
<1>8. loop[n] = read_table(item, buf, o, limit)
  BY <1>2
<1> HIDE DEF loop
<1>9. loop[0] = Zero /\ \A k \in 1 .. n : loop[k] = Turn(loop[k - 1])
  BY <1>6, <1>7
<1>10. IsTableLoop(loop, item, buf, o, limit)
  BY <1>8, <1>9 DEF Turn, Zero, n, IsTableLoop
<1> QED BY <1>10

\* A turn of the loop of an array (serialization.py:192-194).
ArrayTurn(item, limit, r) ==
    LET i == item[r.offset]
    IN IF r = UnicodeDecodeError THEN r
       ELSE IF r.offset >= limit THEN r
       ELSE IF i = UnicodeDecodeError THEN UnicodeDecodeError
       ELSE [val |-> Append(r.val, i.val), offset |-> i.offset]

\* All the turns of the loop of an array (serialization.py:192-194).
IsArrayLoop(loop, item, buf, o, limit) ==
    /\ loop[0] = [val |-> <<>>, offset |-> o]
    /\ loop[limit - o] = read_array(item, buf, o, limit)
    /\ \A k \in 1 .. limit - o :
           loop[k] = ArrayTurn(item, limit, loop[k - 1])

\* The loop of an array turns as often as there can be values (serialization.py:192-194).
LEMMA ArrayLoop ==
    ASSUME NEW item, NEW buf, NEW o \in Nat, NEW limit \in Nat
    PROVE  limit - o \in Nat =>
             \E loop : IsArrayLoop(loop, item, buf, o, limit)
<1>1. HAVE limit - o \in Nat
<1> DEFINE Turn(r) == ArrayTurn(item, limit, r)
           Zero == [val |-> <<>>, offset |-> o]
           Rec(f, w) == f = [k \in 0 .. w |-> IF k = 0 THEN Zero ELSE Turn(f[k - 1])]
           T == {w \in Nat : \E f : Rec(f, w)}
           n == limit - o
<1>2. read_array(item, buf, o, limit) = (CHOOSE f : Rec(f, n))[n]
  BY Zenon DEF read_array, ArrayTurn
<1> HIDE DEF Turn, Zero, n
<1>3. 0 \in T
  <2>1. Rec([k \in 0 .. 0 |-> Zero], 0)
    OBVIOUS
  <2> QED BY <2>1
<1>4. ASSUME NEW w \in Nat, w \in T PROVE w + 1 \in T
  <2>1. PICK f : Rec(f, w)
    BY <1>4
  <2> DEFINE g == [k \in 0 .. w + 1 |-> IF k = w + 1 THEN Turn(f[w]) ELSE f[k]]
  <2>2. Rec(g, w + 1)
    BY <2>1
  <2> HIDE DEF g
  <2> QED BY <2>2
<1>5. Nat \subseteq T
  <2> HIDE DEF T
  <2> QED BY <1>3, <1>4, SetInduction
<1>6. n \in Nat
  BY <1>1 DEF n
<1> DEFINE loop == CHOOSE f : Rec(f, n)
<1>7. Rec(loop, n)
  BY <1>5, <1>6
<1>8. loop[n] = read_array(item, buf, o, limit)
  BY <1>2
<1> HIDE DEF loop
<1>9. loop[0] = Zero /\ \A k \in 1 .. n : loop[k] = Turn(loop[k - 1])
  BY <1>6, <1>7
<1>10. IsArrayLoop(loop, item, buf, o, limit)
  BY <1>8, <1>9 DEF Turn, Zero, n, IsArrayLoop
<1> QED BY <1>10

\* A turn that finds r leaves it.
Settles(loop, n, r) == \A k \in 1 .. n : loop[k - 1] = r => loop[k] = r

\* What a loop leaves after its last entry stays (serialization.py:180, 192, 290): m turns
\* read d up to `limit', the others do nothing.
LEMMA LoopStops ==
    ASSUME NEW loop, NEW n \in Nat, NEW m \in Nat, NEW r
    PROVE  m <= n /\ loop[m] = r /\ Settles(loop, n, r) => loop[n] = r
<1>0. HAVE m <= n /\ loop[m] = r /\ Settles(loop, n, r)
<1> DEFINE T == {j \in Nat : m + j <= n => loop[m + j] = r}
<1>1. 0 \in T /\ \A j \in Nat : j \in T => j + 1 \in T
  <2>1. ASSUME NEW j \in Nat, m + (j + 1) <= n, loop[m + j] = r PROVE loop[m + (j + 1)] = r
    <3>1. m + (j + 1) \in 1 .. n /\ (m + (j + 1)) - 1 = m + j
      BY <2>1, <1>0
    <3> QED BY <2>1, <3>1, <1>0 DEF Settles
  <2> QED BY <2>1, <1>0
<1>2. Nat \subseteq T
  <2> HIDE DEF T
  <2> QED BY <1>1, SetInduction
<1>3. n - m \in Nat /\ m + (n - m) = n
  BY <1>0
<1> QED BY <1>2, <1>3

\* The bytes of an entry of a table (serialization.py:398-404), and of them all.
Entry(w, e) == <<Len(e[1])>> \o e[1] \o w[e[2]]

Entries(w, d) == [n \in DOMAIN d |-> Entry(w, d[n])]

\* An entry (serialization.py:398-404) is a key behind its length, and an item.
LEMMA EntryType ==
    ASSUME NEW items, NEW w \in [items -> Seq(Byte)], NEW e \in Keys \X items
    PROVE  /\ Entry(w, e) \in Seq(Byte)
           /\ Len(Entry(w, e)) = 1 + Len(e[1]) + Len(w[e[2]])
           /\ Len(e[1]) \in Nat /\ Len(w[e[2]]) \in Nat
<1> DEFINE b == Len(e[1])
           key == e[1]
           x == w[e[2]]
<1>1. b \in Byte /\ key \in Seq(Byte) /\ x \in Seq(Byte)
  BY DEF Keys, Str
<1>2. Entry(w, e) = (<<b>> \o key) \o x
  BY DEF Entry
<1>3. b = Len(key) /\ Len(key) \in Nat /\ Len(x) \in Nat
  BY <1>1, LenProperties
<1> HIDE DEF b, key, x
<1>4. <<b>> \in Seq(Byte) /\ Len(<<b>>) = 1
  BY <1>1
<1>5. <<b>> \o key \in Seq(Byte) /\ Len(<<b>> \o key) = 1 + Len(key)
  BY <1>1, <1>4, ConcatProperties
<1> DEFINE h == <<b>> \o key
<1> HIDE DEF h
<1>6. h \o x \in Seq(Byte) /\ Len(h \o x) = Len(h) + Len(x)
  BY <1>1, <1>5, ConcatProperties, Zenon DEF h
<1> QED BY <1>2, <1>3, <1>5, <1>6 DEF h, key, x

\* An entry read at p: its key, and the item behind it.
Stands(buf, p, w, e) ==
    /\ buf[p + 1] = Len(e[1])
    /\ Bytes(buf, p + 1, Len(e[1])) = e[1]
    /\ At(buf, p + 1 + Len(e[1]), w[e[2]])

\* What the loop of a table finds of an entry that stands at p (serialization.py:181-185).
LEMMA EntryAt ==
    ASSUME NEW items, NEW w \in [items -> Seq(Byte)], NEW e \in Keys \X items,
           NEW buf \in Seq(Byte), NEW p \in Nat
    PROVE  At(buf, p, Entry(w, e)) => Stands(buf, p, w, e)
<1>0. HAVE At(buf, p, Entry(w, e))
<1> DEFINE b == Len(e[1])
           key == e[1]
           x == w[e[2]]
<1>1. b \in Byte /\ key \in Seq(Byte) /\ x \in Seq(Byte)
  BY DEF Keys, Str
<1>2. Entry(w, e) = (<<b>> \o key) \o x
  BY DEF Entry
<1>3. b = Len(key) /\ b \in Nat /\ p + 1 \in Nat
  <2>1. b = Len(key)
    BY Zenon
  <2>2. \A n \in Byte : n \in Nat
    BY DEF Byte
  <2>3. b \in Nat
    BY <1>1, <2>2, Zenon
  <2>4. p + 1 \in Nat
    OBVIOUS
  <2> QED BY <2>1, <2>3, <2>4, Zenon
<1> HIDE DEF b, key, x
<1>4. <<b>> \in Seq(Byte) /\ Len(<<b>>) = 1
  BY <1>1
<1> DEFINE h == <<b>> \o key
<1>5. h \in Seq(Byte) /\ Len(h) = 1 + Len(key)
  BY <1>1, <1>4, ConcatProperties
<1> HIDE DEF h
<1>6. At(buf, p, h) /\ At(buf, p + Len(h), x)
  BY <1>0, <1>1, <1>2, <1>5, AtConcat DEF h
<1>7. buf[p + 1] = b /\ At(buf, p + 1, key)
  BY <1>1, <1>6, AtByte DEF h
<1>8. Bytes(buf, p + 1, Len(key)) = key
  BY <1>1, <1>3, <1>7, AtBytes
<1>9. p + Len(h) = (p + 1) + b
  BY <1>3, <1>5
<1>10. buf[p + 1] = b /\ Bytes(buf, p + 1, b) = key /\ At(buf, (p + 1) + b, x)
  BY <1>3, <1>6, <1>7, <1>8, <1>9
<1> QED BY <1>10 DEF b, key, x, Stands

\* `item' finds each value wherever its bytes w[x] stand between the offset o and `limit'.
Finds(item, buf, o, limit, items, w) ==
    \A p \in Nat, x \in items :
        o <= p /\ p + Len(w[x]) <= limit /\ At(buf, p, w[x])
            => item[p] = [val |-> x, offset |-> p + Len(w[x])]

\* A dict is read back (serialization.py:178-185, 288-295) when its values are.
LEMMA TableRead ==
    ASSUME NEW buf \in Seq(Byte), NEW o \in Nat, NEW limit \in Nat,
           NEW items, NEW w \in [items -> Seq(Byte)], NEW item, NEW d \in Dicts(items)
    PROVE  /\ At(buf, o, FlattenSeq(Entries(w, d)))
           /\ limit = o + Len(FlattenSeq(Entries(w, d)))
           /\ \A x \in items : Len(w[x]) # 0
           /\ Finds(item, buf, o, limit, items, w)
           => read_table(item, buf, o, limit) = [val |-> d, offset |-> limit]
<1> DEFINE ss == Entries(w, d)
           m == Len(d)
<1>0. SUFFICES ASSUME At(buf, o, FlattenSeq(ss)), limit = o + Len(FlattenSeq(ss)),
                      \A x \in items : Len(w[x]) # 0, Finds(item, buf, o, limit, items, w)
               PROVE  read_table(item, buf, o, limit) = [val |-> d, offset |-> limit]
  OBVIOUS
<1>1. /\ d \in Seq(Keys \X items) /\ m \in Nat /\ DOMAIN d = 1 .. m
      /\ \A k \in 1 .. m : d[k] \in Keys \X items
  BY LenProperties DEF Dicts
<1>2. \A k \in 1 .. m : /\ Entry(w, d[k]) \in Seq(Byte)
                        /\ Len(Entry(w, d[k])) = 1 + Len(d[k][1]) + Len(w[d[k][2]])
                        /\ Len(d[k][1]) \in Nat /\ Len(w[d[k][2]]) \in Nat
  BY <1>1, EntryType
<1>3. ss = [k \in 1 .. m |-> Entry(w, d[k])]
  BY <1>1 DEF Entries
<1>4. ss \in Seq(Seq(Byte)) /\ Len(ss) = m
  <2>1. ss \in [1 .. m -> Seq(Byte)]
    BY <1>2, <1>3
  <2> HIDE DEF ss, m
  <2> QED BY <2>1, <1>1
<1>5. \A k \in 1 .. m : ss[k] = Entry(w, d[k])
  BY <1>3
<1> HIDE DEF ss
<1>6. \A k \in 1 .. Len(ss) : Len(ss[k]) # 0
  <2> TAKE k \in 1 .. Len(ss)
  <2> DEFINE a == Len(d[k][1])
             b == Len(w[d[k][2]])
             c == Len(ss[k])
  <2>1. c = 1 + a + b /\ a \in Nat /\ b \in Nat
    BY <1>2, <1>4, <1>5
  <2> HIDE DEF a, b, c
  <2>2. c # 0
    BY <2>1
  <2> QED BY <2>2 DEF c
<1>7. PICK at : /\ at \in [0 .. m -> Nat]
                /\ at[0] = o /\ at[m] = limit
                /\ \A k \in 1 .. m : /\ at[k] = at[k - 1] + Len(ss[k])
                                     /\ At(buf, at[k - 1], ss[k])
                /\ \A k \in 0 .. m : at[k] >= o + k /\ at[k] <= at[m]
                /\ \A k \in 1 .. m : at[k - 1] < at[m]
  <2>1. \E at : /\ at \in [0 .. Len(ss) -> Nat]
                /\ at[0] = o /\ at[Len(ss)] = o + Len(FlattenSeq(ss))
                /\ \A k \in 1 .. Len(ss) : /\ at[k] = at[k - 1] + Len(ss[k])
                                           /\ At(buf, at[k - 1], ss[k])
                /\ \A k \in 0 .. Len(ss) : at[k] >= o + k /\ at[k] <= at[Len(ss)]
                /\ \A k \in 1 .. Len(ss) : at[k - 1] < at[Len(ss)]
    BY <1>0, <1>4, <1>6, FlattenAt, ZenonT(60)
  <2> HIDE DEF m
  <2> QED BY <2>1, <1>0, <1>4, Zenon
<1>8. limit - o \in Nat /\ m <= limit - o
  <2>1. m \in 0 .. m
    BY <1>1
  <2>2. at[m] >= o + m
    BY <1>7, <2>1
  <2> HIDE DEF m
  <2> QED BY <2>2, <1>1, <1>7
<1>9. PICK loop : IsTableLoop(loop, item, buf, o, limit)
  BY <1>8, TableLoop
<1> DEFINE R(k) == [val |-> SubSeq(d, 1, k), offset |-> at[k]]
<1>10. ASSUME NEW k \in Nat, k + 1 <= m PROVE TableTurn(item, buf, limit, R(k)) = R(k + 1)
  <2> DEFINE e == d[k + 1]
             p == at[k]
             key == e[1]
             x == e[2]
  <2>1. k + 1 \in 1 .. m /\ (k + 1) - 1 = k /\ k \in 0 .. m /\ k < m
    BY <1>1, <1>10
  <2>2. e \in Keys \X items /\ ss[k + 1] = Entry(w, e) /\ x \in items /\ Utf8(key)
    <3>1. e \in Keys \X items /\ ss[k + 1] = Entry(w, e)
      BY <1>1, <1>5, <2>1
    <3> HIDE DEF e
    <3> QED BY <3>1 DEF Keys, Str
  <2>3. /\ p \in Nat /\ o <= p /\ p < limit /\ at[k + 1] = p + Len(ss[k + 1])
        /\ At(buf, p, ss[k + 1])
    <3>1. /\ at[k + 1] = at[(k + 1) - 1] + Len(ss[k + 1])
          /\ At(buf, at[(k + 1) - 1], ss[k + 1]) /\ at[(k + 1) - 1] < at[m]
      BY <1>7, <2>1, Zenon
    <3>2. at[k] \in Nat /\ o <= at[k]
      <4>1. at[k] \in Nat /\ at[k] >= o + k
        BY <1>7, <2>1
      <4> QED BY <4>1
    <3> HIDE DEF m
    <3> QED BY <3>1, <3>2, <1>7, <2>1
  <2>4. /\ buf[p + 1] = Len(key) /\ Bytes(buf, p + 1, Len(key)) = key
        /\ At(buf, p + 1 + Len(key), w[x])
    <3> HIDE DEF e, p
    <3>1. At(buf, p, Entry(w, e))
      BY <2>2, <2>3
    <3>2. Stands(buf, p, w, e)
      BY <2>2, <2>3, <3>1, EntryAt
    <3> QED BY <3>2 DEF Stands
  <2>5. Len(ss[k + 1]) = 1 + Len(key) + Len(w[x]) /\ Len(key) \in Nat /\ Len(w[x]) \in Nat
    BY <1>2, <1>5, <2>1
  <2>6. Assign(SubSeq(d, 1, k), key, x) = SubSeq(d, 1, k + 1)
    BY <2>1, AssignGrows
  <2>7. w[x] \in Seq(Byte) /\ Len(w[x]) # 0
    BY <1>0, <2>2
  <2> DEFINE q == p + 1 + Len(key)
  <2>8. q \in Nat /\ o <= q /\ q + Len(w[x]) <= limit
    <3> DEFINE a == Len(key)
               b == Len(w[x])
               c == at[k + 1]
    <3>1. c = p + (1 + a + b) /\ a \in Nat /\ b \in Nat /\ b # 0
      BY <2>3, <2>5, <2>7
    <3>2. c <= limit /\ c \in Nat
      <4>1. k + 1 \in 0 .. m
        BY <2>1
      <4> QED BY <4>1, <1>7
    <3> HIDE DEF a, b, c, p
    <3>3. p \in Nat /\ p + 1 + a \in Nat /\ o <= p + 1 + a /\ p + 1 + a + b <= limit
      BY <3>1, <3>2, <2>3
    <3> QED BY <3>3 DEF a, b
  <2>9. item[q] = [val |-> x, offset |-> q + Len(w[x])]
    BY <1>0, <2>2, <2>4, <2>8 DEF Finds
  <2>10. q + Len(w[x]) = at[k + 1]
    <3> DEFINE a == Len(key)
               b == Len(w[x])
    <3>1. a \in Nat /\ b \in Nat /\ p \in Nat /\ at[k + 1] = p + (1 + a + b)
      BY <2>3, <2>5
    <3> HIDE DEF a, b, p
    <3>2. p + 1 + a + b = at[k + 1]
      BY <3>1
    <3> QED BY <3>2 DEF a, b
  <2> HIDE DEF p, key, x, m, e
  <2>11. ~(p >= limit)
    BY <2>3
  <2>12. R(k).offset = p /\ R(k).val = SubSeq(d, 1, k)
    BY DEF p
  <2> HIDE DEF q, R
  <2>13. TableTurn(item, buf, limit, R(k))
           = [val |-> SubSeq(d, 1, k + 1), offset |-> at[k + 1]]
    <3>1. R(k) # UnicodeDecodeError
      BY ReadNotRaised DEF R
    <3> DEFINE r == R(k)
               t == SubSeq(d, 1, k + 1)
               Put(s) == Assign(s, key, x)
    <3>2. /\ r # UnicodeDecodeError /\ r.offset = p
          /\ Assign(r.val, key, x) = Put(r.val) /\ Put(r.val) = t
      BY <2>6, <2>12, <3>1
    <3>3. /\ Bytes(buf, p + 1, buf[p + 1]) = key
          /\ item[p + 1 + buf[p + 1]] = [val |-> x, offset |-> at[k + 1]]
      BY <2>4, <2>9, <2>10 DEF q
    <3>4. item[p + 1 + buf[p + 1]] # UnicodeDecodeError
      BY <3>3, ReadNotRaised
    <3>5. Utf8(key)
      BY <2>2
    <3> HIDE DEF r, t, Put
    <3> DEFINE z == item[p + 1 + buf[p + 1]]
    <3>6. TableTurn(item, buf, limit, r) = [val |-> Put(r.val), offset |-> at[k + 1]]
      <4>1. /\ z = [val |-> x, offset |-> at[k + 1]] /\ z # UnicodeDecodeError
            /\ z.val = x /\ z.offset = at[k + 1]
        BY <3>3, <3>4
      <4>2. TableTurn(item, buf, limit, r)
              = IF z = UnicodeDecodeError THEN UnicodeDecodeError
                ELSE [val |-> Assign(r.val, key, z.val), offset |-> z.offset]
        BY <2>11, <3>2, <3>3, <3>5, ZenonT(60) DEF TableTurn
      <4> HIDE DEF z
      <4>3. TableTurn(item, buf, limit, r)
              = [val |-> Assign(r.val, key, z.val), offset |-> z.offset]
        BY <4>1, <4>2, Zenon
      <4> QED BY <3>2, <4>1, <4>3, Zenon
    <3>7. TableTurn(item, buf, limit, r) = [val |-> t, offset |-> at[k + 1]]
      BY <3>2, <3>6, Zenon
    <3> QED BY <3>7 DEF r, t
  <2> QED BY <2>13 DEF R
<1>11. R(0) = [val |-> <<>>, offset |-> o]
  BY <1>7, SubSeqEmpty
<1>12. R(m) = [val |-> d, offset |-> limit]
  BY <1>1, <1>7, SubSeqFull
<1>13. TableTurn(item, buf, limit, R(m)) = R(m)
  <2>1. TableTurn(item, buf, limit, [val |-> d, offset |-> limit])
          = [val |-> d, offset |-> limit]
    BY DEF TableTurn
  <2> QED BY <2>1, <1>12
<1> HIDE DEF R, m
<1> DEFINE T == {k \in Nat : k <= m => loop[k] = R(k)}
<1>14. 0 \in T
  BY <1>9, <1>11 DEF IsTableLoop
<1>15. ASSUME NEW k \in Nat, k \in T PROVE k + 1 \in T
  <2>1. SUFFICES ASSUME k + 1 <= m PROVE loop[k + 1] = R(k + 1)
    OBVIOUS
  <2>2. loop[k] = R(k)
    BY <1>1, <1>15, <2>1
  <2>3. k + 1 \in 1 .. limit - o /\ (k + 1) - 1 = k
    BY <1>1, <1>8, <2>1
  <2>4. loop[k + 1] = TableTurn(item, buf, limit, loop[k])
    BY <1>9, <2>3 DEF IsTableLoop
  <2> QED BY <2>1, <2>2, <2>4, <1>10
<1>16. Nat \subseteq T
  <2> HIDE DEF T
  <2> QED BY <1>14, <1>15, SetInduction
<1>17. loop[m] = R(m)
  BY <1>1, <1>16
<1>18. loop[limit - o] = R(m)
  <2>1. \A k \in 1 .. limit - o : loop[k - 1] = R(m) => loop[k] = R(m)
    BY <1>9, <1>13 DEF IsTableLoop
  <2> DEFINE n == limit - o
             r == R(m)
  <2>2. /\ n \in Nat /\ m \in Nat /\ m <= n /\ loop[m] = r
        /\ Settles(loop, n, r)
    BY <2>1, <1>1, <1>8, <1>17 DEF Settles
  <2> HIDE DEF n, r
  <2>3. loop[n] = r
    BY <2>2, LoopStops
  <2> QED BY <2>3 DEF n, r
<1> QED BY <1>9, <1>12, <1>18 DEF IsTableLoop

\* The bytes of the values of an array (serialization.py:421-423).
Values(w, l) == [n \in DOMAIN l |-> w[l[n]]]

\* A list is read back (serialization.py:190-194) when its values are.
LEMMA ArrayRead ==
    ASSUME NEW buf \in Seq(Byte), NEW o \in Nat, NEW limit \in Nat,
           NEW items, NEW w \in [items -> Seq(Byte)], NEW item, NEW l \in Lists(items)
    PROVE  /\ At(buf, o, FlattenSeq(Values(w, l)))
           /\ limit = o + Len(FlattenSeq(Values(w, l)))
           /\ \A x \in items : Len(w[x]) # 0
           /\ Finds(item, buf, o, limit, items, w)
           => read_array(item, buf, o, limit) = [val |-> l, offset |-> limit]
<1> DEFINE ss == Values(w, l)
           m == Len(l)
<1>0. SUFFICES ASSUME At(buf, o, FlattenSeq(ss)), limit = o + Len(FlattenSeq(ss)),
                      \A x \in items : Len(w[x]) # 0, Finds(item, buf, o, limit, items, w)
               PROVE  read_array(item, buf, o, limit) = [val |-> l, offset |-> limit]
  OBVIOUS
<1>1. m \in Nat /\ DOMAIN l = 1 .. m /\ \A k \in 1 .. m : l[k] \in items
  BY LenProperties DEF Lists
<1>2. \A k \in 1 .. m : w[l[k]] \in Seq(Byte) /\ Len(w[l[k]]) # 0
  BY <1>0, <1>1
<1>3. ss = [k \in 1 .. m |-> w[l[k]]]
  BY <1>1 DEF Values
<1>4. ss \in Seq(Seq(Byte)) /\ Len(ss) = m
  <2>1. ss \in [1 .. m -> Seq(Byte)]
    BY <1>2, <1>3
  <2> HIDE DEF ss, m
  <2> QED BY <2>1, <1>1
<1>5. \A k \in 1 .. m : ss[k] = w[l[k]]
  BY <1>3
<1> HIDE DEF ss
<1>6. \A k \in 1 .. Len(ss) : Len(ss[k]) # 0
  <2> HIDE DEF m
  <2> QED BY <1>2, <1>4, <1>5
<1>7. PICK at : /\ at \in [0 .. m -> Nat]
                /\ at[0] = o /\ at[m] = limit
                /\ \A k \in 1 .. m : /\ at[k] = at[k - 1] + Len(ss[k])
                                     /\ At(buf, at[k - 1], ss[k])
                /\ \A k \in 0 .. m : at[k] >= o + k /\ at[k] <= at[m]
                /\ \A k \in 1 .. m : at[k - 1] < at[m]
  <2>1. \E at : /\ at \in [0 .. Len(ss) -> Nat]
                /\ at[0] = o /\ at[Len(ss)] = o + Len(FlattenSeq(ss))
                /\ \A k \in 1 .. Len(ss) : /\ at[k] = at[k - 1] + Len(ss[k])
                                           /\ At(buf, at[k - 1], ss[k])
                /\ \A k \in 0 .. Len(ss) : at[k] >= o + k /\ at[k] <= at[Len(ss)]
                /\ \A k \in 1 .. Len(ss) : at[k - 1] < at[Len(ss)]
    BY <1>0, <1>4, <1>6, FlattenAt
  <2> HIDE DEF m
  <2> QED BY <2>1, <1>0, <1>4, Zenon
<1>8. limit - o \in Nat /\ m <= limit - o
  <2>1. m \in 0 .. m
    BY <1>1
  <2>2. at[m] >= o + m
    BY <1>7, <2>1
  <2> HIDE DEF m
  <2> QED BY <2>2, <1>1, <1>7
<1>9. PICK loop : IsArrayLoop(loop, item, buf, o, limit)
  BY <1>8, ArrayLoop
<1> DEFINE R(k) == [val |-> SubSeq(l, 1, k), offset |-> at[k]]
<1>10. ASSUME NEW k \in Nat, k + 1 <= m PROVE ArrayTurn(item, limit, R(k)) = R(k + 1)
  <2> DEFINE p == at[k]
             x == l[k + 1]
  <2>1. k + 1 \in 1 .. m /\ (k + 1) - 1 = k /\ k \in 0 .. m /\ k < m
    BY <1>1, <1>10
  <2>2. x \in items /\ ss[k + 1] = w[x]
    BY <1>1, <1>5, <2>1
  <2>3. /\ p \in Nat /\ o <= p /\ p < limit /\ at[k + 1] <= limit /\ at[k + 1] = p + Len(ss[k + 1])
        /\ At(buf, p, ss[k + 1])
    <3>1. /\ at[k + 1] = at[(k + 1) - 1] + Len(ss[k + 1])
          /\ At(buf, at[(k + 1) - 1], ss[k + 1]) /\ at[(k + 1) - 1] < at[m]
      BY <1>7, <2>1, Zenon
    <3>2. at[k] \in Nat /\ o <= at[k] /\ at[k + 1] <= limit
      <4>1. at[k] \in Nat /\ at[k] >= o + k
        BY <1>7, <2>1
      <4>2. k + 1 \in 0 .. m
        BY <2>1
      <4>3. at[k + 1] <= limit
        BY <4>2, <1>7
      <4> QED BY <4>1, <4>3
    <3> HIDE DEF m
    <3> QED BY <3>1, <3>2, <1>7, <2>1
  <2>4. item[p] = [val |-> x, offset |-> p + Len(w[x])]
    <3> HIDE DEF p, x
    <3> QED BY <1>0, <2>2, <2>3 DEF Finds
  <2>5. SubSeq(l, 1, k + 1) = Append(SubSeq(l, 1, k), x)
    BY <2>1, PrefixGrows DEF Lists
  <2>6. ~(p >= limit) /\ p + Len(w[x]) = at[k + 1]
    BY <2>2, <2>3
  <2> HIDE DEF x, m
  <2>7. R(k).offset = p /\ R(k).val = SubSeq(l, 1, k)
    OBVIOUS
  <2>9. R(k) # UnicodeDecodeError
    BY ReadNotRaised
  <2> HIDE DEF p, R
  <2>8. ArrayTurn(item, limit, R(k)) = [val |-> SubSeq(l, 1, k + 1), offset |-> at[k + 1]]
    <3> DEFINE v == R(k)
               s == SubSeq(l, 1, k)
               t == SubSeq(l, 1, k + 1)
               App(y) == Append(s, y)
    <3>1. item[p].val = x /\ item[p].offset = at[k + 1]
      BY <2>4, <2>6
    <3>2. v.offset = p /\ Append(v.val, x) = App(x) /\ t = App(x)
      BY <2>5, <2>7
    <3> HIDE DEF v, s, t, App
    <3>3. ArrayTurn(item, limit, v) = [val |-> Append(v.val, x), offset |-> at[k + 1]]
      <4>1. item[p] # UnicodeDecodeError
        BY <2>4, ReadNotRaised
      <4> QED BY <2>6, <2>9, <3>1, <3>2, <4>1, Zenon DEF ArrayTurn, v
    <3>4. ArrayTurn(item, limit, v) = [val |-> t, offset |-> at[k + 1]]
      BY <3>2, <3>3, Zenon
    <3> QED BY <3>4 DEF v, t
  <2> QED BY <2>8 DEF R
<1>11. R(0) = [val |-> <<>>, offset |-> o]
  BY <1>7, SubSeqEmpty
<1>12. R(m) = [val |-> l, offset |-> limit]
  BY <1>1, <1>7, SubSeqFull DEF Lists
<1>13. ArrayTurn(item, limit, R(m)) = R(m)
  <2>1. ArrayTurn(item, limit, [val |-> l, offset |-> limit]) = [val |-> l, offset |-> limit]
    BY DEF ArrayTurn
  <2> QED BY <2>1, <1>12
<1> HIDE DEF R, m
<1> DEFINE T == {k \in Nat : k <= m => loop[k] = R(k)}
<1>14. 0 \in T
  BY <1>9, <1>11 DEF IsArrayLoop
<1>15. ASSUME NEW k \in Nat, k \in T PROVE k + 1 \in T
  <2>1. SUFFICES ASSUME k + 1 <= m PROVE loop[k + 1] = R(k + 1)
    OBVIOUS
  <2>2. loop[k] = R(k)
    BY <1>1, <1>15, <2>1
  <2>3. k + 1 \in 1 .. limit - o /\ (k + 1) - 1 = k
    BY <1>1, <1>8, <2>1
  <2>4. loop[k + 1] = ArrayTurn(item, limit, loop[k])
    BY <1>9, <2>3 DEF IsArrayLoop
  <2> QED BY <2>1, <2>2, <2>4, <1>10
<1>16. Nat \subseteq T
  <2> HIDE DEF T
  <2> QED BY <1>14, <1>15, SetInduction
<1>17. loop[m] = R(m)
  BY <1>1, <1>16
<1>18. loop[limit - o] = R(m)
  <2>1. \A k \in 1 .. limit - o : loop[k - 1] = R(m) => loop[k] = R(m)
    BY <1>9, <1>13 DEF IsArrayLoop
  <2> DEFINE n == limit - o
             r == R(m)
  <2>2. /\ n \in Nat /\ m \in Nat /\ m <= n /\ loop[m] = r
        /\ Settles(loop, n, r)
    BY <2>1, <1>1, <1>8, <1>17 DEF Settles
  <2> HIDE DEF n, r
  <2>3. loop[n] = r
    BY <2>2, LoopStops
  <2> QED BY <2>3 DEF n, r
<1> QED BY <1>9, <1>12, <1>18 DEF IsArrayLoop

-----------------------------------------------------------------------------
(* Items *)

\* The bytes that announce what is written (serialization.py:441-473), and how they are
\* read (serialization.py:112-207).
LEMMA Codes ==
    /\ Code.S = 83 /\ Code.t = 116 /\ Code.I = 73 /\ Code.L = 76 /\ Code.d = 100
    /\ Code.D = 68 /\ Code.T = 84 /\ Code.F = 70 /\ Code.A = 65 /\ Code.V = 86
    /\ DOMAIN IntWidth = {98, 66, 85, 115, 117, 73, 105, 76, 108}
    /\ IntWidth[73] = 4 /\ IntWidth[76] = 8 /\ 73 \in SignedItem /\ 76 \in SignedItem
    /\ DOMAIN PackedItem = {102, 100, 68, 84}
    /\ PackedItem[100] = <<"float", 8>> /\ PackedItem[68] = <<"Decimal", 5>>
    /\ PackedItem[84] = <<"datetime", 8>>
<1>1. /\ Code.S = 83 /\ Code.t = 116 /\ Code.I = 73 /\ Code.L = 76 /\ Code.d = 100
      /\ Code.D = 68 /\ Code.T = 84 /\ Code.F = 70 /\ Code.A = 65 /\ Code.V = 86
      /\ Code.b = 98 /\ Code.B = 66 /\ Code.U = 85 /\ Code.s = 115 /\ Code.u = 117
      /\ Code.i = 105 /\ Code.l = 108 /\ Code.f = 102
  BY DEF Code
<1>2. /\ DOMAIN IntWidth = {98, 66, 85, 115, 117, 73, 105, 76, 108}
      /\ IntWidth[73] = 4 /\ IntWidth[76] = 8 /\ 73 \in SignedItem /\ 76 \in SignedItem
  BY <1>1 DEF IntWidth, SignedItem
<1>3. /\ DOMAIN PackedItem = {102, 100, 68, 84}
      /\ PackedItem[100] = <<"float", 8>> /\ PackedItem[68] = <<"Decimal", 5>>
      /\ PackedItem[84] = <<"datetime", 8>>
  BY <1>1 DEF PackedItem
<1> QED BY <1>1, <1>2, <1>3

\* x is read from the bytes b where they stand.
IsRead(item, buf, x, b) ==
    \A o \in Nat :
        At(buf, o, b) => ReadItem(item, buf, o) = [val |-> x, offset |-> o + Len(b)]

\* What _read_item does, by the code it finds (serialization.py:108-207).
LEMMA ReadCases ==
    ASSUME NEW item, NEW buf, NEW o \in Nat, NEW c
    PROVE  buf[o + 1] = c =>
      /\ c = Code.S =>
            LET size == unpack(Bytes(buf, o + 1, 4))
                v == Bytes(buf, (o + 1) + 4, size)
            IN Utf8(v) => ReadItem(item, buf, o) =
                   [val |-> Value("str", v), offset |-> (o + 1) + (4 + size)]
      /\ c \in {Code.I, Code.L} => ReadItem(item, buf, o) =
            [val |-> Value("int", unpack_signed(Bytes(buf, o + 1, IntWidth[c]))),
             offset |-> (o + 1) + IntWidth[c]]
      /\ c \in {Code.d, Code.D, Code.T} => ReadItem(item, buf, o) =
            [val |-> Value(PackedItem[c][1], Bytes(buf, o + 1, PackedItem[c][2])),
             offset |-> (o + 1) + PackedItem[c][2]]
      /\ c = Code.F =>
            LET size == unpack(Bytes(buf, o + 1, 4))
                r == read_table(item, buf, (o + 1) + 4, (o + 1) + 4 + size)
            IN r # UnicodeDecodeError => ReadItem(item, buf, o) =
                   [val |-> Value("dict", r.val), offset |-> r.offset]
      /\ c = Code.A =>
            LET size == unpack(Bytes(buf, o + 1, 4))
                r == read_array(item, buf, (o + 1) + 4, (o + 1) + 4 + size)
            IN r # UnicodeDecodeError => ReadItem(item, buf, o) =
                   [val |-> Value("list", r.val), offset |-> r.offset]
      /\ c = Code.t => ReadItem(item, buf, o) =
            [val |-> Value("bool", buf[(o + 1) + 1] # 0), offset |-> (o + 1) + 1]
      /\ c = Code.V => ReadItem(item, buf, o) =
            [val |-> Value("None", <<>>), offset |-> (o + 1) + 0]
<1>0. HAVE buf[o + 1] = c
<1>1. CASE c = Code.S
  <2>1. c # Code.F /\ c # Code.A /\ c # Code.t /\ c # Code.V
        /\ c \notin {Code.I, Code.L} /\ c \notin {Code.d, Code.D, Code.T}
        /\ c \notin DOMAIN IntWidth /\ c \notin DOMAIN PackedItem
    BY <1>1, Codes
  <2> QED BY <1>0, <1>1, <2>1 DEF ReadItem
<1>2. CASE c \in {Code.I, Code.L}
  <2>1. c # Code.F /\ c # Code.A /\ c # Code.t /\ c # Code.V
        /\ c # Code.S /\ c \notin {Code.d, Code.D, Code.T}
        /\ c \in DOMAIN IntWidth /\ c \notin DOMAIN PackedItem /\ c \in SignedItem
    BY <1>2, Codes
  <2>2. ReadItem(item, buf, o)
          = [val |-> Value("int", unpack_int(c, Bytes(buf, o + 1, IntWidth[c]))),
             offset |-> (o + 1) + IntWidth[c]]
    BY <1>0, <2>1 DEF ReadItem
  <2>3. \A bytes : unpack_int(c, bytes) = unpack_signed(bytes)
    BY <2>1 DEF unpack_int
  <2> QED BY <2>1, <2>2, <2>3
<1>3. CASE c \in {Code.d, Code.D, Code.T}
  <2>1. c # Code.F /\ c # Code.A /\ c # Code.t /\ c # Code.V
        /\ c # Code.S /\ c \notin {Code.I, Code.L}
        /\ c \notin DOMAIN IntWidth /\ c \in DOMAIN PackedItem
    BY <1>3, Codes
  <2>2. ReadItem(item, buf, o)
          = [val |-> Value(PackedItem[c][1], Bytes(buf, o + 1, PackedItem[c][2])),
             offset |-> (o + 1) + PackedItem[c][2]]
    BY <1>0, <2>1 DEF ReadItem
  <2> QED BY <2>1, <2>2
<1>4. CASE c = Code.F
  <2>1. c # Code.S /\ c # Code.A /\ c # Code.t /\ c # Code.V
        /\ c \notin {Code.I, Code.L} /\ c \notin {Code.d, Code.D, Code.T}
        /\ c \notin DOMAIN IntWidth /\ c \notin DOMAIN PackedItem
    BY <1>4, Codes
  <2> QED BY <1>0, <1>4, <2>1 DEF ReadItem
<1>5. CASE c = Code.A
  <2>1. c # Code.S /\ c # Code.F /\ c # Code.t /\ c # Code.V
        /\ c \notin {Code.I, Code.L} /\ c \notin {Code.d, Code.D, Code.T}
        /\ c \notin DOMAIN IntWidth /\ c \notin DOMAIN PackedItem
    BY <1>5, Codes
  <2> QED BY <1>0, <1>5, <2>1 DEF ReadItem
<1>6. CASE c = Code.t
  <2>1. c # Code.S /\ c # Code.F /\ c # Code.A /\ c # Code.V
        /\ c \notin {Code.I, Code.L} /\ c \notin {Code.d, Code.D, Code.T}
        /\ c \notin DOMAIN IntWidth /\ c \notin DOMAIN PackedItem
    BY <1>6, Codes
  <2> QED BY <1>0, <1>6, <2>1 DEF ReadItem
<1>7. CASE c = Code.V
  <2>1. c # Code.S /\ c # Code.F /\ c # Code.A /\ c # Code.t
        /\ c \notin {Code.I, Code.L} /\ c \notin {Code.d, Code.D, Code.T}
        /\ c \notin DOMAIN IntWidth /\ c \notin DOMAIN PackedItem
    BY <1>7, Codes
  <2> QED BY <1>0, <1>7, <2>1 DEF ReadItem
<1> QED BY <1>1, <1>2, <1>3, <1>4, <1>5, <1>6, <1>7

\* A str is read back: its code, its size, its bytes (serialization.py:112-116, 444-445).
LEMMA StrRead ==
    ASSUME NEW item, NEW buf \in Seq(Byte), NEW v \in Str
    PROVE  Fits(Len(buf), 4) => IsRead(item, buf, Value("str", v), <<Code.S>> \o Sized(v))
<1>0. HAVE Fits(Len(buf), 4)
<1> DEFINE b == <<83>> \o Sized(v)
<1>0a. v \in Seq(Byte) /\ Utf8(v)
  BY DEF Str
<1>1. Sized(v) \in Seq(Byte) /\ Len(Sized(v)) = 4 + Len(v) /\ Len(v) \in Nat
  BY <1>0a, SizedType, LenProperties
<1>2. Len(b) = 5 + Len(v)
  <2>1. <<83>> \in Seq(Byte) /\ Len(<<83>>) = 1
    BY DEF Byte
  <2>2. Len(b) = Len(<<83>>) + Len(Sized(v))
    BY <1>1, <2>1, ConcatProperties
  <2> HIDE DEF b
  <2> QED BY <1>1, <2>1, <2>2
<1>3. ASSUME NEW o \in Nat, At(buf, o, b)
      PROVE  ReadItem(item, buf, o) = [val |-> Value("str", v), offset |-> o + Len(b)]
  <2>1. buf[o + 1] = 83 /\ At(buf, o + 1, Sized(v))
    <3>1. 83 \in Byte
      BY DEF Byte
    <3>2. At(buf, o, <<83>> \o Sized(v))
      BY <1>3
    <3> QED BY <1>1, <3>1, <3>2, AtByte
  <2>2. unpack(Bytes(buf, o + 1, 4)) = Len(v) /\ At(buf, (o + 1) + 4, v)
    BY <1>0, <1>0a, <2>1, o + 1 \in Nat, AtSized
  <2>3. Bytes(buf, (o + 1) + 4, Len(v)) = v
    BY <1>0a, <2>2, (o + 1) + 4 \in Nat, AtBytes
  <2>4. (o + 1) + (4 + Len(v)) = o + Len(b)
    <3> DEFINE n == Len(v)
               k == Len(b)
    <3>1. n \in Nat /\ k = 5 + n
      BY <1>1, <1>2
    <3> HIDE DEF n, k
    <3>2. (o + 1) + (4 + n) = o + k
      BY <3>1
    <3> QED BY <3>2 DEF n, k
  <2> HIDE DEF b
  <2>5. buf[o + 1] = Code.S
    BY <2>1, Codes
  <2>6. LET size == unpack(Bytes(buf, o + 1, 4))
            s == Bytes(buf, (o + 1) + 4, size)
        IN Utf8(s) => ReadItem(item, buf, o) =
               [val |-> Value("str", s), offset |-> (o + 1) + (4 + size)]
    BY <2>5, ReadCases
  <2> QED BY <1>0a, <2>2, <2>3, <2>4, <2>6
<1> QED BY <1>3, Codes DEF IsRead

\* So is an int, from as many bytes as it was given (serialization.py:144-154, 451-454).
LEMMA IntRead ==
    ASSUME NEW item, NEW buf \in Seq(Byte), NEW v \in Int, NEW c \in {Code.I, Code.L}
    PROVE  FitsSigned(v, IntWidth[c]) =>
             IsRead(item, buf, Value("int", v), <<c>> \o pack(v, IntWidth[c]))
<1> DEFINE n == IntWidth[c]
           p == pack(v, n)
           b == <<c>> \o p
<1>0. HAVE FitsSigned(v, n)
<1>1. c \in Byte /\ n \in Nat /\ n # 0 /\ c \in SignedItem
      /\ c \in DOMAIN IntWidth /\ c # Code.S
  BY Codes DEF Byte
<1> HIDE DEF n
<1>2. p \in Seq(Byte) /\ Len(p) = n
  BY <1>1, PackType
<1>3. unpack_signed(p) = v
  BY <1>0, <1>1, UnpackPackSigned
<1> HIDE DEF p
<1>4. Len(b) = 1 + n
  <2>1. <<c>> \in Seq(Byte) /\ Len(<<c>>) = 1
    BY <1>1
  <2> QED BY <1>2, <2>1, ConcatProperties
<1> HIDE DEF b
<1>5. ASSUME NEW o \in Nat, At(buf, o, b)
      PROVE  ReadItem(item, buf, o) = [val |-> Value("int", v), offset |-> o + Len(b)]
  <2>1. buf[o + 1] = c /\ At(buf, o + 1, p)
    BY <1>1, <1>2, <1>5, AtByte DEF b
  <2>2. Bytes(buf, o + 1, n) = p
    BY <1>2, <2>1, o + 1 \in Nat, AtBytes
  <2>3. (o + 1) + n = o + Len(b)
    BY <1>1, <1>4
  <2>4. ReadItem(item, buf, o)
          = [val |-> Value("int", unpack_signed(Bytes(buf, o + 1, IntWidth[c]))),
             offset |-> (o + 1) + IntWidth[c]]
    BY <2>1, ReadCases
  <2> QED BY <1>3, <2>2, <2>3, <2>4 DEF n
<1>6. IsRead(item, buf, Value("int", v), b)
  BY <1>5 DEF IsRead
<1> QED BY <1>6 DEF b, p, n

\* So are a float, a Decimal and a datetime, whose bytes are taken as they are
\* (serialization.py:164-173, 201-204, 448-465).
LEMMA PackedRead ==
    ASSUME NEW item, NEW buf \in Seq(Byte), NEW c \in {Code.d, Code.D, Code.T},
           NEW v \in [1 .. PackedItem[c][2] -> Byte]
    PROVE  IsRead(item, buf, Value(PackedItem[c][1], v), <<c>> \o v)
<1> DEFINE n == PackedItem[c][2]
           b == <<c>> \o v
<1>1. c \in Byte /\ n \in Nat /\ c \notin DOMAIN IntWidth
      /\ c \in DOMAIN PackedItem /\ c # Code.S
  BY Codes, SMTT(60) DEF Byte
<1>2. v \in Seq(Byte) /\ Len(v) = n
  <2>1. v \in [1 .. n -> Byte]
    OBVIOUS
  <2> HIDE DEF n
  <2> QED BY <1>1, <2>1
<1> HIDE DEF n
<1>4. Len(b) = 1 + n
  <2>1. <<c>> \in Seq(Byte) /\ Len(<<c>>) = 1
    BY <1>1
  <2> QED BY <1>2, <2>1, ConcatProperties
<1> HIDE DEF b
<1>5. ASSUME NEW o \in Nat, At(buf, o, b)
      PROVE  ReadItem(item, buf, o)
               = [val |-> Value(PackedItem[c][1], v), offset |-> o + Len(b)]
  <2>1. buf[o + 1] = c /\ At(buf, o + 1, v)
    BY <1>1, <1>2, <1>5, AtByte DEF b
  <2>2. Bytes(buf, o + 1, n) = v
    BY <1>2, <2>1, o + 1 \in Nat, AtBytes
  <2>3. (o + 1) + n = o + Len(b)
    BY <1>1, <1>4
  <2>4. ReadItem(item, buf, o)
          = [val |-> Value(PackedItem[c][1], Bytes(buf, o + 1, PackedItem[c][2])),
             offset |-> (o + 1) + PackedItem[c][2]]
    BY <2>1, ReadCases
  <2> QED BY <2>2, <2>3, <2>4 DEF n
<1>6. IsRead(item, buf, Value(PackedItem[c][1], v), b)
  BY <1>5 DEF IsRead
<1> QED BY <1>6 DEF b

\* So is a bool (serialization.py:196-199, 447).
LEMMA BoolRead ==
    ASSUME NEW item, NEW buf \in Seq(Byte), NEW v \in BOOLEAN
    PROVE  IsRead(item, buf, Value("bool", v), <<Code.t, IF v THEN 1 ELSE 0>>)
<1> DEFINE k == IF v THEN 1 ELSE 0
           b == <<116, k>>
<1>1. Len(b) = 2 /\ b[1] = 116 /\ b[2] = k
  OBVIOUS
<1>2. (k # 0) = v
  OBVIOUS
<1> HIDE DEF k, b
<1>3. ASSUME NEW o \in Nat, At(buf, o, b)
      PROVE  ReadItem(item, buf, o) = [val |-> Value("bool", v), offset |-> o + Len(b)]
  <2>1. buf[o + 1] = 116 /\ buf[(o + 1) + 1] = k
    <3>1. buf[o + 1] = b[1] /\ buf[o + 2] = b[2]
      BY <1>1, <1>3, 1 \in 1 .. 2, 2 \in 1 .. 2 DEF At
    <3> QED BY <1>1, <3>1
  <2>2. (buf[(o + 1) + 1] # 0) = v
    BY <1>2, <2>1
  <2>3. (o + 1) + 1 = o + Len(b)
    BY <1>1
  <2>4. ReadItem(item, buf, o)
          = [val |-> Value("bool", buf[(o + 1) + 1] # 0), offset |-> (o + 1) + 1]
    BY <2>1, Codes DEF ReadItem
  <2> QED BY <2>2, <2>3, <2>4
<1>4. IsRead(item, buf, Value("bool", v), b)
  BY <1>3 DEF IsRead
<1> QED BY <1>4, Codes DEF b, k

\* So is None (serialization.py:206-207, 472-473).
LEMMA NoneRead ==
    ASSUME NEW item, NEW buf \in Seq(Byte)
    PROVE  IsRead(item, buf, Value("None", <<>>), <<Code.V>>)
<1> DEFINE b == <<86>>
<1>1. Len(b) = 1 /\ b[1] = 86
  OBVIOUS
<1> HIDE DEF b
<1>2. ASSUME NEW o \in Nat, At(buf, o, b)
      PROVE  ReadItem(item, buf, o) = [val |-> Value("None", <<>>), offset |-> o + Len(b)]
  <2>1. buf[o + 1] = 86
    BY <1>1, <1>2, 1 \in 1 .. 1 DEF At
  <2>2. (o + 1) + 0 = o + Len(b)
    BY <1>1
  <2> QED BY <2>1, <2>2, Codes DEF ReadItem
<1>3. IsRead(item, buf, Value("None", <<>>), b)
  BY <1>2 DEF IsRead
<1> QED BY <1>3, Codes DEF b

\* What _write_item does, by the type of the value (serialization.py:436-475).
LEMMA WriteStr ==
    ASSUME NEW item, NEW v
    PROVE  WriteItem(item, Value("str", v)) = <<Code.S>> \o Sized(v)
<1> DEFINE x == Value("str", v)
<1>1. x[1] = "str" /\ x[2] = v
  BY DEF Value
<1> HIDE DEF x
<1>2. WriteItem(item, x) = <<Code.S>> \o Sized(v)
  BY <1>1 DEF WriteItem
<1> QED BY <1>2 DEF x

\* The same for bool.
LEMMA WriteBool ==
    ASSUME NEW item, NEW v
    PROVE  WriteItem(item, Value("bool", v)) = <<Code.t, IF v THEN 1 ELSE 0>>
<1> DEFINE x == Value("bool", v)
<1>1. x[1] = "bool" /\ x[2] = v
  BY DEF Value
<1> HIDE DEF x
<1>2. WriteItem(item, x) = <<Code.t, IF v THEN 1 ELSE 0>>
  BY <1>1 DEF WriteItem
<1> QED BY <1>2 DEF x

\* The same for int.
LEMMA WriteInt ==
    ASSUME NEW item, NEW v
    PROVE  WriteItem(item, Value("int", v)) =
            IF Long(v) THEN <<Code.L>> \o pack(v, 8)
              ELSE <<Code.I>> \o pack(v, 4)
<1> DEFINE x == Value("int", v)
<1>1. x[1] = "int" /\ x[2] = v
  BY DEF Value
<1> HIDE DEF x
<1>2. WriteItem(item, x) =
            IF Long(v) THEN <<Code.L>> \o pack(v, 8)
              ELSE <<Code.I>> \o pack(v, 4)
  BY <1>1 DEF WriteItem
<1> QED BY <1>2 DEF x

\* The same for float.
LEMMA WriteFloat ==
    ASSUME NEW item, NEW v
    PROVE  WriteItem(item, Value("float", v)) = <<Code.d>> \o v
<1> DEFINE x == Value("float", v)
<1>1. x[1] = "float" /\ x[2] = v
  BY DEF Value
<1> HIDE DEF x
<1>2. WriteItem(item, x) = <<Code.d>> \o v
  BY <1>1 DEF WriteItem
<1> QED BY <1>2 DEF x

\* The same for Decimal.
LEMMA WriteDecimal ==
    ASSUME NEW item, NEW v
    PROVE  WriteItem(item, Value("Decimal", v)) = <<Code.D>> \o v
<1> DEFINE x == Value("Decimal", v)
<1>1. x[1] = "Decimal" /\ x[2] = v
  BY DEF Value
<1> HIDE DEF x
<1>2. WriteItem(item, x) = <<Code.D>> \o v
  BY <1>1 DEF WriteItem
<1> QED BY <1>2 DEF x

\* The same for datetime.
LEMMA WriteTime ==
    ASSUME NEW item, NEW v
    PROVE  WriteItem(item, Value("datetime", v)) = <<Code.T>> \o v
<1> DEFINE x == Value("datetime", v)
<1>1. x[1] = "datetime" /\ x[2] = v
  BY DEF Value
<1> HIDE DEF x
<1>2. WriteItem(item, x) = <<Code.T>> \o v
  BY <1>1 DEF WriteItem
<1> QED BY <1>2 DEF x

\* The same for dict.
LEMMA WriteDict ==
    ASSUME NEW item, NEW v
    PROVE  WriteItem(item, Value("dict", v)) = <<Code.F>> \o write_table(item, v)
<1> DEFINE x == Value("dict", v)
<1>1. x[1] = "dict" /\ x[2] = v
  BY DEF Value
<1> HIDE DEF x
<1>2. WriteItem(item, x) = <<Code.F>> \o write_table(item, v)
  BY <1>1 DEF WriteItem
<1> QED BY <1>2 DEF x

\* The same for list.
LEMMA WriteList ==
    ASSUME NEW item, NEW v
    PROVE  WriteItem(item, Value("list", v)) = <<Code.A>> \o write_array(item, v)
<1> DEFINE x == Value("list", v)
<1>1. x[1] = "list" /\ x[2] = v
  BY DEF Value
<1> HIDE DEF x
<1>2. WriteItem(item, x) = <<Code.A>> \o write_array(item, v)
  BY <1>1 DEF WriteItem
<1> QED BY <1>2 DEF x

\* The same for None.
LEMMA WriteNone ==
    ASSUME NEW item, NEW v
    PROVE  WriteItem(item, Value("None", v)) = <<Code.V>>
<1> DEFINE x == Value("None", v)
<1>1. x[1] = "None" /\ x[2] = v
  BY DEF Value
<1> HIDE DEF x
<1>2. WriteItem(item, x) = <<Code.V>>
  BY <1>1 DEF WriteItem
<1> QED BY <1>2 DEF x

\* The code of an item is one byte more (serialization.py:441-473).
LEMMA CodeType ==
    ASSUME NEW c \in Byte, NEW w \in Seq(Byte)
    PROVE  <<c>> \o w \in Seq(Byte) /\ Len(<<c>> \o w) = 1 + Len(w)
<1>1. <<c>> \in Seq(Byte) /\ Len(<<c>>) = 1
  OBVIOUS
<1> QED BY <1>1, ConcatProperties

\* What is no dict and no list is read back (serialization.py:102-215, 441-473).
LEMMA ScalarRead ==
    ASSUME NEW wi, NEW x \in Scalars, NEW item, NEW buf \in Seq(Byte)
    PROVE  /\ WriteItem(wi, x) \in Seq(Byte) /\ Len(WriteItem(wi, x)) # 0
           /\ Fits(Len(buf), 4) => IsRead(item, buf, x, WriteItem(wi, x))
<1> DEFINE w == WriteItem(wi, x)
           OK == /\ w \in Seq(Byte) /\ Len(w) # 0
                 /\ Fits(Len(buf), 4) => IsRead(item, buf, x, w)
           v == x[2]
<1>0. Code.S \in Byte /\ Code.I \in Byte /\ Code.L \in Byte /\ Code.d \in Byte
      /\ Code.D \in Byte /\ Code.T \in Byte /\ Code.t \in Byte /\ Code.V \in Byte
  BY Codes DEF Byte
<1>1. ASSUME NEW c \in Byte, NEW y \in Seq(Byte), w = <<c>> \o y
      PROVE  w \in Seq(Byte) /\ Len(w) # 0
  <2>1. w \in Seq(Byte) /\ Len(w) = 1 + Len(y) /\ Len(y) \in Nat
    BY <1>1, CodeType, LenProperties
  <2> HIDE DEF w
  <2> QED BY <2>1
<1>2. CASE x \in Typed("str", Str)
  <2>1. x = Value("str", v) /\ v \in Str /\ v \in Seq(Byte)
    BY <1>2 DEF Typed, Value, Str
  <2>2. w = <<Code.S>> \o Sized(v) /\ Sized(v) \in Seq(Byte)
    <3>1. w = WriteItem(wi, Value("str", v))
      BY <2>1
    <3>2. WriteItem(wi, Value("str", v)) = <<Code.S>> \o Sized(v)
      BY WriteStr, Zenon
    <3> QED BY <2>1, <3>1, <3>2, SizedType, Zenon
  <2> QED BY <1>0, <1>1, <2>1, <2>2, StrRead
<1>3. CASE x \in Typed("bool", BOOLEAN)
  <2>1. x = Value("bool", v) /\ v \in BOOLEAN
    BY <1>3 DEF Typed, Value
  <2>2. w = <<Code.t, IF v THEN 1 ELSE 0>>
    BY <2>1, WriteBool
  <2>3. \A k \in Byte : <<Code.t, k>> \in Seq(Byte) /\ Len(<<Code.t, k>>) # 0
    BY <1>0
  <2>4. (IF v THEN 1 ELSE 0) \in Byte
    BY DEF Byte
  <2>5. w \in Seq(Byte) /\ Len(w) # 0
    BY <2>2, <2>3, <2>4
  <2>6. IsRead(item, buf, x, w)
    BY <2>1, <2>2, BoolRead
  <2> QED BY <2>5, <2>6
<1>4. CASE x \in Typed("int", {n \in Int : FitsSigned(n, 8)})
  <2>1. x = Value("int", v) /\ v \in Int /\ FitsSigned(v, 8)
    BY <1>4 DEF Typed, Value
  <2>2. w = IF Long(v) THEN <<Code.L>> \o pack(v, 8)
            ELSE <<Code.I>> \o pack(v, 4)
    <3>1. w = WriteItem(wi, Value("int", v))
      BY <2>1
    <3>2. WriteItem(wi, Value("int", v)) = IF Long(v) THEN <<Code.L>> \o pack(v, 8)
                                           ELSE <<Code.I>> \o pack(v, 4)
      BY WriteInt, Zenon
    <3> QED BY <3>1, <3>2, Zenon
  <2>3. pack(v, 8) \in Seq(Byte) /\ pack(v, 4) \in Seq(Byte)
    BY <2>1, PackType
  <2>4. IntWidth[Code.L] = 8 /\ IntWidth[Code.I] = 4
    BY Codes
  <2> HIDE DEF v, w
  <2>5. CASE Long(v)
    <3>1. w = <<Code.L>> \o pack(v, 8)
      BY <2>2, <2>5
    <3>2. IsRead(item, buf, Value("int", v), <<Code.L>> \o pack(v, 8))
      BY <2>1, <2>4, IntRead
    <3>3. w \in Seq(Byte) /\ Len(w) # 0
      BY <1>0, <1>1, <2>3, <3>1
    <3>4. IsRead(item, buf, x, w)
      BY <2>1, <3>1, <3>2, Zenon
    <3> QED BY <3>3, <3>4 DEF w
  <2>6. CASE ~Long(v)
    <3>1. w = <<Code.I>> \o pack(v, 4)
      BY <2>2, <2>6
    <3>2. v <= 2147483647 /\ v >= -2147483647
      BY <2>1, <2>6, SMT DEF Long
    <3>3. FitsSigned(v, 4)
      BY <2>1, <3>2, FitsFour
    <3>4. IsRead(item, buf, Value("int", v), <<Code.I>> \o pack(v, 4))
      BY <2>1, <2>4, <3>3, IntRead
    <3>5. w \in Seq(Byte) /\ Len(w) # 0
      BY <1>0, <1>1, <2>3, <3>1
    <3>6. IsRead(item, buf, x, w)
      BY <2>1, <3>1, <3>4, Zenon
    <3> QED BY <3>5, <3>6 DEF w
  <2> QED BY <2>5, <2>6
<1>5. CASE x = Value("None", <<>>)
  <2>1. w = <<Code.V>>
    BY <1>5, WriteNone
  <2>2. w \in Seq(Byte) /\ Len(w) # 0
    BY <1>0, <2>1
  <2>3. IsRead(item, buf, x, w)
    BY <1>5, <2>1, NoneRead
  <2> QED BY <2>2, <2>3
<1>6. ASSUME NEW c \in {Code.d, Code.D, Code.T}, NEW u \in [1 .. PackedItem[c][2] -> Byte],
             x = Value(PackedItem[c][1], u), w = <<c>> \o u
      PROVE  OK
  <2>1. c \in Byte
    BY <1>0
  <2>2. PackedItem[c][2] \in Nat
    BY Codes
  <2>3. u \in Seq(Byte)
    <3> DEFINE n == PackedItem[c][2]
    <3>1. n \in Nat /\ u \in [1 .. n -> Byte]
      BY <2>2
    <3> HIDE DEF n
    <3> QED BY <3>1
  <2>4. IsRead(item, buf, x, w)
    BY <1>6, PackedRead
  <2>5. w \in Seq(Byte) /\ Len(w) # 0
    BY <1>1, <1>6, <2>1, <2>3
  <2> QED BY <2>4, <2>5
<1>7. CASE x \in Typed("float", [1 .. 8 -> Byte])
  <2>1. x = Value("float", v) /\ v \in [1 .. 8 -> Byte]
    BY <1>7 DEF Typed, Value
  <2>2. PackedItem[Code.d][1] = "float" /\ PackedItem[Code.d][2] = 8
    BY Codes
  <2>3. w = <<Code.d>> \o v
    <3>1. w = WriteItem(wi, Value("float", v))
      BY <2>1
    <3>2. WriteItem(wi, Value("float", v)) = <<Code.d>> \o v
      BY WriteFloat, Zenon
    <3> QED BY <3>1, <3>2, Zenon
  <2> QED BY <1>6, <2>1, <2>2, <2>3
<1>8. CASE x \in Typed("Decimal", [1 .. 5 -> Byte])
  <2>1. x = Value("Decimal", v) /\ v \in [1 .. 5 -> Byte]
    BY <1>8 DEF Typed, Value
  <2>2. PackedItem[Code.D][1] = "Decimal" /\ PackedItem[Code.D][2] = 5
    BY Codes
  <2>3. w = <<Code.D>> \o v
    <3>1. w = WriteItem(wi, Value("Decimal", v))
      BY <2>1
    <3>2. WriteItem(wi, Value("Decimal", v)) = <<Code.D>> \o v
      BY WriteDecimal, Zenon
    <3> QED BY <3>1, <3>2, Zenon
  <2> QED BY <1>6, <2>1, <2>2, <2>3
<1>9. CASE x \in Typed("datetime", [1 .. 8 -> Byte])
  <2>1. x = Value("datetime", v) /\ v \in [1 .. 8 -> Byte]
    BY <1>9 DEF Typed, Value
  <2>2. PackedItem[Code.T][1] = "datetime" /\ PackedItem[Code.T][2] = 8
    BY Codes
  <2>3. w = <<Code.T>> \o v
    <3>1. w = WriteItem(wi, Value("datetime", v))
      BY <2>1
    <3>2. WriteItem(wi, Value("datetime", v)) = <<Code.T>> \o v
      BY WriteTime, Zenon
    <3> QED BY <3>1, <3>2, Zenon
  <2> QED BY <1>6, <2>1, <2>2, <2>3
<1> QED BY <1>2, <1>3, <1>4, <1>5, <1>7, <1>8, <1>9 DEF Scalars

-----------------------------------------------------------------------------
(* Tables, arrays, and what nests in them *)

\* Bytes written one after the other (serialization.py:396, BytesIO) are bytes.
LEMMA FlattenType ==
    ASSUME NEW ss \in Seq(Seq(Byte))
    PROVE  FlattenSeq(ss) \in Seq(Byte)
<1>1. \E f : /\ f \in [0 .. Len(ss) -> Seq(Byte)] /\ f[Len(ss)] = FlattenSeq(ss)
  BY FlattenDef
<1>2. Len(ss) \in 0 .. Len(ss)
  BY LenProperties
<1> QED BY <1>1, <1>2

\* A table is written as its size and its entries (serialization.py:395-415).
LEMMA TableType ==
    ASSUME NEW items, NEW w \in [items -> Seq(Byte)], NEW d \in Dicts(items)
    PROVE  /\ FlattenSeq(Entries(w, d)) \in Seq(Byte)
           /\ write_table(w, d) = Sized(FlattenSeq(Entries(w, d)))
           /\ write_table(w, d) \in Seq(Byte)
           /\ Len(write_table(w, d)) = 4 + Len(FlattenSeq(Entries(w, d)))
<1> DEFINE m == Len(d)
           ss == Entries(w, d)
<1>1. m \in Nat /\ DOMAIN d = 1 .. m /\ \A k \in 1 .. m : d[k] \in Keys \X items
  BY LenProperties DEF Dicts
<1>2. \A k \in 1 .. m : Entry(w, d[k]) \in Seq(Byte)
  BY <1>1, EntryType
<1>3. ss = [k \in 1 .. m |-> Entry(w, d[k])]
  BY <1>1 DEF Entries
<1>4. ss \in [1 .. m -> Seq(Byte)]
  BY <1>2, <1>3
<1>5. write_table(w, d) = Sized(FlattenSeq(ss))
  BY DEF write_table, Entries, Entry
<1> HIDE DEF ss, m
<1>6. ss \in Seq(Seq(Byte))
  BY <1>1, <1>4
<1>7. FlattenSeq(ss) \in Seq(Byte)
  BY <1>6, FlattenType
<1>8. Sized(FlattenSeq(ss)) \in Seq(Byte) /\ Len(Sized(FlattenSeq(ss))) = 4 + Len(FlattenSeq(ss))
  BY <1>7, SizedType
<1> QED BY <1>5, <1>7, <1>8 DEF ss

\* So is an array (serialization.py:418-433).
LEMMA ArrayType ==
    ASSUME NEW items, NEW w \in [items -> Seq(Byte)], NEW l \in Lists(items)
    PROVE  /\ FlattenSeq(Values(w, l)) \in Seq(Byte)
           /\ write_array(w, l) = Sized(FlattenSeq(Values(w, l)))
           /\ write_array(w, l) \in Seq(Byte)
           /\ Len(write_array(w, l)) = 4 + Len(FlattenSeq(Values(w, l)))
<1> DEFINE m == Len(l)
           ss == Values(w, l)
<1>1. m \in Nat /\ DOMAIN l = 1 .. m /\ \A k \in 1 .. m : l[k] \in items
  BY LenProperties DEF Lists
<1>2. \A k \in 1 .. m : w[l[k]] \in Seq(Byte)
  BY <1>1
<1>3. ss = [k \in 1 .. m |-> w[l[k]]]
  BY <1>1 DEF Values
<1>4. ss \in [1 .. m -> Seq(Byte)]
  BY <1>2, <1>3
<1>5. write_array(w, l) = Sized(FlattenSeq(ss))
  BY DEF write_array, Values
<1> HIDE DEF ss, m
<1>6. ss \in Seq(Seq(Byte))
  BY <1>1, <1>4
<1>7. FlattenSeq(ss) \in Seq(Byte)
  BY <1>6, FlattenType
<1>8. Sized(FlattenSeq(ss)) \in Seq(Byte) /\ Len(Sized(FlattenSeq(ss))) = 4 + Len(FlattenSeq(ss))
  BY <1>7, SizedType
<1> QED BY <1>5, <1>7, <1>8 DEF ss

\* `item' finds the values that take at most n bytes.
Reads(item, buf, n, items, w) ==
    \A p \in Nat, x \in items :
        Len(w[x]) <= n /\ At(buf, p, w[x])
            => item[p] = [val |-> x, offset |-> p + Len(w[x])]

Ready(item, buf, n, items, w) ==
    /\ Fits(Len(buf), 4)
    /\ \A x \in items : Len(w[x]) # 0
    /\ Reads(item, buf, n, items, w)

\* The table, or the array, that stands behind its size at o, and where it ends.
SizedTable(item, buf, o) == read_table(item, buf, o + 4, o + 4 + unpack(Bytes(buf, o, 4)))
SizedArray(item, buf, o) == read_array(item, buf, o + 4, o + 4 + unpack(Bytes(buf, o, 4)))

\* A table behind its size is read back (serialization.py:175-185, 284-295).
LEMMA TableAt ==
    ASSUME NEW buf \in Seq(Byte), NEW o \in Nat, NEW n \in Nat,
           NEW items, NEW w \in [items -> Seq(Byte)], NEW item, NEW d \in Dicts(items)
    PROVE  /\ Ready(item, buf, n, items, w)
           /\ At(buf, o, write_table(w, d)) /\ Len(write_table(w, d)) <= n + 4
           => SizedTable(item, buf, o) = [val |-> d, offset |-> o + Len(write_table(w, d))]
<1> DEFINE t == FlattenSeq(Entries(w, d))
           size == Len(t)
           limit == o + 4 + size
<1>0. SUFFICES ASSUME Fits(Len(buf), 4), At(buf, o, write_table(w, d)),
                      Len(write_table(w, d)) <= n + 4,
                      \A x \in items : Len(w[x]) # 0, Reads(item, buf, n, items, w)
               PROVE  read_table(item, buf, o + 4, o + 4 + unpack(Bytes(buf, o, 4)))
                        = [val |-> d, offset |-> o + Len(write_table(w, d))]
  BY DEF Ready, SizedTable
<1>1. /\ t \in Seq(Byte) /\ write_table(w, d) = Sized(t)
      /\ Len(write_table(w, d)) = 4 + size
  BY TableType
<1>2. size \in Nat
  BY <1>1, LenProperties
<1> HIDE DEF t
<1>3. unpack(Bytes(buf, o, 4)) = size /\ At(buf, o + 4, t)
  <2>1. At(buf, o, Sized(t))
    BY <1>0, <1>1
  <2> QED BY <2>1, <1>0, <1>1, AtSized
<1> HIDE DEF size
<1>4. size <= n
  BY <1>0, <1>1, <1>2
<1>5. limit \in Nat /\ limit = (o + 4) + size /\ o + 4 \in Nat /\ limit = o + (4 + size)
  BY <1>2
<1>6. Finds(item, buf, o + 4, limit, items, w)
  <2> SUFFICES ASSUME NEW p \in Nat, NEW x \in items,
                      o + 4 <= p, p + Len(w[x]) <= limit, At(buf, p, w[x])
               PROVE  item[p] = [val |-> x, offset |-> p + Len(w[x])]
    BY DEF Finds
  <2> DEFINE k == Len(w[x])
  <2>1. k \in Nat
    BY LenProperties
  <2>2. p + k <= limit
    OBVIOUS
  <2> HIDE DEF k, limit
  <2>3. k <= n
    BY <1>2, <1>4, <1>5, <2>1, <2>2
  <2> QED BY <1>0, <2>3 DEF Reads, k
<1> HIDE DEF limit
<1>7. At(buf, o + 4, FlattenSeq(Entries(w, d))) /\ limit = (o + 4) + Len(FlattenSeq(Entries(w, d)))
  BY <1>3, <1>5 DEF t, size
<1>8. read_table(item, buf, o + 4, limit) = [val |-> d, offset |-> limit]
  BY <1>0, <1>5, <1>6, <1>7, TableRead
<1>9. (o + 4) + unpack(Bytes(buf, o, 4)) = limit /\ o + Len(write_table(w, d)) = limit
  BY <1>1, <1>3, <1>5
<1> QED BY <1>8, <1>9

\* So is an array (serialization.py:187-194).
LEMMA ArrayAt ==
    ASSUME NEW buf \in Seq(Byte), NEW o \in Nat, NEW n \in Nat,
           NEW items, NEW w \in [items -> Seq(Byte)], NEW item, NEW l \in Lists(items)
    PROVE  /\ Ready(item, buf, n, items, w)
           /\ At(buf, o, write_array(w, l)) /\ Len(write_array(w, l)) <= n + 4
           => SizedArray(item, buf, o) = [val |-> l, offset |-> o + Len(write_array(w, l))]
<1> DEFINE t == FlattenSeq(Values(w, l))
           size == Len(t)
           limit == o + 4 + size
<1>0. SUFFICES ASSUME Fits(Len(buf), 4), At(buf, o, write_array(w, l)),
                      Len(write_array(w, l)) <= n + 4,
                      \A x \in items : Len(w[x]) # 0, Reads(item, buf, n, items, w)
               PROVE  read_array(item, buf, o + 4, o + 4 + unpack(Bytes(buf, o, 4)))
                        = [val |-> l, offset |-> o + Len(write_array(w, l))]
  BY DEF Ready, SizedArray
<1>1. /\ t \in Seq(Byte) /\ write_array(w, l) = Sized(t)
      /\ Len(write_array(w, l)) = 4 + size
  BY ArrayType
<1>2. size \in Nat
  BY <1>1, LenProperties
<1> HIDE DEF t
<1>3. unpack(Bytes(buf, o, 4)) = size /\ At(buf, o + 4, t)
  <2>1. At(buf, o, Sized(t))
    BY <1>0, <1>1
  <2> QED BY <2>1, <1>0, <1>1, AtSized
<1> HIDE DEF size
<1>4. size <= n
  BY <1>0, <1>1, <1>2
<1>5. limit \in Nat /\ limit = (o + 4) + size /\ o + 4 \in Nat /\ limit = o + (4 + size)
  BY <1>2
<1>6. Finds(item, buf, o + 4, limit, items, w)
  <2> SUFFICES ASSUME NEW p \in Nat, NEW x \in items,
                      o + 4 <= p, p + Len(w[x]) <= limit, At(buf, p, w[x])
               PROVE  item[p] = [val |-> x, offset |-> p + Len(w[x])]
    BY DEF Finds
  <2> DEFINE k == Len(w[x])
  <2>1. k \in Nat
    BY LenProperties
  <2>2. p + k <= limit
    OBVIOUS
  <2> HIDE DEF k, limit
  <2>3. k <= n
    BY <1>2, <1>4, <1>5, <2>1, <2>2
  <2> QED BY <1>0, <2>3 DEF Reads, k
<1> HIDE DEF limit
<1>7. At(buf, o + 4, FlattenSeq(Values(w, l))) /\ limit = (o + 4) + Len(FlattenSeq(Values(w, l)))
  BY <1>3, <1>5 DEF t, size
<1>8. read_array(item, buf, o + 4, limit) = [val |-> l, offset |-> limit]
  BY <1>0, <1>5, <1>6, <1>7, ArrayRead
<1>9. (o + 4) + unpack(Bytes(buf, o, 4)) = limit /\ o + Len(write_array(w, l)) = limit
  BY <1>1, <1>3, <1>5
<1> QED BY <1>8, <1>9

\* Tables and arrays (serialization.py:466-471) nest one level deeper than their values.
LEMMA ItemsDef ==
    /\ Items[0] = Scalars
    /\ \A n \in 1 .. MaxDepth :
           Items[n] = Scalars \cup Typed("dict", Dicts(Items[n - 1]))
                      \cup Typed("list", Lists(Items[n - 1]))
<1> DEFINE Deeper(items) == Scalars \cup Typed("dict", Dicts(items)) \cup Typed("list", Lists(items))
           Rec(f, w) == f = [n \in 0 .. w |-> IF n = 0 THEN Scalars ELSE Deeper(f[n - 1])]
           T == {w \in Nat : \E f : Rec(f, w)}
<1>1. Items = CHOOSE f : Rec(f, MaxDepth)
  BY DEF Items
<1> HIDE DEF Deeper
<1>2. 0 \in T
  <2>1. Rec([n \in 0 .. 0 |-> Scalars], 0)
    OBVIOUS
  <2> QED BY <2>1
<1>3. ASSUME NEW w \in Nat, w \in T PROVE w + 1 \in T
  <2>1. PICK f : Rec(f, w)
    BY <1>3
  <2> DEFINE g == [n \in 0 .. w + 1 |-> IF n = w + 1 THEN Deeper(f[w]) ELSE f[n]]
  <2>2. Rec(g, w + 1)
    BY <2>1
  <2> HIDE DEF g
  <2> QED BY <2>2
<1>4. Nat \subseteq T
  <2> HIDE DEF T
  <2> QED BY <1>2, <1>3, SetInduction
<1>5. MaxDepth \in Nat
  BY DepthAssumption
<1>6. Rec(Items, MaxDepth)
  BY <1>1, <1>4, <1>5
<1> DEFINE I == Items
<1> HIDE DEF I
<1>7. I[0] = Scalars /\ \A n \in 1 .. MaxDepth : I[n] = Deeper(I[n - 1])
  BY <1>5, <1>6 DEF I
<1> QED BY <1>7 DEF I, Deeper

\* _write_item calls itself through _write_table and _write_array (serialization.py:404, 423).
LEMMA WriteItemDef ==
    /\ write_item[0] = [x \in Items[0] |-> WriteItem(<<>>, x)]
    /\ \A n \in 1 .. MaxDepth :
           write_item[n] = [x \in Items[n] |-> WriteItem(write_item[n - 1], x)]
<1> DEFINE Zero == [x \in Items[0] |-> WriteItem(<<>>, x)]
           Deeper(n, item) == [x \in Items[n] |-> WriteItem(item, x)]
           Rec(f, w) == f = [n \in 0 .. w |-> Deeper(n, IF n = 0 THEN <<>> ELSE f[n - 1])]
           T == {w \in Nat : \E f : Rec(f, w)}
<1>1. write_item = CHOOSE f : Rec(f, MaxDepth)
  BY DEF write_item
<1> HIDE DEF Deeper
<1>2. 0 \in T
  <2>1. Rec([n \in 0 .. 0 |-> Deeper(0, <<>>)], 0)
    OBVIOUS
  <2> QED BY <2>1
<1>3. ASSUME NEW w \in Nat, w \in T PROVE w + 1 \in T
  <2>1. PICK f : Rec(f, w)
    BY <1>3
  <2> DEFINE g == [n \in 0 .. w + 1 |-> IF n = w + 1 THEN Deeper(w + 1, f[w]) ELSE f[n]]
  <2>2. Rec(g, w + 1)
    BY <2>1
  <2> HIDE DEF g
  <2> QED BY <2>2
<1>4. Nat \subseteq T
  <2> HIDE DEF T
  <2> QED BY <1>2, <1>3, SetInduction
<1>5. MaxDepth \in Nat
  BY DepthAssumption
<1>6. Rec(write_item, MaxDepth)
  BY <1>1, <1>4, <1>5
<1> DEFINE W == write_item
<1> HIDE DEF W
<1>7. W[0] = Deeper(0, <<>>) /\ \A n \in 1 .. MaxDepth : W[n] = Deeper(n, W[n - 1])
  BY <1>5, <1>6 DEF W
<1> QED BY <1>7 DEF W, Deeper

\* What _write_item writes of an item that nests n deep.
Written(n) ==
    /\ write_item[n] \in [Items[n] -> Seq(Byte)]
    /\ \A x \in Items[n] : Len(write_item[n][x]) # 0

\* _write_item (serialization.py:436-475) writes at least a code.
LEMMA WriteItemType == \A n \in 0 .. MaxDepth : Written(n)
<1> DEFINE T == {n \in Nat : n <= MaxDepth => Written(n)}
<1>0. MaxDepth \in Nat
  BY DepthAssumption
<1>1. ASSUME NEW wi, NEW x \in Scalars
      PROVE  WriteItem(wi, x) \in Seq(Byte) /\ Len(WriteItem(wi, x)) # 0
  BY <1>1, ScalarRead, EmptySeq
<1>2. 0 \in T
  <2>1. write_item[0] = [x \in Scalars |-> WriteItem(<<>>, x)] /\ Items[0] = Scalars
    BY ItemsDef, WriteItemDef
  <2>2. \A x \in Scalars : WriteItem(<<>>, x) \in Seq(Byte) /\ Len(WriteItem(<<>>, x)) # 0
    BY <1>1
  <2>3. Written(0)
    BY <2>1, <2>2 DEF Written
  <2> QED BY <2>3
<1>3. ASSUME NEW n \in Nat, n \in T PROVE n + 1 \in T
  <2>0. SUFFICES ASSUME n + 1 <= MaxDepth PROVE Written(n + 1)
    OBVIOUS
  <2> DEFINE w == write_item[n]
             items == Items[n]
  <2>1. n + 1 \in 1 .. MaxDepth /\ (n + 1) - 1 = n /\ n <= MaxDepth
    BY <1>0, <2>0
  <2>2. w \in [items -> Seq(Byte)]
    BY <1>3, <2>1 DEF Written
  <2>3. /\ write_item[n + 1] = [x \in Items[n + 1] |-> WriteItem(w, x)]
        /\ Items[n + 1] = Scalars \cup Typed("dict", Dicts(items)) \cup Typed("list", Lists(items))
    BY <2>1, ItemsDef, WriteItemDef
  <2> HIDE DEF w, items
  <2>4. Code.F \in Byte /\ Code.A \in Byte
    BY Codes DEF Byte
  <2>5. ASSUME NEW x \in Items[n + 1]
        PROVE  WriteItem(w, x) \in Seq(Byte) /\ Len(WriteItem(w, x)) # 0
    <3>1. CASE x \in Scalars
      BY <3>1, <1>1
    <3>2. ASSUME NEW c \in Byte, NEW y \in Seq(Byte), WriteItem(w, x) = <<c>> \o y
          PROVE  WriteItem(w, x) \in Seq(Byte) /\ Len(WriteItem(w, x)) # 0
      <4> DEFINE z == WriteItem(w, x)
      <4>1. z \in Seq(Byte) /\ Len(z) = 1 + Len(y) /\ Len(y) \in Nat
        BY <3>2, CodeType, LenProperties
      <4> HIDE DEF z
      <4>2. z \in Seq(Byte) /\ Len(z) # 0
        BY <4>1
      <4> QED BY <4>2 DEF z
    <3>3. CASE x \in Typed("dict", Dicts(items))
      <4>1. x = Value("dict", x[2]) /\ x[2] \in Dicts(items)
        BY <3>3 DEF Typed, Value
      <4>2. WriteItem(w, Value("dict", x[2])) = <<Code.F>> \o write_table(w, x[2])
        BY WriteDict, Zenon
      <4>3. write_table(w, x[2]) \in Seq(Byte)
        BY <2>2, <4>1, TableType
      <4> QED BY <2>4, <3>2, <4>1, <4>2, <4>3
    <3>4. CASE x \in Typed("list", Lists(items))
      <4>1. x = Value("list", x[2]) /\ x[2] \in Lists(items)
        BY <3>4 DEF Typed, Value
      <4>2. WriteItem(w, Value("list", x[2])) = <<Code.A>> \o write_array(w, x[2])
        BY WriteList, Zenon
      <4>3. write_array(w, x[2]) \in Seq(Byte)
        BY <2>2, <4>1, ArrayType
      <4> QED BY <2>4, <3>2, <4>1, <4>2, <4>3
    <3> QED BY <2>3, <3>1, <3>3, <3>4
  <2> QED BY <2>3, <2>5 DEF Written
<1>4. Nat \subseteq T
  <2> HIDE DEF T
  <2> QED BY <1>2, <1>3, SetInduction
<1> QED BY <1>0, <1>4

\* The items at the offsets of buf, by how deep they may nest.
IsReadItem(read, buf) ==
    /\ read[Len(buf)] = read_item(buf)
    /\ read[0] = [o \in 0 .. Len(buf) - 1 |-> ReadItem(<<>>, buf, o)]
    /\ \A n \in 1 .. Len(buf) :
           read[n] = [o \in 0 .. Len(buf) - 1 |-> ReadItem(read[n - 1], buf, o)]

\* _read_item calls itself for what nests in a table or an array (serialization.py:185, 193).
LEMMA ReadItemDef ==
    ASSUME NEW buf \in Seq(Byte)
    PROVE  \E read : IsReadItem(read, buf)
<1> DEFINE m == Len(buf)
           Deeper(item) == [o \in 0 .. m - 1 |-> ReadItem(item, buf, o)]
           Rec(f, w) == f = [n \in 0 .. w |-> Deeper(IF n = 0 THEN <<>> ELSE f[n - 1])]
           T == {w \in Nat : \E f : Rec(f, w)}
<1>1. read_item(buf) = (CHOOSE f : Rec(f, m))[m]
  BY DEF read_item
<1>2. m \in Nat
  BY LenProperties
<1> HIDE DEF Deeper, m
<1>3. 0 \in T
  <2>1. Rec([n \in 0 .. 0 |-> Deeper(<<>>)], 0)
    OBVIOUS
  <2> QED BY <2>1
<1>4. ASSUME NEW w \in Nat, w \in T PROVE w + 1 \in T
  <2>1. PICK f : Rec(f, w)
    BY <1>4
  <2> DEFINE g == [n \in 0 .. w + 1 |-> IF n = w + 1 THEN Deeper(f[w]) ELSE f[n]]
  <2>2. Rec(g, w + 1)
    BY <2>1
  <2> HIDE DEF g
  <2> QED BY <2>2
<1>5. Nat \subseteq T
  <2> HIDE DEF T
  <2> QED BY <1>3, <1>4, SetInduction
<1> DEFINE read == CHOOSE f : Rec(f, m)
<1>6. Rec(read, m)
  BY <1>2, <1>5
<1>7. read[m] = read_item(buf)
  BY <1>1
<1> HIDE DEF read
<1>8. read[0] = Deeper(<<>>) /\ \A n \in 1 .. m : read[n] = Deeper(read[n - 1])
  BY <1>2, <1>6
<1>9. IsReadItem(read, buf)
  BY <1>7, <1>8 DEF IsReadItem, Deeper, m
<1> QED BY <1>9

\* One item is read back when those that nest in it are (serialization.py:102-215).
LEMMA DeeperRead ==
    ASSUME NEW buf \in Seq(Byte), NEW o \in Nat, NEW k \in Nat, NEW items,
           NEW w \in [items -> Seq(Byte)], NEW item,
           NEW x \in Scalars \cup Typed("dict", Dicts(items)) \cup Typed("list", Lists(items))
    PROVE  /\ Ready(item, buf, k, items, w)
           /\ At(buf, o, WriteItem(w, x)) /\ Len(WriteItem(w, x)) <= k + 1
           => ReadItem(item, buf, o) = [val |-> x, offset |-> o + Len(WriteItem(w, x))]
<1>0. SUFFICES ASSUME Ready(item, buf, k, items, w), At(buf, o, WriteItem(w, x)),
                      Len(WriteItem(w, x)) <= k + 1
               PROVE  ReadItem(item, buf, o) = [val |-> x, offset |-> o + Len(WriteItem(w, x))]
  OBVIOUS
<1>1. CASE x \in Scalars
  BY <1>0, <1>1, ScalarRead DEF IsRead, Ready
<1>2. ASSUME NEW c \in Byte, NEW y \in Seq(Byte), WriteItem(w, x) = <<c>> \o y
      PROVE  /\ buf[o + 1] = c /\ At(buf, o + 1, y) /\ Len(y) <= k + 4
             /\ (o + 1) + Len(y) = o + Len(WriteItem(w, x))
  <2>1. At(buf, o, <<c>> \o y) /\ Len(<<c>> \o y) = 1 + Len(y) /\ Len(y) \in Nat
    BY <1>0, <1>2, CodeType, LenProperties
  <2>2. buf[o + 1] = c /\ At(buf, o + 1, y)
    BY <2>1, AtByte
  <2> DEFINE a == Len(y)
             b == Len(WriteItem(w, x))
  <2>3. b = 1 + a /\ a \in Nat /\ b <= k + 1
    BY <1>0, <1>2, <2>1
  <2> HIDE DEF a, b
  <2>4. a <= k + 4 /\ (o + 1) + a = o + b
    BY <2>3
  <2> QED BY <2>2, <2>4 DEF a, b
<1>3. Code.F \in Byte /\ Code.A \in Byte /\ o + 1 \in Nat
  BY Codes DEF Byte
<1>4. CASE x \in Typed("dict", Dicts(items))
  <2> DEFINE d == x[2]
             t == write_table(w, d)
  <2>1. x = Value("dict", d) /\ d \in Dicts(items)
    BY <1>4 DEF Typed, Value
  <2>2. WriteItem(w, Value("dict", d)) = <<Code.F>> \o t
    BY WriteDict, Zenon
  <2>3. t \in Seq(Byte)
    BY <2>1, TableType
  <2>4. /\ buf[o + 1] = Code.F /\ At(buf, o + 1, t) /\ Len(t) <= k + 4
        /\ (o + 1) + Len(t) = o + Len(WriteItem(w, x))
    BY <1>2, <1>3, <2>1, <2>2, <2>3
  <2> DEFINE q == o + 1
             r == SizedTable(item, buf, q)
  <2>5. r = [val |-> d, offset |-> q + Len(t)]
    <3>1. q \in Nat /\ d \in Dicts(items)
      BY <1>3, <2>1
    <3>2. At(buf, q, write_table(w, d)) /\ Len(write_table(w, d)) <= k + 4
      BY <2>4
    <3> HIDE DEF d, q, r
    <3>3. SizedTable(item, buf, q) = [val |-> d, offset |-> q + Len(write_table(w, d))]
      BY <1>0, <3>1, <3>2, TableAt
    <3> QED BY <3>3 DEF r
  <2>6. ReadItem(item, buf, o) = [val |-> Value("dict", r.val), offset |-> r.offset]
    <3>1. r # UnicodeDecodeError
      BY <2>5, ReadNotRaised
    <3>2. LET size == unpack(Bytes(buf, o + 1, 4))
              rr == read_table(item, buf, (o + 1) + 4, (o + 1) + 4 + size)
          IN rr # UnicodeDecodeError => ReadItem(item, buf, o) =
                 [val |-> Value("dict", rr.val), offset |-> rr.offset]
      BY <2>4, ReadCases
    <3> QED BY <3>1, <3>2, Zenon DEF SizedTable
  <2> HIDE DEF r, t, d
  <2> QED BY <2>1, <2>4, <2>5, <2>6
<1>5. CASE x \in Typed("list", Lists(items))
  <2> DEFINE l == x[2]
             t == write_array(w, l)
  <2>1. x = Value("list", l) /\ l \in Lists(items)
    BY <1>5 DEF Typed, Value
  <2>2. WriteItem(w, Value("list", l)) = <<Code.A>> \o t
    BY WriteList, Zenon
  <2>3. t \in Seq(Byte)
    BY <2>1, ArrayType
  <2>4. /\ buf[o + 1] = Code.A /\ At(buf, o + 1, t) /\ Len(t) <= k + 4
        /\ (o + 1) + Len(t) = o + Len(WriteItem(w, x))
    BY <1>2, <1>3, <2>1, <2>2, <2>3
  <2> DEFINE q == o + 1
             r == SizedArray(item, buf, q)
  <2>5. r = [val |-> l, offset |-> q + Len(t)]
    <3>1. q \in Nat /\ l \in Lists(items)
      BY <1>3, <2>1
    <3>2. At(buf, q, write_array(w, l)) /\ Len(write_array(w, l)) <= k + 4
      BY <2>4
    <3> HIDE DEF l, q, r
    <3>3. SizedArray(item, buf, q) = [val |-> l, offset |-> q + Len(write_array(w, l))]
      BY <1>0, <3>1, <3>2, ArrayAt
    <3> QED BY <3>3 DEF r
  <2>6. ReadItem(item, buf, o) = [val |-> Value("list", r.val), offset |-> r.offset]
    <3>1. r # UnicodeDecodeError
      BY <2>5, ReadNotRaised
    <3>2. LET size == unpack(Bytes(buf, o + 1, 4))
              rr == read_array(item, buf, (o + 1) + 4, (o + 1) + 4 + size)
          IN rr # UnicodeDecodeError => ReadItem(item, buf, o) =
                 [val |-> Value("list", rr.val), offset |-> rr.offset]
      BY <2>4, ReadCases
    <3> QED BY <3>1, <3>2, Zenon DEF SizedArray
  <2> HIDE DEF r, t, l
  <2> QED BY <2>1, <2>4, <2>5, <2>6
<1> QED BY <1>1, <1>4, <1>5

\* Whatever nests d deep is read back where there is room for it
\* (serialization.py:102-215, 436-475).
LEMMA NestedRead ==
    ASSUME NEW buf \in Seq(Byte), NEW read
    PROVE  IsReadItem(read, buf) /\ Fits(Len(buf), 4) =>
           \A d \in 0 .. MaxDepth, n \in 0 .. Len(buf) :
               Reads(read[n], buf, n, Items[d], write_item[d])
<1>0. HAVE IsReadItem(read, buf) /\ Fits(Len(buf), 4)
<1> DEFINE Claim(d) == \A n \in 0 .. Len(buf) : Reads(read[n], buf, n, Items[d], write_item[d])
           T == {d \in Nat : d <= MaxDepth => Claim(d)}
<1>1. MaxDepth \in Nat /\ Len(buf) \in Nat
  BY DepthAssumption, LenProperties
<1>2. ASSUME NEW b \in Seq(Byte), Len(b) # 0, NEW n \in 0 .. Len(buf), NEW p \in Nat,
             Len(b) <= n, At(buf, p, b)
      PROVE  n - 1 \in 0 .. Len(buf) /\ read[n][p] = ReadItem(read[n - 1], buf, p)
  <2> DEFINE l == Len(buf)
             a == Len(b)
  <2>1. a \in Nat /\ a # 0 /\ a <= n /\ p + a <= l /\ l \in Nat /\ n \in 0 .. l
    BY <1>1, <1>2, LenProperties DEF At
  <2> HIDE DEF l, a
  <2>2. n \in 1 .. l /\ n - 1 \in 0 .. l /\ p \in 0 .. l - 1
    BY <2>1
  <2>3. read[n] = [o \in 0 .. l - 1 |-> ReadItem(read[n - 1], buf, o)]
    BY <1>0, <2>2 DEF IsReadItem, l
  <2> QED BY <2>2, <2>3 DEF l
<1>3. 0 \in T
  <2>1. write_item[0] = [x \in Scalars |-> WriteItem(<<>>, x)] /\ Items[0] = Scalars
    BY ItemsDef, WriteItemDef
  <2>2. ASSUME NEW n \in 0 .. Len(buf), NEW p \in Nat, NEW x \in Scalars,
               Len(WriteItem(<<>>, x)) <= n, At(buf, p, WriteItem(<<>>, x))
        PROVE  read[n][p] = [val |-> x, offset |-> p + Len(WriteItem(<<>>, x))]
    <3> DEFINE b == WriteItem(<<>>, x)
    <3>1. /\ b \in Seq(Byte) /\ Len(b) # 0
          /\ IsRead(read[n - 1], buf, x, b)
      BY <1>0, ScalarRead
    <3>2. Len(b) <= n /\ At(buf, p, b)
      BY <2>2
    <3> HIDE DEF b
    <3>3. read[n][p] = ReadItem(read[n - 1], buf, p)
      BY <1>2, <3>1, <3>2
    <3>4. read[n][p] = [val |-> x, offset |-> p + Len(b)]
      BY <3>1, <3>2, <3>3 DEF IsRead
    <3> QED BY <3>4 DEF b
  <2>3. ASSUME NEW n \in 0 .. Len(buf)
        PROVE  Reads(read[n], buf, n, Items[0], write_item[0])
    <3>1. ASSUME NEW p \in Nat, NEW x \in Items[0],
                 Len(write_item[0][x]) <= n, At(buf, p, write_item[0][x])
          PROVE  read[n][p] = [val |-> x, offset |-> p + Len(write_item[0][x])]
      <4>1. x \in Scalars /\ write_item[0][x] = WriteItem(<<>>, x)
        BY <2>1
      <4> QED BY <2>2, <3>1, <4>1
    <3> QED BY <3>1 DEF Reads
  <2> QED BY <2>3
<1>4. ASSUME NEW d \in Nat, d \in T PROVE d + 1 \in T
  <2>0. SUFFICES ASSUME d + 1 <= MaxDepth PROVE Claim(d + 1)
    OBVIOUS
  <2> DEFINE w == write_item[d]
             items == Items[d]
  <2>1. d + 1 \in 1 .. MaxDepth /\ (d + 1) - 1 = d /\ d \in 0 .. MaxDepth /\ d + 1 \in 0 .. MaxDepth
    BY <1>1, <2>0
  <2>2. /\ w \in [items -> Seq(Byte)] /\ \A y \in items : Len(w[y]) # 0
        /\ Written(d + 1)
    BY <2>1, WriteItemType DEF Written
  <2>3. /\ write_item[d + 1] = [x \in Items[d + 1] |-> WriteItem(w, x)]
        /\ Items[d + 1] = Scalars \cup Typed("dict", Dicts(items)) \cup Typed("list", Lists(items))
    BY <2>1, ItemsDef, WriteItemDef
  <2>4. \A n \in 0 .. Len(buf) : Reads(read[n], buf, n, items, w)
    BY <1>4, <2>1
  <2> HIDE DEF w, items
  <2>5. ASSUME NEW n \in 0 .. Len(buf), NEW p \in Nat, NEW x \in Items[d + 1],
               Len(WriteItem(w, x)) <= n, At(buf, p, WriteItem(w, x))
        PROVE  read[n][p] = [val |-> x, offset |-> p + Len(WriteItem(w, x))]
    <3> DEFINE b == WriteItem(w, x)
    <3>1. b \in Seq(Byte) /\ Len(b) # 0
      BY <2>2, <2>3, ZenonT(60) DEF Written
    <3>2. Len(b) <= n /\ At(buf, p, b)
      BY <2>5
    <3>3. n - 1 \in 0 .. Len(buf) /\ read[n][p] = ReadItem(read[n - 1], buf, p)
      <4> HIDE DEF b
      <4> QED BY <1>2, <3>1, <3>2
    <3> DEFINE k == n - 1
    <3>4. k \in Nat /\ Len(WriteItem(w, x)) <= k + 1
      BY <3>2, <3>3
    <3>5. Ready(read[k], buf, k, items, w)
      BY <1>0, <2>2, <2>4, <3>3 DEF Ready
    <3>6. x \in Scalars \cup Typed("dict", Dicts(items)) \cup Typed("list", Lists(items))
      BY <2>3
    <3> HIDE DEF k
    <3>7. ReadItem(read[k], buf, p) = [val |-> x, offset |-> p + Len(WriteItem(w, x))]
      <4>1. At(buf, p, WriteItem(w, x))
        BY <3>2
      <4>2. w \in [items -> Seq(Byte)]
        BY <2>2
      <4> QED BY <3>4, <3>5, <3>6, <4>1, <4>2, DeeperRead
    <3> QED BY <3>3, <3>7 DEF k
  <2>6. ASSUME NEW n \in 0 .. Len(buf)
        PROVE  Reads(read[n], buf, n, Items[d + 1], write_item[d + 1])
    <3>1. ASSUME NEW p \in Nat, NEW x \in Items[d + 1],
                 Len(write_item[d + 1][x]) <= n, At(buf, p, write_item[d + 1][x])
          PROVE  read[n][p] = [val |-> x, offset |-> p + Len(write_item[d + 1][x])]
      <4>1. write_item[d + 1][x] = WriteItem(w, x)
        BY <2>3
      <4> QED BY <2>5, <3>1, <4>1
    <3> QED BY <3>1 DEF Reads
  <2> QED BY <2>6
<1>5. Nat \subseteq T
  <2> HIDE DEF T
  <2> QED BY <1>3, <1>4, SetInduction
<1> QED BY <1>1, <1>5

\* _read_item finds what _write_item wrote (serialization.py:102-215, 436-475), wherever
\* it stands in a buffer whose length four bytes hold, and how many bytes that was.
THEOREM ItemRoundTrip ==
    ASSUME NEW d \in 0 .. MaxDepth, NEW x \in Items[d],
           NEW buf \in Seq(Byte), NEW o \in Nat
    PROVE  Fits(Len(buf), 4) /\ At(buf, o, write_item[d][x]) =>
             read_item(buf)[o] = [val |-> x, offset |-> o + Len(write_item[d][x])]
<1>0. HAVE Fits(Len(buf), 4) /\ At(buf, o, write_item[d][x])
<1>1. PICK read : IsReadItem(read, buf)
  BY ReadItemDef
<1>2. Len(buf) \in 0 .. Len(buf) /\ Len(write_item[d][x]) <= Len(buf)
  <2> DEFINE b == write_item[d][x]
             l == Len(buf)
             a == Len(b)
  <2>1. b \in Seq(Byte)
    BY WriteItemType DEF Written
  <2> HIDE DEF b
  <2>2. a \in Nat /\ l \in Nat /\ o + a <= l
    BY <1>0, <2>1, LenProperties DEF At, b
  <2> HIDE DEF a, l
  <2>3. l \in 0 .. l /\ a <= l
    BY <2>2
  <2> QED BY <2>3 DEF a, b, l
<1>3. Reads(read[Len(buf)], buf, Len(buf), Items[d], write_item[d])
  BY <1>0, <1>1, <1>2, NestedRead
<1>4. read[Len(buf)][o] = [val |-> x, offset |-> o + Len(write_item[d][x])]
  BY <1>0, <1>2, <1>3 DEF Reads
<1> QED BY <1>1, <1>4 DEF IsReadItem
=============================================================================
